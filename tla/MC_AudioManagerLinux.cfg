\* Three threads getting the manager at once and making a stream of either
\* format, with the audio thread starting or not, and exit once all are
\* out of GetAudioManager().
CONSTANTS
  Callers = {c1, c2, c3}
  MaxStreams = 2
  NULL = NULL
SPECIFICATION Spec
INVARIANTS TypeOK NoDoubleDelete
\* The process may stop calling before exit, and stops after it.
CHECK_DEADLOCK FALSE
