\* A Reset() whose TryFlush() and re-creation both fail leaves codec_loop_
\* null; the next Reset() dereferences it.
CONSTANTS
  MaxDecodes = 3
  MaxResets = 2
SPECIFICATION Spec
INVARIANT NoNullCodecLoopDeref
CHECK_DEADLOCK FALSE
