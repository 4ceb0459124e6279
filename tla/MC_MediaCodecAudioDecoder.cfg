\* Three Decode() calls and two Reset() calls: enough for a decode pending
\* across a Reset, an end of stream followed by Reset and more decoding,
\* and a failed re-creation followed by a second Reset.
CONSTANTS
  MaxDecodes = 3
  MaxResets = 2
SPECIFICATION Spec
INVARIANTS TypeOK DecodeAnsweredOnce ResetAfterPendingDecodes DecoderTracksCodecLoop InitAnsweredOnce
PROPERTIES DecodeEventuallyAnswered
\* The client makes a bounded number of calls and the decoder may be
\* destroyed or crash: the model stops once everything posted has run.
CHECK_DEADLOCK FALSE
