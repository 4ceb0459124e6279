\* An init segment, a cluster left open, and a new init segment.
CONSTANTS
  MaxParses = 6
  MaxFlushes = 1
SPECIFICATION Spec
INVARIANT MediaSegmentAfterConfig
CHECK_DEADLOCK FALSE
