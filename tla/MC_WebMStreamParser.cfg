\* Eight Parse() calls -- enough for an init segment, a cluster, a new init
\* segment and its cluster, each possibly split across calls -- and two
\* Flush() calls at any points.
CONSTANTS
  MaxParses = 8
  MaxFlushes = 2
SPECIFICATION Spec
INVARIANTS TypeOK ParserContract SegmentCallbacksNest
\* The parser is done when the client stops appending.
CHECK_DEADLOCK FALSE
