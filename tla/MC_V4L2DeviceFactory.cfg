\* One node holding any device of up to two formats, each with up to two
\* frame-size entries; the client lists it, then asks for its formats or
\* creates it, and the device may be unplugged in between.
CONSTANTS
  n1 = n1
  Nodes <- MCNodes1
  Configs <- AllConfigs
  MaxCalls = 2
  MaxReplugs = 1
SPECIFICATION Spec
INVARIANTS TypeOK ReportedFormatsComplete
\* The client makes a bounded number of calls.
CHECK_DEADLOCK FALSE
