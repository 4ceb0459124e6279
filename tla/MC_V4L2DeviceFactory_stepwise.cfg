\* A YUYV device whose frame sizes include a stepwise range.
CONSTANTS
  n1 = n1
  Nodes <- MCNodes1
  Configs <- StepwiseConfigs
  MaxCalls = 2
  MaxReplugs = 0
SPECIFICATION Spec
INVARIANT ReportedFormatsSound
CHECK_DEADLOCK FALSE
