CONSTANTS
  NumFrames = 3
  MaxPacketId = 1
  FrameDuration = 2
  RtpMaxDelay = 8
  NewPlayoutDelay <- MCNewPlayoutDelay
  SenderClockOffsets = {2}
  MaxNetworkDelay = 3
  \* ClockDriftSmoother::GetDefaultTimeConstant(): 30 s, in milliseconds.
  TimeConstant = 30000
  CastMessageInterval = 3
  RtcpInterval = 5
  DecryptorActive = TRUE
  MaxTime = 13
  MaxPackets = 5
  MaxRequests = 2
  RtpBits = 4
  RtpStart = 14
SPECIFICATION Spec
INVARIANTS TypeOK RequestsAnsweredInOrder NoStrandedRequest FeedbackTimersArmedOnce PlayoutMonotonic
\* The model ends at the MaxTime/MaxPackets/MaxRequests bounds or after
\* Destroy; a receiver with no input left is idle, not deadlocked.
CHECK_DEADLOCK FALSE
