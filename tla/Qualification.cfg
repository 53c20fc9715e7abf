SPECIFICATION QualificationSpec
CONSTANTS
  PastKind <- MCPastKind
  LiveKind <- MCLiveKind
  Excluded <- MCExcluded
  ExcludedMethod = {"POST"}
  Path <- MCPath
  Detection <- MCDetection
  Minute = 2
  Percent = 50
  MinMinutes = 2
  Window = 2
  Scale = 4
  LastTick = 8
  MaxPast = 5
  MaxLive = 3
  Size = 3
  Tolerated = 1
CHECK_DEADLOCK FALSE
INVARIANTS QualificationTypeOK BaselineExact ExcludedNeverLimited
PROPERTIES ImplementsSliding QuietStaysQuiet
