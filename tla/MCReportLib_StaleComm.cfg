CONSTANTS
  Tids <- MCTids
  Comms <- MCComms
  UnknownComm = UnknownComm
  Times <- MCTimes
  Periods <- MCPeriods
  TimeBits <- MCTimeBits
  MaxRecords <- MCMaxRecords
SPECIFICATION Spec
INVARIANT SampleCommAtRecordTime
