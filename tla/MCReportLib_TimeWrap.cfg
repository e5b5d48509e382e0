CONSTANTS
  Tids <- MCTids
  Comms <- MCComms
  UnknownComm = UnknownComm
  Times <- MCTimesAtMax
  Periods <- MCPeriods
  TimeBits <- MCTimeBits
  MaxRecords <- MCMaxRecords
SPECIFICATION Spec
INVARIANT PeriodPositive
