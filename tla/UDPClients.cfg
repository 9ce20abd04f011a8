SPECIFICATION FairSpec
CONSTANTS
  Plans <- MCPlans
  Unsendable = {1}
  Cap = 1
  MaxRecords = 2
  Second = 10
  MaxFra = 12
  MaxSec = 10
  Skews = {13}
  Step = 4
  MaxTime = 20
  MaxFaults = 1
  None = None
INVARIANT OffsetIsServerTime
PROPERTIES DnsExchange Answered
CHECK_DEADLOCK FALSE
