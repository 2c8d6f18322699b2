SPECIFICATION FairSpec
CONSTANTS
  MaxTickets = 4  Names = {polling, reset}
INVARIANTS ActiveCounts OnlySentinelWork ClosedIsIdle ProducersStayStopped
PROPERTY DrainCompletes
CHECK_DEADLOCK FALSE
