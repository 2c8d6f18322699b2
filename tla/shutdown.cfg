SPECIFICATION FairProcess
CONSTANTS
  Reqs = {q1}  MaxTickets = 3  Names = {polling}
  MaxDebts = 1  MaxTasks = 1  MaxDetached = 1
INVARIANTS ResourcesClosedQuiet CancelMissesNoStream CleanExitKeepsDebts NobodyBehindFlush
PROPERTY DrainIsBounded
CHECK_DEADLOCK FALSE
