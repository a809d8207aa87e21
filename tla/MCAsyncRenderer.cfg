CONSTANTS
  Values = {v0, v1}
  Default = v0
  QUEUE_SIZE = 2
  Calls = {"draw_index", "clear_color", "async_end"}
  MaxCommands = 3
SPECIFICATION FairSpec
INVARIANTS TypeOK OneOwner Backlog CommitNeverWaitsOnQueue OnlyReleaseDeadlocks
PROPERTIES ImplementsStream EveryCommandExecuted FlushReturns ReleaseReturns
CHECK_DEADLOCK FALSE
