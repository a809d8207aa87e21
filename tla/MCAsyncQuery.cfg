CONSTANTS
  p1 = p1
  p2 = p2
  Queries = {p1, p2}
  IdOf <- MCIdOf
  NoQuery = NoQuery
  QUEUE_SIZE = 3
  MaxCalls = 6
SPECIFICATION FairSpec
INVARIANTS BracketExact QueryExact PendingExact SettledBeginsAlone
PROPERTIES GetReturns
