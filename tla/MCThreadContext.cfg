CONSTANTS
  thread_count = 3
  item_count = 7
  package_size = 2
SPECIFICATION FairSpec
CHECK_DEADLOCK FALSE
INVARIANTS DoneAtReturn
PROPERTIES ImplementsFor Returns
