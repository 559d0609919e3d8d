SPECIFICATION Spec
CONSTANTS
  parent = parent
  child = child
  Processes = {parent, child}
  Pid <- Consecutive
  ArenaCount = 2
  LastAddress = 7
  Sizes = {2, 7}
  M = 2
  N = 2
INVARIANTS BlocksOwned CountersRight ExclusiveUnlessOvertaken
PROPERTIES LeftOnlyIfFull ProcessesEnd
CHECK_DEADLOCK FALSE
