SPECIFICATION SafetySpec
CONSTANTS
  c1 = c1
  c2 = c2
  c3 = c3
  ClientProcs = {c1, c2}
  NumCommands <- TwoAndOne
  ServerProcs = {s1, s2}
  Faults = {}
  MaxDuplicates = 0
  FirstPort = 1024
  OccupiedPorts = {}
  BufCommands = 2
  Threads = {1, 2, 3}
INVARIANT MainUsesLiveClient
CHECK_DEADLOCK FALSE
