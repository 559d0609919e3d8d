SPECIFICATION SafetySpec
CONSTANTS
  c1 = c1
  c2 = c2
  c3 = c3
  ClientProcs = {c1, c2}
  NumCommands <- TwoAndOne
  ServerProcs = {s1}
  Faults = {"loss", "duplication", "reordering"}
  MaxDuplicates = 1
  FirstPort = 1024
  OccupiedPorts = {}
  BufCommands = 2
  Threads = {1, 2, 3}
INVARIANTS DatagramsExpected CountMatchesWork WorkersUseLiveClients OneSender
CHECK_DEADLOCK FALSE
