SPECIFICATION SafetySpec
CONSTANTS
  c1 = c1
  c2 = c2
  c3 = c3
  ClientProcs = {c1, c2}
  NumCommands <- One
  ServerProcs = {s1, s2}
  Faults = {"timeout", "clientCrash", "serverCrash"}
  MaxDuplicates = 0
  FirstPort = 8999
  OccupiedPorts <- AllButThree
  BufCommands = 2
  Threads = {1, 2, 3}
INVARIANTS TypeOK PortsExclusive ServerExclusive
CHECK_DEADLOCK FALSE
SYMMETRY Symmetry
