SPECIFICATION FairSpec
CONSTANTS
  Procs = {p1,p2}
  Panel = {w1}
  Healer = Healer
  Boot = Boot
  Main = Main
  NoProc = NoProc
  Threshold = 2
  MaxPending = 1
  MaxOps = 1
  MaxBoots = 0
  Faults = {"exit", "signal", "drop"}
PROPERTIES ExitIsNoticed StopReturns RecoversFreshUrl
CHECK_DEADLOCK FALSE
