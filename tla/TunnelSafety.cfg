SPECIFICATION Spec
CONSTANTS
  Procs = {p1,p2}
  Panel = {w1,w2}
  Healer = Healer
  Boot = Boot
  Main = Main
  NoProc = NoProc
  Threshold = 1
  MaxPending = 1
  MaxOps = 2
  MaxBoots = 1
  Faults = {"launch", "exit", "crash", "signal", "drop"}
INVARIANTS TypeOK EnabledIffCmd CmdIsRead LeftoversAreRead OneOwner
PROPERTIES HealsAreSpaced ImplementsTunnelAddress
SYMMETRY Symmetry
CHECK_DEADLOCK FALSE
