SPECIFICATION Spec
CONSTANTS
  Procs = {p1,p2,p3}
  Panel = {w1,w2}
  Healer = Healer
  Boot = Boot
  Main = Main
  NoProc = NoProc
  Threshold = 2
  MaxPending = 1
  MaxOps = 2
  MaxBoots = 0
  Faults = {"signal"}
INVARIANTS StopLeavesNoCloudflared
CHECK_DEADLOCK FALSE
