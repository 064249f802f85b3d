SPECIFICATION Spec
CONSTANTS
  Servers = {s1, s2}
  NoServer = NoServer
  Commands = {c1}
  Preset = 1
  MaxCmds = 3
  MaxStarts = 2
  Flagged = TRUE
  Sampling = TRUE
INVARIANTS CommandsStick
SYMMETRY Symmetry
CHECK_DEADLOCK FALSE
