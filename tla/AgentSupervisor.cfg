SPECIFICATION FairSpec
CONSTANTS
  Servers = {s1, s2}
  NoServer = NoServer
  Commands = {c1, c2}
  Preset = 1
  MaxCmds = 2
  MaxStarts = 2
  Flagged = TRUE
  Sampling = TRUE
INVARIANTS TypeOK LoopsFollowFile
PROPERTIES CommandsTakeEffect
CHECK_DEADLOCK FALSE
