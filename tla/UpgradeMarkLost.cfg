SPECIFICATION Spec
CONSTANTS
  Masters = {m1}
  Slow = {m1}
  Installed = v1
  Versions = {v1, v2}
  Jobs = {j1}
  None = None
  Part = Part
  Page = Page
  MaxAsks = 3
  MaxFaults = 0
PROPERTIES ClearedWhenReached
CHECK_DEADLOCK FALSE
