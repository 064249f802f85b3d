SPECIFICATION MCFairSpec
CONSTANTS
  Masters = {m1, m2}
  Slow = {m1}
  Installed = v1
  Versions = {v1, v2}
  Jobs = {j1, j2}
  None = None
  Part = Part
  Page = Page
  MaxAsks = 2
  MaxFaults = 1
INVARIANTS TypeOK ExeIsWhole MarksStand
PROPERTIES UpgradesSettle
