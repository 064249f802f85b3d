SPECIFICATION FairSpec
CONSTANTS
  Addresses = {p1}
  NoAddress = NoAddress
  Direct = Direct
  Loop = Loop
  Retries = {r1}
  MaxFaults = 1
INVARIANTS TypeOK AccountsAgree
PROPERTIES TargetsAreLeft SwitchingOffTakesEffect UploadsResume
