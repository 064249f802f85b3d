SPECIFICATION FairSpec
CONSTANTS
  Confs = {eth0, all}
  NoConf = NoConf
  Pulls = {loop, refresh}
  MaxSamples = 3
INVARIANTS TypeOK BaselineIsOfPolicy TaskIsCancellable
PROPERTIES TaskStopsWhenOff ChecksGoOn
