SPECIFICATION Spec
CONSTANTS
  Handlers = {w1, w2}
  Bodies <- PanelBodies
  Seed = 6
  NoPolicy = NoPolicy
  MaxPuts = 2
  Never = Never
  NoStats = NoStats
  NoFlight = NoFlight
  MaxAge = 30
  MaxChanges = 3
SYMMETRY AnyHandler
INVARIANTS TypeOK StoredPasses EditsAddUp NoOrphans AlarmHasCause OutageIsSeen
CHECK_DEADLOCK FALSE
