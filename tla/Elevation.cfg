\* Two actions, two retries, one poll outstanding; liveness, so no symmetry.
CONSTANTS
  Runs = {r1, r2}
  Retries = {a1, a2}
  NoRun = NoRun
  Polls = {p1}
  MaxTick = 2
SPECIFICATION MonitorSpec
CHECK_DEADLOCK FALSE
INVARIANTS
  DialogHasOwner
  OkIsReal
  MonitorTypeOK
  FreshAfterAction
PROPERTIES
  RunsSettle
  EffectsShown
