\* Two overlapping commands, two listeners of which one throws once, two requests outstanding, one refresh; liveness, so no symmetry.
CONSTANTS
  Calls = {c1, c2}
  Listeners = {l1, l2}
  Nobody = Nobody
  MaxThrows = 1
  Polls = {p1, p2}
  MaxTick = 1
SPECIFICATION HistorySpec
INVARIANTS
  CallsAreRecorded
  NonOverlappingInOrder
  MissedOnlyBehindThrower
PROPERTIES
  HistoryCatchesUp
