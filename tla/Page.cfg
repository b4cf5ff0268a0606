\* Two pages, with what an earlier one left behind; liveness, so no symmetry.
CONSTANTS
  Requests = {r1, r2, r3}
  Hosts = {h1}
  Keys = {k1, k2}
  Pages = {p1, p2}
  NoKey = NoKey
  NoSession = NoSession
  NoPrompt = NoPrompt
SPECIFICATION FairPageSpec
INVARIANTS
  TrustedWereConfirmed
  SessionsHavePages
PROPERTIES
  DesktopsKeepSessions
  BusyEnds
  SettlesAsContracted
CHECK_DEADLOCK FALSE
