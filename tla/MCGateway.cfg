\* Three requests, hosts that present one of two keys.
CONSTANTS
  Requests = {r1, r2, r3}
  Hosts = {h1, h2}
  Keys = {k1, k2}
  NoKey = NoKey
  NoSession = NoSession
SPECIFICATION Spec
SYMMETRY Symmetry
INVARIANTS
  KeysWereVerified
  RegisteredHostsAreKnown
  TransientSessionsEnd
  OnlyFailedConnectsLeak
PROPERTIES
  HostsStayKnown
  ImplementsContract
