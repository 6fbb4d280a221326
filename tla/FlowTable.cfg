\* Timestamps never go back; one client comes and goes at any moment.
SPECIFICATION Spec
CONSTANTS
  c1 = c1
  h1 = h1  h2 = h2
  Endpoints <- Hosts
  Clients <- OneClient
  MaxTime = 3
  TimeMod = 8
  EXPIRE_SECS = 1
  IdLimit = 6
  Monotone = TRUE
  NoPacket = NoPacket
INVARIANTS LruConsistent ViewsMatch PacketOnKnownFlow NoIdleFlowKept
