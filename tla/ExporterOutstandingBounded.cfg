\* What server/README says of sendq, for clients that keep reading.
SPECIFICATION Spec
CONSTANTS
  Clients = {1}
  Size = 2
  MaxPush = 4
  CanStall = FALSE
  HEAD = HEAD  FREED = FREED  NoFd = NoFd
INVARIANT OutstandingBounded
