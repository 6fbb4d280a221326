\* The modules are changed and SIGUSR1 sent.
SPECIFICATION Spec
CONSTANTS
  NoPayload = NoPayload
  Absent = Absent
  None = None
  SourceIsServer <- LowerPort
  LpiProtocol <- Guess
  Hash <- SameHash
  NETCOUNT = 2
  Junk <- OnePlace
  ConfigFiles <- Files
  Library <- Plugins
  BpfConfig <- Exprs
  MacFile <- Macs
  Number <- Numbers
  Packets <- AllPackets
  MaxLoads = 2
INVARIANT TableIsCurrent
CHECK_DEADLOCK FALSE
