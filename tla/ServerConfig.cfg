\* Two loads of the modules, eight configuration files, rows for two networks.
SPECIFICATION Spec
CONSTANTS
  NoPayload = NoPayload
  Absent = Absent
  None = None
  SourceIsServer <- LowerPort
  LpiProtocol <- Guess
  Hash <- SameHash
  NETCOUNT = 2
  Junk <- OnePlace
  ConfigFiles <- Files
  Library <- Plugins
  BpfConfig <- Exprs
  MacFile <- Macs
  Number <- Numbers
  Packets <- AllPackets
  MaxLoads = 2
INVARIANTS TypesDescribed ColourDataFresh GuessUsesBothSides PlacedAsAnnounced
CHECK_DEADLOCK FALSE
