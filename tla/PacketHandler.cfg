\* Every other packet skipped, the default show options, the list on or off and
\* kept in one of two directories (Bounds of MCPacketHandler).
SPECIFICATION MCSpec
CONSTANTS
  h1 = h1  h2 = h2  x = x
  None = None  d1 = d1  d2 = d2
  Hosts <- TwoHosts
  Packets <- AllPackets
  MaxTime = 4
  MaxPackets = 3
  MaxRuns = 3
  FLUSH_AGE = 1
  FLUSH_EVERY = 1
  SAVE_EVERY = 1
  SeqMod = 16
  LongIs64 = FALSE
  sampling = 2
  enable_rttest = TRUE
  Darknet = {TRUE, FALSE}
  Dirs <- TwoDirs
  show <- DefaultShow
INVARIANTS RttIsReal DarkMeansSilent
PROPERTY AnswersAreRecent
CHECK_DEADLOCK FALSE
