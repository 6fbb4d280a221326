\* Both images are configured; reads of one to six bytes.
SPECIFICATION FairStreamSpec
CONSTANTS
  FixedSize <- Sizes
  Colours <- TwoColours
  Images <- BothImages
  Messages <- AllKinds
  MaxMessages = 4
  MaxRead = 6
INVARIANT NothingLost
PROPERTIES IsChannel AllHandled
