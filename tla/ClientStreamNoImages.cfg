\* No image is configured.
SPECIFICATION StreamSpec
CONSTANTS
  FixedSize <- Sizes
  Colours <- TwoColours
  Images <- NoImages
  Messages <- AllKinds
  MaxMessages = 3
  MaxRead = 4
INVARIANT NeverOutOfStep
