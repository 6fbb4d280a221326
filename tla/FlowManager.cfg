\* Two ids, three objects, two types; two names are looked up.
SPECIFICATION Spec
CONSTANTS
  f1 = f1  f2 = f2  f3 = f3
  i1 = i1  i2 = i2
  t1 = t1  t2 = t2
  Flows <- ThreeFlows
  Ids <- TwoIds
  Types <- TwoTypes
  MaxThreads = 2
  RepeatedIds = FALSE
  NULL = NULL
SYMMETRY Symmetric
INVARIANTS PoolConsistent EveryFlowFound SelectionDrawable HiddenAsAsked DescriptorsExist
