\* All settings, all inputs and signals at any time.
SPECIFICATION FairSpec
CONSTANTS
  WaitOptions = {TRUE, FALSE}
  LoopOptions = {TRUE, FALSE}
  MaxClients = 2
INVARIANTS InputCallbackHasTrace InputNotForgotten OnlyRestartDeafens
PROPERTIES ExitsOnlyWhenToldTo TermExits RestartServed
\* The server may exit.
CHECK_DEADLOCK FALSE
