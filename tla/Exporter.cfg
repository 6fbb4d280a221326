\* Two clients that may stop reading or close; a ring of two messages, so that one
\* may lose its signal and another follow; safety and progress.
SPECIFICATION FairSpec
CONSTANTS
  Clients = {1, 2}
  Size = 2
  MaxPush = 2
  CanStall = TRUE
  HEAD = HEAD  FREED = FREED  NoFd = NoFd
INVARIANTS PassUsesLivePointers GreetingAlone
PROPERTIES QuietPassKeepsUnread MainThreadProgress ClosedClientForgotten NextPushDelivers
