------------------------------ MODULE Exporter ------------------------------
(***************************************************************************)
(* The queue between the server's main thread and its clients              *)
(* (src/server/exporter.cc): a ring buffer written by the main thread and  *)
(* drained to every client's socket by the exporter thread.  Each client   *)
(* has its own read pointer into the ring; the tail, which is what the     *)
(* writer must not pass, is recomputed at the end of every pass of the     *)
(* exporter over the clients.                                              *)
(*                                                                         *)
(* libfifo is not part of the repository.  Offsets are taken as absolute   *)
(* positions, so the data between a pointer and the head is head - pointer *)
(* long, a write needs room between the tail and the head, and a message   *)
(* is one unit.  The two threads interleave between the steps below.       *)
(***************************************************************************)
EXTENDS Integers, FiniteSets

CONSTANTS
  Clients,   \* file descriptors a client can have
  Size,      \* capacity of the ring (max_sendq_size)
  MaxPush,   \* bound: messages written to the ring
  CanStall,  \* may a client stop reading without closing its connection?
  HEAD,      \* newtail = fifo->head
  FREED,     \* newtail is a pointer that has been freed
  NoFd

ASSUME SizeAssumption == Size \in Nat \ {0} /\ MaxPush \in Nat
ASSUME StallAssumption == CanStall \in BOOLEAN
ASSUME ValuesAssumption ==
  HEAD # FREED /\ HEAD \notin Clients /\ FREED \notin Clients /\ NoFd \notin Clients

VARIABLES
  head, tail,  \* fifo->head, fifo->tail
  ptr,         \* clients: descriptor -> read pointer
  peer,        \* what the other end of each descriptor does
  mpc, mfd,    \* main thread: where it is, and the descriptor it handles
  xpc,         \* exporter thread: where it is
  todo,        \* clients the pass of write_fifo still has to visit
  toSend,      \* to_send of the client being written
  mostRem,     \* most_rem
  newtail,     \* newtail
  quiet,       \* nothing pushed, nobody disconnected since the pass began
  missed       \* connected clients that a dropped message was not sent to

vars == <<head, tail, ptr, peer, mpc, mfd, xpc, todo, toSend, mostRem,
          newtail, quiet, missed>>
fifoVars == <<head, tail>>
passVars == <<todo, toSend, mostRem, newtail>>
-----------------------------------------------------------------------------
Connected == DOMAIN ptr

\* Mutant of ClientMutexFree: write_fifo does not release it.
ClientMutexKept == xpc = "begin"
\* clientmutex: the main thread takes and releases it within one step.
ClientMutexFree == xpc \notin {"loop", "sending"}

\* Mutant of MutexForDisconnect: the mutex is not taken.
NoMutexForDisconnect == TRUE
MutexForDisconnect == ClientMutexFree

\* Mutant of MoreRem: the smallest remainder is kept.
LeastRem(rem, most) == rem < most \/ most = 0
\* The test of write_fifo on a client's remaining data.
MoreRem(rem, most) == most < rem

\* fifo_available of a client's pointer.
ToSend(c) == head - ptr[c]

\* Mutant of FirstUnread: a new client is sent all that is in the ring.
AllUnread == tail
\* Where the read pointer of a new client starts.
FirstUnread == head

\* Mutant of Without: the client stays in the map.
WithoutNobody(c) == ptr
\* The client map after a client is erased.
Without(c) == [e \in Connected \ {c} |-> ptr[e]]

\* The next client of the map among those left; the order is of no importance.
Some(S) == CHOOSE c \in S : TRUE
-----------------------------------------------------------------------------
Init ==
  /\ head = 0 /\ tail = 0
  /\ ptr = << >>
  /\ peer = [c \in Clients |-> "none"]
  /\ mpc = "idle" /\ mfd = NoFd
  /\ xpc = "check"
  /\ todo = {} /\ toSend = 0 /\ mostRem = 0 /\ newtail = HEAD
  /\ quiet = FALSE
  /\ missed = {}

(* The main thread. *)

\* push_onto_fifo, up to the signal.
Push ==
  /\ mpc = "idle"
  /\ head - tail < Size => head < MaxPush
  /\ IF head - tail < Size
     THEN /\ head' = head + 1
          /\ mpc' = "signal"
          /\ UNCHANGED missed
     ELSE /\ missed' = missed \cup Connected     \* "Fifo has filled up!"
          /\ UNCHANGED <<head, mpc>>
  /\ quiet' = FALSE
  /\ UNCHANGED <<tail, ptr, peer, mfd, xpc, passVars>>

\* pthread_cond_signal(&emptycond), without emptymutex.
Signal ==
  /\ mpc = "signal"
  /\ mpc' = "idle"
  /\ xpc' = IF xpc = "waiting" THEN "begin" ELSE xpc
  /\ UNCHANGED <<fifoVars, ptr, peer, mfd, passVars, quiet, missed>>

\* accept() and create_client up to pthread_mutex_lock(&clientmutex).
Accept(c) ==
  /\ mpc = "idle"
  /\ peer[c] = "none"
  /\ peer' = [peer EXCEPT ![c] = "reading"]
  /\ mpc' = "connect" /\ mfd' = c
  /\ UNCHANGED <<fifoVars, ptr, xpc, passVars, quiet, missed>>

\* The rest of create_client.
Register ==
  /\ mpc = "connect"
  /\ ClientMutexFree
  /\ ptr' = [c \in Connected \cup {mfd} |-> IF c = mfd THEN FirstUnread ELSE ptr[c]]
  /\ mpc' = "greet"
  /\ UNCHANGED <<fifoVars, peer, mfd, xpc, passVars, quiet, missed>>

\* send_existing_flows has written the flows in progress to the descriptor,
\* not to the ring.  Writing to a peer that has stalled blocks.
Greet ==
  /\ mpc = "greet"
  /\ peer[mfd] # "stalled"
  /\ mpc' = "idle" /\ mfd' = NoFd
  /\ UNCHANGED <<fifoVars, ptr, peer, xpc, passVars, quiet, missed>>

\* The descriptor becomes readable: the peer closed it, or sent something.
Readable(c) ==
  /\ mpc = "idle"
  /\ c \in Connected
  /\ mpc' = "disconnect" /\ mfd' = c
  /\ UNCHANGED <<fifoVars, ptr, peer, xpc, passVars, quiet, missed>>

\* disconnect_client.  The exporter may still hold the pointer that is freed.
Disconnect ==
  /\ mpc = "disconnect"
  /\ MutexForDisconnect
  /\ ptr' = Without(mfd)
  /\ newtail' = IF newtail = mfd THEN FREED ELSE newtail
  /\ peer' = [peer EXCEPT ![mfd] = "none"]
  /\ missed' = missed \ {mfd}
  /\ mpc' = "idle" /\ mfd' = NoFd
  /\ quiet' = FALSE
  /\ UNCHANGED <<fifoVars, xpc, todo, toSend, mostRem>>

(* The peers. *)

Close(c) ==
  /\ peer[c] \in {"reading", "stalled"}
  /\ peer' = [peer EXCEPT ![c] = "closed"]
  /\ UNCHANGED <<fifoVars, ptr, mpc, mfd, xpc, passVars, quiet, missed>>

Stall(c) ==
  /\ CanStall
  /\ peer[c] = "reading"
  /\ peer' = [peer EXCEPT ![c] = "stalled"]
  /\ UNCHANGED <<fifoVars, ptr, mpc, mfd, xpc, passVars, quiet, missed>>

(* The exporter thread. *)

\* exporter_thread: the test on the ring, under emptymutex.
Check ==
  /\ xpc = "check"
  /\ xpc' = IF head = tail THEN "towait" ELSE "begin"
  /\ UNCHANGED <<fifoVars, ptr, peer, mpc, mfd, passVars, quiet, missed>>

\* pthread_cond_wait: a signal sent before this step is lost.
Wait ==
  /\ xpc = "towait"
  /\ xpc' = "waiting"
  /\ UNCHANGED <<fifoVars, ptr, peer, mpc, mfd, passVars, quiet, missed>>

\* A spurious wakeup; the test is not repeated.
SpuriousWakeup ==
  /\ xpc = "waiting"
  /\ xpc' = "begin"
  /\ UNCHANGED <<fifoVars, ptr, peer, mpc, mfd, passVars, quiet, missed>>

\* write_fifo: take clientmutex and start at the first client.
BeginPass ==
  /\ xpc = "begin"
  /\ xpc' = "loop"
  /\ todo' = Connected
  /\ mostRem' = 0
  /\ newtail' = HEAD
  /\ quiet' = TRUE
  /\ UNCHANGED <<fifoVars, ptr, peer, mpc, mfd, toSend, missed>>

\* to_send is computed, then the write starts.
BeginSend ==
  /\ xpc = "loop"
  /\ todo # {}
  /\ xpc' = "sending"
  /\ toSend' = ToSend(Some(todo))
  /\ UNCHANGED <<fifoVars, ptr, peer, mpc, mfd, todo, mostRem, newtail, quiet,
                 missed>>

\* What a write of n units to the descriptor can return: a reading peer takes
\* some of it, a closed one fails, a stalled one blocks the call.
Sent(c, n) ==
  CASE n = 0                 -> {0}
    [] peer[c] = "reading"   -> 1 .. n
    [] peer[c] = "closed"    -> {0}
    [] OTHER                 -> {}

\* The write returns; the pointer moves; the remainder is compared.
EndSend ==
  LET c == Some(todo)
  IN  /\ xpc = "sending"
      /\ \E sent \in Sent(c, toSend) :
           LET rem == head - (ptr[c] + sent)
           IN  /\ ptr' = [ptr EXCEPT ![c] = @ + sent]
               /\ IF MoreRem(rem, mostRem)
                  THEN mostRem' = rem /\ newtail' = c
                  ELSE UNCHANGED <<mostRem, newtail>>
      /\ todo' = todo \ {c}
      /\ xpc' = "loop"
      /\ UNCHANGED <<fifoVars, peer, mpc, mfd, toSend, quiet, missed>>

\* The mutex is released.
EndPass ==
  /\ xpc = "loop"
  /\ todo = {}
  /\ xpc' = "assign"
  /\ UNCHANGED <<fifoVars, ptr, peer, mpc, mfd, passVars, quiet, missed>>

\* What newtail points to.  Freed memory can hold any offset.
Target ==
  CASE newtail = HEAD  -> {head}
    [] newtail = FREED -> 0 .. head
    [] OTHER           -> {ptr[newtail]}

\* fifo_ptr_assign(fifo, fifo->tail, newtail), outside the mutex.
AssignTail ==
  /\ xpc = "assign"
  /\ xpc' = "check"
  /\ tail' \in Target
  /\ UNCHANGED <<head, ptr, peer, mpc, mfd, passVars, quiet, missed>>

ExporterThread ==
  Check \/ Wait \/ BeginPass \/ BeginSend \/ EndSend \/ EndPass \/ AssignTail

Next ==
  \/ Push \/ Signal \/ Register \/ Greet \/ Disconnect
  \/ \E c \in Clients : Accept(c) \/ Readable(c) \/ Close(c) \/ Stall(c)
  \/ ExporterThread \/ SpuriousWakeup

(***************************************************************************)
(* Both threads are scheduled.  The main thread is strongly fair on the    *)
(* two steps that need clientmutex: the exporter releases it after every   *)
(* pass, and a thread blocked on a mutex that keeps being released gets it *)
(* eventually.  A closed connection is readable until it is handled.       *)
(***************************************************************************)
Fairness ==
  /\ WF_vars(ExporterThread)
  /\ WF_vars(Signal)
  /\ WF_vars(Greet)
  /\ SF_vars(Register)
  /\ SF_vars(Disconnect)
  /\ \A c \in Clients : SF_vars(peer[c] = "closed" /\ Readable(c))

Spec == Init /\ [][Next]_vars
FairSpec == Spec /\ Fairness
-----------------------------------------------------------------------------
\* The types of the variables; no pointer passes the head.
TypeOK ==
  /\ head \in 0 .. MaxPush /\ tail \in 0 .. head
  /\ Connected \subseteq Clients
  /\ \A c \in Connected : ptr[c] \in 0 .. head
  /\ peer \in [Clients -> {"none", "reading", "stalled", "closed"}]
  /\ mpc \in {"idle", "signal", "connect", "greet", "disconnect"}
  /\ mfd \in Clients \cup {NoFd}
  /\ xpc \in {"check", "towait", "waiting", "begin", "loop", "sending", "assign"}
  /\ todo \subseteq Clients
  /\ toSend \in 0 .. MaxPush
  /\ mostRem \in 0 .. MaxPush
  /\ newtail \in Clients \cup {HEAD, FREED}
  /\ quiet \in BOOLEAN
  /\ missed \subseteq Clients

\* While write_fifo walks the client map, nothing it may still touch is
\* erased or freed under it: clientmutex does its job, although the main
\* thread frees pointers from a callback at any moment.
PassUsesLivePointers ==
  xpc \in {"loop", "sending"} => /\ todo \subseteq Connected
                                 /\ newtail \in Connected \cup {HEAD}

\* While the main thread writes the flows in progress to a new client, the
\* exporter, which already knows the client, writes nothing to it: the two
\* threads share the descriptor without a lock and their bytes never mix.
GreetingAlone ==
  mpc = "greet" => /\ ptr[mfd] = head
                   /\ xpc = "sending" /\ Some(todo) = mfd => toSend = 0

\* Keeping the pointer with the largest remainder keeps the one furthest
\* behind: if nothing was pushed and nobody left since the pass began, the
\* tail that is assigned has no unread data of any client before it.
QuietPassKeepsUnread ==
  [][xpc = "assign" /\ xpc' = "check" /\ quiet =>
       \A c \in Connected : tail' <= ptr[c]]_vars

Stalled == \E c \in Clients : peer[c] = "stalled"

\* The main thread gets through every callback: it waits for ever on
\* clientmutex only if some client has stopped reading for good.
MainThreadProgress == mpc # "idle" ~> (mpc = "idle" \/ Stalled)

\* A client whose connection is closed is eventually forgotten, unless
\* another one has stopped reading.
ClosedClientForgotten ==
  \A c \in Clients :
    (peer[c] = "closed" /\ c \in Connected) ~> (c \notin Connected \/ Stalled)

\* A message may be pushed just before the exporter goes to sleep, so that its
\* signal is lost.  What a client has not been sent then is sent to it after
\* the next push: when the exporter is about to be woken, all that is in the
\* ring by then will be sent to every client that goes on reading, unless some
\* client leaves or has stopped reading.
NextPushDelivers ==
  \A c \in Clients, h \in 1 .. MaxPush :
    (mpc = "signal" /\ xpc = "waiting" /\ c \in Connected /\ head = h)
      ~> (\/ c \in Connected /\ ptr[c] >= h
          \/ peer[c] # "reading" \/ mpc = "disconnect" \/ Stalled)

\* "If this is exceeded, the client is dropped" (server/README, sendq): no
\* connected client has missed a message because the ring was full.
SlowClientDropped == missed = {}

\* "The maximum amount of outstanding data (in bytes) allowed for each BSOD
\* client" (server/README, sendq): what a client has not been sent yet fits
\* in the ring, so it has not been overwritten.
OutstandingBounded == \A c \in Connected : head - ptr[c] <= Size
=============================================================================
