----------------------------- MODULE ServerLoop -----------------------------
(***************************************************************************)
(* The main thread of the server (main and the callbacks of                *)
(* src/server/bsod_server.cc, listen_cb of src/server/socket.cc): one trace *)
(* after another is opened, read from callbacks of the event loop and      *)
(* closed, while signals ask for a restart or for the end and clients come *)
(* and go.                                                                 *)
(*                                                                         *)
(* The event loop is libwandevent, which is not part of the repository:    *)
(* wand_event_run calls callbacks until "running" is false and does not    *)
(* set it itself (main sets it before the second run of each iteration);   *)
(* signal handlers are called from the loop as well.  Several callbacks    *)
(* may run between two tests of "running".                                 *)
(***************************************************************************)
EXTENDS Naturals

CONSTANTS
  WaitOptions,  \* values of client_wait that a configuration file may have
  LoopOptions,  \* values of loop
  MaxClients    \* bound: clients connected at a time

ASSUME OptionsAssumption ==
  WaitOptions \subseteq BOOLEAN /\ LoopOptions \subseteq BOOLEAN
ASSUME BoundAssumption == MaxClients \in Nat

VARIABLES
  pc,              \* where main is
  running,         \* ev_hdl->running
  loop, wait_client, wait_for_client, first_client,
  restart_config, terminate_bsod,
  trace,           \* "none", "open", or "ended": at its end or in error
  pending,         \* wake-ups registered with the event loop
  held,            \* wake-ups whose pointer is not NULL
  clients,         \* activeClients()
  watched,         \* clients whose descriptor the event loop watches
  last             \* history: what the last bsod_event ended with

vars == <<pc, running, loop, wait_client, wait_for_client, first_client,
          restart_config, terminate_bsod, trace, pending, held, clients,
          watched, last>>
options == <<loop, wait_client, wait_for_client>>
signals == <<restart_config, terminate_bsod>>
wakeups == <<pending, held>>
input == <<trace, last>>
people == <<first_client, clients, watched>>
-----------------------------------------------------------------------------
WakeUps == {"file", "sleep", "signal"}   \* file_event, sleep_event, signal_timer
Events  == {"IOWAIT", "SLEEP", "END", "OTHER"}   \* what libtrace may report
InLoop  == pc \in {"wait", "events"}

\* Mutant of RunOn: an option to loop is all that counts.
RunOnLoopOnly(l) == l
\* The condition of main's loop; l is the loop variable.
RunOn(l) == l \/ restart_config

\* Mutant of AfterTrace: the sleep timer is left in the event loop.
AfterTraceSleepKept(set) == set \cap {"sleep"}
\* Each wake-up that is held is deleted, and its pointer set to NULL.
AfterTrace(set) == {}

\* Mutant of Rearm: the timer runs out and is not set again.
RearmOnce(set) == set \cap {"file", "sleep"}
\* set_signal_timer, on the pending or the held wake-ups.
Rearm(set) == set \cup {"signal"}

\* Mutant of EventWaitsFor: bsod_event forgets to wait for the next packet.
EventWaitsForNothing(event) == {}
\* The wake-up process_bsod_event registers for an event of libtrace.
EventWaitsFor(event) ==
  CASE event = "IOWAIT" -> {"file"}
    [] event = "SLEEP"  -> {"sleep"}
    [] OTHER            -> {}

\* Does the event stop the event loop?
StopsFor(event) == event = "END"

\* Mutant of Requested: only a restart is looked for.
RestartRequested == restart_config
\* The test on both flags at the top of bsod_event and in signal_event.
Requested == restart_config \/ terminate_bsod

\* loop = 0 when it is the end that is asked for, and no restart.
LoopWhenRequested == loop /\ (restart_config \/ ~terminate_bsod)

(***************************************************************************)
(* bsod_event, called when p is pending and h is held.  Packets are read   *)
(* (module FlowTable) until libtrace reports one of these: the input has   *)
(* to be waited for, the next packet is not due yet, the input has ended,  *)
(* or an event that process_bsod_event does not know: it is logged, and    *)
(* nothing else happens.  "stop" tells whether "running" is cleared.       *)
(***************************************************************************)
BsodEvent(p, h, stop) ==
  \/ /\ Requested
     /\ stop = TRUE
     /\ loop' = LoopWhenRequested
     /\ pending' = p /\ held' = h
     /\ last' = "REQUEST"
     /\ UNCHANGED trace
  \/ /\ ~ Requested
     /\ \E event \in Events :
          /\ stop = StopsFor(event)
          /\ last' = event
          /\ pending' = p \cup EventWaitsFor(event)
          /\ held' = h \cup EventWaitsFor(event)
          /\ trace' = IF event = "END" THEN "ended" ELSE trace
     /\ UNCHANGED loop
-----------------------------------------------------------------------------
Init ==
  /\ pc = "top"
  /\ running = TRUE
  /\ loop \in LoopOptions /\ wait_client \in WaitOptions
  /\ wait_for_client = wait_client
  /\ first_client = TRUE
  /\ restart_config = FALSE /\ terminate_bsod = FALSE
  /\ trace = "none"
  /\ pending = {} /\ held = {}
  /\ clients = 0 /\ watched = 0
  /\ last = "none"

\* The top of the loop, up to the wait for a client, from which wand_event_run
\* returns at once if running has been cleared.
StartOver ==
  /\ pc = "top"
  /\ restart_config' = FALSE
  /\ IF restart_config
     THEN loop' \in LoopOptions /\ wait_client' \in WaitOptions
     ELSE UNCHANGED <<loop, wait_client>>
  /\ pending' = Rearm(pending) /\ held' = Rearm(held)
  /\ pc' = IF clients = 0 /\ wait_client' /\ running THEN "wait" ELSE "open"
  /\ UNCHANGED <<running, wait_for_client, terminate_bsod, input, people>>

\* load_modules fails after a restart, or the configuration file is bad.
ReloadFails ==
  /\ pc = "top" /\ restart_config
  /\ restart_config' = FALSE
  /\ pc' = "failed"
  /\ UNCHANGED <<running, options, terminate_bsod, input, wakeups, people>>

\* The first wand_event_run returns.
WaitOver ==
  /\ pc = "wait" /\ ~ running
  /\ pc' = "open"
  /\ UNCHANGED <<running, options, signals, input, wakeups, people>>

\* The test of terminate_bsod after it.
ExitBeforeTrace ==
  /\ pc = "open" /\ terminate_bsod
  /\ loop' = FALSE
  /\ pc' = "exited"
  /\ UNCHANGED <<running, wait_client, wait_for_client, signals, input, wakeups,
                 people>>

\* trace_create or trace_start fails.
OpenFails ==
  /\ pc = "open" /\ ~ terminate_bsod
  /\ pc' = "failed"
  /\ UNCHANGED <<running, options, signals, input, wakeups, people>>

\* The trace is created and started.
OpenTrace ==
  /\ pc = "open" /\ ~ terminate_bsod
  /\ trace' = "open"
  /\ pc' = "first"
  /\ UNCHANGED <<running, options, signals, wakeups, people, last>>

\* The first call of bsod_event; running is set after it, whatever it found.
FirstEvent ==
  /\ pc = "first"
  /\ \E stop \in BOOLEAN : BsodEvent(pending, held, stop)
  /\ running' = TRUE
  /\ pc' = "events"
  /\ UNCHANGED <<wait_client, wait_for_client, signals, people>>

\* file_cb: the watch is deleted, file_event still points to it.
FileCb ==
  /\ InLoop /\ "file" \in pending
  /\ \E stop \in BOOLEAN :
       /\ BsodEvent(pending \ {"file"}, held, stop)
       /\ running' = (running /\ ~ stop)
  /\ UNCHANGED <<pc, wait_client, wait_for_client, signals, people>>

\* sleep_cb.
SleepCb ==
  /\ InLoop /\ "sleep" \in pending
  /\ \E stop \in BOOLEAN :
       /\ BsodEvent(pending \ {"sleep"}, held \ {"sleep"}, stop)
       /\ running' = (running /\ ~ stop)
  /\ UNCHANGED <<pc, wait_client, wait_for_client, signals, people>>

\* signal_timer_cb and signal_event.
SignalTimerCb ==
  /\ InLoop /\ "signal" \in pending
  /\ IF Requested
     THEN /\ running' = FALSE
          /\ loop' = LoopWhenRequested
          /\ pending' = pending \ {"signal"} /\ held' = held \ {"signal"}
     ELSE /\ pending' = Rearm(pending \ {"signal"})
          /\ held' = Rearm(held \ {"signal"})
          /\ UNCHANGED <<running, loop>>
  /\ UNCHANGED <<pc, wait_client, wait_for_client, signals, input, people>>

\* wand_del_fd on a client's descriptor.
Unwatched(n) == n - 1

\* wand_del_fd(file_event->fd) after file_cb has freed what file_event points
\* to: by then the memory may describe the watch of a client, which is lost.
WatchesLeft ==
  IF "file" \in held \ pending /\ watched > 0
  THEN {watched, Unwatched(watched)} ELSE {watched}

\* The second wand_event_run returns; the trace is closed.
CloseTrace ==
  /\ pc = "events" /\ ~ running
  /\ pending' = AfterTrace(pending)
  /\ held' = AfterTrace(held)
  /\ trace' = "none"
  /\ watched' \in WatchesLeft
  /\ pc' = IF RunOn(loop) THEN "top" ELSE "exited"
  /\ UNCHANGED <<running, options, signals, first_client, clients, last>>

\* sigusr_cb and sigterm_cb.
Sigusr ==
  /\ InLoop
  /\ restart_config' = TRUE
  /\ UNCHANGED <<pc, running, options, terminate_bsod, input, wakeups, people>>
Sigterm ==
  /\ InLoop
  /\ terminate_bsod' = TRUE
  /\ UNCHANGED <<pc, running, options, restart_config, input, wakeups, people>>

\* The end of listen_cb: the initial wait is over.
EndWait ==
  IF first_client /\ wait_for_client
  THEN running' = FALSE /\ first_client' = FALSE
  ELSE UNCHANGED <<running, first_client>>

\* listen_cb: a client is accepted, and create_client succeeds or fails.
Accept(created) ==
  /\ InLoop /\ clients < MaxClients
  /\ IF created
     THEN /\ EndWait
          /\ clients' = clients + 1 /\ watched' = watched + 1
     ELSE UNCHANGED <<running, people>>
  /\ UNCHANGED <<pc, options, signals, input, wakeups>>

\* listen_cb: accept fails.
AcceptFails ==
  /\ InLoop
  /\ EndWait
  /\ UNCHANGED <<pc, options, signals, input, wakeups, clients, watched>>

\* disconnect_client, called when a watched descriptor becomes readable.
Disconnect ==
  /\ InLoop /\ watched > 0
  /\ clients' = clients - 1 /\ watched' = Unwatched(watched)
  /\ UNCHANGED <<pc, running, options, signals, input, wakeups, first_client>>

Main == \/ StartOver \/ ReloadFails \/ WaitOver \/ ExitBeforeTrace \/ OpenFails
        \/ OpenTrace \/ FirstEvent \/ CloseTrace

Next ==
  \/ Main
  \/ FileCb \/ SleepCb \/ SignalTimerCb
  \/ Sigusr \/ Sigterm
  \/ \E created \in BOOLEAN : Accept(created)
  \/ AcceptFails \/ Disconnect

\* The thread is scheduled and timers expire; descriptors, signals and clients
\* are not promised.
Fairness == WF_vars(Main) /\ WF_vars(SignalTimerCb) /\ WF_vars(SleepCb)

Spec == Init /\ [][Next]_vars
FairSpec == Spec /\ Fairness
-----------------------------------------------------------------------------
\* The types of the variables; only clients are watched.
TypeOK ==
  /\ pc \in {"top", "wait", "open", "first", "events", "exited", "failed"}
  /\ running \in BOOLEAN /\ loop \in BOOLEAN
  /\ wait_client \in BOOLEAN /\ wait_for_client \in BOOLEAN
  /\ first_client \in BOOLEAN
  /\ restart_config \in BOOLEAN /\ terminate_bsod \in BOOLEAN
  /\ trace \in {"none", "open", "ended"}
  /\ pending \subseteq WakeUps /\ held \subseteq WakeUps
  /\ clients \in 0 .. MaxClients /\ watched \in 0 .. clients
  /\ last \in Events \cup {"none", "REQUEST"}

\* A callback that reads the input never runs without an open trace: no
\* wake-up of a trace outlives it, however the trace was left, and whatever is
\* registered can be deleted, because its pointer is still held.
InputCallbackHasTrace ==
  /\ pending \cap {"file", "sleep"} # {} => trace = "open"
  /\ pending \subseteq held

\* Neither a restart nor a client ends the server: it exits only when it was
\* told to, or at the end of an input that is not to be repeated.
ExitsOnlyWhenToldTo ==
  [][pc' = "exited" => terminate_bsod \/ (trace = "ended" /\ ~ loop)]_vars

\* While an open trace is being read the next read is on its way, whatever
\* the callbacks find, unless libtrace reported an event that
\* process_bsod_event does not know, or the first bsod_event found a restart
\* that was asked for while main waited for a client.
InputNotForgotten ==
  pc = "events" /\ running /\ trace = "open" =>
    \/ pending \cap {"file", "sleep"} # {}
    \/ last = "OTHER"
    \/ last = "REQUEST" /\ restart_config

\* "Make sure we check for a signal every second, just in case we have no
\* other events for a while" (bsod_server.cc, signal_event): as long as the
\* event loop goes on, the check is scheduled.
SignalTimerArmed == InLoop /\ running => "signal" \in pending

\* The event loop of a trace goes on and nothing checks for signals.
Deaf == pc = "events" /\ running /\ "signal" \notin pending

\* What leaves the server deaf is a restart and nothing else: it was found in
\* the wait for a client, which took the check away, and again by the first
\* bsod_event, and has still to be served.
OnlyRestartDeafens == Deaf => last = "REQUEST" /\ restart_config

\* A SIGTERM ends the server, also when a restart was asked for as well,
\* unless a SIGUSR1 in the wait for a client has left the server deaf.
TermExits == terminate_bsod ~> pc \in {"exited", "failed"} \/ Deaf

\* A SIGUSR1 is answered: the configuration is read again, unless a SIGTERM or
\* a failure ends the server before, or the SIGUSR1 came in the wait for a
\* client and has left the server deaf.
RestartServed ==
  restart_config ~> \/ ~ restart_config
                    \/ pc = "exited" /\ terminate_bsod
                    \/ pc = "failed"
                    \/ Deaf

\* The first client ends the wait for it.
ClientEndsWait == pc = "wait" /\ clients > 0 ~> pc # "wait"

\* "If set to 1, then the visualisation will loop when it reaches the end of
\* the trace file. If set to 0, then the server will exit" (server/README,
\* loop): the end of a trace is noticed.
EndOfTraceNoticed == trace = "ended" ~> trace # "ended"
=============================================================================
