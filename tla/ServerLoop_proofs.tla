-------------------------- MODULE ServerLoop_proofs --------------------------
(***************************************************************************)
(* Proofs about ServerLoop, for any settings, any inputs and any number of *)
(* clients.                                                                *)
(*                                                                         *)
(* PhaseInv says what may be registered with the event loop in each phase  *)
(* of main, and WaitInv what is known as long as the first client has not  *)
(* come although one was to be waited for: that is when a client could     *)
(* clear "running" in the middle of a trace.                               *)
(***************************************************************************)
EXTENDS ServerLoop, TLAPS

\* The first client is still being waited for, as far as listen_cb knows.
Awaited == first_client /\ wait_for_client

PhaseInv ==
  /\ pending \subseteq held
  /\ ~ ("file" \in pending /\ "sleep" \in pending)
  /\ pc \in {"top", "wait", "open"} =>
       /\ trace = "none"
       /\ "file" \notin pending /\ "sleep" \notin pending
  /\ pc = "first" => /\ trace = "open"
                     /\ "file" \notin pending /\ "sleep" \notin pending
  /\ pc = "events" => trace \in {"open", "ended"}
  /\ trace # "open" => "file" \notin pending /\ "sleep" \notin pending

WaitInv ==
  /\ pc = "top" /\ Awaited =>
       running /\ wait_client /\ clients = 0 /\ ~ restart_config
  /\ pc = "wait" /\ Awaited /\ ~ running => Requested /\ "signal" \notin pending
  /\ pc = "open" /\ Awaited => Requested /\ "signal" \notin pending
  /\ pc = "first" /\ Awaited => restart_config /\ "signal" \notin pending
  /\ pc = "events" /\ Awaited =>
       restart_config /\ running /\ pending = {}
  /\ pc = "events" /\ ~ running => trace = "ended" \/ Requested

IInv == TypeOK /\ PhaseInv /\ WaitInv

\* The server starts with nothing registered.
LEMMA InitOK == Init => IInv
<1> SUFFICES ASSUME Init PROVE IInv
  OBVIOUS
<1> USE DEF Init
<1>1. TypeOK
  <2>1. clients \in 0 .. MaxClients /\ watched \in 0 .. clients
    BY BoundAssumption
  <2>2. loop \in BOOLEAN /\ wait_client \in BOOLEAN /\ wait_for_client \in BOOLEAN
    BY OptionsAssumption
  <2> QED
    BY <2>1, <2>2 DEF TypeOK, WakeUps
<1>2. PhaseInv
  BY DEF PhaseInv
<1>3. WaitInv
  BY OptionsAssumption DEF WaitInv, Awaited
<1> QED
  BY <1>1, <1>2, <1>3 DEF IInv

\* What bsod_event does to the loop variable, the wake-ups and the trace.
LEMMA EventTypes ==
  ASSUME TypeOK, NEW p \in SUBSET WakeUps, NEW h \in SUBSET WakeUps,
         NEW stop \in BOOLEAN, BsodEvent(p, h, stop)
  PROVE  /\ loop' \in BOOLEAN /\ pending' \subseteq WakeUps
         /\ held' \subseteq WakeUps /\ trace' \in {"none", "open", "ended"}
         /\ last' \in Events \cup {"none", "REQUEST"}
<1>1. CASE Requested
  BY <1>1, Zenon DEF TypeOK, BsodEvent, LoopWhenRequested
<1>2. CASE ~ Requested
  <2>1. PICK event \in Events :
          /\ last' = event
          /\ pending' = p \cup EventWaitsFor(event)
          /\ held' = h \cup EventWaitsFor(event)
          /\ trace' = IF event = "END" THEN "ended" ELSE trace
          /\ loop' = loop
    BY <1>2 DEF BsodEvent
  <2>2. EventWaitsFor(event) \subseteq WakeUps
    BY DEF EventWaitsFor, WakeUps
  <2> QED
    BY <2>1, <2>2 DEF TypeOK
<1> QED
  BY <1>1, <1>2

LEMMA EventStepTypes ==
  ASSUME IInv, FirstEvent \/ FileCb \/ SleepCb
  PROVE  /\ loop' \in BOOLEAN /\ pending' \subseteq WakeUps
         /\ held' \subseteq WakeUps /\ trace' \in {"none", "open", "ended"}
         /\ last' \in Events \cup {"none", "REQUEST"}
<1>1. PICK p \in SUBSET WakeUps, h \in SUBSET WakeUps, stop \in BOOLEAN :
        BsodEvent(p, h, stop)
  <2>1. pending \subseteq WakeUps /\ held \subseteq WakeUps
    BY DEF IInv, TypeOK
  <2>2. CASE FirstEvent
    BY <2>1, <2>2 DEF FirstEvent
  <2>3. CASE FileCb
    BY <2>1, <2>3 DEF FileCb
  <2>4. CASE SleepCb
    BY <2>1, <2>4 DEF SleepCb
  <2> QED
    BY <2>2, <2>3, <2>4
<1>2. TypeOK
  BY DEF IInv
<1> QED
  BY <1>1, <1>2, EventTypes

\* Every step keeps the types.
LEMMA TypeStep == IInv /\ [Next]_vars => TypeOK'
<1> SUFFICES ASSUME IInv, [Next]_vars PROVE TypeOK'
  OBVIOUS
<1> USE OptionsAssumption, BoundAssumption
    DEF IInv, TypeOK, PhaseInv, WakeUps, Rearm, AfterTrace, options, signals,
        wakeups, people, input, InLoop
<1>1. CASE StartOver
  BY <1>1 DEF StartOver
<1>2. CASE FirstEvent
  BY <1>2, EventStepTypes DEF FirstEvent
<1>3. CASE FileCb
  BY <1>3, EventStepTypes DEF FileCb
<1>4. CASE SleepCb
  BY <1>4, EventStepTypes DEF SleepCb
<1>5. CASE SignalTimerCb
  <2>1. CASE Requested
    BY <1>5, <2>1 DEF SignalTimerCb, LoopWhenRequested
  <2>2. CASE ~ Requested
    BY <1>5, <2>2 DEF SignalTimerCb
  <2> QED
    BY <2>1, <2>2
<1>6. CASE CloseTrace
  BY <1>6 DEF CloseTrace, WatchesLeft, Unwatched
<1>7. CASE ReloadFails \/ WaitOver \/ ExitBeforeTrace \/ OpenFails \/ OpenTrace
  <2>1. CASE ReloadFails
    BY <2>1 DEF ReloadFails
  <2>2. CASE WaitOver
    BY <2>2 DEF WaitOver
  <2>3. CASE ExitBeforeTrace
    BY <2>3 DEF ExitBeforeTrace
  <2>4. CASE OpenFails
    BY <2>4 DEF OpenFails
  <2>5. CASE OpenTrace
    BY <2>5 DEF OpenTrace
  <2> QED
    BY <1>7, <2>1, <2>2, <2>3, <2>4, <2>5
<1>8. CASE Sigusr \/ Sigterm
  <2>1. CASE Sigusr
    BY <2>1 DEF Sigusr
  <2>2. CASE Sigterm
    BY <2>2 DEF Sigterm
  <2> QED
    BY <1>8, <2>1, <2>2
<1>9. ASSUME NEW created \in BOOLEAN, Accept(created) PROVE TypeOK'
  <2>1. clients' \in 0 .. MaxClients /\ watched' \in 0 .. clients'
    BY <1>9 DEF Accept
  <2>2. running' \in BOOLEAN /\ first_client' \in BOOLEAN
    BY <1>9, Zenon DEF Accept, EndWait
  <2> QED
    BY <1>9, <2>1, <2>2 DEF Accept
<1>10. CASE AcceptFails
  <2>1. running' \in BOOLEAN /\ first_client' \in BOOLEAN
    BY <1>10, Zenon DEF AcceptFails, EndWait
  <2> QED
    BY <1>10, <2>1 DEF AcceptFails
<1>12. CASE Disconnect
  <2>1. clients' \in 0 .. MaxClients /\ watched' \in 0 .. clients'
    BY <1>12 DEF Disconnect, Unwatched
  <2> QED
    BY <1>12, <2>1 DEF Disconnect
<1>11. CASE UNCHANGED vars
  BY <1>11 DEF vars
<1> QED
  BY <1>1, <1>2, <1>3, <1>4, <1>5, <1>6, <1>7, <1>8, <1>9, <1>10, <1>11,
     <1>12
  DEF Next, Main

\* Every step leaves only wake-ups registered that suit the phase.
LEMMA PhaseStep == IInv /\ [Next]_vars => PhaseInv'
<1> SUFFICES ASSUME IInv, [Next]_vars PROVE PhaseInv'
  OBVIOUS
<1> USE DEF IInv, TypeOK, PhaseInv, WakeUps, Rearm, AfterTrace, options,
            signals, wakeups, people, input, InLoop
<1>1. CASE StartOver
  BY <1>1 DEF StartOver
<1>2. CASE FirstEvent
  BY <1>2 DEF FirstEvent, BsodEvent, EventWaitsFor, StopsFor
<1>3. CASE FileCb
  BY <1>3 DEF FileCb, BsodEvent, EventWaitsFor, StopsFor
<1>4. CASE SleepCb
  BY <1>4 DEF SleepCb, BsodEvent, EventWaitsFor, StopsFor
<1>5. CASE SignalTimerCb
  BY <1>5 DEF SignalTimerCb
<1>6. CASE CloseTrace
  BY <1>6 DEF CloseTrace
<1>7. CASE ReloadFails \/ WaitOver \/ ExitBeforeTrace \/ OpenFails \/ OpenTrace
  BY <1>7 DEF ReloadFails, WaitOver, ExitBeforeTrace, OpenFails, OpenTrace
<1>8. CASE Sigusr \/ Sigterm
  BY <1>8 DEF Sigusr, Sigterm
<1>9. ASSUME NEW created \in BOOLEAN, Accept(created) PROVE PhaseInv'
  BY <1>9 DEF Accept, EndWait
<1>10. CASE AcceptFails \/ Disconnect
  BY <1>10 DEF AcceptFails, Disconnect, EndWait
<1>11. CASE UNCHANGED vars
  BY <1>11 DEF vars
<1> QED
  BY <1>1, <1>2, <1>3, <1>4, <1>5, <1>6, <1>7, <1>8, <1>9, <1>10, <1>11
  DEF Next, Main

\* Every step keeps what is known while the first client is awaited, and why
\* the event loop of a trace was left.
LEMMA WaitStep == IInv /\ [Next]_vars => WaitInv'
<1> SUFFICES ASSUME IInv, [Next]_vars PROVE WaitInv'
  OBVIOUS
<1> USE DEF IInv, TypeOK, PhaseInv, WaitInv, WakeUps, Awaited, Requested,
            Rearm, AfterTrace, options, signals, wakeups, people, input, InLoop, Events
<1>1. CASE StartOver
  BY <1>1 DEF StartOver
<1>2. CASE FirstEvent
  BY <1>2 DEF FirstEvent, BsodEvent, EventWaitsFor, StopsFor
<1>3. CASE FileCb
  BY <1>3 DEF FileCb, BsodEvent, EventWaitsFor, StopsFor
<1>4. CASE SleepCb
  BY <1>4 DEF SleepCb, BsodEvent, EventWaitsFor, StopsFor
<1>5. CASE SignalTimerCb
  BY <1>5 DEF SignalTimerCb
<1>6. CASE CloseTrace
  BY <1>6 DEF CloseTrace
<1>7. CASE ReloadFails \/ WaitOver \/ ExitBeforeTrace \/ OpenFails \/ OpenTrace
  BY <1>7 DEF ReloadFails, WaitOver, ExitBeforeTrace, OpenFails, OpenTrace
<1>8. CASE Sigusr \/ Sigterm
  <2>1. CASE Sigusr
    BY <2>1 DEF Sigusr
  <2>2. CASE Sigterm
    BY <2>2 DEF Sigterm
  <2> QED
    BY <1>8, <2>1, <2>2
<1>9. ASSUME NEW created \in BOOLEAN, Accept(created) PROVE WaitInv'
  BY <1>9 DEF Accept, EndWait
<1>10. CASE AcceptFails
  BY <1>10 DEF AcceptFails, EndWait
<1>12. CASE Disconnect
  BY <1>12 DEF Disconnect
<1>11. CASE UNCHANGED vars
  BY <1>11 DEF vars
<1> QED
  BY <1>1, <1>2, <1>3, <1>4, <1>5, <1>6, <1>7, <1>8, <1>9, <1>10, <1>11,
     <1>12
  DEF Next, Main

\* The invariant of the main thread: types, phases and the wait for a client.
THEOREM LoopInvariant == Spec => []IInv
<1>1. IInv /\ [Next]_vars => IInv'
  BY TypeStep, PhaseStep, WaitStep DEF IInv
<1> QED
  BY InitOK, <1>1, PTL DEF Spec

\* Type correctness of the main thread; no client is watched that is not there.
THEOREM LoopTypes == Spec => []TypeOK
<1>1. IInv => TypeOK
  BY DEF IInv
<1> QED
  BY LoopInvariant, <1>1, PTL

\* No callback that reads the input outlives its trace.
THEOREM CallbacksHaveTrace == Spec => []InputCallbackHasTrace
<1>1. IInv => InputCallbackHasTrace
  BY DEF IInv, PhaseInv, InputCallbackHasTrace
<1> QED
  BY LoopInvariant, <1>1, PTL

\* The server exits only when it is told to, or at the end of its input: no
\* restart, failed accept or first client makes it exit, whatever the settings.
THEOREM ExitsWhenTold == Spec => ExitsOnlyWhenToldTo
<1>1. IInv /\ [Next]_vars =>
        [pc' = "exited" => terminate_bsod \/ (trace = "ended" /\ ~ loop)]_vars
  <2> SUFFICES ASSUME IInv, Next, pc' = "exited"
               PROVE  terminate_bsod \/ (trace = "ended" /\ ~ loop)
    OBVIOUS
  <2>1. CASE ExitBeforeTrace
    BY <2>1 DEF ExitBeforeTrace
  <2>2. CASE CloseTrace
    BY <2>2 DEF CloseTrace, RunOn, IInv, WaitInv, Requested
  <2> QED
    BY <2>1, <2>2
    DEF Next, Main, StartOver, ReloadFails, WaitOver, OpenFails, OpenTrace,
        FirstEvent, FileCb, SleepCb, SignalTimerCb, Sigusr, Sigterm, Accept,
        AcceptFails, Disconnect, InLoop
<1> QED
  BY LoopInvariant, <1>1, PTL DEF Spec, ExitsOnlyWhenToldTo

\* Why the next read is on its way: bsod_event registers one unless it finds a
\* request or an event it does not know, and a request is found with "running"
\* still to be cleared, unless it is found by the first bsod_event.
ReadInv ==
  /\ pc = "first" => ~ terminate_bsod
  /\ InputNotForgotten

\* Every step leaves a read registered, or clears "running", or has a reason.
LEMMA ReadStep == IInv /\ ReadInv /\ [Next]_vars => ReadInv'
<1> SUFFICES ASSUME IInv, ReadInv, [Next]_vars PROVE ReadInv'
  OBVIOUS
<1> USE DEF IInv, TypeOK, PhaseInv, ReadInv, InputNotForgotten, Requested,
            options, signals, wakeups, people, input, InLoop, Events
<1>1. CASE StartOver
  BY <1>1 DEF StartOver
<1>2. CASE FirstEvent
  BY <1>2 DEF FirstEvent, BsodEvent, EventWaitsFor, StopsFor
<1>3. CASE FileCb
  BY <1>3 DEF FileCb, BsodEvent, EventWaitsFor, StopsFor
<1>4. CASE SleepCb
  BY <1>4 DEF SleepCb, BsodEvent, EventWaitsFor, StopsFor
<1>5. CASE SignalTimerCb
  BY <1>5 DEF SignalTimerCb, Rearm
<1>6. CASE CloseTrace
  BY <1>6 DEF CloseTrace
<1>7. CASE ReloadFails \/ WaitOver \/ ExitBeforeTrace \/ OpenFails \/ OpenTrace
  BY <1>7 DEF ReloadFails, WaitOver, ExitBeforeTrace, OpenFails, OpenTrace
<1>8. CASE Sigusr \/ Sigterm
  BY <1>8 DEF Sigusr, Sigterm
<1>9. ASSUME NEW created \in BOOLEAN, Accept(created) PROVE ReadInv'
  BY <1>9 DEF Accept, EndWait
<1>10. CASE AcceptFails \/ Disconnect
  BY <1>10 DEF AcceptFails, Disconnect, EndWait
<1>11. CASE UNCHANGED vars
  BY <1>11 DEF vars
<1> QED
  BY <1>1, <1>2, <1>3, <1>4, <1>5, <1>6, <1>7, <1>8, <1>9, <1>10, <1>11
  DEF Next, Main

\* While an open trace is being read the next read is on its way, or libtrace
\* reported an event that is not known, or a restart was found at its start.
THEOREM InputIsRead == Spec => []InputNotForgotten
<1>1. Init => ReadInv
  BY DEF Init, ReadInv, InputNotForgotten
<1>2. ReadInv => InputNotForgotten
  BY DEF ReadInv
<1> QED
  BY LoopInvariant, <1>1, <1>2, ReadStep, PTL DEF Spec

\* Who took the check for signals away: signal_event, which found a request.
\* Until "running" is set again it is false, so that only the first
\* bsod_event of a trace can make the loop go on without the check.
SignalInv ==
  /\ pc = "wait" /\ "signal" \notin pending => Requested /\ ~ running
  /\ pc = "open" /\ "signal" \notin pending => Requested
  /\ pc = "first" =>
       ~ terminate_bsod /\ ("signal" \notin pending => restart_config)
  /\ OnlyRestartDeafens

\* Every step keeps the check for signals scheduled, or has the request.
LEMMA SignalStep == IInv /\ SignalInv /\ [Next]_vars => SignalInv'
<1> SUFFICES ASSUME IInv, SignalInv, [Next]_vars PROVE SignalInv'
  OBVIOUS
<1> USE DEF IInv, TypeOK, SignalInv, OnlyRestartDeafens, Deaf, Requested,
            WakeUps, options, signals, wakeups, people, input, InLoop, Events
<1>1. CASE StartOver
  BY <1>1 DEF StartOver, Rearm
<1>2. CASE FirstEvent
  BY <1>2 DEF FirstEvent, BsodEvent
<1>3. CASE FileCb
  BY <1>3 DEF FileCb, BsodEvent
<1>4. CASE SleepCb
  BY <1>4 DEF SleepCb, BsodEvent
<1>5. CASE SignalTimerCb
  BY <1>5 DEF SignalTimerCb, Rearm
<1>6. CASE CloseTrace
  BY <1>6 DEF CloseTrace
<1>7. CASE ReloadFails \/ WaitOver \/ ExitBeforeTrace \/ OpenFails \/ OpenTrace
  BY <1>7 DEF ReloadFails, WaitOver, ExitBeforeTrace, OpenFails, OpenTrace
<1>8. CASE Sigusr \/ Sigterm
  BY <1>8 DEF Sigusr, Sigterm
<1>9. ASSUME NEW created \in BOOLEAN, Accept(created) PROVE SignalInv'
  BY <1>9 DEF Accept, EndWait
<1>10. CASE AcceptFails \/ Disconnect
  BY <1>10 DEF AcceptFails, Disconnect, EndWait
<1>11. CASE UNCHANGED vars
  BY <1>11 DEF vars
<1> QED
  BY <1>1, <1>2, <1>3, <1>4, <1>5, <1>6, <1>7, <1>8, <1>9, <1>10, <1>11
  DEF Next, Main

\* The check for signals is lost to a restart that main has still to serve, and
\* to nothing else.
THEOREM DeafByRestart == Spec => []OnlyRestartDeafens
<1>1. Init => SignalInv
  BY DEF Init, SignalInv, OnlyRestartDeafens, Deaf
<1>2. SignalInv => OnlyRestartDeafens
  BY DEF SignalInv
<1> QED
  BY LoopInvariant, <1>1, <1>2, SignalStep, PTL DEF Spec
=============================================================================
