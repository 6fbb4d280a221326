-------------------------- MODULE Connection_proofs --------------------------
(***************************************************************************)
(* Proofs about the two ends of a connection: Exporter, which queues what  *)
(* a client is sent, for any number of clients and any size of the ring;   *)
(* and ClientStream, which carries it, for any messages, cut into reads in *)
(* any way.                                                                *)
(*                                                                         *)
(* Exporter.  PassInv is what clientmutex gives: while the exporter walks  *)
(* the client map, the clients it has still to visit and the one it        *)
(* remembers are connected.  QuietInv says that the remembered pointer is  *)
(* the one that is furthest behind among those visited, as long as nothing *)
(* was pushed and nobody left since the pass began.                        *)
(*                                                                         *)
(* ClientStream.  Parse goes on from where a message ends, so what it      *)
(* returns for an index is known once it is known for all higher ones:     *)
(* DownFrom is that induction.  By it, what Parse finds and what it leaves *)
(* are together the buffer (AllKept), and if the buffer is a beginning of  *)
(* whole messages, it finds those whose last byte is there (AllInStep).    *)
(* StreamInv says that what has been handled is a beginning of what was    *)
(* sent, and the buffer, with what is on its way, the rest of it.          *)
(***************************************************************************)
EXTENDS Exporter, ClientStream, SequenceTheorems, WellFoundedInduction, TLAPS

PassInv ==
  /\ newtail \in Connected \cup {HEAD, FREED}
  /\ xpc \in {"loop", "sending"} => /\ todo \subseteq Connected
                                    /\ newtail \in Connected \cup {HEAD}
  /\ xpc = "sending" => /\ Some(todo) \in todo
                        /\ toSend \in 0 .. (head - ptr[Some(todo)])
  /\ xpc = "assign" => todo = {}
  /\ mpc = "disconnect" => mfd \in Connected
  /\ mpc = "greet" => mfd \in Connected /\ ptr[mfd] = head
  /\ mpc = "connect" => /\ mfd \in Clients \ Connected
                         /\ peer[mfd] # "none"
  /\ \A c \in Connected : peer[c] # "none"

QuietInv ==
  quiet /\ xpc \in {"loop", "sending", "assign"} =>
    /\ newtail # FREED
    /\ newtail = HEAD => mostRem = 0
    /\ newtail \in Connected => mostRem = head - ptr[newtail] /\ newtail \notin todo
    /\ \A c \in Connected \ todo : head - ptr[c] <= mostRem

IInv == TypeOK /\ PassInv /\ QuietInv

\* Nothing is connected and no pass is under way at the start.
LEMMA InitOK == Init => IInv
<1> SUFFICES ASSUME Init PROVE IInv
  OBVIOUS
<1> USE SizeAssumption DEF Init, Connected
<1>1. TypeOK
  <2>1. Connected = {}
    OBVIOUS
  <2>2. /\ head \in 0 .. MaxPush /\ tail \in 0 .. head
        /\ toSend \in 0 .. MaxPush /\ mostRem \in 0 .. MaxPush
    OBVIOUS
  <2> QED
    BY <2>1, <2>2 DEF TypeOK
<1>2. PassInv
  BY DEF PassInv
<1>3. QuietInv
  BY DEF QuietInv
<1> QED
  BY <1>1, <1>2, <1>3 DEF IInv

\* Every step keeps the types.
LEMMA TypeStep == IInv /\ [Next]_vars => TypeOK'
<1> SUFFICES ASSUME IInv, [Next]_vars PROVE TypeOK'
  OBVIOUS
<1> USE SizeAssumption, ValuesAssumption
    DEF IInv, TypeOK, PassInv, Connected, fifoVars, passVars
<1>1. CASE Push
  <2>1. head' \in 0 .. MaxPush /\ tail' \in 0 .. head' /\ head <= head'
    BY <1>1 DEF Push
  <2>2. mpc' \in {"idle", "signal", "connect", "greet", "disconnect"} /\ missed' \subseteq Clients
    BY <1>1 DEF Push
  <2>3. \A c \in DOMAIN ptr' : ptr'[c] \in 0 .. head'
    BY <1>1, <2>1 DEF Push
  <2>4. UNCHANGED <<ptr, peer, mfd, xpc, todo, toSend, mostRem, newtail>> /\ quiet' = FALSE
    BY <1>1 DEF Push
  <2> QED
    BY <2>1, <2>2, <2>3, <2>4
<1>2. CASE Signal
  BY <1>2 DEF Signal
<1>3. CASE Register
  BY <1>3 DEF Register, FirstUnread
<1>12. CASE Greet
  BY <1>12 DEF Greet
<1>4. CASE Disconnect
  BY <1>4 DEF Disconnect, Without
<1>5. ASSUME NEW c \in Clients, Accept(c) \/ Readable(c) \/ Close(c) \/ Stall(c)
      PROVE  TypeOK'
  BY <1>5 DEF Accept, Readable, Close, Stall
<1>6. CASE Check \/ Wait \/ SpuriousWakeup \/ EndPass
  BY <1>6 DEF Check, Wait, SpuriousWakeup, EndPass
<1>7. CASE BeginPass
  BY <1>7 DEF BeginPass
<1>8. CASE BeginSend
  BY <1>8 DEF BeginSend, ToSend, Some
<1>9. CASE EndSend
  BY <1>9 DEF EndSend, Sent, MoreRem
<1>10. CASE AssignTail
  BY <1>10 DEF AssignTail, Target
<1>11. CASE UNCHANGED vars
  BY <1>11 DEF vars
<1> QED
  BY <1>1, <1>2, <1>3, <1>4, <1>5, <1>6, <1>7, <1>8, <1>9, <1>10, <1>11, <1>12
  DEF Next, ExporterThread

\* The mutex keeps the client map as the pass of the exporter needs it.
LEMMA PassStep == IInv /\ [Next]_vars => PassInv'
<1> SUFFICES ASSUME IInv, [Next]_vars PROVE PassInv'
  OBVIOUS
<1> USE SizeAssumption, ValuesAssumption
    DEF IInv, TypeOK, PassInv, Connected, fifoVars, passVars
<1>1. CASE Push
  BY <1>1 DEF Push
<1>2. CASE Signal
  BY <1>2 DEF Signal
<1>3. CASE Register
  BY <1>3 DEF Register, FirstUnread, ClientMutexFree
<1>12. CASE Greet
  BY <1>12 DEF Greet
<1>4. CASE Disconnect
  BY <1>4 DEF Disconnect, Without, MutexForDisconnect, ClientMutexFree
<1>5. ASSUME NEW c \in Clients, Accept(c) \/ Readable(c) \/ Close(c) \/ Stall(c)
      PROVE  PassInv'
  <2>1. CASE Accept(c)
    BY <2>1 DEF Accept
  <2>2. CASE Readable(c)
    BY <2>2 DEF Readable
  <2>3. CASE Close(c)
    BY <2>3 DEF Close
  <2>4. CASE Stall(c)
    BY <2>4 DEF Stall
  <2> QED
    BY <1>5, <2>1, <2>2, <2>3, <2>4
<1>6. CASE Check \/ Wait \/ SpuriousWakeup \/ EndPass
  BY <1>6 DEF Check, Wait, SpuriousWakeup, EndPass
<1>7. CASE BeginPass
  BY <1>7 DEF BeginPass
<1>8. CASE BeginSend
  BY <1>8 DEF BeginSend, ToSend, Some
<1>9. CASE EndSend
  BY <1>9 DEF EndSend, Sent, MoreRem
<1>10. CASE AssignTail
  BY <1>10 DEF AssignTail
<1>11. CASE UNCHANGED vars
  BY <1>11 DEF vars
<1> QED
  BY <1>1, <1>2, <1>3, <1>4, <1>5, <1>6, <1>7, <1>8, <1>9, <1>10, <1>11, <1>12
  DEF Next, ExporterThread

\* The remembered pointer stays the one furthest behind.
LEMMA QuietStep == IInv /\ [Next]_vars => QuietInv'
<1> SUFFICES ASSUME IInv, [Next]_vars PROVE QuietInv'
  OBVIOUS
<1> USE SizeAssumption, ValuesAssumption
    DEF IInv, TypeOK, PassInv, QuietInv, Connected, fifoVars, passVars
<1>1. CASE Push
  BY <1>1 DEF Push
<1>2. CASE Signal
  BY <1>2 DEF Signal
<1>3. CASE Register
  BY <1>3 DEF Register, FirstUnread, ClientMutexFree
<1>12. CASE Greet
  BY <1>12 DEF Greet
<1>4. CASE Disconnect
  BY <1>4 DEF Disconnect
<1>5. ASSUME NEW c \in Clients, Accept(c) \/ Readable(c) \/ Close(c) \/ Stall(c)
      PROVE  QuietInv'
  <2>1. CASE Accept(c)
    BY <2>1 DEF Accept
  <2>2. CASE Readable(c)
    BY <2>2 DEF Readable
  <2>3. CASE Close(c)
    BY <2>3 DEF Close
  <2>4. CASE Stall(c)
    BY <2>4 DEF Stall
  <2> QED
    BY <1>5, <2>1, <2>2, <2>3, <2>4
<1>6. CASE Check \/ Wait \/ SpuriousWakeup \/ EndPass
  BY <1>6 DEF Check, Wait, SpuriousWakeup, EndPass
<1>7. CASE BeginPass
  BY <1>7 DEF BeginPass
<1>8. CASE BeginSend
  BY <1>8 DEF BeginSend
<1>9. CASE EndSend
  BY <1>9 DEF EndSend, Sent, MoreRem
<1>10. CASE AssignTail
  BY <1>10 DEF AssignTail
<1>11. CASE UNCHANGED vars
  BY <1>11 DEF vars
<1> QED
  BY <1>1, <1>2, <1>3, <1>4, <1>5, <1>6, <1>7, <1>8, <1>9, <1>10, <1>11, <1>12
  DEF Next, ExporterThread

\* The invariant of the queue: types, the pass and the quiet pass.
THEOREM QueueInvariant == Spec => []IInv
<1>1. IInv /\ [Next]_vars => IInv'
  BY TypeStep, PassStep, QuietStep DEF IInv
<1> QED
  BY InitOK, <1>1, PTL DEF Spec

\* Type correctness of the queue: read pointers and tail never pass the head.
THEOREM QueueTypes == Spec => []TypeOK
<1>1. IInv => TypeOK
  BY DEF IInv
<1> QED
  BY QueueInvariant, <1>1, PTL

\* Nothing the exporter may touch during a pass is freed or erased under it.
THEOREM PassIsSafe == Spec => []PassUsesLivePointers
<1>1. IInv => PassUsesLivePointers
  BY DEF IInv, PassInv, PassUsesLivePointers
<1> QED
  BY QueueInvariant, <1>1, PTL

\* The exporter never writes to a client that is still being greeted.
THEOREM GreetingIsAlone == Spec => []GreetingAlone
<1>1. IInv => GreetingAlone
  BY DEF IInv, PassInv, GreetingAlone, TypeOK, Connected
<1> QED
  BY QueueInvariant, <1>1, PTL

\* A pass during which nothing was pushed and nobody left frees only data that
\* every client has been sent.
THEOREM QuietPassIsSafe == Spec => QuietPassKeepsUnread
<1>1. IInv /\ [Next]_vars =>
        [xpc = "assign" /\ xpc' = "check" /\ quiet =>
           \A c \in Connected : tail' <= ptr[c]]_vars
  <2> SUFFICES ASSUME IInv, Next, xpc = "assign", xpc' = "check", quiet,
                      NEW c \in Connected
               PROVE  tail' <= ptr[c]
    OBVIOUS
  <2>1. AssignTail
    BY DEF Next, ExporterThread, Push, Signal, Register, Greet, Disconnect, Accept,
           Readable, Close, Stall, Check, Wait, BeginPass, BeginSend, EndSend,
           EndPass, SpuriousWakeup
  <2>2. head - ptr[c] <= mostRem
    BY DEF IInv, PassInv, QuietInv
  <2>3. tail' = head - mostRem
    BY <2>1, ValuesAssumption
    DEF AssignTail, Target, IInv, TypeOK, PassInv, QuietInv, Connected
  <2> QED
    BY <2>2, <2>3 DEF IInv, TypeOK, Connected
<1> QED
  BY QueueInvariant, <1>1, PTL DEF Spec, QuietPassKeepsUnread
-----------------------------------------------------------------------------
\* What is sent and received.
Bytes == Seq(Nat)

\* How bytes are put together does not matter.
LEMMA BytesAssociate ==
    \A a, b, c \in Bytes : (a \o b) \o c = a \o (b \o c)
BY ConcatAssociative DEF Bytes

\* Induction, for a set: no operator has to be instantiated.
LEMMA SetInduction ==
    ASSUME NEW T \in SUBSET Nat, 0 \in T, \A n \in T : n + 1 \in T
    PROVE  T = Nat
<1> SUFFICES ASSUME Nat \ T # {}
             PROVE  FALSE
  OBVIOUS
<1>1. IsWellFoundedOn(OpToRel(<, Nat), Nat)
  BY NatLessThanWellFounded
<1>2. PICK x \in Nat \ T : \A y \in Nat \ T : ~ (<<y, x>> \in OpToRel(<, Nat))
  BY <1>1, WFMin
<1>3. \A y \in Nat \ T : ~ (y < x)
  BY <1>2 DEF OpToRel
<1>4. x # 0
  OBVIOUS
<1>5. x - 1 \in Nat /\ x - 1 < x /\ (x - 1) + 1 = x
  BY <1>4
<1> QED
  BY <1>3, <1>5

\* The bytes of the first messages of s, one message more at a time.
FlatBy(flat, s) ==
    \A i \in 1 .. Len(s) : flat[i] = IF i = 1 THEN s[1] ELSE flat[i - 1] \o s[i]

\* FlattenSeq is what its loop defines.
LEMMA FlatLoop ==
    ASSUME NEW s \in Seq(Bytes), s # << >>
    PROVE  \E flat : FlatBy(flat, s) /\ Flat(s) = flat[Len(s)]
<1> DEFINE Is(g, k) == g = [i \in 1 .. k |-> IF i = 1 THEN s[i] ELSE g[i - 1] \o s[i]]
           T == {k \in Nat : \E g : Is(g, k)}
<1>1. 0 \in T
  <2>1. Is([i \in 1 .. 0 |-> s[i]], 0)
    OBVIOUS
  <2> QED
    BY <2>1
<1>2. ASSUME NEW k \in T
      PROVE  k + 1 \in T
  <2>1. PICK g : Is(g, k)
    OBVIOUS
  <2> DEFINE h == [i \in 1 .. k + 1 |->
                     IF i = k + 1 THEN IF i = 1 THEN s[i] ELSE g[i - 1] \o s[i]
                     ELSE g[i]]
  <2>2. ASSUME NEW i \in 1 .. k + 1
        PROVE  h[i] = IF i = 1 THEN s[i] ELSE h[i - 1] \o s[i]
    <3>1. CASE i = 1 /\ i = k + 1
      BY <3>1
    <3>2. CASE i = 1 /\ i # k + 1
      <4>1. i \in 1 .. k /\ h[i] = g[i]
        BY <3>2
      <4> QED
        BY <2>1, <3>2, <4>1
    <3>3. CASE i # 1
      <4>1. i - 1 \in 1 .. k /\ i - 1 \in 1 .. k + 1 /\ i - 1 # k + 1
        BY <3>3
      <4>2. h[i - 1] = g[i - 1]
        BY <4>1
      <4>3. CASE i = k + 1
        BY <3>3, <4>2, <4>3
      <4>4. CASE i # k + 1
        <5>1. i \in 1 .. k /\ h[i] = g[i]
          BY <4>4
        <5>2. g[i] = g[i - 1] \o s[i]
          BY <2>1, <3>3, <5>1
        <5> QED
          BY <3>3, <4>2, <5>1, <5>2
      <4> QED
        BY <4>3, <4>4
    <3> QED
      BY <3>1, <3>2, <3>3
  <2>3. Is(h, k + 1)
    BY <2>2
  <2> HIDE DEF h, Is
  <2> QED
    BY <2>3
<1>3. T = Nat
  <2> HIDE DEF T
  <2> QED
    BY <1>1, <1>2, SetInduction DEF T
<1>4. Len(s) \in Nat /\ Len(s) # 0
  BY EmptySeq
<1>5. \E g : Is(g, Len(s))
  BY <1>3, <1>4, Zenon
<1> DEFINE flatten[i \in 1 .. Len(s)] ==
             IF i = 1 THEN s[i] ELSE flatten[i - 1] \o s[i]
<1>6. Is(flatten, Len(s))
  BY <1>5, Zenon
<1>7. Flat(s) = flatten[Len(s)]
  BY <1>4 DEF Flat, FlattenSeq
<1> HIDE DEF flatten
<1>8. FlatBy(flatten, s)
  BY <1>6 DEF FlatBy
<1> QED
  BY <1>7, <1>8

\* One more message.
LEMMA FlatAppend ==
    ASSUME NEW s \in Seq(Bytes), NEW m \in Bytes
    PROVE  Flat(Append(s, m)) = Flat(s) \o m
<1> DEFINE t == Append(s, m)
<1>1. /\ t \in Seq(Bytes) /\ t # << >> /\ Len(t) = Len(s) + 1 /\ t[Len(s) + 1] = m
      /\ \A i \in 1 .. Len(s) : t[i] = s[i]
  BY AppendProperties
<1>2. Len(s) \in Nat
  OBVIOUS
<1> HIDE DEF t
<1>3. PICK ft : FlatBy(ft, t) /\ Flat(t) = ft[Len(t)]
  BY <1>1, FlatLoop
<1>4. CASE s = << >>
  <2>1. Flat(s) = << >> /\ Len(s) = 0
    BY <1>4 DEF Flat, FlattenSeq
  <2>2. ft[1] = m
    BY <1>1, <1>3, <2>1 DEF FlatBy
  <2> QED
    BY <1>1, <1>3, <2>1, <2>2, ConcatEmptySeq DEF t
<1>5. CASE s # << >>
  <2>1. PICK fs : FlatBy(fs, s) /\ Flat(s) = fs[Len(s)]
    BY <1>5, FlatLoop
  <2>2. Len(s) # 0
    BY <1>5, EmptySeq
  <2> DEFINE T == {k \in Nat : k \in 1 .. Len(s) => ft[k] = fs[k]}
  <2>3. 0 \in T
    OBVIOUS
  <2>4. ASSUME NEW k \in T
        PROVE  k + 1 \in T
    <3> SUFFICES ASSUME k + 1 \in 1 .. Len(s)
                 PROVE  ft[k + 1] = fs[k + 1]
      OBVIOUS
    <3>1. k + 1 \in 1 .. Len(t) /\ t[k + 1] = s[k + 1]
      BY <1>1, <1>2
    <3>2. CASE k = 0
      BY <1>1, <1>3, <2>1, <3>1, <3>2 DEF FlatBy
    <3>3. CASE k # 0
      <4>1. k \in 1 .. Len(s) /\ k + 1 # 1 /\ (k + 1) - 1 = k
        BY <3>3
      <4>2. ft[k + 1] = ft[k] \o t[k + 1]
        BY <1>3, <3>1, <4>1 DEF FlatBy
      <4>3. fs[k + 1] = fs[k] \o s[k + 1]
        BY <2>1, <4>1 DEF FlatBy
      <4> QED
        BY <3>1, <4>1, <4>2, <4>3
    <3> QED
      BY <3>2, <3>3
  <2>5. T = Nat
    <3> HIDE DEF T
    <3> QED
      BY <2>3, <2>4, SetInduction DEF T
  <2>6. ft[Len(s)] = fs[Len(s)]
    BY <1>2, <2>2, <2>5
  <2>7. ft[Len(s) + 1] = ft[Len(s)] \o m
    <3>1. Len(s) + 1 \in 1 .. Len(t) /\ Len(s) + 1 # 1 /\ (Len(s) + 1) - 1 = Len(s)
      BY <1>1, <1>2, <2>2
    <3> QED
      BY <1>1, <1>3, <3>1 DEF FlatBy
  <2> QED
    BY <1>1, <1>3, <2>1, <2>6, <2>7 DEF t
<1> QED
  BY <1>4, <1>5

\* No messages, no bytes.
LEMMA FlatEmpty == Flat(<< >>) = << >>
BY DEF Flat, FlattenSeq

\* The first n messages and one more.
LEMMA FirstAndNext ==
    ASSUME NEW S, NEW s \in Seq(S), NEW n \in Nat, n + 1 <= Len(s)
    PROVE  /\ SubSeq(s, 1, n) \in Seq(S) /\ s[n + 1] \in S
           /\ SubSeq(s, 1, n + 1) = Append(SubSeq(s, 1, n), s[n + 1])
<1>1. n + 1 \in 1 .. Len(s) /\ 1 \in 1 .. Len(s) /\ n + 1 \in 1 .. Len(s) /\ (n + 1) - 1 = n
  OBVIOUS
<1>2. SubSeq(s, 1, n + 1) = SubSeq(s, 1, n) \o << s[n + 1] >>
  BY <1>1, SubSeqRecursiveSecond
<1>3. s[n + 1] \in S
  BY <1>1, ElementOfSeq
<1>4. \A i \in 1 .. n : s[i] \in S
  BY ElementOfSeq
<1>5. SubSeq(s, 1, n) \in Seq(S)
  BY <1>4, SubSeqProperties
<1> QED
  BY <1>2, <1>3, <1>5, AppendIsConcat

\* The bytes of two sequences of messages, one after the other.
LEMMA FlatConcat ==
    ASSUME NEW s \in Seq(Bytes), NEW t \in Seq(Bytes)
    PROVE  Flat(s) \in Bytes /\ Flat(s \o t) = Flat(s) \o Flat(t)
<1>1. \A u \in Seq(Bytes) : Flat(u) \in Bytes
  <2> SUFFICES ASSUME NEW u \in Seq(Bytes)
               PROVE  Flat(u) \in Bytes
    OBVIOUS
  <2> DEFINE T == {n \in Nat : n <= Len(u) => Flat(SubSeq(u, 1, n)) \in Bytes}
  <2>1. 0 \in T
    <3>1. SubSeq(u, 1, 0) = << >>
      BY SubSeqEmpty
    <3>2. << >> \in Bytes
      BY DEF Bytes
    <3> QED
      BY <3>1, <3>2, FlatEmpty
  <2>2. ASSUME NEW n \in T
        PROVE  n + 1 \in T
    <3> SUFFICES ASSUME n + 1 <= Len(u)
                 PROVE  Flat(SubSeq(u, 1, n + 1)) \in Bytes
      OBVIOUS
    <3>1. /\ SubSeq(u, 1, n) \in Seq(Bytes) /\ u[n + 1] \in Bytes
          /\ SubSeq(u, 1, n + 1) = Append(SubSeq(u, 1, n), u[n + 1])
      BY FirstAndNext
    <3>2. Flat(SubSeq(u, 1, n)) \in Bytes
      OBVIOUS
    <3> DEFINE first == SubSeq(u, 1, n)
               next == u[n + 1]
    <3> HIDE DEF first, next
    <3>3. Flat(first) \o next \in Bytes
      BY <3>1, <3>2, ConcatProperties DEF Bytes, first, next
    <3>4. Flat(Append(first, next)) = Flat(first) \o next
      BY <3>1, FlatAppend DEF first, next
    <3> QED
      BY <3>1, <3>3, <3>4 DEF first, next
  <2>3. T = Nat
    <3> HIDE DEF T
    <3> QED
      BY <2>1, <2>2, SetInduction DEF T
  <2>4. SubSeq(u, 1, Len(u)) = u /\ Len(u) \in Nat
    BY SubSeqFull
  <2>5. Flat(SubSeq(u, 1, Len(u))) \in Bytes
    <3>1. Len(u) \in T /\ Len(u) <= Len(u)
      BY <2>3, <2>4
    <3> QED
      BY <3>1
  <2> QED
    BY <2>4, <2>5, Zenon
<1>2. Flat(s \o t) = Flat(s) \o Flat(t)
  <2> DEFINE T == {n \in Nat : n <= Len(t) =>
                     Flat(s \o SubSeq(t, 1, n)) = Flat(s) \o Flat(SubSeq(t, 1, n))}
  <2>1. 0 \in T
    <3>1. SubSeq(t, 1, 0) = << >>
      BY SubSeqEmpty
    <3>2. s \o << >> = s
      BY ConcatEmptySeq
    <3>3. Flat(s) \o << >> = Flat(s)
      BY <1>1, ConcatEmptySeq DEF Bytes
    <3> QED
      BY <3>1, <3>2, <3>3, FlatEmpty
  <2>2. ASSUME NEW n \in T
        PROVE  n + 1 \in T
    <3> SUFFICES ASSUME n + 1 <= Len(t)
                 PROVE  Flat(s \o SubSeq(t, 1, n + 1)) = Flat(s) \o Flat(SubSeq(t, 1, n + 1))
      OBVIOUS
    <3> DEFINE first == SubSeq(t, 1, n)
               next == t[n + 1]
    <3>1. /\ first \in Seq(Bytes) /\ next \in Bytes
          /\ SubSeq(t, 1, n + 1) = Append(first, next)
      BY FirstAndNext
    <3>2. Flat(s \o first) = Flat(s) \o Flat(first)
      OBVIOUS
    <3> HIDE DEF first, next
    <3>3. s \o first \in Seq(Bytes)
      BY <3>1, ConcatProperties
    <3>4. s \o Append(first, next) = Append(s \o first, next)
      <4>1. << next >> \in Seq(Bytes)
        BY <3>1
      <4>2. Append(first, next) = first \o << next >>
        BY <3>1, AppendIsConcat
      <4>3. Append(s \o first, next) = (s \o first) \o << next >>
        BY <3>1, <3>3, AppendIsConcat
      <4> QED
        BY <3>1, <4>1, <4>2, <4>3, ConcatAssociative
    <3>5. Flat(Append(s \o first, next)) = (Flat(s) \o Flat(first)) \o next
      BY <3>1, <3>2, <3>3, FlatAppend
    <3>6. (Flat(s) \o Flat(first)) \o next = Flat(s) \o (Flat(first) \o next)
      <4>1. Flat(s) \in Seq(Nat) /\ Flat(first) \in Seq(Nat) /\ next \in Seq(Nat)
        BY <1>1, <3>1 DEF Bytes
      <4> QED
        BY <4>1, BytesAssociate DEF Bytes
    <3> QED
      BY <3>1, <3>4, <3>5, <3>6, FlatAppend
  <2>3. T = Nat
    <3> HIDE DEF T
    <3> QED
      BY <2>1, <2>2, SetInduction DEF T
  <2>4. SubSeq(t, 1, Len(t)) = t /\ Len(t) \in Nat
    BY SubSeqFull
  <2>5. Flat(s \o SubSeq(t, 1, Len(t))) = Flat(s) \o Flat(SubSeq(t, 1, Len(t)))
    <3>1. Len(t) \in T /\ Len(t) <= Len(t)
      BY <2>3, <2>4
    <3> QED
      BY <3>1
  <2> QED
    BY <2>4, <2>5, Zenon
<1> QED
  BY <1>1, <1>2


\* What the loop returns where it stops.
Stopped(i, bad) == [messages |-> << >>, index |-> i, bad |-> bad]

\* What the loop finds from i on, given what it finds further on.
Cut(found, bytes, i) ==
    CASE i > Len(bytes) -> [messages |-> << >>, index |-> i, bad |-> FALSE]
      [] i <= Len(bytes) /\ bytes[i] = VERSION ->
           [found[i + 1] EXCEPT !.messages = <<<<VERSION>>>> \o @]
      [] i <= Len(bytes) /\ bytes[i] \notin PacketTypes \cup {VERSION} ->
           [messages |-> << >>, index |-> i, bad |-> TRUE]
      [] i <= Len(bytes) /\ bytes[i] \in PacketTypes ->
           IF Complete(bytes, i)
           THEN LET next == i + ThisSize(bytes, i)
                IN  [found[next] EXCEPT !.messages =
                       <<SubSeq(bytes, i, next - 1)>> \o @]
           ELSE [messages |-> << >>, index |-> i, bad |-> FALSE]

\* A message that is complete ends in the buffer, after its first byte.
LEMMA NextInBuffer ==
    ASSUME NEW bytes \in Bytes, NEW i \in 1 .. Len(bytes),
           bytes[i] \in PacketTypes, Complete(bytes, i)
    PROVE  /\ ThisSize(bytes, i) \in Nat
           /\ i + ThisSize(bytes, i) \in i + 1 .. Len(bytes) + 1
<1> DEFINE fixed == FixedSize[bytes[i]]
<1>1. fixed \in Nat \ {0} /\ Len(bytes) \in Nat /\ i \in Nat
  BY FixedSizeAssumption DEF Bytes
<1>2. Len(bytes) - i + 1 >= fixed /\ Len(bytes) - i + 1 >= ThisSize(bytes, i)
  BY DEF Complete
<1>3. i + fixed - 1 \in 1 .. Len(bytes)
  BY <1>1, <1>2
<1>4. bytes[i + fixed - 1] \in Nat
  BY <1>3 DEF Bytes
<1>5. ThisSize(bytes, i) = fixed + (IF bytes[i] \in {DESCRIPTOR, IMAGE}
                                    THEN bytes[i + fixed - 1] ELSE 0)
  BY DEF ThisSize
<1> HIDE DEF fixed
<1>6. ThisSize(bytes, i) \in Nat \ {0}
  BY <1>1, <1>4, <1>5
<1> QED
  BY <1>1, <1>2, <1>6

\* Where two functions agree on what is further on, the loop finds the same.
LEMMA CutAgrees ==
    ASSUME NEW bytes \in Bytes, NEW i \in 1 .. Len(bytes) + 1, NEW f, NEW g,
           \A k \in i + 1 .. Len(bytes) + 1 : f[k] = g[k]
    PROVE  Cut(f, bytes, i) = Cut(g, bytes, i)
<1>0. Len(bytes) \in Nat
  BY DEF Bytes
<1>1. CASE i > Len(bytes)
  BY <1>1 DEF Cut
<1>2. CASE i <= Len(bytes) /\ bytes[i] = VERSION
  <2>1. i + 1 \in i + 1 .. Len(bytes) + 1
    BY <1>0, <1>2
  <2>2. f[i + 1] = g[i + 1]
    BY <2>1
  <2> QED
    BY <1>2, <2>2 DEF Cut
<1>3. CASE i <= Len(bytes) /\ bytes[i] # VERSION
  <2>1. CASE bytes[i] \in PacketTypes /\ Complete(bytes, i)
    <3>1. i + ThisSize(bytes, i) \in i + 1 .. Len(bytes) + 1
      BY <1>0, <1>3, <2>1, NextInBuffer
    <3>2. f[i + ThisSize(bytes, i)] = g[i + ThisSize(bytes, i)]
      BY <3>1
    <3> QED
      BY <1>0, <1>3, <2>1, <3>2 DEF Cut
  <2>2. CASE ~ (bytes[i] \in PacketTypes /\ Complete(bytes, i))
    BY <1>0, <1>3, <2>2 DEF Cut
  <2> QED
    BY <2>1, <2>2
<1> QED
  BY <1>0, <1>1, <1>2, <1>3

\* The recursion of Parse is well defined.
ParseBy(found, bytes) ==
    /\ \A i \in 1 .. Len(bytes) + 1 : found[i] = Cut(found, bytes, i)
    /\ Parse(bytes) = found[1]

\* The loop is well defined: Parse is what it finds from the first byte on.
LEMMA ParseLoop ==
    ASSUME NEW bytes \in Bytes
    PROVE  \E found : ParseBy(found, bytes)
<1> DEFINE N == Len(bytes)
           Is(g, a) == g = [i \in a .. N + 1 |-> Cut(g, bytes, i)]
           T == {k \in Nat : k <= N => \E g : Is(g, N + 1 - k)}
<1>0. N \in Nat
  BY DEF Bytes
<1> HIDE DEF N
<1>1. 0 \in T
  <2> DEFINE g == [i \in N + 1 .. N + 1 |-> Cut(<< >>, bytes, i)]
  <2>1. ASSUME NEW i \in N + 1 .. N + 1
        PROVE  Cut(<< >>, bytes, i) = Cut(g, bytes, i)
    <3>1. i \in 1 .. Len(bytes) + 1 /\ i + 1 .. Len(bytes) + 1 = {}
      BY <1>0 DEF N
    <3> HIDE DEF g
    <3> QED
      BY <3>1, CutAgrees
  <2>2. Is(g, N + 1)
    <3> DEFINE h == g
    <3>1. g = [i \in N + 1 .. N + 1 |-> Cut(h, bytes, i)]
      <4> HIDE DEF h
      <4>1. \A i \in N + 1 .. N + 1 : Cut(<< >>, bytes, i) = Cut(h, bytes, i)
        BY <2>1 DEF h
      <4> QED
        BY <4>1
    <3> QED
      BY <3>1
  <2> HIDE DEF Is, g
  <2>3. N + 1 - 0 = N + 1
    BY <1>0
  <2> QED
    BY <2>2, <2>3
<1>2. ASSUME NEW k \in T
      PROVE  k + 1 \in T
  <2> SUFFICES ASSUME k + 1 <= N
               PROVE  \E g : Is(g, N + 1 - (k + 1))
    OBVIOUS
  <2> DEFINE a == N + 1 - (k + 1)
  <2>1. a \in 1 .. N /\ N + 1 - k = a + 1 /\ N + 1 - (k + 1) = a
    BY <1>0
  <2>2. k <= N
    BY <1>0
  <2> HIDE DEF a
  <2>3. PICK g : Is(g, a + 1)
    BY <2>1, <2>2
  <2> DEFINE h == [i \in a .. N + 1 |-> IF i = a THEN Cut(g, bytes, a) ELSE g[i]]
  <2>4. \A i \in a + 1 .. N + 1 : h[i] = g[i]
    BY <2>1
  <2>5. ASSUME NEW i \in a .. N + 1
        PROVE  h[i] = Cut(h, bytes, i)
    <3>1. \A j \in i + 1 .. N + 1 : g[j] = h[j]
      BY <2>1, <2>4
    <3>2. h[i] = IF i = a THEN Cut(g, bytes, a) ELSE g[i]
      OBVIOUS
    <3>3. i # a => g[i] = Cut(g, bytes, i)
      <4>1. i # a => i \in a + 1 .. N + 1
        BY <2>1
      <4> QED
        BY <2>3, <4>1
    <3>4. i \in 1 .. Len(bytes) + 1
      BY <1>0, <2>1 DEF N
    <3> HIDE DEF h, Is
    <3>5. Cut(g, bytes, i) = Cut(h, bytes, i)
      BY <3>1, <3>4, CutAgrees DEF N
    <3> QED
      BY <3>2, <3>3, <3>5
  <2>6. Is(h, a)
    <3> DEFINE f == h
    <3>1. h = [i \in a .. N + 1 |-> Cut(f, bytes, i)]
      <4>1. \A i \in a .. N + 1 : (IF i = a THEN Cut(g, bytes, a) ELSE g[i]) = Cut(f, bytes, i)
        BY <2>5
      <4> HIDE DEF f
      <4> QED
        BY <4>1
    <3> QED
      BY <3>1
  <2> HIDE DEF h, Is
  <2> QED
    BY <2>1, <2>6
<1>3. T = Nat
  <2> HIDE DEF T
  <2> QED
    BY <1>1, <1>2, SetInduction DEF T
<1>4. \E g : Is(g, 1)
  <2>1. N <= N /\ N + 1 - N = 1
    BY <1>0
  <2>2. N \in T
    BY <1>0, <1>3, Zenon
  <2>3. N <= N => \E g : Is(g, N + 1 - N)
    <3> HIDE DEF Is
    <3> QED
      BY <2>2
  <2> HIDE DEF Is
  <2> QED
    BY <2>1, <2>3
<1> DEFINE parse[i \in 1 .. Len(bytes) + 1] ==
             CASE i > Len(bytes) -> [messages |-> << >>, index |-> i, bad |-> FALSE]
                 [] i <= Len(bytes) /\ bytes[i] = VERSION ->
                      [parse[i + 1] EXCEPT !.messages = <<<<VERSION>>>> \o @]
                 [] i <= Len(bytes) /\ bytes[i] \notin PacketTypes \cup {VERSION} ->
                      [messages |-> << >>, index |-> i, bad |-> TRUE]
                 [] i <= Len(bytes) /\ bytes[i] \in PacketTypes ->
                      IF Complete(bytes, i)
                      THEN LET next == i + ThisSize(bytes, i)
                           IN  [parse[next] EXCEPT !.messages =
                                  <<SubSeq(bytes, i, next - 1)>> \o @]
                      ELSE [messages |-> << >>, index |-> i, bad |-> FALSE]
<1>5. Is(parse, 1)
  BY <1>4 DEF Cut, N
<1>6. Parse(bytes) = parse[1]
  BY DEF Parse
<1>7. \A i \in 1 .. N + 1 : parse[i] = Cut(parse, bytes, i)
  <2> HIDE DEF parse
  <2> QED
    BY <1>5
<1> HIDE DEF parse
<1> QED
  BY <1>6, <1>7 DEF ParseBy, N


\* Where the message at i ends, if it is all there.
Ends(bytes, i, next) ==
    \/ bytes[i] = VERSION /\ next = i + 1
    \/ /\ bytes[i] \in PacketTypes /\ Complete(bytes, i)
       /\ next = i + ThisSize(bytes, i)

\* What is found further on, with a message before it.
With(found, m) == [found EXCEPT !.messages = <<m>> \o @]

\* The loop goes on to the end of a message or stops.
LEMMA CutCases ==
    ASSUME NEW bytes \in Bytes, NEW i \in 1 .. Len(bytes) + 1, NEW found
    PROVE  \/ \E next \in i + 1 .. Len(bytes) + 1 :
                /\ i <= Len(bytes) /\ Ends(bytes, i, next)
                /\ Cut(found, bytes, i) = With(found[next], SubSeq(bytes, i, next - 1))
           \/ /\ i <= Len(bytes) => ~ \E next : Ends(bytes, i, next)
              /\ \E bad \in BOOLEAN :
                   /\ Cut(found, bytes, i) = Stopped(i, bad)
                   /\ bad => i <= Len(bytes) /\ bytes[i] \notin PacketTypes \cup {VERSION}
<1>0. Len(bytes) \in Nat /\ VERSION \notin PacketTypes
  BY DEF Bytes, VERSION, PacketTypes, FLOW, IMAGE
<1>1. CASE i > Len(bytes)
  <2>1. Cut(found, bytes, i) = Stopped(i, FALSE)
    BY <1>1 DEF Cut, Stopped
  <2>2. ~ (i <= Len(bytes))
    BY <1>0, <1>1
  <2> QED
    BY <2>1, <2>2, Zenon
<1>2. CASE i <= Len(bytes) /\ bytes[i] = VERSION
  <2>1. i + 1 \in i + 1 .. Len(bytes) + 1 /\ (i + 1) - 1 = i
    BY <1>0, <1>2
  <2> DEFINE m == SubSeq(bytes, i, (i + 1) - 1)
  <2>2. m = <<VERSION>>
    <3>1. \A k \in i .. i : bytes[k] \in Nat
      BY <1>2 DEF Bytes
    <3>2. i \in Int /\ i <= i /\ i - i + 1 = 1
      OBVIOUS
    <3>3. m = SubSeq(bytes, i, i)
      BY <2>1
    <3> HIDE DEF m
    <3>4. m \in Seq(Nat) /\ Len(m) = 1 /\ m[1] = bytes[i]
      BY <3>1, <3>2, <3>3, SubSeqProperties
    <3>5. <<VERSION>> \in Seq(Nat) /\ Len(<<VERSION>>) = 1 /\ <<VERSION>>[1] = VERSION
      BY DEF VERSION
    <3>6. \A k \in 1 .. Len(m) : m[k] = <<VERSION>>[k]
      BY <1>2, <3>4, <3>5
    <3> QED
      BY <3>4, <3>5, <3>6, SeqEqual
  <2>3. Cut(found, bytes, i) = With(found[i + 1], m)
    <3>1. Cut(found, bytes, i) = With(found[i + 1], <<VERSION>>)
      <4>1. ~ (i > Len(bytes)) /\ bytes[i] \in PacketTypes \cup {VERSION}
        BY <1>0, <1>2
      <4>2. bytes[i] \notin PacketTypes
        BY <1>0, <1>2
      <4> QED
        BY <1>2, <4>1, <4>2 DEF Cut, With
    <3> QED
      BY <2>2, <3>1
  <2>4. Ends(bytes, i, i + 1)
    BY <1>2 DEF Ends
  <2> QED
    BY <1>2, <2>1, <2>3, <2>4
<1>3. CASE i <= Len(bytes) /\ bytes[i] \in PacketTypes /\ Complete(bytes, i)
  <2> DEFINE next == i + ThisSize(bytes, i)
  <2>1. next \in i + 1 .. Len(bytes) + 1
    BY <1>0, <1>3, NextInBuffer
  <2>2. Cut(found, bytes, i) = With(found[next], SubSeq(bytes, i, next - 1))
    BY <1>0, <1>3 DEF Cut, With
  <2>3. Ends(bytes, i, next)
    BY <1>3 DEF Ends
  <2> QED
    BY <1>3, <2>1, <2>2, <2>3
<1>4. CASE i <= Len(bytes) /\ bytes[i] \in PacketTypes /\ ~ Complete(bytes, i)
  <2>1. Cut(found, bytes, i) = Stopped(i, FALSE)
    BY <1>0, <1>4 DEF Cut, Stopped
  <2>2. ~ \E next : Ends(bytes, i, next)
    BY <1>0, <1>4 DEF Ends
  <2> QED
    BY <2>1, <2>2
<1>5. CASE i <= Len(bytes) /\ bytes[i] \notin PacketTypes \cup {VERSION}
  <2>1. Cut(found, bytes, i) = Stopped(i, TRUE)
    BY <1>0, <1>5 DEF Cut, Stopped
  <2>2. ~ \E next : Ends(bytes, i, next)
    BY <1>5 DEF Ends
  <2> QED
    BY <1>5, <2>1, <2>2
<1> QED
  BY <1>0, <1>1, <1>2, <1>3, <1>4, <1>5

\* What was found from i on are the bytes up to where the loop stopped.
Kept(r, bytes, i) ==
    /\ r \in [messages : Seq(Bytes), index : i .. Len(bytes) + 1, bad : BOOLEAN]
    /\ Flat(r.messages) = SubSeq(bytes, i, r.index - 1)

\* The fields of With.
LEMMA WithRecord ==
    ASSUME NEW r, NEW bytes, NEW i, Kept(r, bytes, i), NEW m
    PROVE  With(r, m) = [messages |-> <<m>> \o r.messages, index |-> r.index, bad |-> r.bad]
<1> DEFINE list == <<m>> \o r.messages
<1>1. r = [messages |-> r.messages, index |-> r.index, bad |-> r.bad]
  BY DEF Kept
<1>2. With(r, m) = [r EXCEPT !.messages = list]
  BY DEF With
<1> HIDE DEF list
<1>3. [r EXCEPT !.messages = list] = [messages |-> list, index |-> r.index, bad |-> r.bad]
  BY <1>1
<1> QED
  BY <1>2, <1>3 DEF list

\* A message more in front of what is found further on.
LEMMA KeptWith ==
    ASSUME NEW bytes \in Bytes, NEW i \in 1 .. Len(bytes),
           NEW next \in i + 1 .. Len(bytes) + 1, NEW r, Kept(r, bytes, next)
    PROVE  Kept(With(r, SubSeq(bytes, i, next - 1)), bytes, i)
<1> DEFINE m == SubSeq(bytes, i, next - 1)
           q == [messages |-> <<m>> \o r.messages, index |-> r.index, bad |-> r.bad]
<1>0. Len(bytes) \in Nat
  BY DEF Bytes
<1>1. m \in Bytes
  <2>1. \A k \in i .. next - 1 : bytes[k] \in Nat
    BY <1>0 DEF Bytes
  <2> QED
    BY <2>1, SubSeqProperties DEF Bytes
<1>2. /\ r \in [messages : Seq(Bytes), index : next .. Len(bytes) + 1, bad : BOOLEAN]
      /\ Flat(r.messages) = SubSeq(bytes, next, r.index - 1)
  BY DEF Kept
<1>3. With(r, m) = q
  BY WithRecord
<1> DEFINE one == <<m>>
<1>4. one \in Seq(Bytes) /\ Flat(one) = m
  <2>1. one = Append(<< >>, m) /\ << >> \in Seq(Bytes)
    OBVIOUS
  <2>2. << >> \o m = m
    BY <1>1, ConcatEmptySeq DEF Bytes
  <2> HIDE DEF m, one
  <2>3. Append(<< >>, m) \in Seq(Bytes)
    BY <1>1, <2>1, AppendProperties
  <2> QED
    BY <1>1, <2>1, <2>2, <2>3, FlatAppend, FlatEmpty
<1>5. r.messages \in Seq(Bytes) /\ r.index \in next .. Len(bytes) + 1 /\ r.bad \in BOOLEAN
  BY <1>2
<1>6. q.messages \in Seq(Bytes) /\ Flat(q.messages) = m \o Flat(r.messages)
  <2> HIDE DEF m, one
  <2>1. q.messages = one \o r.messages
    BY DEF one
  <2> HIDE DEF q
  <2> QED
    BY <1>4, <1>5, <2>1, FlatConcat, ConcatProperties
<1>7. m \o SubSeq(bytes, next, r.index - 1) = SubSeq(bytes, i, r.index - 1)
  <2>1. /\ i \in 1 .. Len(bytes) + 1 /\ next - 1 \in i - 1 .. Len(bytes)
        /\ r.index - 1 \in next - 1 .. Len(bytes) /\ (next - 1) + 1 = next
    BY <1>0, <1>5
  <2>2. bytes \in Seq(Nat)
    BY DEF Bytes
  <2> DEFINE k == next - 1
             n == r.index - 1
  <2> HIDE DEF k, n
  <2>3. SubSeq(bytes, i, k) \o SubSeq(bytes, k + 1, n) = SubSeq(bytes, i, n)
    BY <2>1, <2>2, ConcatAdjacentSubSeq DEF k, n
  <2> QED
    BY <2>1, <2>3 DEF k, n
<1>8. q.index = r.index /\ r.index \in i .. Len(bytes) + 1
  BY <1>0, <1>5
<1> HIDE DEF m
<1>9. Kept(q, bytes, i)
  BY <1>2, <1>5, <1>6, <1>7, <1>8 DEF Kept
<1> QED
  BY <1>3, <1>9 DEF m

\* A fact about everything from i on follows from the end of the buffer.
LEMMA DownFrom ==
    ASSUME NEW N \in Nat, NEW G \in SUBSET (1 .. N + 1),
           \A i \in 1 .. N + 1 : i + 1 .. N + 1 \subseteq G => i \in G
    PROVE  G = 1 .. N + 1
<1> DEFINE T == {k \in Nat : k <= N => N + 1 - k .. N + 1 \subseteq G}
<1>1. 0 \in T
  <2>1. N + 1 \in 1 .. N + 1 /\ (N + 1) + 1 .. N + 1 = {} /\ N + 1 - 0 .. N + 1 = {N + 1}
    OBVIOUS
  <2> QED
    BY <2>1
<1>2. ASSUME NEW k \in T
      PROVE  k + 1 \in T
  <2> SUFFICES ASSUME k + 1 <= N
               PROVE  N + 1 - (k + 1) .. N + 1 \subseteq G
    OBVIOUS
  <2> DEFINE a == N + 1 - (k + 1)
  <2>1. a \in 1 .. N + 1 /\ a + 1 = N + 1 - k
    OBVIOUS
  <2>2. a + 1 .. N + 1 \subseteq G
    BY <2>1
  <2>3. a \in G
    BY <2>1, <2>2
  <2>4. a .. N + 1 = {a} \cup (a + 1 .. N + 1)
    BY <2>1
  <2> HIDE DEF a
  <2> QED
    BY <2>2, <2>3, <2>4 DEF a
<1>3. T = Nat
  <2> HIDE DEF T
  <2> QED
    BY <1>1, <1>2, SetInduction DEF T
<1>4. N + 1 - N .. N + 1 \subseteq G
  <2>1. N <= N
    OBVIOUS
  <2>2. N \in T
    BY <1>3, Zenon
  <2> QED
    BY <2>1, <2>2
<1>5. N + 1 - N = 1
  OBVIOUS
<1> QED
  BY <1>4, <1>5

\* Nothing of a buffer is lost between the messages found and the rest.
LEMMA AllKept ==
    ASSUME NEW bytes \in Bytes, NEW found, ParseBy(found, bytes)
    PROVE  \A i \in 1 .. Len(bytes) + 1 : Kept(found[i], bytes, i)
<1> DEFINE N == Len(bytes)
           G == {i \in 1 .. N + 1 : Kept(found[i], bytes, i)}
<1>0. N \in Nat
  BY DEF Bytes
<1>1. ASSUME NEW i \in 1 .. N + 1, i + 1 .. N + 1 \subseteq G
      PROVE  i \in G
  <2>1. found[i] = Cut(found, bytes, i)
    BY DEF ParseBy
  <2>2. CASE \E next \in i + 1 .. N + 1 :
               /\ i <= N
               /\ Cut(found, bytes, i) = With(found[next], SubSeq(bytes, i, next - 1))
    <3>1. PICK next \in i + 1 .. N + 1 :
            /\ i <= N
            /\ Cut(found, bytes, i) = With(found[next], SubSeq(bytes, i, next - 1))
      BY <2>2
    <3>2. Kept(found[next], bytes, next)
      BY <1>1
    <3>3. i \in 1 .. N
      BY <1>0, <3>1
    <3>4. Kept(With(found[next], SubSeq(bytes, i, next - 1)), bytes, i)
      BY <3>2, <3>3, KeptWith
    <3> QED
      BY <2>1, <3>1, <3>4
  <2>3. CASE \E bad \in BOOLEAN : Cut(found, bytes, i) = Stopped(i, bad)
    <3>1. PICK bad \in BOOLEAN : found[i] = Stopped(i, bad)
      BY <2>1, <2>3
    <3>2. SubSeq(bytes, i, i - 1) = << >>
      BY SubSeqEmpty
    <3>3. << >> \in Seq(Bytes) /\ i \in i .. Len(bytes) + 1
      BY <1>0
    <3>4. Kept(Stopped(i, bad), bytes, i)
      BY <3>2, <3>3, FlatEmpty DEF Stopped, Kept
    <3> QED
      BY <3>1, <3>4
  <2> QED
    BY <2>2, <2>3, CutCases
<1>2. G = 1 .. N + 1
  <2> HIDE DEF G, N
  <2>1. G \in SUBSET (1 .. N + 1)
    BY DEF G
  <2> QED
    BY <1>0, <1>1, <2>1, DownFrom
<1> QED
  BY <1>2


\* The messages the client can take apart.
Whole == {m \in Bytes : Framed(m)}

\* Whole messages are bytes, and at least one.
LEMMA WholeFacts ==
    /\ Seq(Whole) \subseteq Seq(Bytes)
    /\ \A m \in Whole : m \in Bytes /\ Len(m) \in Nat \ {0} /\ Framed(m)
<1>1. Whole \subseteq Bytes
  BY DEF Whole
<1>2. \A m \in Whole : Len(m) \in Nat \ {0}
  BY EmptySeq DEF Whole, Bytes, Framed
<1>3. \A s \in Seq(Whole) : s \in Seq(Bytes)
  BY <1>1, SeqMonotonic
<1> QED
  BY <1>1, <1>2, <1>3 DEF Whole

\* The first message and the others.
LEMMA FirstAndRest ==
    ASSUME NEW S, NEW s \in Seq(S), s # << >>
    PROVE  /\ s[1] \in S /\ Tail(s) \in Seq(S) /\ s = <<s[1]>> \o Tail(s)
           /\ Len(s) \in Nat \ {0} /\ Len(Tail(s)) = Len(s) - 1
           /\ \A j \in 0 .. Len(s) - 1 :
                SubSeq(s, 1, j + 1) = <<s[1]>> \o SubSeq(Tail(s), 1, j)
           /\ \A j \in 1 .. Len(s) - 1 : Tail(s)[j] = s[j + 1]
<1>1. /\ Tail(s) \in Seq(S) /\ Len(Tail(s)) = Len(s) - 1
      /\ \A j \in 1 .. Len(Tail(s)) : Tail(s)[j] = s[j + 1]
  BY HeadTailProperties
<1>2. Len(s) \in Nat \ {0}
  BY EmptySeq
<1>3. s[1] \in S
  BY <1>2, ElementOfSeq
<1>4. Tail(s) = SubSeq(s, 2, Len(s))
  BY TailIsSubSeq
<1>5. ASSUME NEW j \in 0 .. Len(s) - 1
      PROVE  SubSeq(s, 1, j + 1) = <<s[1]>> \o SubSeq(Tail(s), 1, j)
  <2>1. SubSeq(s, 2, j + 1) = SubSeq(Tail(s), 1, j)
    <3>1. CASE j = 0
      <4>1. SubSeq(s, 2, 1) = << >> /\ SubSeq(Tail(s), 1, 0) = << >>
        BY SubSeqEmpty
      <4> QED
        BY <3>1, <4>1
    <3>2. CASE j # 0
      <4>1. /\ 2 \in 1 .. Len(s) /\ Len(s) \in 1 .. Len(s)
            /\ 1 \in 1 .. Len(s) - 2 + 1 /\ j \in 1 .. Len(s) - 2 + 1
            /\ 2 + 1 - 1 = 2 /\ 2 + j - 1 = j + 1
        BY <1>2, <3>2
      <4>2. SubSeq(SubSeq(s, 2, Len(s)), 1, j) = SubSeq(s, 2 + 1 - 1, 2 + j - 1)
        BY <4>1, SubSeqOfSubSeq
      <4> QED
        BY <1>4, <4>1, <4>2
    <3> QED
      BY <3>1, <3>2
  <2>2. 1 \in 1 .. Len(s) /\ j + 1 \in 1 .. Len(s) /\ 1 + 1 = 2
    BY <1>2
  <2>3. SubSeq(s, 1, j + 1) = <<s[1]>> \o SubSeq(s, 1 + 1, j + 1)
    BY <2>2, SubSeqRecursiveFirst
  <2> QED
    BY <2>1, <2>2, <2>3
<1>6. s = <<s[1]>> \o Tail(s)
  <2>1. Len(s) - 1 \in 0 .. Len(s) - 1 /\ (Len(s) - 1) + 1 = Len(s)
    BY <1>2
  <2>2. SubSeq(s, 1, Len(s)) = s /\ SubSeq(Tail(s), 1, Len(s) - 1) = Tail(s)
    BY <1>1, SubSeqFull
  <2>3. SubSeq(s, 1, (Len(s) - 1) + 1) = <<s[1]>> \o SubSeq(Tail(s), 1, Len(s) - 1)
    BY <1>5, <2>1
  <2> QED
    BY <2>1, <2>2, <2>3
<1> QED
  BY <1>1, <1>2, <1>3, <1>5, <1>6

\* The bytes of the first message come first.
LEMMA FlatFirst ==
    ASSUME NEW s \in Seq(Bytes), s # << >>
    PROVE  Flat(s) = s[1] \o Flat(Tail(s))
<1> DEFINE m == s[1]
           one == <<m>>
<1>1. m \in Bytes /\ Tail(s) \in Seq(Bytes) /\ s = one \o Tail(s)
  BY FirstAndRest
<1>2. one = Append(<< >>, m) /\ << >> \in Seq(Bytes)
  OBVIOUS
<1> HIDE DEF m, one
<1>3. << >> \o m = m
  BY <1>1, ConcatEmptySeq DEF Bytes
<1>4. one \in Seq(Bytes) /\ Flat(one) = m
  BY <1>1, <1>2, <1>3, AppendProperties, FlatAppend, FlatEmpty
<1>5. Flat(one \o Tail(s)) = Flat(one) \o Flat(Tail(s))
  BY <1>1, <1>4, FlatConcat
<1> QED
  BY <1>1, <1>4, <1>5 DEF m

\* The messages s are what the buffer from i on and the bytes still to come
\* consist of.
Ahead(s, bytes, i, rest) == Flat(s) = SubSeq(bytes, i, Len(bytes)) \o rest

\* The part of the buffer from i on, byte by byte.
LEMMA FromBytes ==
    ASSUME NEW bytes \in Bytes, NEW i \in 1 .. Len(bytes)
    PROVE  /\ SubSeq(bytes, i, Len(bytes)) \in Bytes
           /\ Len(SubSeq(bytes, i, Len(bytes))) = Len(bytes) - i + 1
           /\ \A k \in 1 .. Len(bytes) - i + 1 :
                SubSeq(bytes, i, Len(bytes))[k] = bytes[i + k - 1]
<1>1. Len(bytes) \in Nat /\ bytes \in Seq(Nat)
  BY DEF Bytes
<1>2. \A k \in i .. Len(bytes) : bytes[k] \in Nat
  BY <1>1, ElementOfSeq
<1>3. i \in Int /\ Len(bytes) \in Int /\ i <= Len(bytes)
  BY <1>1
<1> QED
  BY <1>2, <1>3, SubSeqProperties DEF Bytes

\* The bytes of the first message, as far as they have come.
LEMMA HeadBytes ==
    ASSUME NEW bytes \in Bytes, NEW rest \in Bytes, NEW i \in 1 .. Len(bytes),
           NEW s \in Seq(Bytes), Ahead(s, bytes, i, rest)
    PROVE  /\ s # << >>
           /\ \A k \in 1 .. Len(bytes) - i + 1 : k <= Len(s[1]) => bytes[i + k - 1] = s[1][k]
<1> DEFINE from == SubSeq(bytes, i, Len(bytes))
<1>0. Len(bytes) - i + 1 \in Nat \ {0}
  BY DEF Bytes
<1>1. /\ from \in Bytes /\ Len(from) = Len(bytes) - i + 1
      /\ \A k \in 1 .. Len(bytes) - i + 1 : from[k] = bytes[i + k - 1]
  BY FromBytes
<1>2. Flat(s) = from \o rest
  BY DEF Ahead
<1> HIDE DEF from
<1>3. \A k \in 1 .. Len(from) : Flat(s)[k] = from[k]
  <2> SUFFICES ASSUME NEW k \in 1 .. Len(from)
               PROVE  Flat(s)[k] = from[k]
    OBVIOUS
  <2>1. from \in Seq(Nat) /\ rest \in Seq(Nat)
    BY <1>1 DEF Bytes
  <2>2. \A q \in 1 .. Len(from) + Len(rest) :
           (from \o rest)[q] = IF q <= Len(from) THEN from[q] ELSE rest[q - Len(from)]
    BY <2>1, ConcatProperties
  <2>3. k \in 1 .. Len(from) + Len(rest) /\ k <= Len(from)
    BY <2>1
  <2> QED
    BY <1>2, <2>2, <2>3
<1>4. s # << >>
  <2> SUFFICES ASSUME s = << >>
               PROVE  FALSE
    OBVIOUS
  <2>1. from \o rest = << >>
    BY <1>2, FlatEmpty
  <2>2. from = << >>
    BY <1>1, <2>1, ConcatEqualIffEmpty DEF Bytes
  <2> QED
    BY <1>0, <1>1, <2>2
<1> DEFINE m == s[1]
           more == Flat(Tail(s))
<1>5. m \in Bytes /\ more \in Bytes /\ Flat(s) = m \o more
  BY <1>4, FirstAndRest, FlatFirst, FlatConcat
<1> HIDE DEF m, more
<1>6. \A k \in 1 .. Len(m) : Flat(s)[k] = m[k]
  <2> SUFFICES ASSUME NEW k \in 1 .. Len(m)
               PROVE  Flat(s)[k] = m[k]
    OBVIOUS
  <2>1. m \in Seq(Nat) /\ more \in Seq(Nat)
    BY <1>5 DEF Bytes
  <2>2. \A q \in 1 .. Len(m) + Len(more) :
           (m \o more)[q] = IF q <= Len(m) THEN m[q] ELSE more[q - Len(m)]
    BY <2>1, ConcatProperties
  <2>3. k \in 1 .. Len(m) + Len(more) /\ k <= Len(m)
    BY <2>1
  <2> QED
    BY <1>5, <2>2, <2>3
<1>7. \A k \in 1 .. Len(bytes) - i + 1 : k <= Len(m) => bytes[i + k - 1] = m[k]
  <2> SUFFICES ASSUME NEW k \in 1 .. Len(bytes) - i + 1, k <= Len(m)
               PROVE  bytes[i + k - 1] = m[k]
    OBVIOUS
  <2>1. k \in 1 .. Len(from) /\ k \in 1 .. Len(m)
    BY <1>0, <1>1, <1>5 DEF Bytes
  <2> QED
    BY <1>1, <1>3, <1>6, <2>1
<1> QED
  BY <1>4, <1>7 DEF m

\* The loop cuts the first message off where it ends, or waits for the rest.
LEMMA HeadCut ==
    ASSUME NEW bytes \in Bytes, NEW rest \in Bytes, NEW i \in 1 .. Len(bytes),
           NEW s \in Seq(Whole), Ahead(s, bytes, i, rest)
    PROVE  /\ s # << >>
           /\ bytes[i] \in PacketTypes \cup {VERSION}
           /\ \A next : Ends(bytes, i, next) =>
                next = i + Len(s[1]) /\ Len(s[1]) <= Len(bytes) - i + 1
           /\ Len(s[1]) <= Len(bytes) - i + 1 => Ends(bytes, i, i + Len(s[1]))
<1> DEFINE m == s[1]
           left == Len(bytes) - i + 1
<1>1. s \in Seq(Bytes)
  BY WholeFacts
<1>2. s # << >> /\ \A k \in 1 .. left : k <= Len(m) => bytes[i + k - 1] = m[k]
  BY <1>1, HeadBytes
<1>3. m \in Whole
  BY <1>2, FirstAndRest
<1>4. m \in Bytes /\ Len(m) \in Nat \ {0} /\ Framed(m)
  BY <1>3, WholeFacts
<1>5. left \in Nat \ {0} /\ i + 1 - 1 = i
  BY DEF Bytes
<1> HIDE DEF m
<1>6. bytes[i] = m[1]
  BY <1>2, <1>4, <1>5
<1>7. VERSION \notin PacketTypes
  BY DEF VERSION, PacketTypes, FLOW, IMAGE
<1>8. CASE m = <<VERSION>>
  <2>1. Len(m) = 1 /\ m[1] = VERSION
    BY <1>8
  <2>2. bytes[i] = VERSION
    BY <1>6, <2>1
  <2>3. \A next : Ends(bytes, i, next) => next = i + Len(m)
    BY <1>7, <2>1, <2>2 DEF Ends
  <2>4. Ends(bytes, i, i + Len(m)) /\ Len(m) <= left
    BY <1>5, <2>1, <2>2 DEF Ends
  <2> QED
    BY <1>2, <2>2, <2>3, <2>4 DEF m
<1>9. CASE m[1] \in PacketTypes /\ Len(m) >= FixedSize[m[1]] /\ Len(m) = ThisSize(m, 1)
  <2> DEFINE fixed == FixedSize[m[1]]
  <2>1. fixed \in Nat \ {0}
    BY <1>9, FixedSizeAssumption
  <2>2. Len(m) >= fixed
    BY <1>9
  <2> HIDE DEF fixed
  <2>3. left >= fixed => ThisSize(bytes, i) = Len(m)
    <3> SUFFICES ASSUME left >= fixed
                 PROVE  ThisSize(bytes, i) = Len(m)
      OBVIOUS
    <3>1. fixed \in 1 .. left /\ fixed <= Len(m)
      BY <1>5, <2>1, <2>2
    <3>2. bytes[i + fixed - 1] = m[fixed]
      BY <1>2, <3>1
    <3>3. 1 + fixed - 1 = fixed
      BY <2>1
    <3>4. ThisSize(m, 1) = fixed + (IF m[1] \in {DESCRIPTOR, IMAGE} THEN m[fixed] ELSE 0)
      BY <3>3 DEF ThisSize, fixed
    <3>5. ThisSize(bytes, i) = fixed + (IF m[1] \in {DESCRIPTOR, IMAGE}
                                        THEN bytes[i + fixed - 1] ELSE 0)
      BY <1>6 DEF ThisSize, fixed
    <3> QED
      BY <1>9, <3>2, <3>4, <3>5
  <2>4. Complete(bytes, i) <=> left >= fixed /\ left >= ThisSize(bytes, i)
    BY <1>6 DEF Complete, fixed
  <2>5. Complete(bytes, i) <=> left >= Len(m)
    <3>1. left >= Len(m) => left >= fixed
      BY <1>4, <1>5, <2>1, <2>2
    <3> HIDE DEF left
    <3> QED
      BY <2>3, <2>4, <3>1
  <2>6. bytes[i] \in PacketTypes
    BY <1>6, <1>9
  <2>7. Complete(bytes, i) => ThisSize(bytes, i) = Len(m)
    BY <2>3, <2>4
  <2>8. \A next : Ends(bytes, i, next) => next = i + Len(m) /\ left >= Len(m)
    BY <1>7, <2>5, <2>6, <2>7 DEF Ends
  <2>9. left >= Len(m) => Ends(bytes, i, i + Len(m))
    BY <2>5, <2>6, <2>7 DEF Ends
  <2>10. left >= Len(m) <=> Len(m) <= left
    BY <1>4, <1>5
  <2> HIDE DEF left
  <2> QED
    BY <1>2, <2>6, <2>8, <2>9, <2>10 DEF m, left
<1> QED
  BY <1>4, <1>8, <1>9 DEF Framed

\* What is ahead after the first message.
LEMMA RestAhead ==
    ASSUME NEW bytes \in Bytes, NEW rest \in Bytes, NEW i \in 1 .. Len(bytes),
           NEW s \in Seq(Whole), Ahead(s, bytes, i, rest),
           Len(s[1]) <= Len(bytes) - i + 1
    PROVE  /\ SubSeq(bytes, i, i + Len(s[1]) - 1) = s[1]
           /\ Ahead(Tail(s), bytes, i + Len(s[1]), rest)
<1> DEFINE m == s[1]
           more == Flat(Tail(s))
           n == Len(m)
           cut == SubSeq(bytes, i, i + n - 1)
           after == SubSeq(bytes, i + n, Len(bytes))
<1>0. Len(bytes) \in Nat /\ bytes \in Seq(Nat)
  BY DEF Bytes
<1>1. s \in Seq(Bytes)
  BY WholeFacts
<1>2. s # << >> /\ \A k \in 1 .. Len(bytes) - i + 1 : k <= n => bytes[i + k - 1] = m[k]
  BY <1>1, HeadBytes
<1>3. m \in Whole
  BY <1>2, FirstAndRest
<1>4. m \in Seq(Nat) /\ n \in Nat \ {0}
  BY <1>3, WholeFacts DEF Bytes
<1>5. more \in Seq(Nat) /\ Flat(s) = m \o more
  BY <1>1, <1>2, FirstAndRest, FlatFirst, FlatConcat DEF Bytes
<1>6. Len(m) <= Len(bytes) - i + 1
  OBVIOUS
<1> HIDE DEF m, more
<1>7. cut = m
  <2>1. \A k \in i .. i + n - 1 : bytes[k] \in Nat
    BY <1>0, <1>4, <1>6, ElementOfSeq
  <2>2. i \in Int /\ i + n - 1 \in Int /\ i <= i + n - 1 /\ (i + n - 1) - i + 1 = n
    BY <1>4
  <2>3. /\ cut \in Seq(Nat) /\ Len(cut) = n
        /\ \A k \in 1 .. n : cut[k] = bytes[i + k - 1]
    <3> DEFINE e == i + n - 1
    <3>1. \A k \in i .. e : bytes[k] \in Nat
      BY <2>1
    <3>2. i \in Int /\ e \in Int /\ i <= e /\ e - i + 1 = n
      BY <2>2
    <3> HIDE DEF e, n
    <3>3. /\ SubSeq(bytes, i, e) \in Seq(Nat) /\ Len(SubSeq(bytes, i, e)) = n
          /\ \A k \in 1 .. n : SubSeq(bytes, i, e)[k] = bytes[i + k - 1]
      BY <3>1, <3>2, SubSeqProperties
    <3> QED
      BY <3>3 DEF e
  <2> HIDE DEF cut
  <2>4. \A k \in 1 .. n : cut[k] = m[k]
    BY <1>0, <1>2, <1>4, <1>6, <2>3
  <2> QED
    BY <1>4, <2>3, <2>4, SeqEqual
<1>8. cut \o after = SubSeq(bytes, i, Len(bytes)) /\ after \in Seq(Nat)
  <2> DEFINE e == i + n - 1
  <2>1. /\ i \in 1 .. Len(bytes) + 1 /\ e \in i - 1 .. Len(bytes)
        /\ Len(bytes) \in e .. Len(bytes) /\ e + 1 = i + n
    BY <1>0, <1>4, <1>6
  <2> HIDE DEF e
  <2>2. SubSeq(bytes, i, e) \o SubSeq(bytes, e + 1, Len(bytes)) = SubSeq(bytes, i, Len(bytes))
    BY <1>0, <2>1, ConcatAdjacentSubSeq
  <2>3. \A k \in e + 1 .. Len(bytes) : bytes[k] \in Nat
    BY <1>0, <2>1, ElementOfSeq
  <2>4. SubSeq(bytes, e + 1, Len(bytes)) \in Seq(Nat)
    <3>1. e + 1 \in Int /\ Len(bytes) \in Int
      BY <1>0, <2>1
    <3> QED
      BY <2>3, <3>1, SubSeqProperties
  <2> QED
    BY <2>1, <2>2, <2>4 DEF e
<1> HIDE DEF cut, after, n
<1>9. m \o more = m \o (after \o rest)
  <2>1. Flat(s) = (m \o after) \o rest
    BY <1>7, <1>8 DEF Ahead
  <2>2. (m \o after) \o rest = m \o (after \o rest)
    BY <1>4, <1>8, BytesAssociate DEF Bytes
  <2> QED
    BY <1>5, <2>1, <2>2
<1>10. after \o rest \in Seq(Nat)
  BY <1>8, ConcatProperties DEF Bytes
<1>11. more = after \o rest
  BY <1>4, <1>5, <1>9, <1>10, ConcatSimplifications
<1> QED
  BY <1>7, <1>11 DEF Ahead, m, more, after, cut, n


\* The first j of the messages ahead are found, and the next has not come.
FoundFirst(r, bytes, s, j) ==
    /\ r.messages = SubSeq(s, 1, j) /\ ~ r.bad
    /\ j < Len(s) => Len(bytes) - r.index + 1 < Len(s[j + 1])

\* Whatever whole messages the buffer is the beginning of from i on, those are
\* found whose last byte has come.
InStep(r, bytes, i) ==
    \A s \in Seq(Whole), rest \in Bytes :
      Ahead(s, bytes, i, rest) => \E j \in 0 .. Len(s) : FoundFirst(r, bytes, s, j)

\* In step behind a message, in step before it.
LEMMA InStepWith ==
    ASSUME NEW bytes \in Bytes, NEW i \in 1 .. Len(bytes),
           NEW next \in i + 1 .. Len(bytes) + 1, Ends(bytes, i, next),
           NEW r, Kept(r, bytes, next), InStep(r, bytes, next)
    PROVE  InStep(With(r, SubSeq(bytes, i, next - 1)), bytes, i)
<1> SUFFICES ASSUME NEW s \in Seq(Whole), NEW rest \in Bytes, Ahead(s, bytes, i, rest)
             PROVE  \E j \in 0 .. Len(s) :
                      FoundFirst(With(r, SubSeq(bytes, i, next - 1)), bytes, s, j)
  BY DEF InStep
<1> DEFINE q == With(r, SubSeq(bytes, i, next - 1))
<1>1. s # << >> /\ next = i + Len(s[1]) /\ Len(s[1]) <= Len(bytes) - i + 1
  BY HeadCut
<1>2. /\ SubSeq(bytes, i, next - 1) = s[1]
      /\ Ahead(Tail(s), bytes, next, rest)
  BY <1>1, RestAhead
<1>3. q = [messages |-> <<s[1]>> \o r.messages, index |-> r.index, bad |-> r.bad]
  <2>1. With(r, s[1]) = [messages |-> <<s[1]>> \o r.messages, index |-> r.index, bad |-> r.bad]
    BY WithRecord
  <2> QED
    BY <1>2, <2>1
<1>4. /\ Tail(s) \in Seq(Whole) /\ Len(s) \in Nat \ {0} /\ Len(Tail(s)) = Len(s) - 1
      /\ \A j \in 0 .. Len(s) - 1 :
           SubSeq(s, 1, j + 1) = <<s[1]>> \o SubSeq(Tail(s), 1, j)
      /\ \A j \in 1 .. Len(s) - 1 : Tail(s)[j] = s[j + 1]
  BY <1>1, FirstAndRest
<1>5. PICK j \in 0 .. Len(Tail(s)) : FoundFirst(r, bytes, Tail(s), j)
  BY <1>2, <1>4 DEF InStep
<1>6. r.messages = SubSeq(Tail(s), 1, j) /\ ~ r.bad
  BY <1>5 DEF FoundFirst
<1>7. q.messages = <<s[1]>> \o r.messages /\ q.index = r.index /\ q.bad = r.bad
  BY <1>3
<1> HIDE DEF q
<1>8. j \in 0 .. Len(s) - 1 /\ j + 1 \in 0 .. Len(s)
  BY <1>4
<1>9. q.messages = SubSeq(s, 1, j + 1) /\ ~ q.bad
  BY <1>4, <1>6, <1>7, <1>8
<1>10. j + 1 < Len(s) => Len(bytes) - q.index + 1 < Len(s[(j + 1) + 1])
  <2> SUFFICES ASSUME j + 1 < Len(s)
               PROVE  Len(bytes) - q.index + 1 < Len(s[(j + 1) + 1])
    OBVIOUS
  <2>1. j < Len(Tail(s)) /\ j + 1 \in 1 .. Len(s) - 1
    BY <1>4, <1>8
  <2>2. Len(bytes) - r.index + 1 < Len(Tail(s)[j + 1])
    BY <1>5, <2>1 DEF FoundFirst
  <2>3. Tail(s)[j + 1] = s[(j + 1) + 1]
    BY <1>4, <2>1
  <2> QED
    BY <1>7, <2>2, <2>3
<1>11. FoundFirst(q, bytes, s, j + 1)
  BY <1>9, <1>10 DEF FoundFirst
<1> QED
  BY <1>8, <1>11 DEF q

\* In step where the loop waits for the rest of a message.
LEMMA InStepStopped ==
    ASSUME NEW bytes \in Bytes, NEW i \in 1 .. Len(bytes) + 1, NEW bad \in BOOLEAN,
           i <= Len(bytes) => ~ \E next : Ends(bytes, i, next),
           bad => i <= Len(bytes) /\ bytes[i] \notin PacketTypes \cup {VERSION}
    PROVE  InStep(Stopped(i, bad), bytes, i)
<1> SUFFICES ASSUME NEW s \in Seq(Whole), NEW rest \in Bytes, Ahead(s, bytes, i, rest)
             PROVE  FoundFirst(Stopped(i, bad), bytes, s, 0) /\ 0 \in 0 .. Len(s)
  BY DEF InStep
<1> DEFINE r == Stopped(i, bad)
<1>1. r.messages = << >> /\ r.index = i /\ r.bad = bad
  BY DEF Stopped
<1> HIDE DEF r
<1>2. Len(bytes) \in Nat /\ Len(s) \in Nat /\ 0 \in 0 .. Len(s)
  BY DEF Bytes
<1>3. SubSeq(s, 1, 0) = << >>
  BY SubSeqEmpty
<1>4. ~ bad /\ (0 < Len(s) => Len(bytes) - i + 1 < Len(s[0 + 1]))
  <2>1. CASE i = Len(bytes) + 1
    <3>1. ~ bad
      BY <1>2, <2>1
    <3>2. 0 < Len(s) => Len(s[1]) \in Nat \ {0}
      <4> SUFFICES ASSUME 0 < Len(s)
                   PROVE  Len(s[1]) \in Nat \ {0}
        OBVIOUS
      <4>1. 1 \in 1 .. Len(s)
        BY <1>2
      <4> QED
        BY <4>1, ElementOfSeq, WholeFacts
    <3> QED
      BY <1>2, <2>1, <3>1, <3>2
  <2>2. CASE i # Len(bytes) + 1
    <3>1. i \in 1 .. Len(bytes)
      BY <1>2, <2>2
    <3>2. /\ s # << >> /\ bytes[i] \in PacketTypes \cup {VERSION}
          /\ Len(s[1]) <= Len(bytes) - i + 1 => Ends(bytes, i, i + Len(s[1]))
      BY <3>1, HeadCut
    <3>3. ~ (Len(s[1]) <= Len(bytes) - i + 1)
      BY <3>1, <3>2
    <3>4. Len(s[1]) \in Nat
      BY <3>2, FirstAndRest, WholeFacts
    <3>5. ~ bad
      BY <3>2
    <3> QED
      BY <1>2, <3>3, <3>4, <3>5
  <2> QED
    BY <2>1, <2>2
<1> QED
  BY <1>1, <1>2, <1>3, <1>4 DEF FoundFirst, r

\* The loop is in step, wherever a message starts.
LEMMA AllInStep ==
    ASSUME NEW bytes \in Bytes, NEW found, ParseBy(found, bytes)
    PROVE  \A i \in 1 .. Len(bytes) + 1 : InStep(found[i], bytes, i)
<1> DEFINE N == Len(bytes)
           G == {i \in 1 .. N + 1 : InStep(found[i], bytes, i)}
<1>0. N \in Nat
  BY DEF Bytes
<1>1. ASSUME NEW i \in 1 .. N + 1, i + 1 .. N + 1 \subseteq G
      PROVE  i \in G
  <2>1. found[i] = Cut(found, bytes, i)
    BY DEF ParseBy
  <2>2. CASE \E next \in i + 1 .. N + 1 :
               /\ i <= N /\ Ends(bytes, i, next)
               /\ Cut(found, bytes, i) = With(found[next], SubSeq(bytes, i, next - 1))
    <3>1. PICK next \in i + 1 .. N + 1 :
            /\ i <= N /\ Ends(bytes, i, next)
            /\ Cut(found, bytes, i) = With(found[next], SubSeq(bytes, i, next - 1))
      BY <2>2
    <3>2. InStep(found[next], bytes, next)
      BY <1>1
    <3>3. i \in 1 .. N /\ next \in 1 .. N + 1
      BY <1>0, <3>1
    <3>4. Kept(found[next], bytes, next)
      BY <3>3, AllKept
    <3>5. InStep(With(found[next], SubSeq(bytes, i, next - 1)), bytes, i)
      BY <3>1, <3>2, <3>3, <3>4, InStepWith
    <3> QED
      BY <2>1, <3>1, <3>5
  <2>3. CASE /\ i <= N => ~ \E next : Ends(bytes, i, next)
             /\ \E bad \in BOOLEAN :
                  /\ Cut(found, bytes, i) = Stopped(i, bad)
                  /\ bad => i <= N /\ bytes[i] \notin PacketTypes \cup {VERSION}
    <3>1. PICK bad \in BOOLEAN :
            /\ found[i] = Stopped(i, bad)
            /\ bad => i <= N /\ bytes[i] \notin PacketTypes \cup {VERSION}
      BY <2>1, <2>3
    <3>2. InStep(Stopped(i, bad), bytes, i)
      BY <2>3, <3>1, InStepStopped
    <3> QED
      BY <3>1, <3>2
  <2> QED
    BY <2>2, <2>3, CutCases
<1>2. G = 1 .. N + 1
  <2> HIDE DEF G, N
  <2>1. G \in SUBSET (1 .. N + 1)
    BY DEF G
  <2> QED
    BY <1>0, <1>1, <2>1, DownFrom
<1> QED
  BY <1>2

\* What the loop of updateTCPSocket makes of a buffer: no byte is lost, and a
\* buffer that begins with whole messages is cut into these.
LEMMA ParseFacts ==
    ASSUME NEW bytes \in Bytes
    PROVE  LET found == Parse(bytes)
           IN  /\ found.messages \in Seq(Bytes) /\ found.bad \in BOOLEAN
               /\ found.index \in 1 .. Len(bytes) + 1
               /\ From(bytes, found.index) \in Bytes
               /\ Len(From(bytes, found.index)) = Len(bytes) - found.index + 1
               /\ Flat(found.messages) \o From(bytes, found.index) = bytes
               /\ \A s \in Seq(Whole), rest \in Bytes :
                    Flat(s) = bytes \o rest =>
                      \E j \in 0 .. Len(s) : FoundFirst(found, bytes, s, j)
<1>0. Len(bytes) \in Nat /\ bytes \in Seq(Nat)
  BY DEF Bytes
<1>1. PICK found : ParseBy(found, bytes)
  BY ParseLoop
<1>2. 1 \in 1 .. Len(bytes) + 1
  BY <1>0
<1> DEFINE r == found[1]
<1>3. Parse(bytes) = r /\ Kept(r, bytes, 1) /\ InStep(r, bytes, 1)
  BY <1>1, <1>2, AllKept, AllInStep DEF ParseBy
<1> HIDE DEF r
<1>4. /\ r.messages \in Seq(Bytes) /\ r.bad \in BOOLEAN /\ r.index \in 1 .. Len(bytes) + 1
      /\ Flat(r.messages) = SubSeq(bytes, 1, r.index - 1)
  BY <1>3 DEF Kept
<1> DEFINE k == r.index
<1>5. k \in 1 .. Len(bytes) + 1
  BY <1>4
<1> HIDE DEF k
<1>6. From(bytes, k) \in Bytes /\ Len(From(bytes, k)) = Len(bytes) - k + 1
  <2>1. \A n \in k .. Len(bytes) : bytes[n] \in Nat
    BY <1>0, <1>5, ElementOfSeq
  <2>2. k \in Int /\ Len(bytes) \in Int
    BY <1>0, <1>5
  <2>3. /\ SubSeq(bytes, k, Len(bytes)) \in Seq(Nat)
        /\ Len(SubSeq(bytes, k, Len(bytes))) = IF k <= Len(bytes) THEN Len(bytes) - k + 1 ELSE 0
    BY <2>1, <2>2, SubSeqProperties
  <2>4. (IF k <= Len(bytes) THEN Len(bytes) - k + 1 ELSE 0) = Len(bytes) - k + 1
    BY <1>0, <1>5
  <2> QED
    BY <2>3, <2>4 DEF From, Bytes
<1>7. SubSeq(bytes, 1, k - 1) \o From(bytes, k) = bytes
  <2> DEFINE e == k - 1
  <2>1. /\ 1 \in 1 .. Len(bytes) + 1 /\ e \in 1 - 1 .. Len(bytes)
        /\ Len(bytes) \in e .. Len(bytes) /\ e + 1 = k
    BY <1>0, <1>5
  <2> HIDE DEF e
  <2>2. SubSeq(bytes, 1, e) \o SubSeq(bytes, e + 1, Len(bytes)) = SubSeq(bytes, 1, Len(bytes))
    BY <1>0, <2>1, ConcatAdjacentSubSeq
  <2>3. SubSeq(bytes, 1, Len(bytes)) = bytes
    BY <1>0, SubSeqFull
  <2> QED
    BY <2>1, <2>2, <2>3 DEF e, From
<1>8. ASSUME NEW s \in Seq(Whole), NEW rest \in Bytes, Flat(s) = bytes \o rest
      PROVE  \E j \in 0 .. Len(s) : FoundFirst(r, bytes, s, j)
  <2>1. SubSeq(bytes, 1, Len(bytes)) = bytes
    BY <1>0, SubSeqFull
  <2>2. Ahead(s, bytes, 1, rest)
    BY <1>8, <2>1 DEF Ahead
  <2> QED
    BY <1>3, <2>2 DEF InStep
<1> QED
  BY <1>3, <1>4, <1>6, <1>7, <1>8 DEF k


\* Both sides have an image.  Without one its header is not a message.
ImagesConfigured ==
    \A images \in Images : images[1] # << >> /\ images[2] # << >>

\* What a connection can carry: the messages of the channel.
AllMessages ==
    {<<VERSION>>} \cup ToSet(Colours) \cup Messages
      \cup {ImageMessage(images[i]) : images \in Images, i \in {1, 2}}

\* The header of an image says how long the image is.
LEMMA ImageIsWhole ==
    ASSUME NEW image \in Seq(Nat), image # << >>
    PROVE  ImageMessage(image) \in Whole
<1> DEFINE F == FixedSize[IMAGE]
           header == [i \in 1 .. F |->
                        CASE i = 1 -> IMAGE [] i = F -> Len(image) [] OTHER -> 0]
           m == header \o image
<1>1. F \in Nat /\ F > 1 /\ IMAGE \in PacketTypes /\ IMAGE = 5
  BY FixedSizeAssumption DEF IMAGE, FLOW, PacketTypes
<1> HIDE DEF F
<1>2. Len(image) \in Nat
  OBVIOUS
<1>3. header \in Seq(Nat) /\ Len(header) = F /\ header[1] = IMAGE /\ header[F] = Len(image)
  <2>1. header \in [1 .. F -> Nat]
    BY <1>1, <1>2
  <2>2. 1 \in 1 .. F /\ F \in 1 .. F /\ F # 1
    BY <1>1
  <2> QED
    BY <1>1, <1>2, <2>1, <2>2
<1>4. ImageMessage(image) = m
  BY DEF ImageMessage, F
<1> HIDE DEF header
<1>5. /\ m \in Seq(Nat) /\ Len(m) = F + Len(image)
      /\ m[1] = IMAGE /\ m[F] = Len(image)
  <2>1. /\ m \in Seq(Nat) /\ Len(m) = F + Len(image)
        /\ \A i \in 1 .. F + Len(image) :
             m[i] = IF i <= F THEN header[i] ELSE image[i - F]
    BY <1>3, ConcatProperties
  <2> HIDE DEF m
  <2>2. 1 \in 1 .. F + Len(image) /\ F \in 1 .. F + Len(image) /\ 1 <= F /\ F <= F
    BY <1>1, <1>2
  <2> QED
    BY <1>3, <2>1, <2>2
<1> HIDE DEF m
<1>6. ThisSize(m, 1) = F + Len(image)
  <2>1. 1 + F - 1 = F
    BY <1>1
  <2> QED
    BY <1>5, <2>1 DEF ThisSize, F
<1>7. Len(m) >= FixedSize[m[1]]
  <2>1. FixedSize[m[1]] = F
    BY <1>5 DEF F
  <2>2. Len(m) >= F
    BY <1>1, <1>2, <1>5
  <2> QED
    BY <2>1, <2>2
<1>8. m # << >>
  BY <1>1, <1>2, <1>5
<1>9. Framed(m)
  BY <1>1, <1>5, <1>6, <1>7, <1>8 DEF Framed
<1> QED
  BY <1>4, <1>5, <1>9 DEF Whole, Bytes

\* VERSION is a message.
LEMMA VersionIsWhole == <<VERSION>> \in Whole
<1>1. <<VERSION>> \in Seq(Nat) /\ <<VERSION>> # << >>
  BY DEF VERSION
<1> QED
  BY <1>1 DEF Whole, Framed, Bytes

\* All that is sent can be taken apart.
LEMMA AllAreWhole ==
    ASSUME ImagesConfigured
    PROVE  AllMessages \subseteq Whole
<1>1. ToSet(Colours) \subseteq Whole
  <2> SUFFICES ASSUME NEW i \in DOMAIN Colours
               PROVE  Colours[i] \in Whole
    BY DEF ToSet
  <2>1. i \in 1 .. Len(Colours) /\ Colours \in Seq(Seq(Nat))
    BY MessagesAssumption
  <2> QED
    BY <2>1, MessagesAssumption, ElementOfSeq DEF Whole, Bytes
<1>2. Messages \subseteq Whole
  BY MessagesAssumption DEF Whole, Framed, Bytes
<1>3. \A images \in Images : \A i \in {1, 2} : ImageMessage(images[i]) \in Whole
  BY ImagesAssumption, ImageIsWhole DEF ImagesConfigured
<1> QED
  BY <1>1, <1>2, <1>3, VersionIsWhole DEF AllMessages

\* The greeting consists of messages.
LEMMA GreetingIsMessages ==
    ASSUME NEW images \in Images
    PROVE  Greeting(images) \in Seq(AllMessages)
<1> DEFINE a == ImageMessage(images[1])
           b == ImageMessage(images[2])
           v == <<VERSION>>
<1>1. a \in AllMessages /\ b \in AllMessages /\ v \in AllMessages
  BY DEF AllMessages
<1>2. Colours \in Seq(AllMessages)
  <2>1. Colours \in Seq(Seq(Nat))
    BY MessagesAssumption
  <2>2. Colours \in [1 .. Len(Colours) -> Seq(Nat)] /\ Len(Colours) \in Nat
    BY <2>1, LenProperties
  <2>3. \A i \in 1 .. Len(Colours) : Colours[i] \in AllMessages
    BY <2>2 DEF AllMessages, ToSet
  <2>4. Colours \in [1 .. Len(Colours) -> AllMessages]
    BY <2>2, <2>3
  <2> QED
    BY <2>2, <2>4, SeqDef
<1> HIDE DEF a, b, v
<1>3. <<v>> \in Seq(AllMessages) /\ <<a, b>> \in Seq(AllMessages)
  BY <1>1
<1>4. Greeting(images) = <<v>> \o Colours \o <<a, b>>
  BY DEF Greeting, a, b, v
<1> DEFINE one == <<v>>
           two == <<a, b>>
<1> HIDE DEF one, two
<1>5. (one \o Colours) \o two \in Seq(AllMessages)
  <2>1. one \in Seq(AllMessages) /\ two \in Seq(AllMessages)
    BY <1>3 DEF one, two
  <2>2. one \o Colours \in Seq(AllMessages)
    BY <1>2, <2>1, ConcatProperties
  <2> DEFINE first == one \o Colours
  <2> HIDE DEF first
  <2>3. first \o two \in Seq(AllMessages)
    BY <2>1, <2>2, ConcatProperties DEF first
  <2> QED
    BY <2>3 DEF first
<1> QED
  BY <1>4, <1>5 DEF one, two

\* The first n elements and those from there to e are the first e.
LEMMA Adjacent ==
    ASSUME NEW S, NEW s \in Seq(S)
    PROVE  \A n \in 0 .. Len(s) : \A e \in n .. Len(s) :
             SubSeq(s, 1, n) \o SubSeq(s, n + 1, e) = SubSeq(s, 1, e)
<1>1. Len(s) \in Nat
  BY LenProperties
<1>2. 1 \in 1 .. Len(s) + 1 /\ 1 - 1 = 0
  BY <1>1
<1> QED
  BY <1>2, ConcatAdjacentSubSeq

\* A read takes the first bytes off the wire.
LEMMA ReadBytes ==
    ASSUME NEW w \in Seq(Nat), NEW n \in Nat, n <= Len(w)
    PROVE  /\ SubSeq(w, 1, n) \in Seq(Nat) /\ From(w, n + 1) \in Seq(Nat)
           /\ SubSeq(w, 1, n) \o From(w, n + 1) = w
<1>0. Len(w) \in Nat
  OBVIOUS
<1>1. \A k \in 1 .. n : w[k] \in Nat
  BY <1>0, ElementOfSeq
<1>2. \A k \in n + 1 .. Len(w) : w[k] \in Nat
  BY <1>0, ElementOfSeq
<1>3. SubSeq(w, 1, n) \in Seq(Nat)
  BY <1>1, SubSeqProperties
<1>4. From(w, n + 1) \in Seq(Nat)
  <2>1. n + 1 \in Int /\ Len(w) \in Int
    BY <1>0
  <2> QED
    BY <1>2, <2>1, SubSeqProperties DEF From
<1>5. SubSeq(w, 1, n) \o SubSeq(w, n + 1, Len(w)) = SubSeq(w, 1, Len(w))
  <2>1. n \in 0 .. Len(w) /\ Len(w) \in n .. Len(w)
    BY <1>0
  <2> QED
    BY <2>1, Adjacent, Zenon
<1>6. SubSeq(w, 1, Len(w)) = w
  BY SubSeqFull
<1> QED
  BY <1>3, <1>4, <1>5, <1>6, Zenon DEF From

\* The first messages stay the first when more are sent.
LEMMA FirstStay ==
    ASSUME NEW S, NEW s \in Seq(S), NEW t \in Seq(S), NEW n \in 0 .. Len(s)
    PROVE  SubSeq(s \o t, 1, n) = SubSeq(s, 1, n)
<1>1. CASE n = 0
  BY <1>1, SubSeqEmpty
<1>2. CASE n # 0
  <2>1. 1 \in 1 .. Len(s) /\ n \in 1 .. Len(s)
    BY <1>2
  <2> QED
    BY <2>1, SubSeqOfConcat1
<1> QED
  BY <1>1, <1>2

\* A sequence s of elements of S is h, its first n elements, and t, the others,
\* which are counted from there.
Splits(S, s, n, h, t) ==
  /\ h \in Seq(S) /\ t \in Seq(S) /\ Len(h) = n /\ Len(t) = Len(s) - n
  /\ s = h \o t
  /\ \A j \in 0 .. Len(s) - n : h \o SubSeq(t, 1, j) = SubSeq(s, 1, n + j)
  /\ \A j \in 1 .. Len(s) - n : t[j] = s[n + j]

\* A sequence is split at n.
LEMMA SplitAt ==
    ASSUME NEW S, NEW s \in Seq(S), NEW n \in 0 .. Len(s)
    PROVE  Splits(S, s, n, SubSeq(s, 1, n), SubSeq(s, n + 1, Len(s)))
<1> DEFINE t == SubSeq(s, n + 1, Len(s))
<1>0. Len(s) \in Nat /\ n \in Nat
  OBVIOUS
<1>1. /\ SubSeq(s, 1, n) \in Seq(S) /\ Len(SubSeq(s, 1, n)) = n
  <2>1. \A k \in 1 .. n : s[k] \in S
    BY <1>0, ElementOfSeq
  <2>2. /\ SubSeq(s, 1, n) \in Seq(S)
        /\ Len(SubSeq(s, 1, n)) = IF 1 <= n THEN n - 1 + 1 ELSE 0
    BY <1>0, <2>1, SubSeqProperties
  <2> QED
    BY <1>0, <2>2
<1>2. /\ t \in Seq(S) /\ Len(t) = Len(s) - n
      /\ \A j \in 1 .. Len(s) - n : t[j] = s[n + j]
  <2> DEFINE a == n + 1
             e == Len(s)
  <2>1. \A k \in a .. e : s[k] \in S
    BY <1>0, ElementOfSeq
  <2>2. a \in Int /\ e \in Int /\ e - a + 1 = Len(s) - n
    BY <1>0
  <2> HIDE DEF a, e
  <2>3. /\ SubSeq(s, a, e) \in Seq(S)
        /\ Len(SubSeq(s, a, e)) = IF a <= e THEN e - a + 1 ELSE 0
        /\ \A j \in 1 .. e - a + 1 : SubSeq(s, a, e)[j] = s[a + j - 1]
    BY <2>1, <2>2, SubSeqProperties
  <2>4. (IF a <= e THEN e - a + 1 ELSE 0) = Len(s) - n
    BY <1>0 DEF a, e
  <2>5. \A j \in 1 .. Len(s) - n : a + j - 1 = n + j
    BY <1>0 DEF a
  <2>6. t = SubSeq(s, a, e)
    BY DEF a, e
  <2> QED
    BY <2>2, <2>3, <2>4, <2>5, <2>6
<1>a. \A e \in n .. Len(s) : SubSeq(s, 1, n) \o SubSeq(s, n + 1, e) = SubSeq(s, 1, e)
  BY Adjacent, Zenon
<1>3. ASSUME NEW j \in 0 .. Len(s) - n
      PROVE  SubSeq(s, 1, n) \o SubSeq(t, 1, j) = SubSeq(s, 1, n + j)
  <2>1. SubSeq(t, 1, j) = SubSeq(s, n + 1, n + j)
    <3>1. CASE j = 0
      <4>1. SubSeq(t, 1, 0) = << >> /\ SubSeq(s, n + 1, n) = << >>
        BY <1>0, SubSeqEmpty
      <4> QED
        BY <1>0, <3>1, <4>1
    <3>2. CASE j # 0
      <4> DEFINE a == n + 1
                 e == Len(s)
      <4>1. /\ a \in 1 .. Len(s) /\ e \in 1 .. Len(s)
            /\ 1 \in 1 .. e - a + 1 /\ j \in 1 .. e - a + 1
            /\ a + 1 - 1 = n + 1 /\ a + j - 1 = n + j
        BY <1>0, <3>2
      <4> HIDE DEF a, e
      <4>2. SubSeq(SubSeq(s, a, e), 1, j) = SubSeq(s, a + 1 - 1, a + j - 1)
        BY <4>1, SubSeqOfSubSeq
      <4> QED
        BY <4>1, <4>2 DEF a, e
    <3> QED
      BY <3>1, <3>2
  <2> DEFINE e == n + j
  <2>2. n \in 0 .. Len(s) /\ e \in n .. Len(s)
    BY <1>0
  <2> HIDE DEF e, t
  <2>3. SubSeq(s, 1, n) \o SubSeq(s, n + 1, e) = SubSeq(s, 1, e)
    BY <2>2, <1>a, Zenon
  <2> QED
    BY <2>1, <2>3 DEF e
<1>4. s = SubSeq(s, 1, n) \o t
  <2> DEFINE e == Len(s)
  <2>1. n \in 0 .. Len(s) /\ e \in n .. Len(s)
    BY <1>0
  <2>2. SubSeq(s, 1, e) = s
    BY SubSeqFull
  <2> HIDE DEF e
  <2>3. SubSeq(s, 1, n) \o SubSeq(s, n + 1, e) = SubSeq(s, 1, e)
    BY <2>1, <1>a
  <2> QED
    BY <2>2, <2>3, Zenon DEF e
<1> DEFINE h == SubSeq(s, 1, n)
<1>5. /\ h \in Seq(S) /\ t \in Seq(S) /\ Len(h) = n /\ Len(t) = Len(s) - n
      /\ s = h \o t
      /\ \A j \in 0 .. Len(s) - n : h \o SubSeq(t, 1, j) = SubSeq(s, 1, n + j)
      /\ \A j \in 1 .. Len(s) - n : t[j] = s[n + j]
  BY <1>1, <1>2, <1>3, <1>4
<1> HIDE DEF h, t
<1>6. Splits(S, s, n, h, t)
  BY <1>5 DEF Splits
<1> QED
  BY <1>6 DEF h, t


\* Every message sent can be taken apart, what is handled is a beginning of
\* what was sent, and the buffer is where the client should be.
StreamInv ==
  /\ StreamTypeOK /\ ~ done
  /\ sent \in Seq(Whole)
  /\ handled = SubSeq(sent, 1, Len(handled))
  /\ NothingLost /\ NothingHeldBack

\* StreamInv holds before the first connection.
LEMMA StreamInitOK == StreamInit => StreamInv
<1> SUFFICES ASSUME StreamInit
             PROVE  StreamInv
  OBVIOUS
<1>1. /\ sent = << >> /\ handled = << >> /\ wire = << >> /\ mDataBuf = << >>
      /\ bConnected = FALSE /\ done = FALSE
  BY DEF StreamInit
<1>2. StreamTypeOK
  <2>1. << >> \in Seq(Nat) /\ << >> \in Seq(Seq(Nat)) /\ Len(<< >>) <= Len(<< >>)
    OBVIOUS
  <2> QED
    BY <1>1, <2>1 DEF StreamTypeOK
<1>3. sent \in Seq(Whole)
  BY <1>1
<1>4. handled = SubSeq(sent, 1, Len(handled))
  <2>1. Len(handled) = 0 /\ SubSeq(sent, 1, 0) = << >>
    BY <1>1, SubSeqEmpty
  <2> QED
    BY <1>1, <2>1
<1> QED
  BY <1>1, <1>2, <1>3, <1>4 DEF StreamInv, NothingLost, NothingHeldBack

\* A new connection starts with an empty buffer and the greeting.
LEMMA OpenSocketOK ==
    ASSUME ImagesConfigured, StreamInv, OpenSocket
    PROVE  StreamInv' /\ sent' \in Seq(AllMessages) /\ handled' = << >> /\ bConnected'
<1>1. PICK images \in Images :
        sent' = Greeting(images) /\ wire' = Flat(Greeting(images))
  BY DEF OpenSocket
<1>2. /\ mDataBuf' = << >> /\ handled' = << >> /\ bConnected' = TRUE
      /\ ~ done' /\ done' \in BOOLEAN
  BY DEF OpenSocket, NewBuffer, StreamInv, StreamTypeOK
<1>3. sent' \in Seq(AllMessages)
  BY <1>1, GreetingIsMessages
<1>4. sent' \in Seq(Whole)
  BY <1>3, AllAreWhole, SeqMonotonic
<1>5. sent' \in Seq(Bytes)
  BY <1>4, WholeFacts
<1>6. wire' \in Bytes /\ wire' = Flat(sent')
  BY <1>1, <1>5, FlatConcat
<1>7. StreamTypeOK'
  <2>1. handled' \in Seq(Seq(Nat)) /\ mDataBuf' \in Seq(Nat) /\ Len(handled') = 0
    BY <1>2
  <2>2. Len(handled') <= Len(sent')
    BY <1>5, <2>1
  <2>3. sent' \in Seq(Seq(Nat)) /\ wire' \in Seq(Nat)
    BY <1>5, <1>6 DEF Bytes
  <2> QED
    BY <1>2, <2>1, <2>2, <2>3 DEF StreamTypeOK
<1>8. handled' = SubSeq(sent', 1, Len(handled'))
  <2>1. Len(handled') = 0 /\ SubSeq(sent', 1, 0) = << >>
    BY <1>2, SubSeqEmpty
  <2> QED
    BY <1>2, <2>1
<1>9. NothingLost'
  <2>1. << >> \o << >> = << >>
    BY ConcatEmptySeq, EmptySeq
  <2>2. << >> \o wire' = wire'
    BY <1>6, ConcatEmptySeq DEF Bytes
  <2>3. Flat(handled') \o mDataBuf' = << >>
    BY <1>2, <2>1, FlatEmpty
  <2> QED
    BY <1>6, <2>2, <2>3 DEF NothingLost
<1>10. NothingHeldBack'
  <2>1. Len(mDataBuf') = 0 /\ Len(handled') = 0
    BY <1>2
  <2>2. Len(sent') > 0 => Len(sent'[1]) > 0
    <3> SUFFICES ASSUME Len(sent') > 0
                 PROVE  Len(sent'[1]) > 0
      OBVIOUS
    <3>1. 1 \in 1 .. Len(sent')
      BY <1>5
    <3>2. Len(sent'[1]) \in Nat \ {0}
      BY <1>4, <3>1, ElementOfSeq, WholeFacts
    <3> QED
      BY <3>2
  <2> QED
    BY <2>1, <2>2 DEF NothingHeldBack
<1> QED
  BY <1>2, <1>3, <1>4, <1>7, <1>8, <1>9, <1>10 DEF StreamInv

\* The server writes one of the messages.
LEMMA SendOK ==
    ASSUME ImagesConfigured, StreamInv, Send
    PROVE  /\ StreamInv'
           /\ \E m \in AllMessages : sent' = Append(sent, m)
           /\ UNCHANGED <<handled, bConnected>> /\ bConnected
<1>1. /\ bConnected /\ UNCHANGED <<mDataBuf, handled, bConnected, done>>
  BY DEF Send
<1>2. PICK m \in Messages : sent' = Append(sent, m) /\ wire' = wire \o m
  BY DEF Send
<1>3. m \in AllMessages
  BY DEF AllMessages
<1>4. m \in Whole
  BY <1>3, AllAreWhole
<1>5. m \in Bytes /\ Len(m) \in Nat \ {0}
  BY <1>4, WholeFacts
<1>6. /\ sent \in Seq(Whole) /\ sent \in Seq(Bytes) /\ handled \in Seq(Bytes)
      /\ wire \in Bytes /\ mDataBuf \in Bytes
      /\ Len(handled) <= Len(sent) /\ Len(handled) \in Nat /\ Len(sent) \in Nat
  BY WholeFacts DEF StreamInv, StreamTypeOK, Bytes
<1>7. /\ sent' \in Seq(Whole) /\ Len(sent') = Len(sent) + 1 /\ sent'[Len(sent) + 1] = m
      /\ \A i \in 1 .. Len(sent) : sent'[i] = sent[i]
  BY <1>2, <1>4, <1>6, AppendProperties
<1>8. sent' \in Seq(Bytes) /\ wire' \in Bytes
  <2>1. wire \o m \in Seq(Nat)
    BY <1>5, <1>6, ConcatProperties DEF Bytes
  <2> QED
    BY <1>2, <1>7, <2>1, WholeFacts DEF Bytes
<1>9. StreamTypeOK'
  <2>1. Len(handled') <= Len(sent')
    BY <1>1, <1>6, <1>7
  <2>2. sent' \in Seq(Seq(Nat)) /\ wire' \in Seq(Nat)
    BY <1>8 DEF Bytes
  <2>3. handled' \in Seq(Seq(Nat)) /\ mDataBuf' \in Seq(Nat)
    BY <1>1 DEF StreamInv, StreamTypeOK
  <2>4. bConnected' \in BOOLEAN /\ done' \in BOOLEAN
    BY <1>1 DEF StreamInv, StreamTypeOK
  <2> QED
    BY <2>1, <2>2, <2>3, <2>4 DEF StreamTypeOK
<1>10. handled' = SubSeq(sent', 1, Len(handled'))
  <2>1. handled = SubSeq(sent, 1, Len(handled))
    BY DEF StreamInv
  <2>2. sent' = sent \o <<m>> /\ <<m>> \in Seq(Whole)
    BY <1>2, <1>4, <1>6, AppendIsConcat
  <2> DEFINE one == <<m>>
             n == Len(handled)
  <2>3. n \in 0 .. Len(sent)
    BY <1>6
  <2> HIDE DEF one, n
  <2>4. SubSeq(sent \o one, 1, n) = SubSeq(sent, 1, n)
    BY <1>6, <2>2, <2>3, FirstStay DEF one
  <2> QED
    BY <1>1, <2>1, <2>2, <2>4 DEF one, n
<1>11. (Flat(handled) \o mDataBuf) \o wire = Flat(sent)
  BY <1>1 DEF StreamInv, NothingLost
<1>12. NothingLost'
  <2>1. Flat(sent') = Flat(sent) \o m
    BY <1>2, <1>5, <1>6, FlatAppend
  <2> DEFINE before == Flat(handled) \o mDataBuf
  <2>2. Flat(handled) \in Bytes
    BY <1>6, FlatConcat
  <2>3. before \in Bytes
    BY <1>6, <2>2, ConcatProperties DEF Bytes
  <2> HIDE DEF before
  <2>4. (before \o wire) \o m = before \o (wire \o m)
    BY <1>5, <1>6, <2>3, BytesAssociate
  <2>5. before \o wire = Flat(sent)
    BY <1>11 DEF before
  <2>6. before \o wire' = Flat(sent')
    BY <1>2, <2>1, <2>4, <2>5
  <2> QED
    BY <1>1, <2>6 DEF NothingLost, before
<1>13. NothingHeldBack'
  <2>1. CASE Len(handled) < Len(sent)
    <3>1. Len(handled) + 1 \in 1 .. Len(sent)
      BY <1>6, <2>1
    <3>2. sent'[Len(handled) + 1] = sent[Len(handled) + 1]
      BY <1>7, <3>1
    <3>3. Len(mDataBuf) < Len(sent[Len(handled) + 1])
      BY <1>1, <2>1 DEF StreamInv, NothingHeldBack
    <3> QED
      BY <1>1, <3>2, <3>3 DEF NothingHeldBack
  <2>2. CASE Len(handled) = Len(sent)
    <3>1. handled = sent
      <4>1. SubSeq(sent, 1, Len(sent)) = sent
        BY <1>6, SubSeqFull
      <4> QED
        BY <2>2, <4>1 DEF StreamInv
    <3> DEFINE all == Flat(sent)
    <3>2. all \in Seq(Nat) /\ mDataBuf \in Seq(Nat) /\ wire \in Seq(Nat)
      BY <1>6, FlatConcat DEF Bytes
    <3>3. (all \o mDataBuf) \o wire = all
      BY <1>11, <3>1
    <3> HIDE DEF all
    <3>4. all \o (mDataBuf \o wire) = all
      BY <3>2, <3>3, BytesAssociate DEF Bytes
    <3>5. mDataBuf \o wire \in Seq(Nat)
      BY <3>2, ConcatProperties
    <3>6. mDataBuf \o wire = << >>
      BY <3>2, <3>4, <3>5, ConcatEqualIffEmpty
    <3>7. mDataBuf = << >>
      BY <3>2, <3>6, ConcatEqualIffEmpty
    <3>8. sent'[Len(handled) + 1] = m /\ Len(mDataBuf) = 0
      BY <1>7, <2>2, <3>7
    <3> QED
      BY <1>1, <1>5, <3>8 DEF NothingHeldBack
  <2> QED
    BY <1>6, <2>1, <2>2
<1> QED
  BY <1>1, <1>2, <1>3, <1>7, <1>9, <1>10, <1>12, <1>13 DEF StreamInv

\* The connection is lost, whatever was read of it.
LEMMA LoseOK ==
    ASSUME StreamInv, NEW n \in 0 .. MaxRead, Lose(n)
    PROVE  StreamInv' /\ bConnected /\ bConnected' = FALSE /\ UNCHANGED <<sent, handled>>
<1>1. /\ bConnected /\ bConnected' = FALSE /\ wire' = << >> /\ n <= Len(wire)
      /\ mDataBuf' = mDataBuf \o SubSeq(wire, 1, n)
      /\ UNCHANGED <<sent, handled, done>>
  BY DEF Lose
<1>2. mDataBuf \in Seq(Nat) /\ wire \in Seq(Nat) /\ n \in Nat
  BY ReadAssumption DEF StreamInv, StreamTypeOK
<1>3. SubSeq(wire, 1, n) \in Seq(Nat)
  BY <1>1, <1>2, ReadBytes
<1>4. mDataBuf' \in Seq(Nat)
  BY <1>1, <1>2, <1>3, ConcatProperties
<1>5. StreamTypeOK'
  <2>1. << >> \in Seq(Nat) /\ FALSE \in BOOLEAN
    OBVIOUS
  <2>2. wire' \in Seq(Nat) /\ bConnected' \in BOOLEAN
    BY <1>1, <2>1
  <2>3. /\ sent \in Seq(Seq(Nat)) /\ handled \in Seq(Seq(Nat))
        /\ Len(handled) <= Len(sent) /\ done \in BOOLEAN
    BY DEF StreamInv, StreamTypeOK
  <2>4. /\ sent' \in Seq(Seq(Nat)) /\ handled' \in Seq(Seq(Nat))
        /\ Len(handled') <= Len(sent') /\ done' \in BOOLEAN
    BY <1>1, <2>3, Zenon
  <2> QED
    BY <1>4, <2>2, <2>4 DEF StreamTypeOK
<1> QED
  BY <1>1, <1>5 DEF StreamInv, NothingLost, NothingHeldBack

\* However many bytes are read, the loop handles the next few messages sent.
LEMMA UpdateOK ==
    ASSUME StreamInv, NEW n \in 1 .. MaxRead, Update(n)
    PROVE  /\ StreamInv' /\ bConnected
           /\ \E k \in Len(handled) .. Len(sent) : handled' = SubSeq(sent, 1, k)
           /\ UNCHANGED <<sent, bConnected>>
<1> DEFINE buffer == mDataBuf \o SubSeq(wire, 1, n)
           found == Parse(buffer)
           later == From(wire, n + 1)
           N == Len(handled)
           ahead == SubSeq(sent, N + 1, Len(sent))
<1>1. /\ bConnected /\ n <= Len(wire) /\ wire' = later
      /\ handled' = handled \o found.messages /\ done' = found.bad
      /\ mDataBuf' = IF found.bad THEN buffer ELSE From(buffer, found.index)
      /\ UNCHANGED <<sent, bConnected>>
  BY DEF Update
<1>2. /\ sent \in Seq(Whole) /\ sent \in Seq(Bytes) /\ handled \in Seq(Bytes)
      /\ wire \in Seq(Nat) /\ mDataBuf \in Seq(Nat) /\ N \in 0 .. Len(sent)
      /\ handled = SubSeq(sent, 1, N) /\ n \in Nat
  BY WholeFacts, ReadAssumption DEF StreamInv, StreamTypeOK, Bytes
<1>3. (Flat(handled) \o mDataBuf) \o wire = Flat(sent)
  BY <1>1 DEF StreamInv, NothingLost
<1>4. /\ SubSeq(wire, 1, n) \in Seq(Nat) /\ later \in Seq(Nat)
      /\ SubSeq(wire, 1, n) \o later = wire
  BY <1>1, <1>2, ReadBytes
<1> HIDE DEF N
<1>5. /\ ahead \in Seq(Whole) /\ Len(ahead) = Len(sent) - N
      /\ sent = handled \o ahead
      /\ \A j \in 0 .. Len(sent) - N : handled \o SubSeq(ahead, 1, j) = SubSeq(sent, 1, N + j)
      /\ \A j \in 1 .. Len(sent) - N : ahead[j] = sent[N + j]
  <2>1. sent \in Seq(Whole) /\ N \in 0 .. Len(sent) /\ handled = SubSeq(sent, 1, N)
    BY <1>2
  <2>2. Splits(Whole, sent, N, SubSeq(sent, 1, N), SubSeq(sent, N + 1, Len(sent)))
    BY <2>1, SplitAt
  <2> HIDE DEF ahead
  <2>3. Splits(Whole, sent, N, handled, ahead)
    BY <2>1, <2>2 DEF ahead
  <2> QED
    BY <2>3, Zenon DEF Splits
<1> HIDE DEF later, ahead
<1>6. buffer \in Bytes /\ buffer \o later = mDataBuf \o wire
  <2> DEFINE new == SubSeq(wire, 1, n)
  <2> HIDE DEF new
  <2>1. new \in Seq(Nat) /\ new \o later = wire
    BY <1>4 DEF new
  <2>2. mDataBuf \in Bytes /\ new \in Bytes /\ later \in Bytes
    BY <1>2, <1>4, <2>1 DEF Bytes
  <2>3. mDataBuf \o new \in Bytes
    BY <2>2, ConcatProperties DEF Bytes
  <2>4. (mDataBuf \o new) \o later = mDataBuf \o (new \o later)
    BY <2>2, BytesAssociate, Zenon
  <2> QED
    BY <2>1, <2>3, <2>4 DEF new
<1> HIDE DEF buffer
<1>7. Flat(handled) \in Bytes /\ Flat(ahead) \in Bytes /\ ahead \in Seq(Bytes)
  BY <1>2, <1>5, FlatConcat, WholeFacts
<1>8. Flat(ahead) = buffer \o later
  <2>1. Flat(sent) = Flat(handled) \o Flat(ahead)
    BY <1>2, <1>5, <1>7, FlatConcat
  <2> mDataBuf \in Bytes /\ wire \in Bytes
    BY <1>2 DEF Bytes
  <2>2. (Flat(handled) \o mDataBuf) \o wire = Flat(handled) \o (mDataBuf \o wire)
    BY <1>7, BytesAssociate, Zenon
  <2>3. mDataBuf \o wire \in Seq(Nat)
    BY <1>2, ConcatProperties
  <2>4. Flat(handled) \o Flat(ahead) = Flat(handled) \o (mDataBuf \o wire)
    BY <1>3, <2>1, <2>2
  <2>5. Flat(ahead) = mDataBuf \o wire
    BY <1>7, <2>3, <2>4, ConcatSimplifications DEF Bytes
  <2> QED
    BY <1>6, <2>5
<1>9. later \in Bytes
  BY <1>4 DEF Bytes
<1>10. /\ found.messages \in Seq(Bytes) /\ found.bad \in BOOLEAN /\ found.index \in 1 .. Len(buffer) + 1
       /\ From(buffer, found.index) \in Bytes
       /\ Len(From(buffer, found.index)) = Len(buffer) - found.index + 1
       /\ Flat(found.messages) \o From(buffer, found.index) = buffer
       /\ \A s \in Seq(Whole), rest \in Bytes :
            Flat(s) = buffer \o rest =>
              \E j \in 0 .. Len(s) : FoundFirst(found, buffer, s, j)
  BY <1>6, ParseFacts
<1> HIDE DEF found
<1>11. PICK j \in 0 .. Len(ahead) : FoundFirst(found, buffer, ahead, j)
  BY <1>5, <1>8, <1>9, <1>10
<1>12. found.messages = SubSeq(ahead, 1, j) /\ ~ found.bad
  BY <1>11 DEF FoundFirst
<1>13. j \in 0 .. Len(sent) - N /\ N + j \in N .. Len(sent) /\ N + j \in Nat
  BY <1>2, <1>5
<1>14. handled' = SubSeq(sent, 1, N + j)
  BY <1>1, <1>5, <1>12, <1>13
<1>15. Len(handled') = N + j /\ handled' \in Seq(Bytes)
  <2>1. N + j \in 0 .. Len(sent)
    BY <1>2, <1>13
  <2> DEFINE k == N + j
  <2> HIDE DEF k
  <2>2. SubSeq(sent, 1, k) \in Seq(Bytes) /\ Len(SubSeq(sent, 1, k)) = k
    BY <1>2, <2>1, SplitAt DEF k
  <2> QED
    BY <1>14, <2>2 DEF k
<1> DEFINE left == From(buffer, found.index)
<1>16. mDataBuf' = left /\ left \in Bytes
  BY <1>1, <1>10, <1>12
<1>17. StreamTypeOK'
  <2>1. Len(sent) \in Nat
    BY <1>2
  <2> HIDE DEF left
  <2>2. handled' \in Seq(Seq(Nat)) /\ mDataBuf' \in Seq(Nat) /\ wire' \in Seq(Nat)
    BY <1>1, <1>4, <1>15, <1>16 DEF Bytes
  <2>3. Len(handled') <= Len(sent')
    <3>1. sent' = sent
      BY <1>1
    <3>2. N + j <= Len(sent)
      BY <1>13, <2>1
    <3> QED
      BY <1>15, <3>1, <3>2
  <2>4. done' \in BOOLEAN
    BY <1>1, <1>10
  <2> QED
    BY <1>1, <2>2, <2>3, <2>4 DEF StreamInv, StreamTypeOK
<1>18. NothingLost'
  <2> DEFINE old == Flat(handled)
             got == Flat(found.messages)
  <2>1. got \in Bytes /\ Flat(handled') = old \o got
    BY <1>1, <1>2, <1>10, FlatConcat
  <2>2. got \o left = buffer
    BY <1>10
  <2> HIDE DEF got, left, old
  <2>3. old \in Bytes
    BY <1>7 DEF old
  <2>4. (old \o got) \o left = old \o buffer
    BY <1>16, <2>1, <2>2, <2>3, BytesAssociate
  <2>5. (old \o buffer) \o later = old \o (buffer \o later)
    BY <1>6, <1>9, <2>3, BytesAssociate
  <2>6. old \o (mDataBuf \o wire) = (old \o mDataBuf) \o wire
    BY <1>2, <2>3, BytesAssociate DEF Bytes
  <2>7. (Flat(handled') \o mDataBuf') \o wire' = Flat(sent)
    BY <1>1, <1>3, <1>6, <1>16, <2>1, <2>4, <2>5, <2>6 DEF old
  <2> QED
    BY <1>1, <2>7 DEF NothingLost
<1>19. NothingHeldBack'
  <2> SUFFICES ASSUME Len(handled') < Len(sent')
               PROVE  Len(mDataBuf') < Len(sent'[Len(handled') + 1])
    BY DEF NothingHeldBack
  <2>1. j < Len(ahead) /\ j + 1 \in 1 .. Len(sent) - N /\ N + (j + 1) = (N + j) + 1
    <3>1. N + j < Len(sent) /\ Len(sent) \in Nat /\ N \in Nat /\ j \in Nat
      <4>1. sent' = sent
        BY <1>1
      <4>2. Len(sent) \in Nat /\ N \in Nat
        BY <1>2
      <4> QED
        BY <1>13, <1>15, <4>1, <4>2
    <3>2. j < Len(sent) - N
      BY <3>1
    <3> QED
      BY <1>5, <3>1, <3>2
  <2>2. Len(buffer) - found.index + 1 < Len(ahead[j + 1])
    BY <1>11, <2>1 DEF FoundFirst
  <2>3. ahead[j + 1] = sent[(N + j) + 1]
    BY <1>5, <2>1
  <2> QED
    BY <1>1, <1>10, <1>15, <1>16, <2>2, <2>3
<1>20. handled' = SubSeq(sent', 1, Len(handled'))
  BY <1>1, <1>14, <1>15
<1>21. StreamInv'
  BY <1>1, <1>2, <1>12, <1>17, <1>18, <1>19, <1>20 DEF StreamInv
<1> QED
  BY <1>1, <1>13, <1>14, <1>21 DEF N

\* StreamInv is kept by every step.
LEMMA StreamStep ==
    ASSUME ImagesConfigured, StreamInv, [StreamNext]_stream
    PROVE  StreamInv'
<1>1. CASE UNCHANGED stream
  BY <1>1 DEF stream, StreamInv, StreamTypeOK, NothingLost, NothingHeldBack
<1>2. CASE StreamNext
  BY <1>2, OpenSocketOK, SendOK, LoseOK, UpdateOK DEF StreamNext
<1> QED
  BY <1>1, <1>2

\* However the bytes are cut into reads and connections lost and opened again,
\* the client's buffer is where a message starts, or within the one that is next
\* (updateTCPSocket).
THEOREM StreamInvariant ==
    ASSUME ImagesConfigured
    PROVE  StreamSpec => []StreamInv
<1>1. StreamInv /\ [StreamNext]_stream => StreamInv'
  BY StreamStep
<1> QED
  BY StreamInitOK, <1>1, PTL DEF StreamSpec

\* No byte of a connection is lost, handled twice or left over from the last
\* connection (mDataBuf in updateTCPSocket and openSocket).
THEOREM BytesAreKept ==
    ASSUME ImagesConfigured
    PROVE  StreamSpec => []NothingLost
<1>1. StreamInv => NothingLost
  BY DEF StreamInv
<1> QED
  BY StreamInvariant, <1>1, PTL

\* The client never takes the middle of a message for a start, so it never
\* meets an unknown type and shuts down; and it never waits with a message that
\* is complete (the loop of updateTCPSocket).
THEOREM ClientInStep ==
    ASSUME ImagesConfigured
    PROVE  StreamSpec => [](NeverOutOfStep /\ NothingHeldBack)
<1>1. StreamInv => NeverOutOfStep /\ NothingHeldBack
  <2> SUFFICES ASSUME StreamInv
               PROVE  NeverOutOfStep /\ NothingHeldBack
    OBVIOUS
  <2> DEFINE n == Len(handled)
  <2>1. /\ ~ done /\ sent \in Seq(Whole) /\ n \in 0 .. Len(sent)
        /\ handled = SubSeq(sent, 1, n) /\ NothingHeldBack /\ Len(sent) \in Nat
    BY DEF StreamInv, StreamTypeOK
  <2> HIDE DEF n
  <2>2. \A i \in 1 .. n : sent[i] \in Whole
    BY <2>1, ElementOfSeq
  <2>3. \A i \in 1 .. n - 1 + 1 : SubSeq(sent, 1, n)[i] = sent[1 + i - 1]
    BY <2>1, <2>2, SubSeqProperties
  <2>4. \A i \in 1 .. n : i <= Len(sent) /\ handled[i] = sent[i]
    <3> SUFFICES ASSUME NEW i \in 1 .. n
                 PROVE  i <= Len(sent) /\ handled[i] = sent[i]
      OBVIOUS
    <3>1. i \in 1 .. n - 1 + 1 /\ 1 + i - 1 = i /\ i <= Len(sent)
      BY <2>1
    <3> QED
      BY <2>1, <2>3, <3>1
  <2> QED
    BY <2>1, <2>4 DEF NeverOutOfStep, n
<1> QED
  BY StreamInvariant, <1>1, PTL

\* The stream with its framing implements the channel of messages: what is
\* handled is, message by message and in order, what create_client and the
\* exporter wrote.
THEOREM StreamIsChannel ==
    ASSUME ImagesConfigured
    PROVE  StreamSpec => IsChannel
<1>1. StreamInit => Channel!ChannelInit
  BY DEF StreamInit, Channel!ChannelInit
<1>2. StreamInv /\ [StreamNext]_stream => [Channel!ChannelNext]_(Channel!chan)
  <2> SUFFICES ASSUME StreamInv, [StreamNext]_stream
               PROVE  [Channel!ChannelNext]_(Channel!chan)
    OBVIOUS
  <2>1. CASE OpenSocket
    <3>1. sent' \in Seq(AllMessages) /\ handled' = << >> /\ bConnected'
      BY <2>1, OpenSocketOK
    <3>2. bConnected' = TRUE
      BY <2>1 DEF OpenSocket
    <3>3. Channel!Open
      BY <3>1, <3>2 DEF Channel!Open, AllMessages
    <3> QED
      BY <3>3 DEF Channel!ChannelNext
  <2>2. CASE Send
    <3>1. /\ \E m \in AllMessages : sent' = Append(sent, m)
          /\ UNCHANGED <<handled, bConnected>> /\ bConnected
      BY <2>2, SendOK
    <3>2. Channel!Write
      BY <3>1 DEF Channel!Write, AllMessages
    <3> QED
      BY <3>2 DEF Channel!ChannelNext
  <2>3. ASSUME NEW n \in 0 .. MaxRead, Lose(n)
        PROVE  Channel!ChannelNext
    <3>1. Channel!Close
      BY <2>3, LoseOK DEF Channel!Close
    <3> QED
      BY <3>1 DEF Channel!ChannelNext
  <2>4. ASSUME NEW n \in 1 .. MaxRead, Update(n)
        PROVE  Channel!ChannelNext
    <3>1. Channel!Deliver
      BY <2>4, UpdateOK DEF Channel!Deliver
    <3> QED
      BY <3>1 DEF Channel!ChannelNext
  <2>5. CASE UNCHANGED stream
    BY <2>5 DEF stream, Channel!chan
  <2> QED
    BY <2>1, <2>2, <2>3, <2>4, <2>5 DEF StreamNext
<1> QED
  BY StreamInvariant, <1>1, <1>2, PTL DEF StreamSpec, IsChannel, Channel!ChannelSpec
=============================================================================
