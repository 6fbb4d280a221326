------------------------ MODULE PacketHandler_proofs ------------------------
(***************************************************************************)
(* Proofs about PacketHandler, for any packets, any trace, any options and *)
(* any number of restarts and crashes.                                     *)
(***************************************************************************)
EXTENDS PacketHandler, TLAPS

\* The numbers of an instance are natural numbers.
LEMMA Numbers ==
    /\ MaxTime \in Nat /\ FLUSH_AGE \in Nat /\ FLUSH_EVERY \in Nat
    /\ SAVE_EVERY \in Nat /\ sampling \in Nat
BY NumbersAssumption

\* Maps from entries to times.
IsMap(m) == m \in [DOMAIN m -> Nat]
-----------------------------------------------------------------------------
(* What the operations of RTTMap do to the map.                            *)

\* Add() keeps what is there.
LEMMA AddEntryFacts ==
    ASSUME NEW m, IsMap(m), NEW flow, NEW stamp, NEW time \in Nat
    PROVE  /\ IsMap(AddEntry(m, flow, stamp, time))
           /\ DOMAIN AddEntry(m, flow, stamp, time) = DOMAIN m \cup {<<flow, stamp>>}
           /\ \A e \in DOMAIN m : AddEntry(m, flow, stamp, time)[e] = m[e]
           /\ <<flow, stamp>> \notin DOMAIN m =>
                AddEntry(m, flow, stamp, time)[<<flow, stamp>>] = time
BY DEF AddEntry, IsMap

\* Erasing entries keeps the others.
LEMMA WithoutFacts ==
    ASSUME NEW m, IsMap(m), NEW entries
    PROVE  /\ IsMap(Without(m, entries))
           /\ DOMAIN Without(m, entries) = DOMAIN m \ entries
           /\ DOMAIN Without(m, entries) \subseteq DOMAIN m
           /\ \A e \in DOMAIN Without(m, entries) : Without(m, entries)[e] = m[e]
BY DEF Without, Restrict, IsMap

\* Update() keeps an entry or gives it the new time stamp, with its time.
LEMMA UpdateEntryFacts ==
    ASSUME NEW m, IsMap(m), NEW flow, NEW stamp, NEW newstamp,
           NEW e \in DOMAIN UpdateEntry(m, flow, stamp, newstamp)
    PROVE  \/ /\ e \in DOMAIN m
              /\ UpdateEntry(m, flow, stamp, newstamp)[e] = m[e]
           \/ /\ e = <<flow, newstamp>>
              /\ <<flow, stamp>> \in DOMAIN m
              /\ UpdateEntry(m, flow, stamp, newstamp)[e] = m[<<flow, stamp>>]
<1>1. CASE <<flow, stamp>> \notin DOMAIN m
  BY <1>1 DEF UpdateEntry
<1>2. CASE <<flow, stamp>> \in DOMAIN m
  <2> DEFINE old  == {<<flow, stamp>>}
             rest == Without(m, old)
             time == m[<<flow, stamp>>]
             new  == AddEntry(rest, flow, newstamp, time)
  <2>1. time \in Nat
    BY <1>2 DEF IsMap
  <2>2. UpdateEntry(m, flow, stamp, newstamp) = new
    BY <1>2 DEF UpdateEntry
  <2> HIDE DEF old
  <2>3. /\ IsMap(rest) /\ DOMAIN rest \subseteq DOMAIN m
        /\ \A k \in DOMAIN rest : rest[k] = m[k]
    BY WithoutFacts
  <2> HIDE DEF rest, time
  <2>4. /\ DOMAIN new = DOMAIN rest \cup {<<flow, newstamp>>}
        /\ \A k \in DOMAIN rest : new[k] = rest[k]
        /\ <<flow, newstamp>> \notin DOMAIN rest => new[<<flow, newstamp>>] = time
    <3> HIDE DEF IsMap
    <3>1. IsMap(rest)
      BY <2>3
    <3> QED
      BY <2>1, <3>1, AddEntryFacts, SMTT(30)
  <2> HIDE DEF new
  <2>5. \/ e \in DOMAIN m /\ new[e] = m[e]
        \/ e = <<flow, newstamp>> /\ new[e] = time
    BY <2>2, <2>3, <2>4
  <2> QED
    BY <1>2, <2>2, <2>5 DEF time
<1> QED
  BY <1>1, <1>2

\* ... and leaves a map.
LEMMA UpdateEntryMap ==
    ASSUME NEW m, IsMap(m), NEW flow, NEW stamp, NEW newstamp
    PROVE  IsMap(UpdateEntry(m, flow, stamp, newstamp))
<1>1. CASE <<flow, stamp>> \notin DOMAIN m
  BY <1>1 DEF UpdateEntry
<1>2. CASE <<flow, stamp>> \in DOMAIN m
  <2> DEFINE old  == {<<flow, stamp>>}
             time == m[<<flow, stamp>>]
  <2>1. time \in Nat
    BY <1>2 DEF IsMap
  <2>2. UpdateEntry(m, flow, stamp, newstamp) =
          AddEntry(Without(m, old), flow, newstamp, time)
    BY <1>2 DEF UpdateEntry
  <2> HIDE DEF old, time
  <2>3. IsMap(Without(m, old))
    BY WithoutFacts
  <2> QED
    BY <2>1, <2>2, <2>3, AddEntryFacts
<1> QED
  BY <1>1, <1>2

\* Retrieve() takes at most one entry out, and answers with its age.
LEMMA RetrieveFacts ==
    ASSUME NEW m, IsMap(m), NEW flow, NEW stamp, NEW time \in Nat
    PROVE  LET found == Retrieve(m, flow, stamp, time)
           IN  /\ IsMap(found.map)
               /\ DOMAIN found.map \subseteq DOMAIN m
               /\ \A e \in DOMAIN found.map : found.map[e] = m[e]
               /\ \/ found.rtt = -2
                  \/ /\ <<flow, stamp>> \in DOMAIN m
                     /\ found.rtt = time - m[<<flow, stamp>>]
<1>1. CASE <<flow, stamp>> \notin DOMAIN m
  BY <1>1 DEF Retrieve
<1>2. CASE <<flow, stamp>> \in DOMAIN m
  <2> DEFINE old == {<<flow, stamp>>}
  <2>1. Retrieve(m, flow, stamp, time) =
          [map |-> Without(m, old), rtt |-> time - m[<<flow, stamp>>]]
    BY <1>2 DEF Retrieve
  <2> HIDE DEF old
  <2>2. /\ IsMap(Without(m, old)) /\ DOMAIN Without(m, old) \subseteq DOMAIN m
        /\ \A e \in DOMAIN Without(m, old) : Without(m, old)[e] = m[e]
    BY WithoutFacts
  <2> QED
    BY <1>2, <2>1, <2>2
<1> QED
  BY <1>1, <1>2

\* A flow one way is the other the other way round.
LEMMA OppositeIsSymmetric ==
    ASSUME NEW p, NEW q
    PROVE  Flow(p) = Backward(q) <=> Backward(p) = Flow(q)
BY DEF Flow, Backward

\* The new entries a packet makes by its flags, or has moved.
MadeBy(m, p, time, e, v) ==
    \/ Stamp(p) # Zero /\ e = <<Flow(p), Stamp(p)>> /\ v = time
    \/ Stamp(p) = Zero /\ Syn(p) /\ e = <<Flow(p), <<p.seq, 0>>>> /\ v = time
    \/ p.kind = "echo" /\ e = <<Flow(p), <<p.seq, 0>>>> /\ v = time
    \/ /\ Stamp(p) = Zero /\ SynAck(p) /\ e = <<Backward(p), <<p.seq, 0>>>>
       /\ <<Backward(p), <<Before(p.ackno), 0>>>> \in DOMAIN m
       /\ v = m[<<Backward(p), <<Before(p.ackno), 0>>>>]

\* The entry a packet uses by its flags.
UsedBy(p, e) ==
    \/ /\ Stamp(p) = Zero /\ p.kind = "tcp" /\ ~ p.syn /\ p.ack
       /\ e = <<Flow(p), <<Before(p.ackno), 0>>>>
    \/ p.kind = "reply" /\ e = <<Backward(p), <<p.seq, 0>>>>

\* What is in the map after the flags: what was there, and what p made.
LEMMA ByFlagsFacts ==
    ASSUME NEW m, IsMap(m), NEW p, NEW time \in Nat
    PROVE  LET r == ByFlags(m, p, time)
           IN  /\ IsMap(r.map)
               /\ \A e \in DOMAIN r.map : \/ e \in DOMAIN m /\ r.map[e] = m[e]
                                          \/ MadeBy(m, p, time, e, r.map[e])
               /\ \/ r.rtt = -2
                  \/ \E e \in DOMAIN m : UsedBy(p, e) /\ r.rtt = time - m[e]
<1> DEFINE r == ByFlags(m, p, time)
<1> SUFFICES /\ IsMap(r.map)
             /\ \A e \in DOMAIN r.map : \/ e \in DOMAIN m /\ r.map[e] = m[e]
                                        \/ MadeBy(m, p, time, e, r.map[e])
             /\ \/ r.rtt = -2
                \/ \E e \in DOMAIN m : UsedBy(p, e) /\ r.rtt = time - m[e]
  OBVIOUS
<1>1. CASE Stamp(p) # Zero
  <2> DEFINE a == AddEntry(m, Flow(p), Stamp(p), time)
  <2>1. r.map = a /\ r.rtt = -2
    BY <1>1 DEF ByFlags
  <2>2. /\ IsMap(a) /\ DOMAIN a = DOMAIN m \cup {<<Flow(p), Stamp(p)>>}
        /\ \A e \in DOMAIN m : a[e] = m[e]
        /\ <<Flow(p), Stamp(p)>> \notin DOMAIN m => a[<<Flow(p), Stamp(p)>>] = time
    BY AddEntryFacts, SMTT(30)
  <2> HIDE DEF a, r
  <2> QED
    BY <1>1, <2>1, <2>2 DEF MadeBy
<1>2. CASE Stamp(p) = Zero /\ Syn(p)
  <2> DEFINE s == <<p.seq, 0>>
             a == AddEntry(m, Flow(p), s, time)
  <2>1. r.map = a /\ r.rtt = -2
    BY <1>2 DEF ByFlags, Syn
  <2>2. /\ IsMap(a) /\ DOMAIN a = DOMAIN m \cup {<<Flow(p), s>>}
        /\ \A e \in DOMAIN m : a[e] = m[e]
        /\ <<Flow(p), s>> \notin DOMAIN m => a[<<Flow(p), s>>] = time
    BY AddEntryFacts
  <2>3. \A e, v : e = <<Flow(p), s>> /\ v = time => MadeBy(m, p, time, e, v)
    BY <1>2 DEF MadeBy
  <2> HIDE DEF a, r, s
  <2> QED
    BY <2>1, <2>2, <2>3
<1>3. CASE p.kind = "echo"
  <2> DEFINE s == <<p.seq, 0>>
             a == AddEntry(m, Flow(p), s, time)
  <2>1. r.map = a /\ r.rtt = -2
    BY <1>3 DEF ByFlags, Stamp
  <2>2. /\ IsMap(a) /\ DOMAIN a = DOMAIN m \cup {<<Flow(p), s>>}
        /\ \A e \in DOMAIN m : a[e] = m[e]
        /\ <<Flow(p), s>> \notin DOMAIN m => a[<<Flow(p), s>>] = time
    BY AddEntryFacts
  <2>3. \A e, v : e = <<Flow(p), s>> /\ v = time => MadeBy(m, p, time, e, v)
    BY <1>3 DEF MadeBy
  <2> HIDE DEF a, r, s
  <2> QED
    BY <2>1, <2>2, <2>3
<1>4. CASE Stamp(p) = Zero /\ SynAck(p)
  <2> DEFINE old == <<Before(p.ackno), 0>>
             s   == <<p.seq, 0>>
             u   == UpdateEntry(m, Backward(p), old, s)
  <2>1. r.map = u /\ r.rtt = -2
    BY <1>4 DEF ByFlags, SynAck
  <2>2. \A e, v : /\ e = <<Backward(p), s>>
                  /\ <<Backward(p), old>> \in DOMAIN m
                  /\ v = m[<<Backward(p), old>>]
                  => MadeBy(m, p, time, e, v)
    BY <1>4 DEF MadeBy
  <2> HIDE DEF old, s
  <2>3. IsMap(u)
    BY UpdateEntryMap
  <2>4. \A e \in DOMAIN u : \/ e \in DOMAIN m /\ u[e] = m[e]
                            \/ /\ e = <<Backward(p), s>>
                               /\ <<Backward(p), old>> \in DOMAIN m
                               /\ u[e] = m[<<Backward(p), old>>]
    BY UpdateEntryFacts
  <2> HIDE DEF u, r
  <2> QED
    BY <2>1, <2>2, <2>3, <2>4
<1>5. CASE Stamp(p) = Zero /\ p.kind = "tcp" /\ ~ p.syn /\ p.ack
  <2> DEFINE s == <<Before(p.ackno), 0>>
             f == Retrieve(m, Flow(p), s, time)
  <2>1. r = f
    BY <1>5 DEF ByFlags
  <2>2. UsedBy(p, <<Flow(p), s>>)
    BY <1>5 DEF UsedBy
  <2> HIDE DEF s
  <2>3. /\ IsMap(f.map) /\ DOMAIN f.map \subseteq DOMAIN m
        /\ \A e \in DOMAIN f.map : f.map[e] = m[e]
        /\ \/ f.rtt = -2
           \/ /\ <<Flow(p), s>> \in DOMAIN m
              /\ f.rtt = time - m[<<Flow(p), s>>]
    BY RetrieveFacts
  <2> HIDE DEF f, r
  <2> QED
    BY <2>1, <2>2, <2>3
<1>6. CASE p.kind = "reply"
  <2> DEFINE s == <<p.seq, 0>>
             f == Retrieve(m, Backward(p), s, time)
  <2>1. r = f
    BY <1>6 DEF ByFlags, Stamp
  <2>2. UsedBy(p, <<Backward(p), s>>)
    BY <1>6 DEF UsedBy
  <2> HIDE DEF s
  <2>3. /\ IsMap(f.map) /\ DOMAIN f.map \subseteq DOMAIN m
        /\ \A e \in DOMAIN f.map : f.map[e] = m[e]
        /\ \/ f.rtt = -2
           \/ /\ <<Backward(p), s>> \in DOMAIN m
              /\ f.rtt = time - m[<<Backward(p), s>>]
    BY RetrieveFacts
  <2> HIDE DEF f, r
  <2> QED
    BY <2>1, <2>2, <2>3
<1>7. CASE /\ Stamp(p) = Zero /\ ~ Syn(p) /\ ~ SynAck(p)
           /\ ~ (p.kind = "tcp" /\ ~ p.syn /\ p.ack)
           /\ p.kind # "reply" /\ p.kind # "echo"
  <2>1. r.map = m /\ r.rtt = -2
    BY <1>7 DEF ByFlags, Syn, SynAck
  <2> HIDE DEF r
  <2> QED
    BY <2>1
<1> QED
  BY <1>1, <1>2, <1>3, <1>4, <1>5, <1>6, <1>7 DEF Stamp

\* The echo takes at most one more entry out.
LEMMA ByEchoFacts ==
    ASSUME NEW m, IsMap(m), NEW r, r.map = m, NEW p, NEW time \in Nat,
           r = [map |-> r.map, rtt |-> r.rtt]
    PROVE  LET n == ByEcho(r, p, time)
           IN  /\ IsMap(n.map)
               /\ DOMAIN n.map \subseteq DOMAIN m
               /\ \A e \in DOMAIN n.map : n.map[e] = m[e]
               /\ \/ n.rtt = r.rtt \/ n.rtt = -1
                  \/ /\ Echo(p) # Zero /\ <<Backward(p), Echo(p)>> \in DOMAIN m
                     /\ n.rtt = time - m[<<Backward(p), Echo(p)>>]
<1> DEFINE f == Retrieve(m, Backward(p), Echo(p), time)
           n == ByEcho(r, p, time)
<1>1. CASE Echo(p) = Zero
  BY <1>1 DEF ByEcho
<1>2. CASE Echo(p) # Zero
  <2>1. /\ IsMap(f.map) /\ DOMAIN f.map \subseteq DOMAIN m
        /\ \A e \in DOMAIN f.map : f.map[e] = m[e]
        /\ \/ f.rtt = -2
           \/ /\ <<Backward(p), Echo(p)>> \in DOMAIN m
              /\ f.rtt = time - m[<<Backward(p), Echo(p)>>]
    BY RetrieveFacts
  <2>2. IF f.rtt >= 0 THEN n = f
        ELSE n = [r EXCEPT !.rtt = IF @ = -2 THEN -1 ELSE @]
    BY <1>2 DEF ByEcho
  <2>3. CASE f.rtt >= 0
    <3>1. f.rtt # -2
      BY <2>3
    <3> QED
      BY <1>2, <2>1, <2>2, <2>3, <3>1
  <2>4. CASE ~ (f.rtt >= 0)
    <3>1. n = [map |-> m, rtt |-> IF r.rtt = -2 THEN -1 ELSE r.rtt]
      BY <2>2, <2>4
    <3>2. n.map = m /\ n.rtt \in {r.rtt, -1}
      BY <3>1
    <3> QED
      BY <3>2
  <2> QED
    BY <2>3, <2>4
<1> QED
  BY <1>1, <1>2

\* The map a packet leaves behind and the round trip time it is exported with,
\* when the estimator is on.
Result(p, time) == ByEcho(ByFlags(flows, p, time), p, time)

\* Every entry was there before or is the packet's own; a round trip time is
\* the age of an entry the packet looked for.
LEMMA ResultFacts ==
    ASSUME IsMap(flows), NEW p, NEW time \in Nat
    PROVE  LET r == Result(p, time)
           IN  /\ IsMap(r.map)
               /\ \A e \in DOMAIN r.map : \/ e \in DOMAIN flows /\ r.map[e] = flows[e]
                                          \/ MadeBy(flows, p, time, e, r.map[e])
               /\ \/ r.rtt \in {-1, -2}
                  \/ \E e \in DOMAIN flows : UsedBy(p, e) /\ r.rtt = time - flows[e]
                  \/ \E e, v : /\ \/ e \in DOMAIN flows /\ v = flows[e]
                                  \/ MadeBy(flows, p, time, e, v)
                               /\ Echo(p) # Zero /\ e = <<Backward(p), Echo(p)>>
                               /\ r.rtt = time - v
<1> DEFINE b == ByFlags(flows, p, time)
           m == b.map
           r == Result(p, time)
<1>1. /\ IsMap(m)
      /\ \A e \in DOMAIN m : \/ e \in DOMAIN flows /\ m[e] = flows[e]
                             \/ MadeBy(flows, p, time, e, m[e])
      /\ \/ b.rtt = -2
         \/ \E e \in DOMAIN flows : UsedBy(p, e) /\ b.rtt = time - flows[e]
  BY ByFlagsFacts
<1>2. b = [map |-> b.map, rtt |-> b.rtt]
  BY DEF ByFlags, Retrieve
<1>3. r = ByEcho(b, p, time)
  BY DEF Result
<1> HIDE DEF b
<1>4. b.map = m
  OBVIOUS
<1> HIDE DEF m
<1>5. /\ IsMap(r.map)
      /\ DOMAIN r.map \subseteq DOMAIN m
      /\ \A e \in DOMAIN r.map : r.map[e] = m[e]
      /\ \/ r.rtt = b.rtt \/ r.rtt = -1
         \/ /\ Echo(p) # Zero /\ <<Backward(p), Echo(p)>> \in DOMAIN m
            /\ r.rtt = time - m[<<Backward(p), Echo(p)>>]
  BY <1>1, <1>2, <1>3, <1>4, ByEchoFacts
<1> QED
  BY <1>1, <1>5

-----------------------------------------------------------------------------
(* The inductive invariant.                                                *)

\* Every entry has the time of a packet of this trace; the last flush is never
\* long ago when a packet is handled, and leaves nothing older than its age.
FreshInv ==
    /\ \A h \in seen : h.time <= now
    /\ enable_rttest => \A h \in seen : last # 0 /\ h.time - last <= FLUSH_EVERY
    /\ \A e \in DOMAIN flows : \E h \in seen : h.time = flows[e]
    /\ enable_rttest \/ DOMAIN flows = {}
    /\ flushed => /\ enable_rttest /\ last <= now
                  /\ \A e \in DOMAIN flows : flows[e] >= last - FLUSH_AGE

\* A host that counts is in the list, and in the file if it was there when the
\* list was made; the files of the other directories hold what they must.
ListInv ==
    /\ DOMAIN learned \subseteq lightlist
    /\ path = None => DOMAIN learned = {}
    /\ path # None => \A h \in DOMAIN learned : learned[h] = 0 => h \in disk[path]
    /\ \A d \in Dirs : d # path => kept[d] \subseteq disk[d]

\* The last save that was due wrote all that had been learned by then.
SaveInv ==
    saved => /\ enable_darknet /\ path # None
             /\ now <= next_save /\ next_save <= now + SAVE_EVERY
             /\ \A h \in DOMAIN learned :
                  h \in disk[path] \/ learned[h] >= next_save - SAVE_EVERY

IInv == TypeOK /\ FreshInv /\ ListInv /\ SaveInv /\ DarkMeansSilent
-----------------------------------------------------------------------------
LEMMA InitIInv ==
    ASSUME Init
    PROVE  IInv
<1>1. TypeOK
  <2>1. /\ enable_darknet \in BOOLEAN /\ path \in Dirs \cup {None}
        /\ enable_darknet => path # None
    BY FlagsAssumption, DirsAssumption DEF Init
  <2> QED
    BY <2>1 DEF Init, TypeOK, NoEntries
<1>2. FreshInv
  BY DEF Init, FreshInv, NoEntries
<1>3. ListInv /\ SaveInv /\ DarkMeansSilent
  BY DEF Init, ListInv, SaveInv, DarkMeansSilent, NoEntries
<1> QED
  BY <1>1, <1>2, <1>3 DEF IInv

\* What handling a packet does to the entries.
LEMMA HandleEntries ==
    ASSUME TypeOK, NEW p \in Packets, NEW time \in Nat, time > 0, Handle(p, time)
    PROVE  /\ IsMap(flows') /\ last' \in Nat
           /\ ~ enable_rttest => UNCHANGED <<flows, last>>
           /\ enable_rttest =>
                /\ \A e \in DOMAIN flows' :
                     \/ e \in DOMAIN flows /\ flows'[e] = flows[e]
                     \/ MadeBy(flows, p, time, e, flows'[e])
                /\ FlushDue(time) =>
                     /\ last' = time
                     /\ \A e \in DOMAIN flows' : time - flows'[e] <= FLUSH_AGE
                /\ ~ FlushDue(time) => last' = IF last = 0 THEN time ELSE last
<1>0. IsMap(flows) /\ last \in Nat
  BY DEF TypeOK, IsMap
<1>1. CASE ~ enable_rttest
  BY <1>0, <1>1 DEF Handle
<1>2. CASE enable_rttest
  <2> DEFINE r == Result(p, time)
  <2>1. Measure(p, time, r)
    BY <1>2 DEF Handle, Result
  <2>2. /\ IsMap(r.map)
        /\ \A e \in DOMAIN r.map : \/ e \in DOMAIN flows /\ r.map[e] = flows[e]
                                   \/ MadeBy(flows, p, time, e, r.map[e])
    BY <1>0, ResultFacts
  <2> HIDE DEF r
  <2>3. last' = IF last = 0 \/ FlushDue(time) THEN time ELSE last
    BY <2>1 DEF Measure
  <2>4. CASE FlushDue(time)
    <3> DEFINE old == {e \in DOMAIN r.map : time - r.map[e] > FLUSH_AGE}
    <3>1. flows' = Without(r.map, old)
      BY <2>1, <2>4 DEF Measure, Flush
    <3>2. \A e \in DOMAIN r.map : r.map[e] \in Nat
      BY <2>2 DEF IsMap
    <3>3. \A e \in DOMAIN r.map \ old : time - r.map[e] <= FLUSH_AGE
      BY <3>2, Numbers
    <3> HIDE DEF old
    <3> DEFINE m == r.map
    <3> HIDE DEF m
    <3>4. IsMap(m)
      BY <2>2 DEF m
    <3>5. /\ IsMap(Without(m, old)) /\ DOMAIN Without(m, old) = DOMAIN m \ old
          /\ \A e \in DOMAIN Without(m, old) : Without(m, old)[e] = m[e]
      BY <3>4, WithoutFacts
    <3>6. /\ IsMap(flows') /\ DOMAIN flows' = DOMAIN r.map \ old
          /\ \A e \in DOMAIN flows' : flows'[e] = r.map[e]
      BY <3>1, <3>5 DEF m
    <3> QED
      BY <1>2, <2>2, <2>3, <2>4, <3>3, <3>6
  <2>5. CASE ~ FlushDue(time)
    <3>1. flows' = r.map
      BY <2>1, <2>5 DEF Measure
    <3> QED
      BY <1>0, <1>2, <2>2, <2>3, <2>5, <3>1
  <2> QED
    BY <2>4, <2>5
<1> QED
  BY <1>1, <1>2

\* The times of entries a packet makes are its own, or those of entries that
\* were there.
LEMMA MadeTimes ==
    ASSUME NEW m, NEW p, NEW time, NEW e, NEW v, MadeBy(m, p, time, e, v)
    PROVE  v = time \/ \E k \in DOMAIN m : v = m[k]
BY DEF MadeBy

-----------------------------------------------------------------------------
LEMMA ReadTypes ==
    ASSUME TypeOK, NEW p \in Packets, NEW time \in 1 .. MaxTime,
           NEW coloured, NEW opened \in BOOLEAN,
           ReadPacket(p, time, coloured, opened)
    PROVE  TypeOK'
<1>0. time \in Nat /\ time > 0
  BY Numbers
<1>1. packet_count' \in Nat
  <2>1. packet_count \in Nat
    BY DEF TypeOK
  <2>2. packet_count' = IF sampling = 0 THEN 0 ELSE (packet_count + 1) % sampling
    BY DEF ReadPacket
  <2> QED
    BY <2>1, <2>2, Numbers
<1>2. runs' \in Nat
  BY DEF ReadPacket, TypeOK
<1>3. CASE packet_count' # 0
  <2>1. UNCHANGED <<flows, last, enable_darknet, lightlist, path, disk, next_save,
                    now, seen, learned, kept, flushed, saved>>
    BY <1>3 DEF ReadPacket
  <2> QED
    BY <1>1, <1>2, <2>1 DEF TypeOK
<1>4. CASE packet_count' = 0
  <2>1. /\ now' = time /\ UNCHANGED <<enable_darknet, path, kept>>
        /\ disk' = IF SaveDue(time) /\ opened
                   THEN [disk EXCEPT ![path] = lightlist'] ELSE disk
        /\ next_save' = IF SaveDue(time) THEN time + SAVE_EVERY ELSE next_save
        /\ flushed' = (flushed \/ last' # last)
        /\ saved' = IF SaveDue(time) THEN opened ELSE saved
    BY <1>4 DEF ReadPacket
  <2>2. now' \in Nat /\ next_save' \in Nat
    BY <1>0, <2>1, Numbers DEF TypeOK
  <2>5. flushed' \in BOOLEAN /\ saved' \in BOOLEAN
    BY <2>1 DEF TypeOK
  <2>6. /\ enable_darknet' \in BOOLEAN /\ path' \in Dirs \cup {None}
        /\ enable_darknet' => path' # None
        /\ kept' \in [Dirs -> SUBSET Hosts]
    BY <2>1 DEF TypeOK
  <2>3. /\ IsMap(flows') /\ last' \in Nat /\ lightlist' \subseteq Hosts
        /\ seen' \subseteq [packet : Packets, time : Nat]
        /\ learned' \in [DOMAIN learned' -> Nat] /\ DOMAIN learned' \subseteq Hosts
    <3>1. CASE coloured
      <4>1. Handle(p, time)
        BY <1>4, <3>1 DEF ReadPacket
      <4>2. IsMap(flows') /\ last' \in Nat
        BY <1>0, <4>1, HandleEntries
      <4>3. lightlist' \subseteq Hosts
        BY <4>1, PacketsAssumption DEF Handle, TypeOK
      <4>4. seen' \subseteq [packet : Packets, time : Nat]
        BY <1>0, <4>1 DEF Handle, TypeOK
      <4>5. /\ learned' \in [DOMAIN learned' -> Nat]
            /\ DOMAIN learned' \subseteq Hosts
        <5> DEFINE hosts == DOMAIN learned \cup (IF enable_darknet /\ p.out THEN {p.inner} ELSE {})
        <5>1. learned' = [h \in hosts |-> IF h \in DOMAIN learned THEN learned[h]
                                                                  ELSE time]
          BY <4>1 DEF Handle
        <5>2. hosts \subseteq Hosts
          BY PacketsAssumption DEF TypeOK
        <5> HIDE DEF hosts
        <5> QED
          BY <1>0, <5>1, <5>2 DEF TypeOK
      <4> QED
        BY <4>2, <4>3, <4>4, <4>5
    <3>2. CASE ~ coloured
      BY <1>4, <3>2 DEF ReadPacket, TypeOK, IsMap
    <3> QED
      BY <3>1, <3>2
  <2>4. disk' \in [Dirs -> SUBSET Hosts]
    <3>1. disk \in [Dirs -> SUBSET Hosts]
      BY DEF TypeOK
    <3> QED
      BY <2>1, <2>3, <3>1
  <2> QED
    BY <1>1, <1>2, <2>2, <2>3, <2>4, <2>5, <2>6 DEF TypeOK, IsMap
<1> QED
  BY <1>3, <1>4

LEMMA ReadFresh ==
    ASSUME TypeOK, FreshInv, NEW p \in Packets, NEW time \in 1 .. MaxTime,
           NEW coloured, NEW opened, ReadPacket(p, time, coloured, opened), TypeOK'
    PROVE  FreshInv'
<1>0. time \in Nat /\ time > 0 /\ now <= time
  BY Numbers DEF ReadPacket
<1>1. /\ now \in Nat /\ last \in Nat /\ \A e \in DOMAIN flows : flows[e] \in Nat
      /\ \A h \in seen : h.time \in Nat
  BY DEF TypeOK
<1>2. CASE packet_count' # 0
  <2>1. UNCHANGED <<flows, last, now, seen, flushed>>
    BY <1>2 DEF ReadPacket
  <2> QED
    BY <2>1 DEF FreshInv
<1>3. CASE packet_count' = 0
  <2>1. now' = time /\ flushed' = (flushed \/ last' # last)
    BY <1>3 DEF ReadPacket
  <2>2. CASE ~ coloured
    <3>1. UNCHANGED <<flows, last, seen>>
      BY <1>3, <2>2 DEF ReadPacket
    <3>2. \A h \in seen' : h.time <= now'
      BY <1>0, <1>1, <2>1, <3>1 DEF FreshInv
    <3>3. flushed' => last' <= now'
      <4>1. (flushed' => flushed) /\ (flushed => last <= now)
        BY <2>1, <3>1 DEF FreshInv
      <4> QED
        BY <1>0, <1>1, <2>1, <3>1, <4>1
    <3> QED
      BY <2>1, <3>1, <3>2, <3>3 DEF FreshInv
  <2>3. CASE coloured
    <3>1. Handle(p, time)
      BY <1>3, <2>3 DEF ReadPacket
    <3> DEFINE new == [packet |-> p, time |-> time]
    <3>2. seen' = seen \cup {new} /\ new.time = time
      BY <3>1 DEF Handle
    <3> HIDE DEF new
    <3>3. \A h \in seen' : h \in seen \/ h.time = time
      BY <3>2
    <3>4. \A h \in seen' : h.time <= now'
      <4>1. \A h \in seen : h.time <= time
        BY <1>0, <1>1 DEF FreshInv
      <4> QED
        BY <1>0, <2>1, <3>3, <4>1
    <3>5. CASE ~ enable_rttest
      <4>1. UNCHANGED <<flows, last>>
        BY <1>0, <3>1, <3>5, HandleEntries
      <4>2. DOMAIN flows = {} /\ ~ flushed
        BY <3>5 DEF FreshInv
      <4> QED
        BY <2>1, <3>4, <3>5, <4>1, <4>2 DEF FreshInv
    <3>6. CASE enable_rttest
      <4>1. /\ \A e \in DOMAIN flows' :
                 \/ e \in DOMAIN flows /\ flows'[e] = flows[e]
                 \/ MadeBy(flows, p, time, e, flows'[e])
            /\ FlushDue(time) =>
                 /\ last' = time
                 /\ \A e \in DOMAIN flows' : time - flows'[e] <= FLUSH_AGE
            /\ ~ FlushDue(time) => last' = IF last = 0 THEN time ELSE last
        BY <1>0, <3>1, <3>6, HandleEntries
      <4>2. \A e \in DOMAIN flows' : \/ flows'[e] = time
                                     \/ \E k \in DOMAIN flows : flows'[e] = flows[k]
        BY <4>1, MadeTimes
      <4>3. \A e \in DOMAIN flows' : flows'[e] \in Nat
        BY DEF TypeOK
      <4>4. \A e \in DOMAIN flows' : \E h \in seen' : h.time = flows'[e]
        <5>1. \E h \in seen' : h.time = time
          BY <3>2
        <5>2. \A k \in DOMAIN flows : \E h \in seen' : h.time = flows[k]
          BY <3>2 DEF FreshInv
        <5> QED
          BY <4>2, <5>1, <5>2
      <4>5. \A h \in seen : last # 0 /\ h.time - last <= FLUSH_EVERY
        BY <3>6 DEF FreshInv
      <4>6. CASE FlushDue(time)
        <5>1. last' = time /\ \A e \in DOMAIN flows' : time - flows'[e] <= FLUSH_AGE
          BY <4>1, <4>6
        <5>2. \A e \in DOMAIN flows' : flows'[e] >= time - FLUSH_AGE
          BY <1>0, <4>3, <5>1, Numbers
        <5>3. \A h \in seen' : last' # 0 /\ h.time - last' <= FLUSH_EVERY
          <6>1. \A h \in seen' : h.time \in Nat /\ h.time <= time
            BY <1>0, <1>1, <2>1, <3>3, <3>4
          <6> QED
            BY <1>0, <5>1, <6>1, Numbers
        <5> QED
          BY <1>0, <2>1, <3>4, <3>6, <4>4, <5>1, <5>2, <5>3 DEF FreshInv
      <4>7. CASE ~ FlushDue(time) /\ last = 0
        <5>1. last' = time
          BY <4>1, <4>7
        <5>2. seen = {} /\ DOMAIN flows = {}
          BY <4>5, <4>7 DEF FreshInv
        <5>3. \A e \in DOMAIN flows' : flows'[e] = time
          BY <4>2, <5>2
        <5>4. \A h \in seen' : h.time = time
          BY <3>3, <5>2
        <5>5. \A h \in seen' : last' # 0 /\ h.time - last' <= FLUSH_EVERY
          BY <1>0, <5>1, <5>4, Numbers
        <5>6. \A e \in DOMAIN flows' : flows'[e] >= last' - FLUSH_AGE
          BY <1>0, <5>1, <5>3, Numbers
        <5> QED
          BY <1>0, <2>1, <3>4, <3>6, <4>4, <5>1, <5>5, <5>6 DEF FreshInv
      <4>8. CASE ~ FlushDue(time) /\ last # 0
        <5>1. last' = last /\ time - last <= FLUSH_EVERY
          BY <1>0, <1>1, <4>1, <4>8, Numbers DEF FlushDue
        <5>2. \A h \in seen' : last' # 0 /\ h.time - last' <= FLUSH_EVERY
          BY <3>3, <4>5, <4>8, <5>1
        <5>3. ASSUME flushed
              PROVE  \A e \in DOMAIN flows' : flows'[e] >= last - FLUSH_AGE
          <6>1. last <= time /\ \A k \in DOMAIN flows : flows[k] >= last - FLUSH_AGE
            BY <1>0, <1>1, <5>3 DEF FreshInv
          <6> QED
            BY <1>0, <1>1, <4>2, <6>1, Numbers
        <5>4. flushed => last <= time
          BY <1>0, <1>1 DEF FreshInv
        <5> QED
          BY <2>1, <3>4, <3>6, <4>4, <5>1, <5>2, <5>3, <5>4 DEF FreshInv
      <4> QED
        BY <4>6, <4>7, <4>8
    <3> QED
      BY <3>5, <3>6
  <2> QED
    BY <2>2, <2>3
<1> QED
  BY <1>2, <1>3

\* At no packet handled so far was an entry older than Flush and the time
\* between two flushes allow.
LEMMA EntriesWereFresh ==
    ASSUME TypeOK, FreshInv, ~ Behind, NEW h \in seen, NEW e \in DOMAIN flows
    PROVE  flows[e] >= h.time - (FLUSH_AGE + FLUSH_EVERY)
<1>1. /\ h.time \in Nat /\ last \in Nat /\ flows[e] \in Nat
  BY DEF TypeOK
<1>2. h.time - last <= FLUSH_EVERY
  BY DEF FreshInv
<1>3. CASE flushed
  <2>1. flows[e] >= last - FLUSH_AGE
    BY <1>3 DEF FreshInv
  <2> QED
    BY <1>1, <1>2, <2>1, Numbers
<1>4. CASE ~ flushed
  <2>1. PICK g \in seen : g.time = flows[e]
    BY DEF FreshInv
  <2>2. ~ (g.time < last)
    BY <1>4 DEF Behind
  <2> QED
    BY <1>1, <1>2, <2>1, <2>2, Numbers
<1> QED
  BY <1>3, <1>4

LEMMA ReadList ==
    ASSUME TypeOK, ListInv, SaveInv, NEW p \in Packets, NEW time \in 1 .. MaxTime,
           NEW coloured, NEW opened \in BOOLEAN,
           ReadPacket(p, time, coloured, opened)
    PROVE  ListInv' /\ SaveInv'
<1>0. time \in Nat /\ time > 0 /\ now <= time
  BY Numbers DEF ReadPacket
<1>1. /\ now \in Nat /\ next_save \in Nat
      /\ \A h \in DOMAIN learned : learned[h] \in Nat
      /\ enable_darknet => path # None
      /\ path \in Dirs \cup {None} /\ disk \in [Dirs -> SUBSET Hosts]
  BY DEF TypeOK
<1>2. CASE packet_count' # 0
  <2>1. UNCHANGED <<enable_darknet, lightlist, path, disk, next_save, now, learned,
                    kept, saved>>
    BY <1>2 DEF ReadPacket
  <2> QED
    BY <2>1 DEF ListInv, SaveInv
<1>3. CASE packet_count' = 0
  <2>1. /\ now' = time /\ UNCHANGED <<enable_darknet, path, kept>>
        /\ disk' = IF SaveDue(time) /\ opened
                   THEN [disk EXCEPT ![path] = lightlist'] ELSE disk
        /\ next_save' = IF SaveDue(time) THEN time + SAVE_EVERY ELSE next_save
        /\ saved' = IF SaveDue(time) THEN opened ELSE saved
    BY <1>3 DEF ReadPacket
  <2>2. /\ DOMAIN learned' \subseteq lightlist'
        /\ path = None => DOMAIN learned' = {}
        /\ \A h \in DOMAIN learned' : \/ h \in DOMAIN learned /\ learned'[h] = learned[h]
                                      \/ learned'[h] = time
    <3>1. CASE coloured
      <4>1. Handle(p, time)
        BY <1>3, <3>1 DEF ReadPacket
      <4>2. /\ learned' = [h \in DOMAIN learned \cup
                                 (IF enable_darknet /\ p.out THEN {p.inner} ELSE {}) |->
                             IF h \in DOMAIN learned THEN learned[h] ELSE time]
            /\ lightlist' = IF enable_darknet /\ p.out THEN lightlist \cup {p.inner}
                                                       ELSE lightlist
        BY <4>1 DEF Handle, ForLight
      <4> QED
        BY <1>1, <4>2 DEF ListInv
    <3>2. CASE ~ coloured
      BY <1>3, <3>2 DEF ReadPacket, ListInv
    <3> QED
      BY <3>1, <3>2
  <2>3. CASE SaveDue(time) /\ opened
    <3>1. path \in Dirs
      BY <1>1, <2>3 DEF SaveDue
    <3>2. /\ disk'[path] = lightlist' /\ next_save' = time + SAVE_EVERY
          /\ \A d \in Dirs : d # path => disk'[d] = disk[d]
      BY <1>1, <2>1, <2>3, <3>1
    <3>3. now' <= next_save' /\ next_save' <= now' + SAVE_EVERY
      <4>1. now' = time /\ next_save' = time + SAVE_EVERY
        BY <2>1, <3>2
      <4> QED
        BY <1>0, <4>1, Numbers
    <3>4. \A h \in DOMAIN learned' : h \in disk'[path']
      BY <2>1, <2>2, <3>2
    <3>5. \A d \in Dirs : d # path' => kept'[d] \subseteq disk'[d]
      BY <2>1, <3>2 DEF ListInv
    <3>6. enable_darknet /\ path # None
      BY <1>1, <2>3 DEF SaveDue
    <3>7. ListInv'
      BY <2>1, <2>2, <3>4, <3>5, <3>6 DEF ListInv
    <3>8. SaveInv'
      BY <2>1, <3>3, <3>4, <3>6 DEF SaveInv
    <3> QED
      BY <3>7, <3>8
  <2>4. CASE ~ (SaveDue(time) /\ opened)
    <3>1. disk' = disk
      BY <2>1, <2>4
    <3>2. path # None => \A h \in DOMAIN learned' : learned'[h] = 0 => h \in disk[path]
      BY <1>0, <2>2 DEF ListInv
    <3>3. ListInv'
      BY <2>1, <2>2, <3>1, <3>2 DEF ListInv
    <3>4. ASSUME saved'
          PROVE  /\ enable_darknet /\ path # None
                 /\ now' <= next_save' /\ next_save' <= now' + SAVE_EVERY
                 /\ \A h \in DOMAIN learned' :
                      h \in disk[path] \/ learned'[h] >= next_save' - SAVE_EVERY
      <4>1. ~ SaveDue(time) /\ saved /\ next_save' = next_save
        BY <2>1, <2>4, <3>4
      <4>2. /\ enable_darknet /\ path # None /\ next_save <= now + SAVE_EVERY
            /\ \A h \in DOMAIN learned :
                 h \in disk[path] \/ learned[h] >= next_save - SAVE_EVERY
        BY <4>1 DEF SaveInv
      <4>3. time <= next_save
        BY <1>0, <1>1, <4>1, <4>2 DEF SaveDue
      <4> QED
        BY <1>0, <1>1, <2>1, <2>2, <4>1, <4>2, <4>3, Numbers
    <3> QED
      BY <2>1, <3>1, <3>3, <3>4 DEF SaveInv
  <2> QED
    BY <2>3, <2>4
<1> QED
  BY <1>2, <1>3

\* The packet a step exports is judged by the list before the step.
LEMMA ReadSilent ==
    ASSUME ListInv, NEW p \in Packets, NEW time, NEW coloured, NEW opened,
           ReadPacket(p, time, coloured, opened)
    PROVE  DarkMeansSilent'
<1>1. CASE packet_count' # 0 \/ ~ coloured
  BY <1>1 DEF ReadPacket, DarkMeansSilent
<1>2. CASE packet_count' = 0 /\ coloured
  <2>1. Handle(p, time)
    BY <1>2 DEF ReadPacket
  <2>2. CASE ~ Shown(p)
    BY <2>1, <2>2 DEF Handle, DarkMeansSilent
  <2>3. CASE Shown(p)
    <3>1. /\ exported'.packet = p
          /\ exported'.dark = (enable_darknet /\ ~ p.out /\ p.inner \notin lightlist)
      BY <2>1, <2>3 DEF Handle
    <3>2. CASE exported'.dark
      <4>1. enable_darknet /\ ~ p.out /\ p.inner \notin lightlist
        BY <3>1, <3>2
      <4>2. DOMAIN learned' = DOMAIN learned
        BY <2>1, <4>1 DEF Handle
      <4> QED
        BY <3>1, <4>1, <4>2 DEF ListInv, DarkMeansSilent
    <3> QED
      BY <3>2 DEF DarkMeansSilent
  <2> QED
    BY <2>2, <2>3
<1> QED
  BY <1>1, <1>2
-----------------------------------------------------------------------------
(* A new trace, with or without a restart of the server.                   *)

\* Every new trace begins without entries and without a past.
LEMMA NewTraceFresh ==
    ASSUME NewTrace
    PROVE  FreshInv' /\ SaveInv' /\ DarkMeansSilent'
<1>1. /\ flows' = NoEntries /\ seen' = {} /\ flushed' = FALSE /\ saved' = FALSE
      /\ exported' = None
  BY DEF NewTrace, NewMap
<1>2. DOMAIN flows' = {}
  BY <1>1 DEF NoEntries
<1> QED
  BY <1>1, <1>2 DEF FreshInv, SaveInv, DarkMeansSilent

\* All that is left to show of one: the list and its files.
LEMMA NewTraceInv ==
    ASSUME TypeOK, NewTrace, last' \in Nat, next_save' \in Nat,
           packet_count' \in Nat, enable_darknet' \in BOOLEAN,
           path' \in Dirs \cup {None}, enable_darknet' => path' # None,
           lightlist' \subseteq Hosts, disk' \in [Dirs -> SUBSET Hosts],
           kept' \in [Dirs -> SUBSET Hosts],
           learned' \in [DOMAIN learned' -> Nat], DOMAIN learned' \subseteq Hosts,
           ListInv'
    PROVE  IInv'
<1>1. /\ flows' = NoEntries /\ seen' = {} /\ flushed' = FALSE /\ saved' = FALSE
      /\ now' = 0 /\ runs' = runs + 1
  BY DEF NewTrace, NewMap
<1>2. TypeOK'
  <2>1. flows' \in [DOMAIN flows' -> Nat]
    BY <1>1 DEF NoEntries
  <2>2. runs \in Nat
    BY DEF TypeOK
  <2>3. runs' \in Nat
    BY <1>1, <2>2
  <2>4. seen' \subseteq [packet : Packets, time : Nat]
    BY <1>1
  <2>5. now' \in Nat /\ flushed' \in BOOLEAN /\ saved' \in BOOLEAN
    BY <1>1
  <2>6. {disk', kept'} \subseteq [Dirs -> SUBSET Hosts]
    OBVIOUS
  <2> QED
    BY <2>1, <2>3, <2>4, <2>5, <2>6 DEF TypeOK
<1> QED
  BY <1>2, NewTraceFresh DEF IInv

\* What is remembered is in the file of the list.
LEMMA RememberedSaved ==
    ASSUME TypeOK, ListInv, SaveInv, path # None
    PROVE  Remembered \subseteq disk[path] /\ Remembered \subseteq DOMAIN learned
<1>1. ASSUME NEW h \in Remembered
      PROVE  h \in disk[path]
  <2>1. h \in DOMAIN learned
    BY DEF Remembered
  <2>2. CASE learned[h] = 0
    BY <2>1, <2>2 DEF ListInv
  <2>3. CASE saved /\ now - learned[h] > SAVE_EVERY
    <3>1. /\ now <= next_save
          /\ h \in disk[path] \/ learned[h] >= next_save - SAVE_EVERY
      BY <2>1, <2>3 DEF SaveInv
    <3>2. now \in Nat /\ next_save \in Nat /\ learned[h] \in Nat
      BY <2>1 DEF TypeOK
    <3> QED
      BY <2>3, <3>1, <3>2, Numbers
  <2> QED
    BY <2>2, <2>3 DEF Remembered
<1>2. Remembered \subseteq DOMAIN learned
  BY DEF Remembered
<1> QED
  BY <1>1, <1>2

\* The files are those of directories, and hold what they must.
FilesOK ==
    /\ disk \in [Dirs -> SUBSET Hosts] /\ kept \in [Dirs -> SUBSET Hosts]
    /\ \A d \in Dirs : kept[d] \subseteq disk[d]

\* The file of the list has been given up with something in it that must be there.
LEMMA GivenUp ==
    ASSUME TypeOK, ListInv,
           \/ path = None /\ UNCHANGED <<disk, kept>>
           \/ /\ path # None
              /\ \E hosts, must \in SUBSET Hosts :
                   /\ must \subseteq hosts
                   /\ disk' = [disk EXCEPT ![path] = hosts]
                   /\ kept' = [kept EXCEPT ![path] = must]
    PROVE  FilesOK'
<1>0. /\ path \in Dirs \cup {None} /\ disk \in [Dirs -> SUBSET Hosts]
      /\ kept \in [Dirs -> SUBSET Hosts]
      /\ \A d \in Dirs : d # path => kept[d] \subseteq disk[d]
  BY DEF TypeOK, ListInv
<1>1. CASE path = None /\ UNCHANGED <<disk, kept>>
  BY <1>0, <1>1, DirsAssumption DEF FilesOK
<1>2. CASE /\ path # None
           /\ \E hosts, must \in SUBSET Hosts :
                /\ must \subseteq hosts
                /\ disk' = [disk EXCEPT ![path] = hosts]
                /\ kept' = [kept EXCEPT ![path] = must]
  <2>1. PICK hosts \in SUBSET Hosts, must \in SUBSET Hosts :
          /\ must \subseteq hosts
          /\ disk' = [disk EXCEPT ![path] = hosts]
          /\ kept' = [kept EXCEPT ![path] = must]
    BY <1>2
  <2>2. path \in Dirs
    BY <1>0, <1>2
  <2>3. disk' \in [Dirs -> SUBSET Hosts] /\ kept' \in [Dirs -> SUBSET Hosts]
    BY <1>0, <2>1
  <2>4. disk'[path] = hosts /\ kept'[path] = must
    BY <1>0, <2>1, <2>2
  <2>5. \A d \in Dirs : d # path => disk'[d] = disk[d] /\ kept'[d] = kept[d]
    BY <1>0, <2>1
  <2> QED
    BY <1>0, <2>1, <2>3, <2>4, <2>5 DEF FilesOK
<1> QED
  BY <1>1, <1>2

LEMMA DeletedFiles ==
    ASSUME TypeOK, ListInv, SaveInv, NEW opened \in BOOLEAN, DeleteList(opened)
    PROVE  FilesOK'
<1>1. CASE path = None
  BY <1>1, GivenUp DEF DeleteList
<1>2. CASE path # None
  <2> DEFINE hosts == IF opened THEN lightlist ELSE disk[path]
             must  == IF opened THEN DOMAIN learned ELSE Remembered
  <2>1. path \in Dirs /\ disk \in [Dirs -> SUBSET Hosts]
    BY <1>2 DEF TypeOK
  <2>2. disk' = [disk EXCEPT ![path] = hosts] /\ kept' = [kept EXCEPT ![path] = must]
    BY <1>2, <2>1 DEF DeleteList
  <2>3. must \subseteq hosts
    BY <1>2, RememberedSaved DEF ListInv
  <2>4. hosts \in SUBSET Hosts
    BY <2>1 DEF TypeOK
  <2> HIDE DEF hosts, must
  <2>5. must \in SUBSET Hosts
    BY <2>3, <2>4
  <2> QED
    BY <1>2, <2>2, <2>3, <2>4, <2>5, GivenUp
<1> QED
  BY <1>1, <1>2

\* A list that is made from its file.
LEMMA MadeList ==
    ASSUME FilesOK', NEW dir \in Dirs, NEW opened \in BOOLEAN, NewList(dir, opened)
    PROVE  /\ path' \in Dirs \cup {None} /\ path' # None
           /\ lightlist' \subseteq Hosts
           /\ learned' \in [DOMAIN learned' -> Nat] /\ DOMAIN learned' \subseteq Hosts
           /\ ListInv'
<1> DEFINE must == IF opened THEN kept'[dir] ELSE {}
<1>1. /\ path' = dir /\ path' # None
      /\ lightlist' = IF opened THEN disk'[dir] ELSE {}
      /\ learned' = [h \in must |-> 0]
  BY DirsAssumption DEF NewList
<1>2. /\ disk'[dir] \subseteq Hosts /\ kept'[dir] \subseteq disk'[dir]
  BY DEF FilesOK
<1>3. /\ must \subseteq lightlist' /\ must \subseteq disk'[dir]
      /\ lightlist' \subseteq Hosts
  BY <1>1, <1>2
<1> HIDE DEF must
<1>4. DOMAIN learned' = must /\ learned' \in [DOMAIN learned' -> Nat]
  BY <1>1
<1>5. \A d \in Dirs : kept'[d] \subseteq disk'[d]
  BY DEF FilesOK
<1> QED
  BY <1>1, <1>3, <1>4, <1>5 DEF ListInv

LEMMA RestartedServer ==
    ASSUME TypeOK, FilesOK', NEW dir \in Dirs, NEW on \in Darknet, NEW in \in BOOLEAN,
           RestartServer(dir, on, in)
    PROVE  IInv'
<1>1. /\ NewTrace /\ last' \in Nat /\ next_save' \in Nat /\ packet_count' \in Nat
      /\ enable_darknet' = on /\ on \in BOOLEAN
  BY FlagsAssumption DEF RestartServer
<1>2. disk' \in [Dirs -> SUBSET Hosts] /\ kept' \in [Dirs -> SUBSET Hosts]
  BY DEF FilesOK
<1>3. CASE on
  <2>1. NewList(dir, in)
    BY <1>3 DEF RestartServer
  <2> QED
    BY <1>1, <1>2, <2>1, MadeList, NewTraceInv
<1>4. CASE ~ on
  <2>1. path' = None /\ lightlist' = {} /\ learned' = NoEntries
    BY <1>4 DEF RestartServer
  <2>2. DOMAIN learned' = {} /\ learned' \in [DOMAIN learned' -> Nat]
    BY <2>1 DEF NoEntries
  <2>3. ListInv'
    BY <2>1, <2>2 DEF ListInv, FilesOK
  <2> QED
    BY <1>1, <1>2, <1>4, <2>1, <2>2, <2>3, NewTraceInv
<1> QED
  BY <1>1, <1>3, <1>4

LEMMA RestartedTrace ==
    ASSUME IInv, NEW dir \in Dirs, NEW on \in Darknet, NEW out \in BOOLEAN,
           NEW in \in BOOLEAN, RestartTrace(dir, on, out, in)
    PROVE  IInv'
<1>0. TypeOK /\ ListInv /\ SaveInv
  BY DEF IInv
<1>1. /\ NewTrace /\ last' \in Nat /\ next_save' \in Nat /\ packet_count' \in Nat
      /\ enable_darknet' = on /\ on \in BOOLEAN
  BY <1>0, FlagsAssumption DEF RestartTrace, TypeOK
<1>2. CASE on
  <2>1. DeleteList(out) /\ NewList(dir, in)
    BY <1>2 DEF RestartTrace
  <2>2. FilesOK'
    BY <1>0, <2>1, DeletedFiles
  <2> QED
    BY <1>0, <1>1, <2>1, <2>2, MadeList, NewTraceInv DEF FilesOK
<1>3. CASE ~ on
  <2>1. UNCHANGED <<lightlist, path, disk, learned, kept>>
    BY <1>3 DEF RestartTrace
  <2>2. ListInv'
    BY <1>0, <2>1 DEF ListInv
  <2>3. /\ path' \in Dirs \cup {None} /\ lightlist' \subseteq Hosts
        /\ disk' \in [Dirs -> SUBSET Hosts] /\ kept' \in [Dirs -> SUBSET Hosts]
        /\ learned' \in [DOMAIN learned' -> Nat] /\ DOMAIN learned' \subseteq Hosts
    BY <1>0, <2>1 DEF TypeOK
  <2> QED
    BY <1>0, <1>1, <1>3, <2>2, <2>3, NewTraceInv
<1> QED
  BY <1>1, <1>2, <1>3

LEMMA CrashInv ==
    ASSUME IInv, NEW dir \in Dirs, NEW on \in Darknet, NEW in \in BOOLEAN,
           \/ Crash(dir, on, in)
           \/ \E written, cut \in SUBSET Hosts : CrashInSave(written, cut, dir, on, in)
    PROVE  IInv'
<1>0. TypeOK /\ ListInv /\ SaveInv
  BY DEF IInv
<1>1. CASE Crash(dir, on, in)
  <2>1. /\ disk' = disk /\ RestartServer(dir, on, in)
        /\ kept' = IF path = None THEN kept ELSE [kept EXCEPT ![path] = Remembered]
    BY <1>1 DEF Crash
  <2>2. CASE path = None
    <3>1. FilesOK'
      BY <1>0, <2>1, <2>2, GivenUp
    <3> QED
      BY <1>0, <2>1, <3>1, RestartedServer
  <2>3. CASE path # None
    <3>1. path \in Dirs /\ disk \in [Dirs -> SUBSET Hosts]
      BY <1>0, <2>3 DEF TypeOK
    <3>2. disk' = [disk EXCEPT ![path] = disk[path]]
      BY <2>1, <3>1
    <3>3. disk[path] \in SUBSET Hosts /\ Remembered \in SUBSET disk[path]
      BY <1>0, <2>3, <3>1, RememberedSaved
    <3>4. FilesOK'
      BY <1>0, <2>1, <2>3, <3>2, <3>3, GivenUp
    <3> QED
      BY <1>0, <2>1, <3>4, RestartedServer
  <2> QED
    BY <2>2, <2>3
<1>2. ASSUME NEW written \in SUBSET Hosts, NEW cut \in SUBSET Hosts,
             CrashInSave(written, cut, dir, on, in)
      PROVE  IInv'
  <2>1. /\ path # None /\ RestartServer(dir, on, in)
        /\ disk' = [disk EXCEPT ![path] = written \cup cut]
        /\ kept' = [kept EXCEPT ![path] = DOMAIN learned \cap written]
    BY <1>2 DEF CrashInSave
  <2> DEFINE hosts == written \cup cut
             must  == DOMAIN learned \cap written
  <2>2. must \subseteq hosts /\ hosts \in SUBSET Hosts /\ must \in SUBSET Hosts
    OBVIOUS
  <2>3. disk' = [disk EXCEPT ![path] = hosts] /\ kept' = [kept EXCEPT ![path] = must]
    BY <2>1
  <2> HIDE DEF hosts, must
  <2>4. FilesOK'
    BY <1>0, <2>1, <2>2, <2>3, GivenUp
  <2> QED
    BY <1>0, <2>1, <2>4, RestartedServer
<1> QED
  BY <1>1, <1>2

LEMMA NextIInv ==
    ASSUME IInv, [Next]_vars
    PROVE  IInv'
<1>1. ASSUME NEW p \in Packets, NEW time \in 1 .. MaxTime, NEW coloured \in BOOLEAN,
             NEW opened \in BOOLEAN, ReadPacket(p, time, coloured, opened)
      PROVE  IInv'
  <2>1. TypeOK'
    BY <1>1, ReadTypes DEF IInv
  <2>2. FreshInv'
    BY <1>1, <2>1, ReadFresh DEF IInv
  <2>3. ListInv' /\ SaveInv' /\ DarkMeansSilent'
    BY <1>1, ReadList, ReadSilent DEF IInv
  <2> QED
    BY <2>1, <2>2, <2>3 DEF IInv
<1>2. ASSUME NEW dir \in Dirs, NEW on \in Darknet, NEW out \in BOOLEAN,
             NEW in \in BOOLEAN, RestartTrace(dir, on, out, in)
      PROVE  IInv'
  BY <1>2, RestartedTrace
<1>3. ASSUME NEW dir \in Dirs, NEW on \in Darknet, NEW out \in BOOLEAN,
             NEW in \in BOOLEAN, Stop(dir, on, out, in)
      PROVE  IInv'
  BY <1>3, DeletedFiles, RestartedServer DEF Stop, IInv
<1>4. ASSUME NEW dir \in Dirs, NEW on \in Darknet, NEW in \in BOOLEAN,
             \/ Crash(dir, on, in)
             \/ \E written, cut \in SUBSET Hosts :
                  CrashInSave(written, cut, dir, on, in)
      PROVE  IInv'
  BY <1>4, CrashInv
<1>5. CASE UNCHANGED vars
  <2>1. TypeOK'
    BY <1>5 DEF vars, IInv, TypeOK
  <2>2. FreshInv'
    BY <1>5 DEF vars, IInv, FreshInv
  <2>3. ListInv' /\ SaveInv' /\ DarkMeansSilent'
    BY <1>5 DEF vars, IInv, ListInv, SaveInv, DarkMeansSilent
  <2> QED
    BY <2>1, <2>2, <2>3 DEF IInv
<1> QED
  BY <1>1, <1>2, <1>3, <1>4, <1>5 DEF Next
-----------------------------------------------------------------------------
\* The invariant holds of every run of the server.
THEOREM HandlerInvariant == Spec => []IInv
<1> QED
  BY InitIInv, NextIInv, PTL DEF Spec

\* Type correctness of the packet handler.
THEOREM HandlerTypes == Spec => []TypeOK
<1>1. IInv => TypeOK
  BY DEF IInv
<1> QED
  BY <1>1, HandlerInvariant, PTL

\* A packet is marked dark only if its host is not known to have sent: through
\* saves and loads that succeed or fail, changes of the directory, times without
\* darknet, restarts, and crashes between two packets or in the middle of a save.
THEOREM DarkHostsAreSilent == Spec => []DarkMeansSilent
<1>1. IInv => DarkMeansSilent
  BY DEF IInv
<1> QED
  BY <1>1, HandlerInvariant, PTL

-----------------------------------------------------------------------------
(* Where the entries come from.  The estimator keeps handshakes, time      *)
(* stamps and pings in one map: that a packet finds what it looks for, and *)
(* nothing else, is the hypothesis Apart of the last theorem.              *)

\* What packet of a history an entry e with time v was made for: a time stamp,
\* a SYN, a ping,
FromStamp(hist, e, v) ==
    \E h \in hist : /\ h.time = v /\ Stamp(h.packet) # Zero
                    /\ e = <<Flow(h.packet), Stamp(h.packet)>>

FromSyn(hist, e, v) ==
    \E h \in hist : /\ h.time = v /\ Stamp(h.packet) = Zero /\ Syn(h.packet)
                    /\ e = <<Flow(h.packet), <<h.packet.seq, 0>>>>

FromPing(hist, e, v) ==
    \E h \in hist : /\ h.time = v /\ h.packet.kind = "echo"
                    /\ e = <<Flow(h.packet), <<h.packet.seq, 0>>>>

\* or a SYN that a SYN-ACK has answered since.
FromHandshake(hist, e, v) ==
    \E h \in hist, s \in hist :
       /\ h.time = v /\ Stamp(h.packet) = Zero /\ Syn(h.packet)
       /\ Stamp(s.packet) = Zero /\ SynAck(s.packet) /\ h.time <= s.time
       /\ Flow(h.packet) = Backward(s.packet)
       /\ Before(s.packet.ackno) = h.packet.seq
       /\ e = <<Flow(h.packet), <<s.packet.seq, 0>>>>

Origin(hist, e, v) ==
    \/ FromStamp(hist, e, v) \/ FromSyn(hist, e, v)
    \/ FromPing(hist, e, v) \/ FromHandshake(hist, e, v)

Provenance == \A e \in DOMAIN flows : Origin(seen, e, flows[e])

\* The weaker fact that needs no hypothesis: an entry is under the flow of a
\* packet of this trace, and has its time.
EntriesSeen ==
    \A e \in DOMAIN flows : \E h \in seen : /\ h.time = flows[e]
                                            /\ e[1] = Flow(h.packet)

\* A round trip time is counted from a packet of the same connection, in this
\* trace, whatever the numbers of its packets.
RttOfConnection ==
    exported # None /\ exported.rtt >= 0 =>
      \E h \in seen : /\ h.time = now - exported.rtt
                      /\ Flow(h.packet) \in {Flow(exported.packet),
                                             Backward(exported.packet)}

\* An entry is for one of the four purposes.
LEMMA OriginIsMade ==
    ASSUME NEW hist, hist \subseteq [packet : Packets, time : Nat], NEW e, NEW v
    PROVE  /\ FromStamp(hist, e, v) => e \in Made.stamp
           /\ FromSyn(hist, e, v) => e \in Made.syn
           /\ FromPing(hist, e, v) => e \in Made.ping
           /\ FromHandshake(hist, e, v) => e \in Made.moved
<1>1. \A h \in hist : h.packet \in Packets
  OBVIOUS
<1>2. FromStamp(hist, e, v) => e \in Made.stamp
  BY <1>1 DEF FromStamp, Made
<1>3. FromSyn(hist, e, v) => e \in Made.syn
  BY <1>1 DEF FromSyn, Made
<1>4. FromPing(hist, e, v) => e \in Made.ping
  BY <1>1 DEF FromPing, Made
<1>5. FromHandshake(hist, e, v) => e \in Made.moved
  BY <1>1 DEF FromHandshake, Made
<1> QED
  BY <1>2, <1>3, <1>4, <1>5

\* A packet that looks for one of them, and finds an entry, has found the one
\* it looks for.
LEMMA FoundWhatWasSought ==
    ASSUME Apart, NEW hist, hist \subseteq [packet : Packets, time : Nat],
           NEW e, NEW v, Origin(hist, e, v)
    PROVE  /\ e \in Sought.stamp => FromStamp(hist, e, v)
           /\ e \in Sought.syn => FromSyn(hist, e, v)
           /\ e \in Sought.ping => FromPing(hist, e, v)
           /\ e \in Sought.moved => FromHandshake(hist, e, v)
<1>1. DOMAIN Made = {"stamp", "syn", "moved", "ping"}
  BY DEF Made
<1>2. \A a, b \in {"stamp", "syn", "moved", "ping"} :
        a # b => Made[a] \cap Sought[b] = {}
  BY <1>1 DEF Apart
<1>3. /\ Made["stamp"] \cap Sought["syn"] = {} /\ Made["stamp"] \cap Sought["moved"] = {}
      /\ Made["stamp"] \cap Sought["ping"] = {} /\ Made["syn"] \cap Sought["stamp"] = {}
      /\ Made["syn"] \cap Sought["moved"] = {} /\ Made["syn"] \cap Sought["ping"] = {}
      /\ Made["moved"] \cap Sought["stamp"] = {} /\ Made["moved"] \cap Sought["syn"] = {}
      /\ Made["moved"] \cap Sought["ping"] = {} /\ Made["ping"] \cap Sought["stamp"] = {}
      /\ Made["ping"] \cap Sought["syn"] = {} /\ Made["ping"] \cap Sought["moved"] = {}
  BY <1>2
<1> QED
  BY <1>3, OriginIsMade DEF Origin

LEMMA FoundForStamp ==
    ASSUME NEW hist, NEW e, NEW v, FromStamp(hist, e, v), NEW p,
           Echo(p) # Zero, e = <<Backward(p), Echo(p)>>
    PROVE  \E h \in hist : /\ h.time = v /\ Opposite(h.packet, p)
                           /\ h.packet.kind = "tcp" /\ p.kind = "tcp"
                           /\ h.packet.ts = p.ecr
<1>1. PICK h \in hist : /\ h.time = v /\ Stamp(h.packet) # Zero
                        /\ e = <<Flow(h.packet), Stamp(h.packet)>>
  BY DEF FromStamp
<1>2. Flow(h.packet) = Backward(p) /\ Stamp(h.packet) = Echo(p)
  BY <1>1
<1>3. h.packet.kind = "tcp" /\ p.kind = "tcp"
  BY <1>1 DEF Stamp, Echo
<1>4. Long(h.packet.ts, h.packet.ecr) = Long(p.ecr, p.tail)
  BY <1>2, <1>3 DEF Stamp, Echo
<1>5. h.packet.ts = p.ecr
  BY <1>4 DEF Long
<1> QED
  BY <1>1, <1>2, <1>3, <1>5 DEF Opposite

\* What an entry was made for stays so.
LEMMA OriginStays ==
    ASSUME NEW old, NEW hist, old \subseteq hist, NEW e, NEW v, Origin(old, e, v)
    PROVE  Origin(hist, e, v)
<1>1. FromStamp(old, e, v) => FromStamp(hist, e, v)
  BY DEF FromStamp
<1>2. FromSyn(old, e, v) => FromSyn(hist, e, v)
  BY DEF FromSyn
<1>3. FromPing(old, e, v) => FromPing(hist, e, v)
  BY DEF FromPing
<1>4. FromHandshake(old, e, v) => FromHandshake(hist, e, v)
  BY DEF FromHandshake
<1> QED
  BY <1>1, <1>2, <1>3, <1>4 DEF Origin

\* So has every entry that a packet makes or moves.
LEMMA MadeHasOrigin ==
    ASSUME Apart, TypeOK, FreshInv, Provenance,
           NEW p \in Packets, NEW time \in Nat, now <= time,
           NEW hist, hist = seen \cup {[packet |-> p, time |-> time]},
           NEW e, NEW v, MadeBy(flows, p, time, e, v)
    PROVE  Origin(hist, e, v)
<1> DEFINE h == [packet |-> p, time |-> time]
<1>1. h \in hist /\ h.packet = p /\ h.time = time
  OBVIOUS
<1> HIDE DEF h
<1>2. CASE Stamp(p) # Zero /\ e = <<Flow(p), Stamp(p)>> /\ v = time
  BY <1>1, <1>2 DEF Origin, FromStamp
<1>3. CASE Stamp(p) = Zero /\ Syn(p) /\ e = <<Flow(p), <<p.seq, 0>>>> /\ v = time
  BY <1>1, <1>3 DEF Origin, FromSyn
<1>4. CASE p.kind = "echo" /\ e = <<Flow(p), <<p.seq, 0>>>> /\ v = time
  BY <1>1, <1>4 DEF Origin, FromPing
<1>5. CASE /\ Stamp(p) = Zero /\ SynAck(p) /\ e = <<Backward(p), <<p.seq, 0>>>>
           /\ <<Backward(p), <<Before(p.ackno), 0>>>> \in DOMAIN flows
           /\ v = flows[<<Backward(p), <<Before(p.ackno), 0>>>>]
  <2> DEFINE old == <<Backward(p), <<Before(p.ackno), 0>>>>
  <2>1. old \in Sought.syn
    BY <1>5 DEF Sought
  <2>2. Origin(seen, old, v)
    BY <1>5 DEF Provenance
  <2>3. FromSyn(seen, old, v)
    BY <2>1, <2>2, FoundWhatWasSought DEF TypeOK
  <2>4. PICK s \in seen : /\ s.time = v /\ Stamp(s.packet) = Zero /\ Syn(s.packet)
                          /\ old = <<Flow(s.packet), <<s.packet.seq, 0>>>>
    BY <2>3 DEF FromSyn
  <2>5. Flow(s.packet) = Backward(p) /\ Before(p.ackno) = s.packet.seq
    BY <2>4
  <2>6. s.time <= time
    <3>1. s.time \in Nat /\ now \in Nat
      BY DEF TypeOK
    <3> QED
      BY <3>1 DEF FreshInv
  <2>7. s \in hist
    OBVIOUS
  <2>8. e = <<Flow(s.packet), <<p.seq, 0>>>>
    BY <1>5, <2>5
  <2>9. FromHandshake(hist, e, v)
    BY <1>1, <1>5, <2>4, <2>5, <2>6, <2>7, <2>8 DEF FromHandshake
  <2> QED
    BY <2>9 DEF Origin
<1> QED
  BY <1>2, <1>3, <1>4, <1>5 DEF MadeBy

\* A round trip time is the age of an entry the packet looked for.
LEMMA HandleExport ==
    ASSUME TypeOK, NEW p \in Packets, NEW time \in Nat, Handle(p, time),
           exported' # None, exported'.rtt >= 0
    PROVE  /\ exported'.packet = p
           /\ \/ \E e \in DOMAIN flows : /\ UsedBy(p, e)
                                         /\ exported'.rtt = time - flows[e]
              \/ \E e, v : /\ \/ e \in DOMAIN flows /\ v = flows[e]
                              \/ MadeBy(flows, p, time, e, v)
                           /\ Echo(p) # Zero /\ e = <<Backward(p), Echo(p)>>
                           /\ exported'.rtt = time - v
<1> DEFINE r == Result(p, time)
<1>1. Shown(p)
  BY DEF Handle
<1>2. CASE enable_rttest
  <2>1. exported'.packet = p /\ exported'.rtt = r.rtt
    BY <1>1, <1>2 DEF Handle, Result
  <2>2. \/ r.rtt \in {-1, -2}
        \/ \E e \in DOMAIN flows : UsedBy(p, e) /\ r.rtt = time - flows[e]
        \/ \E e, v : /\ \/ e \in DOMAIN flows /\ v = flows[e]
                        \/ MadeBy(flows, p, time, e, v)
                     /\ Echo(p) # Zero /\ e = <<Backward(p), Echo(p)>>
                     /\ r.rtt = time - v
    BY ResultFacts DEF TypeOK, IsMap
  <2> HIDE DEF r
  <2>3. r.rtt # -1 /\ r.rtt # -2
    BY <2>1
  <2> QED
    BY <2>1, <2>2, <2>3
<1>3. CASE ~ enable_rttest
  <2>1. exported'.rtt = -2
    BY <1>1, <1>3 DEF Handle
  <2> QED
    BY <2>1
<1> QED
  BY <1>2, <1>3

\* Flow and time of an entry that a packet makes or moves.
LEMMA MadeSeen ==
    ASSUME EntriesSeen, NEW p, NEW time, NEW e, NEW v, MadeBy(flows, p, time, e, v)
    PROVE  \/ v = time /\ e[1] = Flow(p)
           \/ \E h \in seen : h.time = v /\ e[1] = Flow(h.packet)
<1>1. CASE v = time /\ e[1] = Flow(p)
  BY <1>1
<1>2. CASE /\ e = <<Backward(p), <<p.seq, 0>>>>
           /\ <<Backward(p), <<Before(p.ackno), 0>>>> \in DOMAIN flows
           /\ v = flows[<<Backward(p), <<Before(p.ackno), 0>>>>]
  <2> DEFINE old == <<Backward(p), <<Before(p.ackno), 0>>>>
  <2>1. old[1] = e[1]
    BY <1>2
  <2>2. \E h \in seen : h.time = v /\ old[1] = Flow(h.packet)
    BY <1>2 DEF EntriesSeen
  <2> QED
    BY <2>1, <2>2
<1> QED
  BY <1>1, <1>2 DEF MadeBy

LEMMA ReadOfConnection ==
    ASSUME TypeOK, EntriesSeen, NEW p \in Packets, NEW time \in 1 .. MaxTime,
           NEW coloured, NEW opened \in BOOLEAN,
           ReadPacket(p, time, coloured, opened)
    PROVE  EntriesSeen' /\ RttOfConnection'
<1>0. time \in Nat /\ time > 0 /\ \A e \in DOMAIN flows : flows[e] \in Nat
  BY Numbers DEF TypeOK
<1>1. CASE packet_count' # 0 \/ ~ coloured
  <2>1. UNCHANGED <<flows, seen>> /\ exported' = None
    BY <1>1 DEF ReadPacket
  <2> QED
    BY <2>1 DEF EntriesSeen, RttOfConnection
<1>2. CASE packet_count' = 0 /\ coloured
  <2>1. Handle(p, time) /\ now' = time
    BY <1>2 DEF ReadPacket
  <2> DEFINE h == [packet |-> p, time |-> time]
  <2>2. seen' = seen \cup {h}
    BY <2>1 DEF Handle
  <2>3. h \in seen' /\ h.packet = p /\ h.time = time
    BY <2>2
  <2> HIDE DEF h
  <2>4. ASSUME NEW e, NEW v, \/ e \in DOMAIN flows /\ v = flows[e]
                             \/ MadeBy(flows, p, time, e, v)
        PROVE  \E k \in seen' : k.time = v /\ e[1] = Flow(k.packet)
    <3>1. CASE e \in DOMAIN flows /\ v = flows[e]
      BY <2>2, <3>1 DEF EntriesSeen
    <3>2. CASE MadeBy(flows, p, time, e, v)
      BY <2>2, <2>3, <3>2, MadeSeen
    <3> QED
      BY <2>4, <3>1, <3>2
  <2>5. EntriesSeen'
    <3>1. \A e \in DOMAIN flows' : \/ e \in DOMAIN flows /\ flows'[e] = flows[e]
                                   \/ MadeBy(flows, p, time, e, flows'[e])
      BY <1>0, <2>1, HandleEntries
    <3> QED
      BY <2>4, <3>1 DEF EntriesSeen
  <2>6. ASSUME exported' # None, exported'.rtt >= 0
        PROVE  \E k \in seen' : /\ k.time = now' - exported'.rtt
                                /\ Flow(k.packet) \in {Flow(p), Backward(p)}
    <3>1. \A e : UsedBy(p, e) => e[1] \in {Flow(p), Backward(p)}
      BY DEF UsedBy
    <3>6. \/ \E e \in DOMAIN flows : UsedBy(p, e) /\ exported'.rtt = time - flows[e]
          \/ \E e, v : /\ \/ e \in DOMAIN flows /\ v = flows[e]
                          \/ MadeBy(flows, p, time, e, v)
                       /\ Echo(p) # Zero /\ e = <<Backward(p), Echo(p)>>
                       /\ exported'.rtt = time - v
      BY <1>0, <2>1, <2>6, HandleExport
    <3>2. PICK e, v : /\ \/ e \in DOMAIN flows /\ v = flows[e]
                         \/ MadeBy(flows, p, time, e, v)
                      /\ e[1] \in {Flow(p), Backward(p)}
                      /\ exported'.rtt = time - v
      <4>1. ASSUME NEW e \in DOMAIN flows, UsedBy(p, e),
                   exported'.rtt = time - flows[e]
            PROVE  e[1] \in {Flow(p), Backward(p)}
        BY <3>1, <4>1
      <4>2. ASSUME NEW e, e = <<Backward(p), Echo(p)>>
            PROVE  e[1] \in {Flow(p), Backward(p)}
        BY <4>2
      <4> QED
        BY <3>6, <4>1, <4>2
    <3>3. PICK k \in seen' : k.time = v /\ e[1] = Flow(k.packet)
      BY <2>4, <3>2
    <3>4. v \in Nat
      BY <1>0, <3>2, MadeTimes
    <3>5. k.time = now' - exported'.rtt
      BY <1>0, <2>1, <3>2, <3>3, <3>4
    <3> QED
      BY <3>2, <3>3, <3>5
  <2>7. exported' # None /\ exported'.rtt >= 0 => exported'.packet = p
    BY <1>0, <2>1, HandleExport
  <2> QED
    BY <2>5, <2>6, <2>7 DEF RttOfConnection
<1> QED
  BY <1>1, <1>2

LEMMA ReadIsReal ==
    ASSUME Apart, TypeOK, FreshInv, Provenance, NEW p \in Packets,
           NEW time \in 1 .. MaxTime, NEW coloured, NEW opened \in BOOLEAN,
           ReadPacket(p, time, coloured, opened),
           TypeOK'
    PROVE  Provenance' /\ RttIsReal'
<1>0. time \in Nat /\ time > 0 /\ now <= time /\ \A e \in DOMAIN flows : flows[e] \in Nat
  BY Numbers DEF TypeOK, ReadPacket
<1>1. CASE packet_count' # 0 \/ ~ coloured
  <2>1. UNCHANGED <<flows, seen>> /\ exported' = None
    BY <1>1 DEF ReadPacket
  <2>2. RttIsReal'
    BY <2>1 DEF RttIsReal
  <2>3. Provenance'
    BY <2>1 DEF Provenance
  <2> QED
    BY <2>2, <2>3
<1>2. CASE packet_count' = 0 /\ coloured
  <2>1. Handle(p, time) /\ now' = time
    BY <1>2 DEF ReadPacket
  <2> DEFINE hist == seen'
  <2>2. hist = seen \cup {[packet |-> p, time |-> time]}
    BY <2>1 DEF Handle
  <2>3. hist \subseteq [packet : Packets, time : Nat] /\ seen \subseteq hist
    BY <2>2 DEF TypeOK
  <2> HIDE DEF hist
  <2>4. ASSUME NEW e, NEW v, \/ e \in DOMAIN flows /\ v = flows[e]
                             \/ MadeBy(flows, p, time, e, v)
        PROVE  Origin(hist, e, v)
    <3>1. CASE e \in DOMAIN flows /\ v = flows[e]
      BY <2>3, <3>1, OriginStays DEF Provenance
    <3>2. CASE MadeBy(flows, p, time, e, v)
      BY <1>0, <2>2, <3>2, MadeHasOrigin
    <3> QED
      BY <2>4, <3>1, <3>2
  <2>5. \A e \in DOMAIN flows' : Origin(hist, e, flows'[e])
    <3>1. \A e \in DOMAIN flows' : \/ e \in DOMAIN flows /\ flows'[e] = flows[e]
                                   \/ MadeBy(flows, p, time, e, flows'[e])
      BY <1>0, <2>1, HandleEntries
    <3> QED
      BY <2>4, <3>1
  <2>6. Provenance'
    BY <2>5 DEF hist, Provenance, Origin, FromStamp, FromSyn, FromPing, FromHandshake
  <2>7. ASSUME exported' # None, exported'.rtt >= 0
        PROVE  \E k \in hist : k.time = now' - exported'.rtt /\ Began(k, p)'
    <3>1. PICK e, v : /\ exported'.rtt = time - v
                      /\ \/ e \in DOMAIN flows /\ v = flows[e]
                         \/ MadeBy(flows, p, time, e, v)
                      /\ \/ UsedBy(p, e)
                         \/ Echo(p) # Zero /\ e = <<Backward(p), Echo(p)>>
      BY <1>0, <2>1, <2>7, HandleExport
    <3>2. v \in Nat /\ v = now' - exported'.rtt
      <4>1. v \in Nat
        BY <1>0, <3>1, MadeTimes
      <4> QED
        BY <1>0, <2>1, <3>1, <4>1
    <3>3. Origin(hist, e, v)
      BY <2>4, <3>1
    <3>4. CASE Echo(p) # Zero /\ e = <<Backward(p), Echo(p)>>
      <4>1. e \in Sought.stamp
        BY <3>4 DEF Sought
      <4>2. FromStamp(hist, e, v)
        BY <2>3, <3>3, <4>1, FoundWhatWasSought
      <4>3. PICK k \in hist : /\ k.time = v /\ Opposite(k.packet, p)
                              /\ k.packet.kind = "tcp" /\ p.kind = "tcp"
                              /\ k.packet.ts = p.ecr
        BY <3>4, <4>2, FoundForStamp
      <4> QED
        BY <3>2, <4>3 DEF Began
    <3>5. CASE p.kind = "reply" /\ e = <<Backward(p), <<p.seq, 0>>>>
      <4>1. e \in Sought.ping
        BY <3>5 DEF Sought
      <4>2. FromPing(hist, e, v)
        BY <2>3, <3>3, <4>1, FoundWhatWasSought
      <4>3. PICK k \in hist : /\ k.time = v /\ k.packet.kind = "echo"
                              /\ e = <<Flow(k.packet), <<k.packet.seq, 0>>>>
        BY <4>2 DEF FromPing
      <4>4. Flow(k.packet) = Backward(p) /\ k.packet.seq = p.seq
        BY <3>5, <4>3
      <4> QED
        BY <3>2, <3>5, <4>3, <4>4 DEF Began, Opposite
    <3>6. CASE /\ Stamp(p) = Zero /\ p.kind = "tcp" /\ ~ p.syn /\ p.ack
               /\ e = <<Flow(p), <<Before(p.ackno), 0>>>>
      <4>1. e \in Sought.moved
        BY <3>6 DEF Sought
      <4>2. FromHandshake(hist, e, v)
        BY <2>3, <3>3, <4>1, FoundWhatWasSought
      <4>3. PICK k \in hist, s \in hist :
              /\ k.time = v /\ Stamp(k.packet) = Zero /\ Syn(k.packet)
              /\ Stamp(s.packet) = Zero /\ SynAck(s.packet) /\ k.time <= s.time
              /\ Flow(k.packet) = Backward(s.packet)
              /\ Before(s.packet.ackno) = k.packet.seq
              /\ e = <<Flow(k.packet), <<s.packet.seq, 0>>>>
        BY <4>2 DEF FromHandshake
      <4>4. Flow(k.packet) = Flow(p) /\ Before(p.ackno) = s.packet.seq
        BY <3>6, <4>3
      <4>5. Opposite(s.packet, p)
        BY <4>3, <4>4, OppositeIsSymmetric DEF Opposite
      <4> QED
        BY <3>2, <4>3, <4>4, <4>5 DEF Began, hist
    <3> QED
      BY <3>1, <3>4, <3>5, <3>6 DEF UsedBy
  <2>8. exported' # None /\ exported'.rtt >= 0 => exported'.packet = p
    BY <1>0, <2>1, HandleExport
  <2>9. RttIsReal'
    BY <2>7, <2>8 DEF hist, RttIsReal
  <2> QED
    BY <2>6, <2>9
<1> QED
  BY <1>1, <1>2

LEMMA NewTraceEntries ==
    ASSUME NewTrace
    PROVE  /\ Provenance' /\ RttIsReal'
           /\ EntriesSeen' /\ RttOfConnection'
<1>1. flows' = NoEntries /\ exported' = None
  BY DEF NewTrace, NewMap
<1>2. DOMAIN flows' = {}
  BY <1>1 DEF NoEntries
<1>3. Provenance' /\ EntriesSeen'
  BY <1>2 DEF Provenance, EntriesSeen
<1>4. RttIsReal' /\ RttOfConnection'
  BY <1>1 DEF RttIsReal, RttOfConnection
<1> QED
  BY <1>3, <1>4

LEMMA EntriesUnchanged ==
    ASSUME UNCHANGED vars
    PROVE  /\ Provenance => Provenance'
           /\ RttIsReal => RttIsReal'
           /\ EntriesSeen => EntriesSeen'
           /\ RttOfConnection => RttOfConnection'
<1>1. UNCHANGED <<flows, seen, now, exported>>
  BY DEF vars
<1>2. Provenance => Provenance'
  BY <1>1 DEF Provenance
<1>3. RttIsReal => RttIsReal'
  BY <1>1 DEF RttIsReal, Began
<1>4. EntriesSeen => EntriesSeen'
  BY <1>1 DEF EntriesSeen
<1>5. RttOfConnection => RttOfConnection'
  BY <1>1 DEF RttOfConnection
<1> QED
  BY <1>2, <1>3, <1>4, <1>5

\* What is not a packet starts a new trace.
LEMMA OtherSteps ==
    ASSUME Next
    PROVE  \/ \E p \in Packets, time \in 1 .. MaxTime, coloured, opened \in BOOLEAN :
                ReadPacket(p, time, coloured, opened)
           \/ NewTrace
BY DEF Next, RestartTrace, Stop, Crash, CrashInSave, RestartServer

\* A round trip time is counted from a packet of the same connection that this
\* trace has brought, even where its numbers coincide by accident.
THEOREM RttWithinConnection == Spec => []RttOfConnection
<1>1. Init => EntriesSeen /\ RttOfConnection
  BY DEF Init, EntriesSeen, RttOfConnection, NoEntries
<1>2. TypeOK /\ EntriesSeen /\ RttOfConnection /\ [Next]_vars
        => EntriesSeen' /\ RttOfConnection'
  <2> SUFFICES ASSUME TypeOK, EntriesSeen, RttOfConnection, [Next]_vars
               PROVE  EntriesSeen' /\ RttOfConnection'
    OBVIOUS
  <2>1. CASE UNCHANGED vars
    BY <2>1, EntriesUnchanged
  <2>2. CASE Next
    BY <2>2, OtherSteps, ReadOfConnection, NewTraceEntries
  <2> QED
    BY <2>1, <2>2
<1> QED
  BY <1>1, <1>2, HandlerTypes, PTL DEF Spec

\* The packet before found no entry that was older than Flush and the time
\* between two flushes allow: of what is exported only the gap before the packet
\* that ends a round trip adds to that, unless the trace began before the flush
\* that last remembers.
THEOREM NoStaleAnswers == Spec => AnswersAreRecent
<1> DEFINE A == exported' # None /\ exported'.rtt >= 0 /\ ~ Behind =>
                  \A h \in seen :
                    exported'.rtt <= (now' - h.time) + FLUSH_AGE + FLUSH_EVERY
<1>1. IInv /\ [Next]_vars => [A]_vars
  <2> SUFFICES ASSUME IInv, Next, exported' # None, exported'.rtt >= 0, ~ Behind,
                      NEW h \in seen
               PROVE  exported'.rtt <= (now' - h.time) + FLUSH_AGE + FLUSH_EVERY
    OBVIOUS
  <2>0. TypeOK /\ FreshInv
    BY DEF IInv
  <2>1. PICK p \in Packets, time \in 1 .. MaxTime, coloured \in BOOLEAN,
             opened \in BOOLEAN : ReadPacket(p, time, coloured, opened)
    BY OtherSteps DEF NewTrace
  <2>2. Handle(p, time) /\ now' = time /\ now <= time /\ time \in Nat
    BY <2>1, Numbers DEF ReadPacket
  <2>3. /\ h.time \in Nat /\ now \in Nat /\ h.time <= now
        /\ \A e \in DOMAIN flows : flows[e] \in Nat
    BY <2>0 DEF TypeOK, FreshInv
  <2>4. PICK e, v : /\ \/ e \in DOMAIN flows /\ v = flows[e]
                       \/ MadeBy(flows, p, time, e, v)
                    /\ exported'.rtt = time - v
    BY <2>0, <2>2, HandleExport
  <2>5. v = time \/ \E k \in DOMAIN flows : v = flows[k]
    BY <2>4, MadeTimes
  <2>6. CASE v = time
    BY <2>2, <2>3, <2>4, <2>6, Numbers
  <2>7. ASSUME NEW k \in DOMAIN flows, v = flows[k]
        PROVE  exported'.rtt <= (now' - h.time) + FLUSH_AGE + FLUSH_EVERY
    <3>1. flows[k] >= h.time - (FLUSH_AGE + FLUSH_EVERY)
      BY <2>0, EntriesWereFresh
    <3> QED
      BY <2>2, <2>3, <2>4, <2>7, <3>1, Numbers
  <2> QED
    BY <2>5, <2>6, <2>7
<1> QED
  BY <1>1, HandlerInvariant, PTL DEF Spec, AnswersAreRecent

\* Where the numbers of a connection do not coincide, the packet a round trip
\* time is counted from is the one the exported packet answers: through moves
\* of entries, flushes, time stamps that come twice and restarts.
THEOREM RttAnswers ==
    ASSUME Apart
    PROVE  Spec => []RttIsReal
<1>1. Init => Provenance /\ RttIsReal
  BY DEF Init, Provenance, RttIsReal, NoEntries
<1>2. /\ IInv /\ IInv' /\ Provenance /\ RttIsReal /\ [Next]_vars
      => Provenance' /\ RttIsReal'
  <2> SUFFICES ASSUME IInv, IInv', Provenance, RttIsReal, [Next]_vars
               PROVE  Provenance' /\ RttIsReal'
    OBVIOUS
  <2>1. CASE UNCHANGED vars
    BY <2>1, EntriesUnchanged
  <2>2. CASE Next
    BY <2>2, OtherSteps, ReadIsReal, NewTraceEntries DEF IInv
  <2> QED
    BY <2>1, <2>2
<1> QED
  BY <1>1, <1>2, HandlerInvariant, PTL DEF Spec
=============================================================================
