---------------------------- MODULE PacketHandler ----------------------------
(***************************************************************************)
(* What per_packet does with a packet once its flow is known and coloured  *)
(* (src/server/packets.cc), and bsod_read_packet around it: the round trip *)
(* times of RTTMap.cpp, the list of hosts that are not dark of             *)
(* Blacklist.cpp and the files it is kept in, and the options that keep a  *)
(* packet from being exported.  The options darknet and blacklistdir may   *)
(* change with every trace, the others are constants.                      *)
(*                                                                         *)
(* Sequence numbers, timestamps and ICMP ids are small numbers.  The       *)
(* addresses of an instance are taken to lie within 2^31 of each other:    *)
(* beyond that cmp() of RTTMap.h is no order.                              *)
(***************************************************************************)
EXTENDS Integers, FiniteSets, Functions

CONSTANTS
  Hosts,        \* hosts inside the network
  Packets,      \* packets of the trace
  MaxTime,      \* bound: the times of packets are 1 .. MaxTime
  MaxPackets,   \* bound: packets of one trace
  MaxRuns,      \* bound: traces and restarts of the server
  FLUSH_AGE,    \* 180: age at which Flush drops an entry
  FLUSH_EVERY,  \* 60: time between two flushes
  SAVE_EVERY,   \* 300: time between two saves
  SeqMod,       \* numbers of the sequence space
  LongIs64,     \* is UINT32 of RTTMap.h, an unsigned long, 64 bits wide?
  sampling,     \* 0, or only every so-many-th packet is handled
  enable_rttest,
  Darknet,      \* values the option darknet may have
  Dirs,         \* values the option blacklistdir may have
  show,         \* [nondata, data, control, nontcpudp, resets]: the options
  None          \* no packet exported, no list

ASSUME NumbersAssumption ==
  /\ {MaxTime, MaxPackets, MaxRuns, FLUSH_AGE, FLUSH_EVERY, SAVE_EVERY,
      sampling} \subseteq Nat
  /\ SeqMod \in Nat \ {0}
ASSUME FlagsAssumption ==
  {LongIs64, enable_rttest} \subseteq BOOLEAN /\ Darknet \subseteq BOOLEAN
ASSUME DirsAssumption == None \notin Dirs
ASSUME PacketsAssumption ==
  \A p \in Packets : p.inner \in Hosts /\ p.out \in BOOLEAN

VARIABLES
  flows,         \* RTTMap: <<flow, time stamp>> -> time it was seen
  last,          \* time of the last flush (static: it outlives a trace)
  enable_darknet,
  lightlist,     \* theList: hosts that have sent something
  path,          \* the directory its file is in, None as long as there is no list
  disk,          \* directory -> the hosts in its blacklist.txt
  next_save,     \* when the list is saved next (static)
  packet_count,  \* (static; counted modulo sampling)
  now,           \* time of the last packet of the trace not skipped
  seen,          \* packets of this trace that were handled, with their times
  learned,       \* host -> time it first sent since theList was made, 0 if before
  kept,          \* directory -> hosts that its file must hold (not for path)
  flushed,       \* was last set in this trace?
  saved,         \* the last save that was due in this trace reached the file
  runs,          \* traces so far
  exported       \* the last packet message, None if the step sent none

vars == <<flows, last, enable_darknet, lightlist, path, disk, next_save,
          packet_count, now, seen, learned, kept, flushed, saved, runs, exported>>
-----------------------------------------------------------------------------
(* RTTMap                                                                  *)

NoEntries == [e \in {} |-> 0]

\* Mutant of NewMap: the map of the last trace is used on.
SameMap(m) == m

\* main makes a new RTTMap for every trace.
NewMap(m) == NoEntries

\* Add(): the first packet with a time stamp is the one that counts.
AddEntry(m, flow, stamp, time) ==
  [e \in DOMAIN m \cup {<<flow, stamp>>} |-> IF e \in DOMAIN m THEN m[e] ELSE time]

Without(m, entries) == Restrict(m, DOMAIN m \ entries)

\* Update(): the entry gets another time stamp; an entry that has it already
\* stays as it is.
UpdateEntry(m, flow, stamp, newstamp) ==
  IF <<flow, stamp>> \notin DOMAIN m THEN m
  ELSE AddEntry(Without(m, {<<flow, stamp>>}), flow, newstamp, m[<<flow, stamp>>])

\* Retrieve(): an entry is used once.  The result is the map and the round
\* trip time, -2 when there is no entry.
Retrieve(m, flow, stamp, time) ==
  IF <<flow, stamp>> \in DOMAIN m
  THEN [map |-> Without(m, {<<flow, stamp>>}), rtt |-> time - m[<<flow, stamp>>]]
  ELSE [map |-> m, rtt |-> -2]

\* Flush()
Flush(m, time) == Without(m, {e \in DOMAIN m : time - m[e] > FLUSH_AGE})

\* GetTimeStamp() reads longs from the option: where a long has 64 bits the
\* time stamp takes in the echo, and the echo the four bytes behind it.
Long(a, b) == IF LongIs64 THEN <<a, b>> ELSE <<a, 0>>
Zero == <<0, 0>>
Stamp(p) == IF p.kind = "tcp" THEN Long(p.ts, p.ecr) ELSE Zero
Echo(p)  == IF p.kind = "tcp" THEN Long(p.ecr, p.tail) ELSE Zero

\* rtt_flow and rtt_flow_inverse
Flow(p) == IF p.out THEN <<p.inner, p.outer>> ELSE <<p.outer, p.inner>>

Backward(p) == IF p.out THEN <<p.outer, p.inner>> ELSE <<p.inner, p.outer>>

Before(n) == (n + SeqMod - 1) % SeqMod

\* The entry a packet makes, moves or uses by its flags.
ByFlags(m, p, time) ==
  LET keep(map) == [map |-> map, rtt |-> -2]
  IN  IF Stamp(p) # Zero THEN keep(AddEntry(m, Flow(p), Stamp(p), time))
      ELSE CASE p.kind = "tcp" /\ p.syn /\ ~ p.ack ->
                  keep(AddEntry(m, Flow(p), <<p.seq, 0>>, time))
             [] p.kind = "tcp" /\ p.syn /\ p.ack ->
                  keep(UpdateEntry(m, Backward(p), <<Before(p.ackno), 0>>, <<p.seq, 0>>))
             [] p.kind = "tcp" /\ ~ p.syn /\ p.ack ->
                  Retrieve(m, Flow(p), <<Before(p.ackno), 0>>, time)
             [] p.kind = "reply" -> Retrieve(m, Backward(p), <<p.seq, 0>>, time)
             [] p.kind = "echo"  -> keep(AddEntry(m, Flow(p), <<p.seq, 0>>, time))
             [] OTHER            -> keep(m)

\* The one it uses by the time stamp it echoes; -1 tells the client to keep
\* the speed it has.
ByEcho(r, p, time) ==
  LET found == Retrieve(r.map, Backward(p), Echo(p), time)
  IN  IF Echo(p) = Zero THEN r
      ELSE IF found.rtt >= 0 THEN found
      ELSE [r EXCEPT !.rtt = IF @ = -2 THEN -1 ELSE @]

\* Mutant of FlushDue: the difference is the wrong way round.
FlushDueReversed(time) == last > 0 /\ last - time > FLUSH_EVERY

FlushDue(time) == last > 0 /\ time - last > FLUSH_EVERY
-----------------------------------------------------------------------------
(* The show options                                                        *)

\* Mutant of ForLight: only packets that are displayed count.
ForLightShown(p, shown) == p.out /\ shown

\* The packets that make their source light.
ForLight(p, shown) == p.out

Forced(p) ==
  /\ p.kind = "tcp"
  /\ \/ show.control /\ (p.syn \/ p.fin \/ p.rst)
     \/ show.resets /\ p.rst

\* The size of a UDP packet is its IP length less eight: never 0.
Shown(p) ==
  /\ p.kind \in {"tcp", "udp"} /\ ~ Forced(p) =>
       IF p.size = 0 THEN show.nondata ELSE show.data
  /\ p.kind \notin {"tcp", "udp"} => show.nontcpudp
-----------------------------------------------------------------------------
Init ==
  /\ flows = NoEntries
  /\ last = 0
  /\ enable_darknet \in Darknet
  /\ lightlist = {}
  /\ path \in IF enable_darknet THEN Dirs ELSE {None}
  /\ disk = [d \in Dirs |-> {}]
  /\ next_save = 0
  /\ packet_count = 0
  /\ now = 0
  /\ seen = {}
  /\ learned = NoEntries
  /\ kept = [d \in Dirs |-> {}]
  /\ flushed = FALSE
  /\ saved = FALSE
  /\ runs = 1
  /\ exported = None

\* The RTT part of per_packet, and the flush at its end.
Measure(p, time, r) ==
  /\ flows' = IF FlushDue(time) THEN Flush(r.map, time) ELSE r.map
  /\ last' = IF last = 0 \/ FlushDue(time) THEN time ELSE last

\* bsod_read_packet: is it time to save the list?
SaveDue(time) == enable_darknet /\ time > next_save

\* per_packet from the colour module on.
Handle(p, time) ==
  LET r == IF enable_rttest THEN ByEcho(ByFlags(flows, p, time), p, time)
                            ELSE [map |-> flows, rtt |-> -2]
      lit == enable_darknet /\ ForLight(p, Shown(p))
  IN  /\ IF enable_rttest THEN Measure(p, time, r) ELSE UNCHANGED <<flows, last>>
      /\ lightlist' = IF lit THEN lightlist \cup {p.inner} ELSE lightlist
      /\ exported' = IF Shown(p)
                     THEN [packet |-> p, rtt |-> r.rtt,
                           dark |-> enable_darknet /\ ~ p.out /\ p.inner \notin lightlist]
                     ELSE None
      /\ seen' = seen \cup {[packet |-> p, time |-> time]}
      /\ learned' = [h \in DOMAIN learned \cup
                             (IF enable_darknet /\ p.out THEN {p.inner} ELSE {}) |->
                       IF h \in DOMAIN learned THEN learned[h] ELSE time]

\* bsod_read_packet: a packet may be skipped, or refused by the colour module;
\* a save that is due may fail to open the file.
ReadPacket(p, time, coloured, opened) ==
  /\ now <= time
  /\ Cardinality(seen) < MaxPackets
  /\ packet_count' = IF sampling = 0 THEN 0 ELSE (packet_count + 1) % sampling
  /\ IF packet_count' # 0
     THEN /\ exported' = None
          /\ UNCHANGED <<flows, last, lightlist, disk, next_save, now, seen,
                         learned, flushed, saved>>
     ELSE /\ now' = time
          /\ IF coloured THEN Handle(p, time)
             ELSE exported' = None /\ UNCHANGED <<flows, last, lightlist, seen, learned>>
          /\ disk' = IF SaveDue(time) /\ opened
                     THEN [disk EXCEPT ![path] = lightlist'] ELSE disk
          /\ next_save' = IF SaveDue(time) THEN time + SAVE_EVERY ELSE next_save
          /\ flushed' = (flushed \/ last' # last)
          /\ saved' = IF SaveDue(time) THEN opened ELSE saved
  /\ UNCHANGED <<enable_darknet, path, kept, runs>>

\* What starts with every trace.
NewTrace ==
  /\ runs < MaxRuns
  /\ runs' = runs + 1
  /\ flows' = NewMap(flows)
  /\ now' = 0
  /\ seen' = {}
  /\ flushed' = FALSE
  /\ saved' = FALSE
  /\ exported' = None

\* The hosts that must be in the file of the list if it is not saved now.
Remembered ==
  {h \in DOMAIN learned : learned[h] = 0 \/ (saved /\ now - learned[h] > SAVE_EVERY)}

\* blacklist(): the list holds what the file holds, or nothing if the file
\* cannot be opened.
NewList(dir, opened) ==
  /\ path' = dir
  /\ lightlist' = IF opened THEN disk'[dir] ELSE {}
  /\ learned' = [h \in IF opened THEN kept'[dir] ELSE {} |-> 0]

\* ~blacklist(): the list is saved, unless the file cannot be opened.
DeleteList(opened) ==
  IF path = None THEN UNCHANGED <<disk, kept>>
  ELSE /\ disk' = IF opened THEN [disk EXCEPT ![path] = lightlist] ELSE disk
       /\ kept' = [kept EXCEPT ![path] = IF opened THEN DOMAIN learned ELSE Remembered]

\* main's loop, with the options of a file that may have been read again; a
\* list that is not used any more is neither saved nor deleted.
RestartTrace(dir, on, out, in) ==
  /\ NewTrace
  /\ enable_darknet' = on
  /\ IF on THEN DeleteList(out) /\ NewList(dir, in)
     ELSE UNCHANGED <<lightlist, path, disk, learned, kept>>
  /\ UNCHANGED <<last, next_save, packet_count>>

\* The server is started again: the statics are as in the beginning.
RestartServer(dir, on, in) ==
  /\ NewTrace
  /\ enable_darknet' = on
  /\ IF on THEN NewList(dir, in)
     ELSE path' = None /\ lightlist' = {} /\ learned' = NoEntries
  /\ last' = 0
  /\ next_save' = 0
  /\ packet_count' = 0

\* main returns, and the server is started again.
Stop(dir, on, out, in) == DeleteList(out) /\ RestartServer(dir, on, in)

\* exit(1), or a crash between two packets: the list is not saved.
Crash(dir, on, in) ==
  /\ disk' = disk
  /\ kept' = IF path = None THEN kept ELSE [kept EXCEPT ![path] = Remembered]
  /\ RestartServer(dir, on, in)

\* A crash in save(): the file has been truncated and holds the first of the
\* addresses, the last of them perhaps cut to the address of another host.
CrashInSave(written, cut, dir, on, in) ==
  /\ path # None
  /\ written \subseteq lightlist
  /\ Cardinality(cut) <= 1
  /\ disk' = [disk EXCEPT ![path] = written \cup cut]
  /\ kept' = [kept EXCEPT ![path] = DOMAIN learned \cap written]
  /\ RestartServer(dir, on, in)

Next ==
  \/ \E p \in Packets, time \in 1 .. MaxTime, coloured, opened \in BOOLEAN :
       ReadPacket(p, time, coloured, opened)
  \/ \E dir \in Dirs, on \in Darknet, out, in \in BOOLEAN :
       \/ RestartTrace(dir, on, out, in)
       \/ Stop(dir, on, out, in)
  \/ \E dir \in Dirs, on \in Darknet, in \in BOOLEAN :
       \/ Crash(dir, on, in)
       \/ \E written, cut \in SUBSET Hosts : CrashInSave(written, cut, dir, on, in)

Spec == Init /\ [][Next]_vars
-----------------------------------------------------------------------------
\* The types of the variables; the list and its files hold hosts of the network.
TypeOK ==
  /\ flows \in [DOMAIN flows -> Nat]
  /\ last \in Nat /\ next_save \in Nat /\ now \in Nat
  /\ packet_count \in Nat /\ runs \in Nat
  /\ enable_darknet \in BOOLEAN /\ path \in Dirs \cup {None}
  /\ enable_darknet => path # None
  /\ lightlist \subseteq Hosts
  /\ {disk, kept} \subseteq [Dirs -> SUBSET Hosts]
  /\ seen \subseteq [packet : Packets, time : Nat]
  /\ learned \in [DOMAIN learned -> Nat] /\ DOMAIN learned \subseteq Hosts
  /\ flushed \in BOOLEAN /\ saved \in BOOLEAN

Syn(p)    == p.kind = "tcp" /\ p.syn /\ ~ p.ack
SynAck(p) == p.kind = "tcp" /\ p.syn /\ p.ack
Opposite(p, q) == Flow(p) = Backward(q)

\* The entries packets make and those they look for, by what they are for: a
\* time stamp, a SYN, the SYN once it has been answered, a ping.
Made ==
  [stamp |-> {<<Flow(p), Stamp(p)>> : p \in {q \in Packets : Stamp(q) # Zero}},
   syn   |-> {<<Flow(p), <<p.seq, 0>>>> :
                p \in {q \in Packets : Stamp(q) = Zero /\ Syn(q)}},
   moved |-> {<<Backward(p), <<p.seq, 0>>>> :
                p \in {q \in Packets : Stamp(q) = Zero /\ SynAck(q)}},
   ping  |-> {<<Flow(p), <<p.seq, 0>>>> : p \in {q \in Packets : q.kind = "echo"}}]
Sought ==
  [stamp |-> {<<Backward(p), Echo(p)>> : p \in {q \in Packets : Echo(q) # Zero}},
   syn   |-> {<<Backward(p), <<Before(p.ackno), 0>>>> :
                p \in {q \in Packets : Stamp(q) = Zero /\ SynAck(q)}},
   moved |-> {<<Flow(p), <<Before(p.ackno), 0>>>> :
                p \in {q \in Packets : /\ Stamp(q) = Zero /\ q.kind = "tcp"
                                       /\ ~ q.syn /\ q.ack}},
   ping  |-> {<<Backward(p), <<p.seq, 0>>>> :
                p \in {q \in Packets : q.kind = "reply"}}]

\* No packet looks for one thing and finds another: the numbers, time stamps
\* and ids of a connection, which share the map, do not coincide.
Apart == \A a, b \in DOMAIN Made : a # b => Made[a] \cap Sought[b] = {}

\* The packet a round trip time was counted from, given the one it ended with.
Began(h, p) ==
  \/ /\ Opposite(h.packet, p)                      \* a time stamp came back
     /\ h.packet.kind = "tcp" /\ p.kind = "tcp" /\ h.packet.ts = p.ecr
  \/ /\ Opposite(h.packet, p)                      \* a ping was answered
     /\ h.packet.kind = "echo" /\ p.kind = "reply" /\ h.packet.seq = p.seq
  \/ /\ Flow(h.packet) = Flow(p)                   \* a handshake was completed
     /\ Syn(h.packet)
     /\ \E s \in seen : /\ Opposite(s.packet, p) /\ SynAck(s.packet)
                        /\ h.time <= s.time
                        /\ Before(s.packet.ackno) = h.packet.seq
                        /\ Before(p.ackno) = s.packet.seq

\* A round trip time is only ever the time since a packet of the same
\* connection that the exported packet really answers, in this trace, however
\* entries were moved, flushed or kept for a time stamp that came twice.
RttIsReal ==
  exported # None /\ exported.rtt >= 0 =>
    \E h \in seen : h.time = now - exported.rtt /\ Began(h, exported.packet)

\* The trace began before the last flush, which was one of an earlier trace:
\* files that are read again, or another file.
Behind == ~ flushed /\ \E h \in seen : h.time < last

\* A round trip time is no longer than the age of Flush, the time between two
\* flushes and the gap before the packet that ends it together: what Flush
\* leaves and a packet may still meet was too old at none of the packets before
\* it.  Flush itself runs after the packet has been answered, and last is not
\* reset with a trace: in a trace that begins before the flush it remembers
\* (Behind) nothing is flushed until the times of packets have passed it.
AnswersAreRecent ==
  [][exported' # None /\ exported'.rtt >= 0 /\ ~ Behind =>
       \A h \in seen : exported'.rtt <= (now' - h.time) + FLUSH_AGE + FLUSH_EVERY]_vars

\* A packet is marked as going to a dark address only if that host is not known
\* to have sent: no packet of it has been handled (not skipped by sampling, not
\* refused by the colour module) since the list was made or, if its file could
\* be opened then, in an earlier trace that kept its list in this directory and
\* is sure to have saved it: with the end of the trace, or, where that save
\* failed or the server crashed between two packets, more than SAVE_EVERY
\* before the end, if the periodic save before had not failed as well.
DarkMeansSilent ==
  exported # None /\ exported.dark => exported.packet.inner \notin DOMAIN learned
=============================================================================
