------------------------------ MODULE FlowTable ------------------------------
(***************************************************************************)
(* The flow table of the server (src/server/packets.cc): which flows are   *)
(* in progress, the ids they were given, when they expire, and what the    *)
(* messages about them leave in the view of every connected client.        *)
(*                                                                         *)
(* Everything here runs in the server's main thread, from callbacks of its *)
(* event loop, so a handler is one step.  The queue between this thread    *)
(* and the clients (exporter.cc) is taken to be lossless: module Exporter  *)
(* models what it really does.                                             *)
(***************************************************************************)
EXTENDS Lru

CONSTANTS
  Endpoints,    \* (address, port) pairs found in packets
  Clients,      \* connections that may be accepted
  MaxTime,      \* bound: packet timestamps are 0 .. MaxTime
  TimeMod,      \* width of the uint32_t subtraction in expire_flows
  EXPIRE_SECS,  \* idle time after which a flow may be expired
  IdLimit,      \* bound: ids handed out in one trace (2^32 in the code)
  Monotone,     \* do the timestamps of a trace never go back?
  NoPacket      \* nothing exported

ASSUME TimeAssumption ==
  /\ MaxTime \in Nat /\ EXPIRE_SECS \in Nat /\ TimeMod \in Nat
  /\ MaxTime < TimeMod
ASSUME IdAssumption == IdLimit \in Nat
ASSUME MonotoneAssumption == Monotone \in BOOLEAN

VARIABLES
  lru_list,   \* flows: its keys in order of use
  data,       \* flows: key -> flow_info_t
  id,         \* the next flow id
  tracing,    \* between trace_start and trace_destroy
  lastSecs,   \* timestamp of the last packet read (the input's position)
  clients,    \* connected clients
  view,       \* client -> the half-flows its messages tell it about
  exported    \* the last packet message, NoPacket if the step sent none

vars == <<lru_list, data, id, tracing, lastSecs, clients, view, exported>>
-----------------------------------------------------------------------------
DIR_OUTBOUND == 0
DIR_INBOUND  == 1
Directions   == {DIR_OUTBOUND, DIR_INBOUND}
Times        == 0 .. MaxTime

Key      == Endpoints \X Endpoints
FlowInfo == [flow_id : Nat, time : Times, init_dir : Directions]
HalfFlow == [id : Nat, key : Key, from : Directions, ips : Key]
Packet   == [id : Nat, key : Key, dir : Directions]

\* The key puts the inner end first whichever way the packet goes.
FlowKey(dir, src, dst) ==
  IF dir = DIR_OUTBOUND THEN <<src, dst>> ELSE <<dst, src>>

\* Mutant of HalfId: the ids are told apart by the direction alone.
HalfIdByDirection(info, dir) ==
  IF dir = DIR_OUTBOUND THEN info.flow_id ELSE info.flow_id + 1

\* flow_id[0] is info.flow_id, flow_id[1] is the next number: the half that
\* starts where the first packet came from, and the half that comes back.
HalfId(info, dir) ==
  IF dir = info.init_dir THEN info.flow_id ELSE info.flow_id + 1

\* A flow takes two ids.
NextId(i) == i + 2

\* The time a flow was last seen is that of its last packet.
Touch(d, k, secs) == [d EXCEPT ![k].time = secs]

\* The FLOW messages of export_new_flow: the coordinates of the second are
\* swapped, its addresses are not.
NewFlowMsgs(k, info) ==
  {[id |-> info.flow_id, key |-> k, from |-> info.init_dir, ips |-> k],
   [id |-> info.flow_id + 1, key |-> k, from |-> 1 - info.init_dir, ips |-> k]}

\* The FLOW messages of send_existing_flows, which swaps the addresses too.
ExistingFlowMsgs(k, info) ==
  {[id |-> info.flow_id, key |-> k, from |-> info.init_dir, ips |-> k],
   [id |-> info.flow_id + 1, key |-> k, from |-> 1 - info.init_dir,
    ips |-> <<k[2], k[1]>>]}

\* What a FLOW or KILLFLOW on the queue does to the views of all clients.
Announced(v, msgs) == [c \in Clients |-> IF c \in clients THEN v[c] \cup msgs
                                                          ELSE v[c]]
Killed(v, ids) == [c \in Clients |-> {r \in v[c] : r.id \notin ids}]

\* Mutant of IdsOfFront: the second KILLFLOW is forgotten.
IdsOfFrontHalf(list, d, n) == {d[list[i]].flow_id : i \in 1 .. n}

\* Both ids of the flows at the first n places of the list.
IdsOfFront(list, d, n) ==
  UNION {{d[list[i]].flow_id, d[list[i]].flow_id + 1} : i \in 1 .. n}

\* The test of expire_flows, on unsigned 32-bit numbers.
Idle(d, k, time) == (time - d[k].time) % TimeMod > EXPIRE_SECS

\* expire_flows(time, false) pops exactly the first n flows of the list.
Expires(list, d, time, n) ==
  /\ \A i \in 1 .. n : Idle(d, list[i], time)
  /\ n < Len(list) => ~ Idle(d, list[n + 1], time)
-----------------------------------------------------------------------------
Init ==
  /\ lru_list = << >>
  /\ data = << >>
  /\ id = 0
  /\ tracing = FALSE
  /\ lastSecs = 0
  /\ clients = {}
  /\ view = [c \in Clients |-> {}]
  /\ exported = NoPacket

\* The rest of per_packet once the flow of the packet has been found or
\* inserted: list, d and v are the table and the views at that point.
Finish(list, d, v, k, dir, secs, coloured, shown) ==
  \/ /\ ~ coloured                              \* the colour module says no
     /\ lru_list' = list /\ data' = d /\ view' = v
     /\ exported' = NoPacket
  \/ /\ coloured
     /\ \E n \in 0 .. Len(list) :
          /\ Expires(list, d, secs, n)
          /\ lru_list' = PopList(list, n)
          /\ data' = PopData(list, d, n)
          /\ view' = Killed(v, IdsOfFront(list, d, n))
     /\ exported' = IF shown
                    THEN [id |-> HalfId(d[k], dir), key |-> k, dir |-> dir]
                    ELSE NoPacket

\* per_packet for a packet of a flow that is in the table.
SeenFlow(k, dir, secs, coloured, shown) ==
  /\ k \in DOMAIN data
  /\ Finish(FindList(lru_list, k), Touch(data, k, secs), view,
            k, dir, secs, coloured, shown)
  /\ UNCHANGED id

\* per_packet for the first packet of a flow.
NewFlow(k, dir, secs, coloured, shown) ==
  LET info == [flow_id |-> id, time |-> secs, init_dir |-> dir]
  IN  /\ k \notin DOMAIN data
      /\ NextId(id) <= IdLimit
      /\ id' = NextId(id)
      /\ Finish(InsertList(lru_list, k), InsertData(data, k, info),
                Announced(view, NewFlowMsgs(k, info)),
                k, dir, secs, coloured, shown)

\* A packet from src to dst.  Packets without an IP header or with another
\* direction return before anything changes.  "coloured" is the verdict of
\* the colour module, "shown" that of the show options.
PerPacket(dir, src, dst, secs, coloured, shown) ==
  LET k == FlowKey(dir, src, dst)
  IN  /\ tracing
      /\ Monotone => lastSecs <= secs
      /\ lastSecs' = secs
      /\ \/ SeenFlow(k, dir, secs, coloured, shown)
         \/ NewFlow(k, dir, secs, coloured, shown)
      /\ UNCHANGED <<tracing, clients>>

\* main, top of its loop: export_kill_all(), then init_packets().
StartTrace ==
  /\ ~ tracing
  /\ tracing' = TRUE
  /\ view' = [c \in Clients |-> {}]
  /\ lru_list' = << >>
  /\ data' = << >>
  /\ id' = 0
  /\ lastSecs' = 0
  /\ exported' = NoPacket
  /\ UNCHANGED clients

\* main, after the event loop: all flows are expired unless the trace failed.
EndTrace(failed) ==
  /\ tracing
  /\ tracing' = FALSE
  /\ IF failed
     THEN UNCHANGED <<lru_list, data, view>>
     ELSE /\ lru_list' = << >>
          /\ data' = << >>
          /\ view' = Killed(view, IdsOfFront(lru_list, data, Len(lru_list)))
  /\ exported' = NoPacket
  /\ UNCHANGED <<id, lastSecs, clients>>

\* listen_cb: create_client() succeeds, then send_existing_flows().
Join(c) ==
  /\ tracing
  /\ c \notin clients
  /\ clients' = clients \cup {c}
  /\ view' = [view EXCEPT ![c] =
                UNION {ExistingFlowMsgs(k, data[k]) : k \in DOMAIN data}]
  /\ exported' = NoPacket
  /\ UNCHANGED <<lru_list, data, id, tracing, lastSecs>>

\* disconnect_client().
Leave(c) ==
  /\ tracing
  /\ c \in clients
  /\ clients' = clients \ {c}
  /\ view' = [view EXCEPT ![c] = {}]
  /\ exported' = NoPacket
  /\ UNCHANGED <<lru_list, data, id, tracing, lastSecs>>

Next ==
  \/ \E dir \in Directions, src, dst \in Endpoints, secs \in Times,
        coloured, shown \in BOOLEAN :
       PerPacket(dir, src, dst, secs, coloured, shown)
  \/ StartTrace
  \/ \E failed \in BOOLEAN : EndTrace(failed)
  \/ \E c \in Clients : Join(c) \/ Leave(c)

Spec == Init /\ [][Next]_vars
-----------------------------------------------------------------------------
\* The types of the variables.
TypeOK ==
  /\ lru_list \in Seq(Key)
  /\ DOMAIN data \subseteq Key
  /\ \A k \in DOMAIN data : data[k] \in FlowInfo
  /\ id \in Nat
  /\ tracing \in BOOLEAN
  /\ lastSecs \in Times
  /\ clients \subseteq Clients
  /\ view \in [Clients -> SUBSET HalfFlow]
  /\ exported \in Packet \cup {NoPacket}

\* The list and the map of the lru container hold the same keys, each once:
\* neither front() nor a stored node is ever one that was erased.
LruConsistent == Consistent(lru_list, data)

\* The ids handed out are never shared: two flows in progress have no id in
\* common, and every id is below the counter it was taken from.
IdsDistinct ==
  /\ \A k \in DOMAIN data : data[k].flow_id + 1 < id
  /\ \A k, l \in DOMAIN data :
       k # l => /\ data[k].flow_id # data[l].flow_id
                /\ data[k].flow_id # data[l].flow_id + 1

\* What client c should know of flow k: its two halves, one from each side.
KnowsFlow(c, k) ==
  \A dir \in Directions : \E r \in view[c] :
    r.id = HalfId(data[k], dir) /\ r.key = k /\ r.from = dir

\* Every client, whenever it joined, sees exactly the flows in progress: both
\* halves of each, and no flow that has been expired or belongs to an earlier
\* trace.  (After a trace that failed, until the KILLALL of the next.)
ViewsMatch ==
  \A c \in clients :
    /\ \A k \in DOMAIN data : KnowsFlow(c, k)
    /\ \A r \in view[c] : /\ r.key \in DOMAIN data
                          /\ r.id = HalfId(data[r.key], r.from)

\* A packet message names a half-flow that every connected client has, of the
\* same conversation and leaving from the side the packet came from: the
\* expiry that per_packet runs after touching the flow never kills it.
PacketOnKnownFlow ==
  exported # NoPacket =>
    \A c \in clients : \E r \in view[c] :
      r.id = exported.id /\ r.key = exported.key /\ r.from = exported.dir

\* "A flow can only be expired after a number of seconds of inactivity"
\* (packets.cc, above expire_flows): while the trace is being read, a flow
\* leaves the table only if its last packet is more than EXPIRE_SECS old.
OnlyIdleFlowsExpire ==
  [][tracing /\ tracing' =>
       \A k \in DOMAIN data \ DOMAIN data' :
         lastSecs' - data[k].time > EXPIRE_SECS]_vars

\* The early exit of expire_flows, which stops at the first live flow of the
\* list, misses no idle one: when a packet has been exported no flow in the
\* table has been idle for more than EXPIRE_SECS.
NoIdleFlowKept ==
  exported # NoPacket =>
    \A k \in DOMAIN data : lastSecs - data[k].time <= EXPIRE_SECS
=============================================================================
