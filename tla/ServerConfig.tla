---------------------------- MODULE ServerConfig ----------------------------
(***************************************************************************)
(* The configuration of the server and its plug-ins                        *)
(* (src/server/bsod_server.cc): the file is read and the four modules are  *)
(* loaded when the server starts and again after a SIGUSR1, while the      *)
(* table of packet types that greets clients is formed once (exporter.cc). *)
(* What the modules keep between packets (the rows of multiplenet24, the   *)
(* state lpicolour hangs on a flow) lives as long as they are loaded.      *)
(*                                                                         *)
(* Module ServerLoop says when a trace ends, FlowTable when a flow         *)
(* expires, PacketHandler what the rest of per_packet does.                *)
(***************************************************************************)
EXTENDS ColourModules, PositionModules

CONSTANTS
  ConfigFiles,  \* contents the configuration file may have
  Library,      \* path -> [role, kind, inits, accepts]: the plug-ins on disk
  BpfConfig,    \* parameter of bpfcolour -> its expressions
  MacFile,      \* parameter of destmac -> the addresses in the file
  Number,       \* parameter of multiplenet24 -> the number strtoul reads, 0 if none
  Packets,      \* packets of the trace
  Absent,       \* an option the file does not give, a parameter left NULL
  None,         \* no module, no colour_data, nothing exported
  MaxLoads      \* bound: how often the modules are loaded

ASSUME MaxLoadsAssumption == MaxLoads \in Nat
ASSUME PacketsAssumption == \A p \in Packets : p.way \in 0 .. 2

\* The plug-ins are those of src/server/plugins.
ASSUME LibraryAssumption ==
  \A path \in DOMAIN Library :
    LET m == Library[path]
    IN  /\ m.role = "position" =>
             m.kind \in {"network16", "networkxxyy", "radial", "random",
                        "rurallink", "multiplenet24"}
        /\ m.role = "colour" => m.kind \in {"colours", "sip", "lpi", "bpf"}
        /\ m.kind = "bpf" => m.inits /\ m.accepts \subseteq DOMAIN BpfConfig

\* next_id is a char: it numbers no more types than this.
ASSUME BpfConfigAssumption ==
  \A param \in DOMAIN BpfConfig : Len(BpfConfig[param]) \in 0 .. 127

VARIABLES
  file,            \* contents of the configuration file
  conf,            \* the globals do_configuration sets
  restart_config,  \* set by SIGUSR1
  phase,           \* "boot", "top" of main's loop, "trace" being read, "dead",
                   \* "overrun" once an array was left: nothing is known then
  modptrs,         \* role -> path of the module loaded for it
  inited,          \* loaded modules whose init_bsod_module has run
  nets,            \* path of a module -> its rows
  loads,           \* how often load_modules has succeeded
  colour_msg,      \* the types the greeting describes, and their module
  flows,           \* key -> [left, right, colour_data, load]
  exported         \* the last packet message, None if the step sent none

vars == <<file, conf, restart_config, phase, modptrs, inited, nets, loads,
          colour_msg, flows, exported>>
-----------------------------------------------------------------------------
Roles == {"colour", "left", "right", "direction"}
NoModules == [r \in Roles |-> None]

\* What fix_defaults() puts in the place of an omitted option.
Defaults == [colour |-> "colours.so", left |-> "network16.so",
             right |-> "radial.so", direction |-> "interface.so"]

\* do_configuration(): the options of the file, or exit(1).
Configured(f) ==
  [modules |-> [r \in Roles |-> IF f.modules[r] = Absent THEN Defaults[r]
                                                         ELSE f.modules[r]],
   params |-> f.params, loop |-> f.loop]

\* get_module(), get_position_module() and the dlsym after them.
Loads(role, path, param) ==
  /\ path \in DOMAIN Library
  /\ Library[path].role = (IF role \in {"left", "right"} THEN "position" ELSE role)
  /\ Library[path].inits /\ param # Absent => param \in Library[path].accepts

\* load_modules() returns 1.
LoadsAll(c) == \A r \in Roles : Loads(r, c.modules[r], c.params[r])

\* A module without a parameter is not initialised.
Initialised(c) ==
  {c.modules[r] : r \in {q \in Roles : /\ Library[c.modules[q]].inits
                                       /\ c.params[q] # Absent}}

Kind(path) == Library[path].kind

\* netcount of a multiplenet24 library: the last init_bsod_module that is given
\* a number, the left side's before the right side's, allocates that many rows.
NetCount(c, path) ==
  LET given == {r \in {"left", "right"} : /\ c.modules[r] = path
                                         /\ c.params[r] # Absent
                                         /\ Number[c.params[r]] > 0}
  IN  IF given = {} THEN NETCOUNT
      ELSE Number[c.params[IF "right" \in given THEN "right" ELSE "left"]]

\* The rows of all the libraries when they have just been loaded.
FreshRows(c) == [path \in DOMAIN Library |->
                   NoRows(IF Kind(path) = "multiplenet24" THEN NetCount(c, path)
                                                          ELSE 0)]

\* mod_get_info of a colour module, for the types it knows of.
Info(path, param) ==
  CASE Kind(path) = "colours" -> ColoursNames
    [] Kind(path) = "lpi"     -> LpiNames
    [] Kind(path) = "sip"     -> SipNames
    [] Kind(path) = "bpf"     -> IF param = Absent THEN << >>
                                 ELSE BpfInfo(BpfConfig[param])

\* Mutant of Described: the loop ends before the last type.
DescribedShort(path, param) ==
  SubSeq(Info(path, param), 1, Len(Info(path, param)) - 1)

\* form_colour_msg() stops at the first type whose colour is black.
Described(path, param) ==
  LET all == Info(path, param)
      ends == {n \in 1 .. Len(all) :
                 Kind(path) = "bpf" /\ BpfColour(all[n].hex) = Black}
  IN  IF ends = {} THEN all
      ELSE SubSeq(all, 1, (CHOOSE n \in ends : \A m \in ends : n <= m) - 1)
-----------------------------------------------------------------------------
Direction(p) ==
  LET path  == modptrs["direction"]
      param == conf.params["direction"]
  IN  CASE Kind(path) = "destmac"   -> DestMac(IF param = Absent THEN {}
                                               ELSE MacFile[param], p.dmac, p.smac)
        [] Kind(path) = "destbpf"   -> DestBpf(p.matches)
        [] Kind(path) = "interface" -> Interface(p.iface)

\* A module that uses a NULL pointer when it was not initialised.
NullPointer(path) ==
  Kind(path) \in {"multiplenet24", "destbpf"} /\ path \notin inited

\* per_packet asks the left module about SIDE_RIGHT, and the other way round.
AddressFor(role, dir, p) ==
  IF ChecksSource(IF role = "left" THEN SIDE_RIGHT ELSE SIDE_LEFT, dir)
  THEN p.src ELSE p.dst

\* get_start_pos() and get_end_pos(): the module of the side the packet comes
\* from is called first.
Callee(dir, n) == IF (dir = DIR_OUTBOUND) = (n = 1) THEN "left" ELSE "right"

\* The rows after the n-th call for a packet.
RowsAfter(all, role, dir, p) ==
  LET path == modptrs[role]
  IN  IF Kind(path) # "multiplenet24" THEN all
      ELSE [all EXCEPT ![path] = CheckSubnet(@, Net24(AddressFor(role, dir, p)))]

\* The n-th call for a packet scans on past the end of its rows.
LeavesRows(all, role, dir, p) ==
  /\ Kind(modptrs[role]) = "multiplenet24"
  /\ Overruns(all[modptrs[role]], Net24(AddressFor(role, dir, p)))

PlacesOf(all, role, dir, p) ==
  Places(Kind(modptrs[role]), all[modptrs[role]], AddressFor(role, dir, p))

KeyOf(dir, p) ==
  IF dir = DIR_OUTBOUND THEN <<p.src, p.dst, p.sport, p.dport>>
                        ELSE <<p.dst, p.src, p.dport, p.sport>>

\* What mod_get_colour of lpicolour finds behind colour_data.
LpiState(data, p) == IF data = None THEN LpiFlow(p) ELSE data

\* mod_get_colour: the ids it may return, and what it leaves in the flow.
ColourIds(data, p) ==
  LET path  == modptrs["colour"]
      param == conf.params["colour"]
  IN  CASE Kind(path) = "colours" -> {TypeId(ColoursNames, ColoursType(p))}
        [] Kind(path) = "sip"     -> {TypeId(SipNames, SipType(p))}
        [] Kind(path) = "lpi"     ->
             {TypeId(LpiNames, IF p.l3 # "ip4" THEN "OTHER"
                               ELSE LpiType(LpiStep(LpiState(data, p), p), p))}
        [] Kind(path) = "bpf"     -> IF param = Absent THEN {}
                                     ELSE BpfIds(BpfConfig[param], p)

ColourData(data, p) ==
  IF Kind(modptrs["colour"]) = "lpi" /\ p.l3 = "ip4"
  THEN LpiStep(LpiState(data, p), p) ELSE data
-----------------------------------------------------------------------------
Init ==
  /\ file \in ConfigFiles
  /\ conf = None
  /\ restart_config = FALSE
  /\ phase = "boot"
  /\ modptrs = NoModules
  /\ inited = {}
  /\ nets = [path \in DOMAIN Library |-> NoRows(0)]
  /\ loads = 0
  /\ colour_msg = None
  /\ flows = << >>
  /\ exported = None

\* close_modules(), do_configuration(), load_modules(): what the modules kept
\* goes with the libraries.
Load ==
  /\ conf' = Configured(file)
  /\ modptrs' = Configured(file).modules
  /\ inited' = Initialised(Configured(file))
  /\ nets' = FreshRows(Configured(file))
  /\ loads' = loads + 1

Usable == file.valid /\ LoadsAll(Configured(file))

\* The server is no more, or is no longer defined: nothing happens any more.
Ends(as) ==
  /\ phase' = as
  /\ flows' = << >>
  /\ exported' = None
  /\ UNCHANGED <<file, conf, restart_config, modptrs, inited, nets, loads,
                 colour_msg>>

\* exit(1), or main returns.
Die == Ends("dead")

\* main, up to its loop.
Boot ==
  /\ phase = "boot"
  /\ ~ Usable => Die
  /\ Usable =>
       /\ Load
       /\ phase' = "top"
       /\ restart_config' = FALSE
       /\ colour_msg' = [path |-> modptrs'["colour"], param |-> conf'.params["colour"],
                         types |-> Described(modptrs'["colour"],
                                             conf'.params["colour"])]
       /\ UNCHANGED <<file, flows, exported>>

\* Mutant of Cleared: the flows of a trace that failed survive.
NotCleared(all) == all

\* init_packets().
Cleared(all) == << >>

\* The top of main's loop, until the trace has been started.
Top(started) ==
  /\ phase = "top"
  /\ restart_config => loads < MaxLoads
  /\ (restart_config /\ ~ Usable) \/ ~ started => Die
  /\ (restart_config => Usable) /\ started =>
       /\ IF restart_config THEN Load
          ELSE UNCHANGED <<conf, modptrs, inited, nets, loads>>
       /\ restart_config' = FALSE
       /\ flows' = Cleared(flows)
       /\ phase' = "trace"
       /\ exported' = None
       /\ UNCHANGED <<file, colour_msg>>

\* per_packet, once a direction has been found: rows are entered for the
\* source first; the flow keeps the places of its first packet; the colour
\* module may refuse the packet.  "expired" are the flows expire_flows takes.
Handle(p, dir, expired) ==
  LET key   == KeyOf(dir, p)
      nets1 == RowsAfter(nets, Callee(dir, 1), dir, p)
  IN  \E first \in PlacesOf(nets, Callee(dir, 1), dir, p),
         second \in PlacesOf(nets1, Callee(dir, 2), dir, p) :
        LET place == [r \in {"left", "right"} |->
                        IF r = Callee(dir, 1) THEN first ELSE second]
            flow  == IF key \in DOMAIN flows THEN flows[key]
                     ELSE [left |-> place["left"], right |-> place["right"],
                           colour_data |-> None, load |-> loads]
            kept  == IF ColourIds(flow.colour_data, p) = {} THEN DOMAIN flows
                     ELSE DOMAIN flows \ expired
        IN  /\ nets' = RowsAfter(nets1, Callee(dir, 2), dir, p)
            /\ flows' = [k \in kept \cup {key} |->
                           IF k = key
                           THEN [flow EXCEPT !.colour_data = ColourData(@, p)]
                           ELSE flows[k]]
            /\ IF ColourIds(flow.colour_data, p) = {} THEN exported' = None
               ELSE \E type \in ColourIds(flow.colour_data, p) :
                      exported' = [key |-> key, type |-> type, place |-> place]

\* One of the two calls for a packet leaves the array; the first may fill it.
Overrun(p, dir) ==
  \/ LeavesRows(nets, Callee(dir, 1), dir, p)
  \/ LeavesRows(RowsAfter(nets, Callee(dir, 1), dir, p), Callee(dir, 2), dir, p)

PerPacket(p, expired) ==
  /\ phase = "trace"
  /\ IF NullPointer(modptrs["direction"])
        \/ (Direction(p) \in {DIR_OUTBOUND, DIR_INBOUND} /\
            \E r \in {"left", "right"} : NullPointer(modptrs[r]))
     THEN Die
     ELSE /\ Direction(p) \in {DIR_OUTBOUND, DIR_INBOUND}
          /\ IF Overrun(p, Direction(p)) THEN Ends("overrun")
             ELSE /\ KeyOf(Direction(p), p) \notin expired
                  /\ Handle(p, Direction(p), expired)
                  /\ UNCHANGED <<file, conf, restart_config, phase, modptrs,
                                 inited, loads, colour_msg>>

\* After the event loop: the flows are expired unless the trace failed.
EndTrace(failed) ==
  /\ phase = "trace"
  /\ IF restart_config \/ conf.loop
     THEN /\ phase' = "top"
          /\ flows' = IF failed THEN flows ELSE << >>
          /\ exported' = None
          /\ UNCHANGED <<file, conf, restart_config, modptrs, inited, nets,
                         loads, colour_msg>>
     ELSE Die

\* sigusr_cb(), once the loop of events sees it.
Sigusr1 ==
  /\ phase = "trace" /\ ~ restart_config
  /\ restart_config' = TRUE
  /\ exported' = None
  /\ UNCHANGED <<file, conf, phase, modptrs, inited, nets, loads, colour_msg, flows>>

\* Somebody edits the configuration file.
EditFile(f) ==
  /\ f # file
  /\ file' = f
  /\ exported' = None
  /\ UNCHANGED <<conf, restart_config, phase, modptrs, inited, nets, loads,
                 colour_msg, flows>>

Next ==
  \/ Boot
  \/ \E started \in BOOLEAN : Top(started)
  \/ \E p \in Packets, expired \in SUBSET DOMAIN flows : PerPacket(p, expired)
  \/ \E failed \in BOOLEAN : EndTrace(failed)
  \/ Sigusr1
  \/ \E f \in ConfigFiles : EditFile(f)

Spec == Init /\ [][Next]_vars
-----------------------------------------------------------------------------
\* The types of the variables.
TypeOK ==
  /\ file \in ConfigFiles /\ restart_config \in BOOLEAN
  /\ phase \in {"boot", "top", "trace", "dead", "overrun"} /\ loads \in Nat
  /\ phase \in {"top", "trace"} =>
       /\ modptrs = conf.modules
       /\ \A r \in Roles : Loads(r, modptrs[r], conf.params[r])
  /\ nets = [path \in DOMAIN Library |->
               [i \in DOMAIN nets[path] |-> nets[path][i]]]
  /\ \A path \in DOMAIN Library : DOMAIN nets[path] \subseteq 1 .. NETCOUNT
  /\ \A k \in DOMAIN flows : flows[k] = [left |-> flows[k].left,
                                        right |-> flows[k].right,
                                        colour_data |-> flows[k].colour_data,
                                        load |-> flows[k].load]

\* While the colour module is the one the server started with, every packet
\* message carries a type that the greeting describes: the client looks the
\* type up without a check (getFD).
TypesDescribed ==
  exported # None /\ modptrs["colour"] = colour_msg.path
                  /\ conf.params["colour"] = colour_msg.param =>
    exported.type < Len(colour_msg.types)

\* "This is the only config option that is not reparsed when the server is
\* restarted via a SIGUSR1" (README, of listenport): what the greeting says of
\* a packet's type is what the loaded colour module says of it.
TableIsCurrent ==
  exported # None =>
    /\ exported.type < Len(colour_msg.types)
    /\ colour_msg.types[exported.type + 1] =
         Info(modptrs["colour"], conf.params["colour"])[exported.type + 1]

\* What hangs on a flow was made by the colour module that is loaded: the
\* modules that assert colour_data == NULL, and the one that casts it, never
\* meet what another module, or an earlier load of the same one, left there.
ColourDataFresh ==
  phase = "trace" =>
    \A k \in DOMAIN flows : /\ flows[k].load = loads
                            /\ Kind(modptrs["colour"]) # "lpi" =>
                                 flows[k].colour_data = None

\* lpicolour stops guessing only when it has seen data both ways: from then on
\* the protocol of a flow is the one libprotoident gives for both.
GuessUsesBothSides ==
  \A k \in DOMAIN flows :
    LET col == flows[k].colour_data
    IN  col # None /\ ~ col.use_ports /\ (\A d \in 0 .. 1 : col.payload[d] # NoPayload)
          => col.protocol = LpiProtocol(col.transport, col.payload[0], col.payload[1])

\* "The multiplenet24 plugin accepts a maximum number of /24 networks to layout
\* on the plane" (README): the plug-in stays within the rows it was given.
RowsWithinTable == phase # "overrun"

\* "Any flows for additional networks observed after that will not be rendered"
\* (bsod_server.conf): a packet is exported only if each end that multiplenet24
\* lays out is in a network that has a row.
OnlyRowsRendered ==
  exported # None =>
    \A r \in {"left", "right"} : Kind(modptrs[r]) = "multiplenet24" =>
      SubnetRow(nets[modptrs[r]],
                Net24(exported.key[IF r = "left" THEN 1 ELSE 2])) # 0

\* A place that never changes while the module is loaded: not one on which
\* multiplenet24 has given up, nor that of 0.0.0.0/24, which is the mark of a
\* free row.
Settled(path, ip) ==
  Kind(path) = "multiplenet24" =>
    Net24(ip) # NoNet /\ SubnetRow(nets[path], Net24(ip)) # 0

\* Whichever way a packet goes, its ends are where the FLOW messages of its
\* flow put them, and networks that were met later have moved nothing, as long
\* as their networks have rows (OnlyRowsRendered) and no array was left
\* (RowsWithinTable).
PlacedAsAnnounced ==
  exported # None =>
    /\ Settled(modptrs["left"], exported.key[1]) =>
         exported.place["left"] = flows[exported.key].left
    /\ Settled(modptrs["right"], exported.key[2]) =>
         exported.place["right"] = flows[exported.key].right
=============================================================================
