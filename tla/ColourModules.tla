---------------------------- MODULE ColourModules ----------------------------
(***************************************************************************)
(* The colour plug-ins of the server (src/server/plugins/colour): each     *)
(* gives a packet the number of its type, and describes its types in a     *)
(* table that is sent to every client.                                     *)
(*                                                                         *)
(* A packet is a record: l3 ("ip4", "ip6" or "none"), proto (the ip_p of   *)
(* its header), sport and dport, syn, way (0 when the source address is    *)
(* below the destination, 1 above, 2 when they are equal), payload (what   *)
(* its first bytes say, NoPayload if there are none) and filter (the       *)
(* positions of the bpf expressions that match it).                        *)
(***************************************************************************)
EXTENDS Naturals, Sequences, FiniteSets

CONSTANTS
  NoPayload,              \* the packet carries no data
  SourceIsServer(_, _),   \* trace_get_server_port(..) = USE_SOURCE
  LpiProtocol(_, _, _)    \* lpi_guess_protocol: transport, first payloads

\* What mod_get_info calls the types 0, 1, ... of three of the plug-ins.
ColoursNames == <<"TCP", "HTTP", "HTTPS", "MAIL", "FTP", "VPN", "DNS", "NTP",
  "SSH", "UDP", "ICMP", "IRC", "WINDOWS", "P2P", "GAMES", "OTHER">>
LpiNames == <<"HTTP", "HTTPS", "MAIL", "DNS", "P2P", "P2P_UDP", "WINDOWS",
  "GAMES", "MALWARE", "VOIP", "TUNNELLING", "STREAMING", "SERVICES", "FILES",
  "REMOTE", "CHAT", "ICMP", "OTHER", "UNK_TCP", "UNK_UDP">>
SipNames == <<"TCP", "UDP", "REGISTER", "INVITE", "ACK", "BYE", "CANCEL",
  "RES_1XX", "RES_2XX", "RES_3XX", "RES_4XX", "RES_5XX", "RES_6XX", "RES_7XX",
  "RES_8XX", "RES_9XX", "RES_0XX", "OTHER">>

\* The number of a type in its enum.
TypeId(names, n) == (CHOOSE i \in 1 .. Len(names) : names[i] = n) - 1
-----------------------------------------------------------------------------
(* colours.cc: by well-known port, else by protocol.                       *)

ColoursPorts ==
  [HTTP |-> {80}, FTP |-> {20, 21}, MAIL |-> {25, 110, 143, 220, 465, 993, 995},
   DNS |-> {53}, SSH |-> {22, 23}, HTTPS |-> {443}, IRC |-> {6667},
   VPN |-> {10000}, NTP |-> {123}, WINDOWS |-> (135 .. 139) \cup {445, 1053},
   P2P |-> {6346, 1214, 4661, 4662, 4665, 4672, 4329} \cup (6881 .. 6901),
   GAMES |-> {3724, 14567, 20100, 27015, 27016, 27960, 28070, 28960}]

ColoursProtocols == [TCP |-> {6}, UDP |-> {17}, ICMP |-> {1}, VPN |-> {37, 50, 51}]

\* The name whose set holds n, "OTHER" when none does.
Classify(sets, n, otherwise) ==
  IF \E c \in DOMAIN sets : n \in sets[c]
  THEN CHOOSE c \in DOMAIN sets : n \in sets[c]
  ELSE otherwise

\* Only TCP and UDP packets have ports; the others count as port 0.
Ports(p) == IF p.proto \in {6, 17} THEN <<p.sport, p.dport>> ELSE <<0, 0>>

ServerPort(p) ==
  LET ports == Ports(p)
  IN  IF SourceIsServer(ports[1], ports[2]) THEN ports[1] ELSE ports[2]

ColoursType(p) ==
  IF p.l3 = "none" THEN "OTHER"
  ELSE Classify(ColoursPorts, ServerPort(p),
                Classify(ColoursProtocols, p.proto, "OTHER"))
-----------------------------------------------------------------------------
(* sipcolour.cc: by the first letters of the payload.                      *)

SipLetters == [REG |-> "REGISTER", INV |-> "INVITE", ACK |-> "ACK",
               BYE |-> "BYE", CAN |-> "CANCEL"]
SipDigits  == [d \in {"0", "1", "2", "3", "4", "5", "6", "7", "8", "9"} |->
  CASE d = "0" -> "RES_0XX" [] d = "1" -> "RES_1XX" [] d = "2" -> "RES_2XX"
    [] d = "3" -> "RES_3XX" [] d = "4" -> "RES_4XX" [] d = "5" -> "RES_5XX"
    [] d = "6" -> "RES_6XX" [] d = "7" -> "RES_7XX" [] d = "8" -> "RES_8XX"
    [] d = "9" -> "RES_9XX"]

\* A payload of less than three bytes is OTHER, even of a TCP packet.
SipType(p) ==
  IF p.l3 = "none" \/ p.proto \notin {6, 17} \/ p.payload = NoPayload THEN "OTHER"
  ELSE IF p.payload \in DOMAIN SipLetters THEN SipLetters[p.payload]
  ELSE IF p.payload \in DOMAIN SipDigits THEN SipDigits[p.payload]
  ELSE IF p.proto = 6 THEN "TCP" ELSE "UDP"
-----------------------------------------------------------------------------
(* lpicolour.cc: libprotoident's guess, or ports for a TCP flow that was   *)
(* met after its SYN.  The state of a flow is kept behind colour_data.     *)

LpiPorts ==
  [HTTP |-> {80}, FILES |-> {20, 21}, MAIL |-> {25, 110, 143, 220, 465, 993, 995},
   DNS |-> {53}, REMOTE |-> {22, 23}, HTTPS |-> {443}, CHAT |-> {6667},
   TUNNELLING |-> {10000}, SERVICES |-> {123}, STREAMING |-> {554}]

LpiTransports == [UNK_TCP |-> {6}, UNK_UDP |-> {17}, ICMP |-> {1},
                  TUNNELLING |-> {37, 50, 51}]

LpiProtocolTypes ==
  [HTTP |-> "HTTP", HTTPS |-> "HTTPS", DNS |-> "DNS", UDP_DNS |-> "DNS",
   UNKNOWN |-> "UNK_TCP", UDP |-> "UNK_UDP", ICMP |-> "ICMP",
   UDP_NETBIOS |-> "WINDOWS", NETBIOS |-> "WINDOWS",
   UDP_WIN_MESSAGE |-> "WINDOWS"]

LpiCategoryTypes ==
  [MAIL |-> "MAIL", P2P |-> "P2P", P2P_STRUCTURE |-> "P2P_UDP",
   SERVICES |-> "SERVICES", CHAT |-> "CHAT", REMOTE |-> "REMOTE",
   STREAMING |-> "STREAMING", P2PTV |-> "P2P", GAMING |-> "GAMES",
   FILES |-> "FILES", TUNNELLING |-> "TUNNELLING", VOIP |-> "VOIP",
   MALWARE |-> "MALWARE"]

\* init_lpi_flow().
LpiFlow(p) ==
  [seen |-> {}, transport |-> p.proto, ports |-> {},
   use_ports |-> p.proto = 6 /\ ~ p.syn,
   payload |-> [d \in 0 .. 1 |-> NoPayload],
   protocol |-> [protocol |-> "NONE", category |-> "NONE"]]

\* lpi_update_data: it keeps the first ports, and the first payload each way.
LpiUpdate(col, p) ==
  [col EXCEPT !.ports = IF @ = {} THEN {p.sport, p.dport} ELSE @,
              !.payload[p.way] = IF @ = NoPayload THEN p.payload ELSE @]

\* Mutant of CheckNeeded: data one way is enough.
CheckFirst(col, way) == col.seen = {}

\* check_needed().
CheckNeeded(col, way) == col.seen # {0, 1} /\ way \notin col.seen

\* The part of guess_protocol that changes the flow.
LpiGuess(col, way) ==
  [col EXCEPT
     !.protocol = IF CheckNeeded(col, way)
                  THEN LpiProtocol(col.transport, col.payload[0], col.payload[1])
                  ELSE @,
     !.seen = IF col.payload[way] # NoPayload THEN @ \cup {way} ELSE @]

\* Its two switches.
LpiTypeOfGuess(col) ==
  LET proto == col.protocol.protocol
      cat   == col.protocol.category
      tcpOrUdp == Classify([UNK_TCP |-> {6}, UNK_UDP |-> {17}], col.transport, "OTHER")
  IN  IF proto \in DOMAIN LpiProtocolTypes THEN LpiProtocolTypes[proto]
      ELSE IF proto = "NO_PAYLOAD" /\ col.transport \in {6, 17} THEN tcpOrUdp
      ELSE IF proto = "UNSUPPORTED" /\ col.transport \in {37, 47, 50, 51}
           THEN "TUNNELLING"
      ELSE IF proto = "UNSUPPORTED" /\ col.transport = 17 THEN "UNK_UDP"
      ELSE IF cat = "NO_CATEGORY" THEN tcpOrUdp
      ELSE IF cat \in DOMAIN LpiCategoryTypes THEN LpiCategoryTypes[cat]
      ELSE "OTHER"

\* guess_using_port(); the server's port is tried first, which only matters
\* when both ports are well known.
LpiTypeOfPorts(col) ==
  IF \E q \in col.ports : Classify(LpiPorts, q, "NONE") # "NONE"
  THEN Classify(LpiPorts, CHOOSE q \in col.ports :
                            Classify(LpiPorts, q, "NONE") # "NONE", "NONE")
  ELSE Classify(LpiTransports, col.transport, "OTHER")

\* What mod_get_colour leaves in the flow, and the type it returns.
LpiStep(col, p) ==
  IF p.way = 2 THEN col
  ELSE IF col.use_ports THEN LpiUpdate(col, p)
  ELSE LpiGuess(LpiUpdate(col, p), p.way)

LpiType(col, p) ==
  IF p.way = 2 THEN "OTHER"
  ELSE IF col.use_ports THEN LpiTypeOfPorts(col)
  ELSE LpiTypeOfGuess(col)
-----------------------------------------------------------------------------
(* bpfcolour.cc: the first expression that matches.  The configuration is  *)
(* a sequence of [name, hex], hex = the three bytes after the #.           *)

\* hex2dec() in the lexer shifts the high digit out of its char.
BpfColour(hex) == [i \in 1 .. 3 |-> hex[i] % 16]
Black == <<0, 0, 0>>

\* operator<, on pairs of equal names, with rgb = <<red, blue, green>>: it
\* compares red with blue where it means to compare the blues.
BpfLess(a, b) ==
  IF a[1] # b[1] THEN a[1] < b[1]
  ELSE IF a[1] # b[2] THEN a[2] < b[2]
  ELSE a[3] < b[3]

\* Two entries that are the same key for the map name_colour2id.
BpfSame(x, y) ==
  LET a == BpfColour(x.hex)
      b == BpfColour(y.hex)
  IN  x.name = y.name /\ ~ BpfLess(a, b) /\ ~ BpfLess(b, a)

\* The expressions add_expression enters: those whose key is not the same as
\* one entered before.  BpfLess is no order: where two keys are each the same
\* as a third but not as each other, what find() meets depends on the tree.
BpfFirsts(exprs) ==
  CHOOSE entered \in SUBSET (1 .. Len(exprs)) :
    \A i \in 1 .. Len(exprs) :
      i \in entered <=>
        \A j \in entered : j < i => ~ BpfSame(exprs[j], exprs[i])

\* next_id++ for a new key, else the id of the key.
BpfId(exprs, i) ==
  LET first == CHOOSE j \in BpfFirsts(exprs) :
                 j = i \/ (i \notin BpfFirsts(exprs) /\ BpfSame(exprs[j], exprs[i]))
  IN  Cardinality({j \in BpfFirsts(exprs) : j < first})

\* What mod_get_info says of the types 0, 1, ...
BpfInfo(exprs) ==
  [n \in 1 .. Cardinality(BpfFirsts(exprs)) |->
     exprs[CHOOSE i \in BpfFirsts(exprs) : BpfId(exprs, i) = n - 1]]

\* The ids mod_get_colour may give a packet: that of the first expression
\* that matches, none when the packet matches no expression.
BpfIds(exprs, p) ==
  {BpfId(exprs, i) : i \in {i \in 1 .. Len(exprs) :
     i \in p.filter /\ \A j \in 1 .. i - 1 : j \notin p.filter}}
=============================================================================
