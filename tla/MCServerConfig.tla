--------------------------- MODULE MCServerConfig ---------------------------
(***************************************************************************)
(* Small instances of ServerConfig for TLC: all the plug-ins, and eight    *)
(* configuration files, among them one that does not parse, one that names *)
(* a library that is not there, one that leaves multiplenet24 without its  *)
(* parameter and one that gives it fewer rows than it scans.               *)
(***************************************************************************)
EXTENDS ServerConfig

Plugin(role, kind, inits) ==
  [role |-> role, kind |-> kind, inits |-> inits,
   accepts |-> IF kind = "multiplenet24" THEN {"arg", "one"} ELSE {"arg"}]

Plugins ==
  [path \in {"colours.so", "lpicolour.so", "sipcolour.so", "bpfcolour.so",
             "network16.so", "networkxxyy.so", "radial.so", "random.so",
             "rurallink.so", "multiplenet24.so",
             "interface.so", "destmac.so", "destbpf.so"} |->
     CASE path = "colours.so"       -> Plugin("colour", "colours", FALSE)
       [] path = "lpicolour.so"     -> Plugin("colour", "lpi", FALSE)
       [] path = "sipcolour.so"     -> Plugin("colour", "sip", FALSE)
       [] path = "bpfcolour.so"     -> Plugin("colour", "bpf", TRUE)
       [] path = "network16.so"     -> Plugin("position", "network16", FALSE)
       [] path = "networkxxyy.so"   -> Plugin("position", "networkxxyy", FALSE)
       [] path = "radial.so"        -> Plugin("position", "radial", FALSE)
       [] path = "random.so"        -> Plugin("position", "random", FALSE)
       [] path = "rurallink.so"     -> Plugin("position", "rurallink", FALSE)
       [] path = "multiplenet24.so" -> Plugin("position", "multiplenet24", TRUE)
       [] path = "interface.so"     -> Plugin("direction", "interface", FALSE)
       [] path = "destmac.so"       -> Plugin("direction", "destmac", TRUE)
       [] path = "destbpf.so"       -> Plugin("direction", "destbpf", TRUE)]

File(colour, left, right, direction, param, loop) ==
  [valid |-> TRUE, loop |-> loop,
   modules |-> [r \in Roles |-> CASE r = "colour" -> colour [] r = "left" -> left
                                  [] r = "right" -> right [] OTHER -> direction],
   params |-> [r \in Roles |-> param]]

Lpi   == File("lpicolour.so", "multiplenet24.so", "multiplenet24.so", Absent,
              "arg", TRUE)
Ported == File(Absent, "rurallink.so", "networkxxyy.so", "destmac.so", "arg", FALSE)
Sip   == File("sipcolour.so", "random.so", Absent, Absent, Absent, TRUE)
Bpf   == File("bpfcolour.so", "multiplenet24.so", Absent, "destbpf.so", "arg", TRUE)
Small == [Lpi EXCEPT !.params["left"] = "one"]
Bare  == File(Absent, "multiplenet24.so", Absent, Absent, Absent, FALSE)
Lost  == File("gone.so", Absent, Absent, Absent, "arg", FALSE)
Files == {Lpi, Ported, Sip, Bpf, Small, Bare, Lost, [Lpi EXCEPT !.valid = FALSE]}

\* A shade of red and one of blue that survive hex2dec, then a clear white.
Exprs == [param \in {"arg"} |->
            <<[name |-> "syn", hex |-> <<255, 0, 0>>],
              [name |-> "fin", hex |-> <<0, 255, 0>>],
              [name |-> "syn", hex |-> <<255, 0, 0>>],
              [name |-> "rst", hex |-> <<17, 255, 255>>]>>]
Numbers == [param \in {"arg", "one"} |-> IF param = "one" THEN 1 ELSE 0]
Macs  == [param \in {"arg"} |-> {"inner"}]

\* Addresses inside and outside; the last octet is the host's.
a == <<10, 0, 1, 1>>
b == <<10, 0, 2, 2>>
x == <<8, 8, 8, 8>>

\* A packet out of the network, and the one that answers it.
Out(src, dst, proto, sport, dport, syn, payload, filter) ==
  [l3 |-> "ip4", proto |-> proto, src |-> src, dst |-> dst, sport |-> sport,
   dport |-> dport, syn |-> syn, payload |-> payload, filter |-> filter,
   way |-> 1, iface |-> 0, dmac |-> "inner", smac |-> "outer", matches |-> TRUE]
Answer(p, payload, filter) ==
  [p EXCEPT !.src = p.dst, !.dst = p.src, !.sport = p.dport, !.dport = p.sport,
            !.payload = payload, !.filter = filter, !.way = 0, !.iface = 1,
            !.dmac = "outer", !.smac = "inner", !.matches = FALSE]

Syn   == Out(a, x, 6, 1025, 80, TRUE, NoPayload, {1, 3})
Get   == Out(a, x, 6, 1025, 80, FALSE, "GET", {2})
Reply == Answer(Get, "HTTP", {4})
Query == Out(b, x, 17, 1025, 53, FALSE, "INV", {})
SomePackets == {Syn, Get, Reply, Query}
AllPackets  == SomePackets \cup {[Query EXCEPT !.iface = 2]}

LowerPort(s, d) == s < d
SameHash(ip) == <<ip[4], ip[3], ip[2], ip[1]>>
Guess(transport, there, back) ==
  IF transport = 17 THEN [protocol |-> "UDP_SIP", category |-> "VOIP"]
  ELSE IF there = NoPayload /\ back = NoPayload
  THEN [protocol |-> "NO_PAYLOAD", category |-> "NO_CATEGORY"]
  ELSE IF "GET" \in {there, back} /\ "HTTP" \in {there, back}
  THEN [protocol |-> "HTTP", category |-> "WEB"]
  ELSE [protocol |-> "UNKNOWN", category |-> "NO_CATEGORY"]
OnePlace == {<<"junk", 0>>}
=============================================================================
