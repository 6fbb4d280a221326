--------------------------- MODULE PositionModules ---------------------------
(***************************************************************************)
(* The direction and position plug-ins of the server                       *)
(* (src/server/plugins/direction and position): which way a packet goes,   *)
(* and where its two ends are drawn.                                       *)
(*                                                                         *)
(* An address is a sequence of its four octets.  A place is a pair of      *)
(* numbers that the plug-in scales to -10 .. 10; the scaling is left out.  *)
(* It keeps different pairs apart, but for the centre of radial's circle.  *)
(***************************************************************************)
EXTENDS Naturals, Sequences

CONSTANTS
  NETCOUNT,   \* rows multiplenet24 looks at
  Hash(_),    \* hash() of random.cc: address -> address
  Junk        \* places an uninitialised array may hold

ASSUME NetcountAssumption == NETCOUNT \in Nat \ {0}

DIR_OUTBOUND == 0
DIR_INBOUND  == 1
DIR_OTHER    == 2
SIDE_LEFT    == 0
SIDE_RIGHT   == 1
-----------------------------------------------------------------------------
(* direction: destmac.cc, destbpf.cc, interface.cc                         *)

\* By the hardware addresses listed in a file.
DestMac(macs, dmac, smac) ==
  IF dmac \in macs THEN DIR_OUTBOUND
  ELSE IF smac \in macs THEN DIR_INBOUND
  ELSE DIR_OTHER

\* By a filter.
DestBpf(matches) == IF matches THEN DIR_OUTBOUND ELSE DIR_INBOUND

\* By the interface, as the capture format numbers them.
Interface(iface) == iface
-----------------------------------------------------------------------------
(* position: all but multiplenet24 are functions of the address            *)

\* CHK_SOURCE: does a position module look at the packet's source?
ChecksSource(side, dir) == (side = SIDE_LEFT) # (dir = DIR_OUTBOUND)

High(ip) == ip[1] * 256 + ip[2]
Low(ip)  == ip[3] * 256 + ip[4]

Network16(ip)   == <<ip[3], ip[4]>>
NetworkXXYY(ip) == <<High(ip), Low(ip)>>
RandomPlace(ip) == NetworkXXYY(Hash(ip))

\* An angle and a radius.
MAX_SIZE == 10000
Radial(ip) == <<High(ip) % MAX_SIZE, Low(ip) % MAX_SIZE>>

\* Boxes of 8 by 2, in a frame of 4 by 8.
RuralLink(ip) ==
  LET x == ((Low(ip) \div 2) % 8) + 8 * ((Low(ip) \div 128) % 4)
      y == (Low(ip) % 2) + 2 * ((Low(ip) \div 16) % 8)
  IN  <<y, x>>
-----------------------------------------------------------------------------
(* multiplenet24: a row for each /24 network, in the order they are met    *)
(* The array has as many rows as the parameter says, and 50 without one;   *)
(* the scan goes up to NETCOUNT whatever it has, and never beyond.         *)

NoNet == <<0, 0, 0>>
Net24(ip) == <<ip[1], ip[2], ip[3]>>

\* The rows of an array of n entries that the scan looks at.
NoRows(n) == [i \in {j \in 1 .. NETCOUNT : j <= n} |-> NoNet]

\* The rows at which check_subnet would stop.
Stops(nets, net) == {i \in DOMAIN nets : nets[i] \in {net, NoNet}}

\* check_subnet() reads past the end of the array, and may write there.
Overruns(nets, net) == Stops(nets, net) = {} /\ DOMAIN nets # 1 .. NETCOUNT

\* Mutant of SubnetRow: the scan looks for a free row first.
SubnetRowFree(nets, net) ==
  IF \E i \in DOMAIN nets : nets[i] = NoNet
  THEN CHOOSE i \in DOMAIN nets :
         nets[i] = NoNet /\ \A j \in 1 .. i - 1 : nets[j] # NoNet
  ELSE IF net \in {nets[i] : i \in DOMAIN nets}
  THEN CHOOSE i \in DOMAIN nets : nets[i] = net
  ELSE 0

\* The row of a network, 0 when all the rows are taken.
SubnetRow(nets, net) ==
  IF Stops(nets, net) = {} THEN 0
  ELSE CHOOSE i \in Stops(nets, net) : \A j \in Stops(nets, net) : i <= j

\* check_subnet() enters the network in the row it returns.
CheckSubnet(nets, net) ==
  IF SubnetRow(nets, net) = 0 THEN nets
  ELSE [nets EXCEPT ![SubnetRow(nets, net)] = net]

\* The caller ignores that mod_get_position failed: the array keeps what was
\* on the stack.
MultipleNet24(nets, ip) ==
  IF SubnetRow(nets, Net24(ip)) = 0 THEN Junk
  ELSE {<<SubnetRow(nets, Net24(ip)), ip[4]>>}

\* The places a module of this kind may give an address.
Places(kind, nets, ip) ==
  CASE kind = "network16"     -> {Network16(ip)}
    [] kind = "networkxxyy"   -> {NetworkXXYY(ip)}
    [] kind = "radial"        -> {Radial(ip)}
    [] kind = "random"        -> {RandomPlace(ip)}
    [] kind = "rurallink"     -> {RuralLink(ip)}
    [] kind = "multiplenet24" -> MultipleNet24(nets, ip)
=============================================================================
