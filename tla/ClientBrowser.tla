--------------------------- MODULE ClientBrowser ---------------------------
(***************************************************************************)
(* The windows of the client (gui.cpp), how it finds servers and how it    *)
(* connects and disconnects (socket.cpp), with the servers' side of the    *)
(* discovery (src/server/socket.cc).                                       *)
(*                                                                         *)
(* The user opens and closes windows, types addresses, picks rows of the   *)
(* server list and connects; the server window and the connection share    *)
(* the flag that disables key movement and the list of servers.  Discovery *)
(* sends a datagram to PORT_RANGE ports; every reply widens the range.     *)
(* Datagrams are delayed, overtaken and lost.                              *)
(*                                                                         *)
(* Layout, wording and the stream of a connection are left out (the stream *)
(* is ClientStream).  A server is known by its host name, its address and  *)
(* the name it replies with.                                               *)
(***************************************************************************)
EXTENDS Textures, Integers, Sequences

CONSTANTS
    Server,         \* the servers on the network
    HostName, Ip,   \* of every server: what the user may type for it
    ServerName,     \* of every server: what its reply says
    TcpPort,        \* of every server
    UdpPort,        \* of every server: the port it listens to discovery on
    UDP_SERVER_PORT, UDP_PORT_RANGE,
    DEFAULT_PORT,
    ConfigServers,  \* <<Server, Port>> options of bsod2.cfg to start with
    Texts,          \* what the user may type: [form, addr, port]
    Windows         \* which windows the user plays with

ASSUME PortAssumption ==
    /\ UDP_SERVER_PORT \in Nat /\ UDP_PORT_RANGE \in Nat
    /\ UdpPort \in [Server -> Nat]

VARIABLES
    phase,          \* "start" | "running" | "stopped"
    visible,        \* the windows that are shown
    bGlobalDisableKeyMovement,
    rows,           \* what the list box shows, row by row
    text,           \* what the address edit box holds
    mServerInfoExplicit,
    mServerInfoDisc,  \* of every server: its entries among the discovered
    mServerAddr, iServerPort,
    bConnected,
    iCurrentUDPPort,
    probes, replies,  \* datagrams on their way to, and from, these servers
    lost              \* some datagram was

guiVars == <<visible, bGlobalDisableKeyMovement, rows, text>>
listVars == <<mServerInfoExplicit, mServerInfoDisc>>
tcpVars == <<mServerAddr, iServerPort, bConnected>>
udpVars == <<iCurrentUDPPort, probes, replies, lost>>
vars == <<phase, guiVars, listVars, tcpVars, udpVars, texVars>>

-----------------------------------------------------------------------------
(* Addresses and lists.                                                    *)

Empty == [form |-> "ok", addr |-> "", port |-> DEFAULT_PORT]

Known(addr) == {s \in Server : addr \in {HostName[s], Ip[s]}}
Reachable(addr, port) == \E s \in Known(addr) : TcpPort[s] = port
Resolved(addr) == IF Known(addr) = {} THEN addr
                  ELSE Ip[CHOOSE s \in Known(addr) : TRUE]

InExplicitList(name, port) ==
    \E i \in DOMAIN mServerInfoExplicit :
        LET e == mServerInfoExplicit[i]
        IN  name \in {e.name, e.ip} /\ e.port = port

\* renderServerList: one row for every explicit entry.
RowsOf(explicit) == [i \in DOMAIN explicit |-> explicit[i].name]

-----------------------------------------------------------------------------
(* Discovery.                                                              *)

\* What happens to a discovery datagram sent to each of some ports.
Heard(ports) == {s \in Server : UdpPort[s] \in ports}

\* beginDiscovery: forget the discovered, clear the edit box, probe.
BeginDiscovery ==
    /\ mServerInfoDisc' = [s \in Server |-> 0]
    /\ text' = Empty
    /\ rows' = RowsOf(mServerInfoExplicit)
    /\ iCurrentUDPPort' = UDP_SERVER_PORT + UDP_PORT_RANGE
    /\ probes' = probes \cup
           Heard(UDP_SERVER_PORT .. UDP_SERVER_PORT + UDP_PORT_RANGE - 1)
    /\ UNCHANGED <<replies, lost>>

\* udp_cb: a server answers to where the datagram came from.
ProbeArrives(s) ==
    /\ s \in probes
    /\ probes' = probes \ {s}
    /\ replies' = replies \cup {s}
    /\ UNCHANGED <<phase, guiVars, listVars, tcpVars, iCurrentUDPPort, lost,
                   texVars>>

\* updateUDPSocket: list the server unless it is an explicit one, and probe
\* further ports when it listens near the end of those probed.
NotFurther(s) == iCurrentUDPPort             \* mutant: one range only
Further(s) == IF UdpPort[s] + UDP_PORT_RANGE > iCurrentUDPPort
              THEN UdpPort[s] + UDP_PORT_RANGE ELSE iCurrentUDPPort

ReplyArrives(s) ==
    /\ phase = "running"
    /\ s \in replies
    /\ replies' = replies \ {s}
    /\ mServerInfoDisc' =
           IF InExplicitList(ServerName[s], TcpPort[s]) THEN mServerInfoDisc
           ELSE [mServerInfoDisc EXCEPT ![s] = @ + 1]
    /\ iCurrentUDPPort' = Further(s)
    /\ probes' = probes \cup Heard(iCurrentUDPPort .. Further(s) - 1)
    /\ UNCHANGED <<phase, guiVars, mServerInfoExplicit, tcpVars, lost, texVars>>

DatagramLost ==
    /\ \/ \E s \in probes : probes' = probes \ {s} /\ UNCHANGED replies
       \/ \E s \in replies : replies' = replies \ {s} /\ UNCHANGED probes
    /\ lost' = TRUE
    /\ UNCHANGED <<phase, guiVars, listVars, tcpVars, iCurrentUDPPort, texVars>>

-----------------------------------------------------------------------------
(* The connection.                                                         *)

DropConnection == IF bConnected THEN DropImages ELSE UNCHANGED texVars

\* openSocket: the old connection goes before the new one is tried; the
\* address that was asked for is listed if that is wanted and it worked.
ListedAlways(addList) == TRUE                \* mutant: on every connect
Listed(addList) == addList

OpenSocket(addList, addr, port, ok) ==
    /\ ok => Reachable(addr, port)
    /\ DropConnection
    /\ mServerAddr' = addr
    /\ iServerPort' = port
    /\ bConnected' = ok
    /\ mServerInfoExplicit' =
           IF ok /\ Listed(addList)
           THEN Append(mServerInfoExplicit,
                       [name |-> addr, ip |-> Resolved(addr), port |-> port])
           ELSE mServerInfoExplicit

\* App::init: connect to the configured server, if there is one.
Start ==
    /\ phase = "start"
    /\ phase' = "running"
    /\ \E c \in ConfigServers :
          IF c[1] = "" THEN UNCHANGED <<tcpVars, texVars, mServerInfoExplicit>>
          ELSE \E ok \in BOOLEAN : OpenSocket(TRUE, c[1], c[2], ok)
    /\ UNCHANGED <<guiVars, mServerInfoDisc, udpVars>>

\* updateTCPSocket finds the connection lost: disconnect(true).
ConnectionLost ==
    /\ phase = "running" /\ bConnected
    /\ bConnected' = FALSE
    /\ DropImages
    /\ visible' = visible \cup {"disconnect"}
    /\ UNCHANGED <<phase, bGlobalDisableKeyMovement, rows, text, listVars,
                   mServerAddr, iServerPort, udpVars>>

\* An image of the server arrives.
ImageArrives(side, good) ==
    /\ phase = "running" /\ bConnected
    /\ ImageFor(side, good)
    /\ UNCHANGED <<phase, guiVars, listVars, tcpVars, udpVars>>

-----------------------------------------------------------------------------
(* The windows.                                                            *)

\* onWndClose, and onMenuButtonClicked for a window that is shown.
KeysKept(w) == bGlobalDisableKeyMovement      \* mutant: the flag stays
KeysAfterClose(w) == IF w = "server" THEN FALSE ELSE bGlobalDisableKeyMovement

Hide(w) ==
    /\ w \in visible
    /\ visible' = visible \ {w}
    /\ bGlobalDisableKeyMovement' = KeysAfterClose(w)

CloseWindow(w) ==
    /\ phase = "running"
    /\ Hide(w)
    /\ UNCHANGED <<phase, rows, text, listVars, tcpVars, udpVars, texVars>>

\* onMenuButtonClicked for a window that is hidden (or by the buttons of the
\* message and disconnect windows, which toggle theirs).
OpenWindow(w) ==
    /\ phase = "running"
    /\ w \in Windows \ (visible \cup {"message", "disconnect"})
    /\ visible' = visible \cup {w}
    /\ IF w = "server"
       THEN bGlobalDisableKeyMovement' = TRUE /\ BeginDiscovery
       ELSE UNCHANGED <<bGlobalDisableKeyMovement, rows, text, mServerInfoDisc,
                        udpVars>>
    /\ UNCHANGED <<phase, mServerInfoExplicit, tcpVars, texVars>>

\* btnRefresh.
RefreshClicked ==
    /\ phase = "running" /\ "server" \in visible
    /\ BeginDiscovery
    /\ UNCHANGED <<phase, visible, bGlobalDisableKeyMovement,
                   mServerInfoExplicit, tcpVars, texVars>>

\* The user types into the edit box.
TextTyped(t) ==
    /\ phase = "running" /\ "server" \in visible
    /\ text' = t
    /\ UNCHANGED <<phase, visible, bGlobalDisableKeyMovement, rows, listVars,
                   tcpVars, udpVars, texVars>>

\* onServerListClicked: the address of the picked row; rows are counted over
\* the explicit entries and then the discovered ones.
ServerListClicked(i) ==
    /\ phase = "running" /\ "server" \in visible
    /\ i \in DOMAIN rows
    /\ IF i \in DOMAIN mServerInfoExplicit
       THEN text' = [form |-> "ok", addr |-> mServerInfoExplicit[i].ip,
                     port |-> mServerInfoExplicit[i].port]
       ELSE \E s \in Server :
               /\ mServerInfoDisc[s] > 0
               /\ text' = [form |-> "ok", addr |-> Ip[s], port |-> TcpPort[s]]
    /\ UNCHANGED <<phase, visible, bGlobalDisableKeyMovement, rows, listVars,
                   tcpVars, udpVars, texVars>>

\* btnConnect and Return in the edit box.  A bad port is noticed after the
\* address was taken over; the connection then stays.
ConnectClicked ==
    /\ phase = "running" /\ "server" \in visible
    /\ \/ /\ text.form = "bad_port"
          /\ mServerAddr' = text.addr /\ iServerPort' = 0
          /\ UNCHANGED <<bConnected, mServerInfoExplicit, texVars, visible,
                         bGlobalDisableKeyMovement>>
       \/ /\ text.form = "ok"
          /\ \E ok \in BOOLEAN :
                /\ OpenSocket(~InExplicitList(text.addr, text.port),
                              text.addr, text.port, ok)
                /\ IF ok THEN Hide("server")
                   ELSE /\ visible' = visible \cup {"message"}
                        /\ UNCHANGED bGlobalDisableKeyMovement
    /\ UNCHANGED <<phase, rows, text, mServerInfoDisc, udpVars>>

\* onReconnectButtonClicked: the window comes back when it fails.
ReconnectClicked ==
    /\ phase = "running" /\ "disconnect" \in visible
    /\ \E ok \in BOOLEAN :
          /\ OpenSocket(FALSE, mServerAddr, iServerPort, ok)
          /\ visible' = IF ok THEN visible \ {"disconnect"} ELSE visible
    /\ UNCHANGED <<phase, bGlobalDisableKeyMovement, rows, text,
                   mServerInfoDisc, udpVars>>

\* notifyShutdown, then utilShutdown: the socket, the windows, the textures.
Quit ==
    /\ phase = "running"
    /\ phase' = "stopped"
    /\ bConnected' = FALSE
    /\ visible' = {}
    /\ mTextures' = <<>>
    /\ UNCHANGED <<bGlobalDisableKeyMovement, rows, text, listVars,
                   mServerAddr, iServerPort, udpVars, sideTex, mParticleTex>>

-----------------------------------------------------------------------------
Init ==
    /\ phase = "start"
    /\ visible = {} /\ bGlobalDisableKeyMovement = FALSE
    /\ rows = <<>> /\ text = Empty
    /\ mServerInfoExplicit = <<>> /\ mServerInfoDisc = [s \in Server |-> 0]
    /\ mServerAddr = "" /\ iServerPort = 0 /\ bConnected = FALSE
    /\ iCurrentUDPPort = 0 /\ probes = {} /\ replies = {} /\ lost = FALSE
    /\ TexInit

Next ==
    \/ Start \/ Quit \/ ConnectionLost \/ DatagramLost
    \/ RefreshClicked \/ ConnectClicked \/ ReconnectClicked
    \/ \E s \in Server : ProbeArrives(s) \/ ReplyArrives(s)
    \/ \E s \in Sides, good \in BOOLEAN : ImageArrives(s, good)
    \/ \E w \in Windows : OpenWindow(w) \/ CloseWindow(w)
    \/ \E t \in Texts : TextTyped(t)
    \/ \E i \in DOMAIN rows : ServerListClicked(i)

\* The network delivers, and a server's event loop answers, what is not lost;
\* updateMain reads the socket every frame.
Fairness == \A s \in Server : WF_vars(ProbeArrives(s)) /\ WF_vars(ReplyArrives(s))

Spec == Init /\ [][Next]_vars /\ Fairness

-----------------------------------------------------------------------------
\* The types of the variables; addresses and ports come from the network, the
\* configuration or the user.
Addrs == {Ip[s] : s \in Server} \cup {c[1] : c \in ConfigServers}
             \cup {t.addr : t \in Texts} \cup {""}
Ports == {TcpPort[s] : s \in Server} \cup {c[2] : c \in ConfigServers}
             \cup {t.port : t \in Texts} \cup {DEFAULT_PORT, 0}

TypeOK ==
    /\ phase \in {"start", "running", "stopped"}
    /\ bGlobalDisableKeyMovement \in BOOLEAN
    /\ bConnected \in BOOLEAN /\ lost \in BOOLEAN
    /\ text.addr \in Addrs /\ text.port \in Ports
    /\ mServerInfoExplicit \in Seq([name : Addrs, ip : Addrs, port : Ports])
    /\ mServerInfoDisc \in [Server -> Nat]
    /\ mServerAddr \in Addrs /\ iServerPort \in Ports
    /\ iCurrentUDPPort \in Nat
    /\ probes \subseteq Server /\ replies \subseteq Server
    /\ DOMAIN mTextures \subseteq TexId
    /\ sideTex \in [Sides -> TexId \cup {NoTex}]
    /\ mParticleTex \in TexId

-----------------------------------------------------------------------------
(* What the windows and the discovery promise.                             *)

\* The keys move the camera exactly while the server window, where the user
\* types, is not shown: however it is opened and closed, by its button, its
\* frame or a connection that works (gui.cpp:309, 315, 526, 589).
KeysFollowServerWindow ==
    phase # "stopped" =>
        (bGlobalDisableKeyMovement <=> "server" \in visible)

\* While the server window is shown, row i of the list box is explicit entry
\* i, so a click takes the address of the server the user sees: entries are
\* never added under an open window (gui.cpp:461-475, 559-572).
RowsAreEntries ==
    "server" \in visible => rows = RowsOf(mServerInfoExplicit)

\* No pointer the client draws with is left to a deleted texture, by a server
\* that sends an image twice or a bad one, by a change of servers or by a
\* lost connection, and a configured image is never replaced
\* (socket.cpp:578-584, 669-678, texture.cpp:490-508).
TexturesAlive == phase # "stopped" => ImagesAlive

\* A server within the range probed so far is listed, or a datagram of it is
\* on its way or lost: no late reply, refresh or new explicit entry lets one
\* slip through (socket.cpp:255-297, 320-385).
NoneOverlooked ==
    \A s \in Heard(UDP_SERVER_PORT .. iCurrentUDPPort - 1) :
        \/ lost
        \/ s \in probes \cup replies
        \/ mServerInfoDisc[s] > 0
        \/ InExplicitList(ServerName[s], TcpPort[s])

\* A server is in reach if its port is among the first UDP_PORT_RANGE, or
\* within UDP_PORT_RANGE of the port of one that is.
ReachAfter[n \in 0..Cardinality(Server)] ==
    IF n = 0
    THEN Heard(UDP_SERVER_PORT .. UDP_SERVER_PORT + UDP_PORT_RANGE - 1)
    ELSE ReachAfter[n - 1] \cup
         {s \in Server : \E r \in ReachAfter[n - 1] :
              UdpPort[s] < UdpPort[r] + UDP_PORT_RANGE}

InReach == ReachAfter[Cardinality(Server)]

\* Once a discovery has begun, every server in reach is listed sooner or
\* later, unless a datagram is lost or the user quits: replies arriving out
\* of order, late ones of an earlier discovery and a refresh in between do
\* not stop the range from growing (socket.cpp:255-297, 320-385).
EveryServerFound ==
    \A s \in InReach :
        iCurrentUDPPort > 0 ~>
            \/ lost \/ phase = "stopped"
            \/ mServerInfoDisc[s] > 0
            \/ InExplicitList(ServerName[s], TcpPort[s])
=============================================================================
