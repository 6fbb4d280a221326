------------------------ MODULE ClientBrowser_proofs ------------------------
(***************************************************************************)
(* Proofs about ClientBrowser, for any network, any configuration, any     *)
(* number of texture objects and whatever the user does.                   *)
(*                                                                         *)
(* WindowInv adds to what is promised of the windows that none is shown    *)
(* before the client has started: that is when the configured server is    *)
(* listed without being shown.  The images need the types of the registry; *)
(* that no server is overlooked is inductive as it stands.                 *)
(***************************************************************************)
EXTENDS ClientBrowser, TLAPS

WindowInv ==
    /\ phase = "start" => visible = {} /\ ~ bGlobalDisableKeyMovement
    /\ phase = "stopped" => visible = {}
    /\ KeysFollowServerWindow
    /\ RowsAreEntries

\* The types of the registry and what is promised of it.
ImagesOK ==
    /\ DOMAIN mTextures \subseteq TexId
    /\ sideTex \in [Sides -> TexId \cup {NoTex}]
    /\ mParticleTex \in TexId
    /\ ImagesAlive

IInv == TypeOK /\ WindowInv /\ TexturesAlive /\ NoneOverlooked
-----------------------------------------------------------------------------
(* The texture objects.                                                    *)

\* Every image that is loaded at the start has an object of its own.
LEMMA StartIdsDiffer ==
    /\ StartIds \in [StartNames -> TexId]
    /\ IsOneEach(StartIds)
BY TexIdAssumption DEF StartIds

\* The client starts with the images it needs, each in an object of its own.
LEMMA TexInitAlive ==
    ASSUME TexInit
    PROVE  ImagesOK
<1> DEFINE Taken == {StartIds[n] : n \in StartNames}
<1>1. Configured \subseteq Sides /\ NoTex \notin TexId
  BY TexAssumption
<1>2. /\ DOMAIN mTextures = Taken
      /\ \A t \in Taken : mTextures[t].onCard
  BY DEF TexInit
<1>3. Taken \subseteq TexId
  BY StartIdsDiffer
<1>4. \A s \in Sides : sideTex[s] = IF s \in Configured THEN StartIds[s] ELSE NoTex
  BY DEF TexInit
<1>5. \A s \in Configured : StartIds[s] \in Taken /\ StartIds[s] \in TexId
  BY StartIdsDiffer DEF StartNames
<1>6. "particle.png" \in StartNames /\ mParticleTex = StartIds["particle.png"]
  BY DEF StartNames, TexInit
<1>7. mParticleTex \in Taken /\ mParticleTex \in TexId
  BY <1>6, StartIdsDiffer
<1>8. sideTex \in [Sides -> TexId \cup {NoTex}]
  BY <1>1, <1>5 DEF TexInit
<1>9. \A s \in Configured : StartIds[s] # mParticleTex
  BY <1>1, <1>6, StartIdsDiffer DEF IsOneEach, StartNames, Sides
<1>10. {"left", "right"} \subseteq Configured => StartIds["left"] # StartIds["right"]
  BY StartIdsDiffer DEF IsOneEach, StartNames
<1> HIDE DEF Taken
<1>11. ImagesAlive
  <2>1. \A s \in Sides : sideTex[s] # NoTex =>
            sideTex[s] \in Registered /\ mTextures[sideTex[s]].onCard
    BY <1>2, <1>4, <1>5 DEF Registered
  <2>2. \A s \in Sides : sideTex[s] # mParticleTex
    BY <1>1, <1>4, <1>7, <1>9
  <2>3. sideTex["left"] = sideTex["right"] => sideTex["left"] = NoTex
    BY <1>1, <1>4, <1>5, <1>10 DEF Sides
  <2>4. \A s \in Configured : sideTex[s] # NoTex
    BY <1>1, <1>4, <1>5
  <2> QED
    BY <1>2, <1>7, <2>1, <2>2, <2>3, <2>4 DEF ImagesAlive, Registered
<1> QED
  BY <1>2, <1>3, <1>7, <1>8, <1>11 DEF ImagesOK

\* An object that is loaded was not registered before, and all others stay.
LEMMA LoadedProperties ==
    ASSUME NEW reg, DOMAIN reg \subseteq TexId, Unused(reg) # {},
           NEW name, NEW good \in BOOLEAN
    PROVE  \E id \in Unused(reg) :
              LET new == Loaded(reg, name, good) IN
              /\ DOMAIN new.reg = DOMAIN reg \cup {id}
              /\ \A t \in DOMAIN reg : new.reg[t] = reg[t]
              /\ new.reg[id].onCard = good
              /\ new.tex = IF good THEN id ELSE NoTex
<1> DEFINE id == CHOOSE t \in Unused(reg) : TRUE
<1>1. id \in Unused(reg)
  OBVIOUS
<1>2. id \notin DOMAIN reg
  BY <1>1 DEF Unused
<1> WITNESS id \in Unused(reg)
<1> QED
  BY <1>2 DEF Loaded

\* An image of the server, good or bad, does not touch what is drawn with.
LEMMA ImageKeepsAlive ==
    ASSUME TypeOK, ImagesAlive, NEW s \in Sides, NEW good \in BOOLEAN,
           ImageFor(s, good)
    PROVE  ImagesOK'
<1> USE DEF TypeOK
<1>1. CASE s \in Configured
  BY <1>1 DEF ImageFor, texVars, ImagesOK, ImagesAlive, Registered
<1>2. CASE s \notin Configured
  <2> DEFINE new == Loaded(mTextures, s, good)
  <2>1. /\ Unused(mTextures) # {}
        /\ mTextures' = new.reg
        /\ sideTex' = [sideTex EXCEPT ![s] = new.tex]
        /\ mParticleTex' = mParticleTex
    BY <1>2 DEF ImageFor
  <2>2. PICK id \in Unused(mTextures) :
           /\ DOMAIN new.reg = DOMAIN mTextures \cup {id}
           /\ \A t \in DOMAIN mTextures : new.reg[t] = mTextures[t]
           /\ new.reg[id].onCard = good
           /\ new.tex = IF good THEN id ELSE NoTex
    BY <2>1, LoadedProperties
  <2> HIDE DEF new
  <2>3. id \in TexId /\ id \notin DOMAIN mTextures /\ NoTex \notin TexId
    BY TexAssumption DEF Unused
  <2>4. \A r \in Sides : sideTex'[r] = IF r = s THEN new.tex ELSE sideTex[r]
    BY <2>1
  <2>5. /\ DOMAIN mTextures' = DOMAIN mTextures \cup {id}
        /\ \A t \in DOMAIN mTextures : mTextures'[t] = mTextures[t]
        /\ mTextures'[id].onCard = good
    BY <2>1, <2>2
  <2>6. ImagesAlive'
    <3>1. \A r \in Sides : sideTex'[r] # NoTex =>
              sideTex'[r] \in Registered' /\ mTextures'[sideTex'[r]].onCard
      BY <2>2, <2>4, <2>5 DEF ImagesAlive, Registered
    <3>2. mParticleTex' \in Registered'
      BY <2>1, <2>5 DEF ImagesAlive, Registered
    <3>3. \A r \in Sides : sideTex'[r] # mParticleTex'
      BY <2>1, <2>2, <2>3, <2>4 DEF ImagesAlive, Registered
    <3>4. sideTex'["left"] = sideTex'["right"] => sideTex'["left"] = NoTex
      <4>1. \A r \in Sides : sideTex[r] # id
        BY <2>3 DEF ImagesAlive, Registered
      <4> QED
        BY <2>2, <2>4, <4>1 DEF ImagesAlive, Sides
    <3>5. \A r \in Configured : sideTex'[r] # NoTex
      BY <1>2, <2>4, TexAssumption DEF ImagesAlive
    <3> QED
      BY <3>1, <3>2, <3>3, <3>4, <3>5 DEF ImagesAlive
  <2> QED
    BY <2>1, <2>2, <2>3, <2>5, <2>6 DEF ImagesOK
<1> QED
  BY <1>1, <1>2

\* Dropping the images of a server leaves no pointer to them, and no other
\* image goes with them.
LEMMA DropKeepsAlive ==
    ASSUME TypeOK, ImagesAlive, DropImages
    PROVE  ImagesOK'
<1> USE DEF TypeOK
<1> DEFINE gone == {sideTex[s] : s \in FromServer}
<1>1. /\ DOMAIN mTextures' = DOMAIN mTextures \ gone
      /\ \A t \in DOMAIN mTextures \ gone : mTextures'[t] = mTextures[t]
      /\ mParticleTex' = mParticleTex
  BY DEF DropImages, Deleted
<1>2. \A s \in Sides : sideTex'[s] = IF s \in FromServer THEN NoTex ELSE sideTex[s]
  BY DEF DropImages, ClearedSides
<1>3. sideTex' \in [Sides -> TexId \cup {NoTex}]
  BY DEF DropImages, ClearedSides
<1>4. \A s \in Sides \ FromServer : sideTex[s] \notin gone
  BY DEF FromServer, ImagesAlive, Sides
<1>5. mParticleTex \notin gone
  BY DEF FromServer, ImagesAlive
<1>6. \A s \in Configured : s \in Sides \ FromServer
  BY TexAssumption DEF FromServer
<1> HIDE DEF gone
<1>7. ImagesAlive'
  <2>1. \A s \in Sides : sideTex'[s] # NoTex =>
            sideTex'[s] \in Registered' /\ mTextures'[sideTex'[s]].onCard
    BY <1>1, <1>2, <1>4 DEF ImagesAlive, Registered
  <2>2. mParticleTex' \in Registered' /\ \A s \in Sides : sideTex'[s] # mParticleTex'
    <3>1. mParticleTex # NoTex
      BY TexAssumption
    <3> QED
      BY <1>1, <1>2, <1>5, <3>1 DEF ImagesAlive, Registered
  <2>3. sideTex'["left"] = sideTex'["right"] => sideTex'["left"] = NoTex
    BY <1>2 DEF ImagesAlive, Sides
  <2>4. \A s \in Configured : sideTex'[s] # NoTex
    BY <1>2, <1>6 DEF ImagesAlive
  <2> QED
    BY <2>1, <2>2, <2>3, <2>4 DEF ImagesAlive
<1> QED
  BY <1>1, <1>3, <1>7 DEF ImagesOK
-----------------------------------------------------------------------------
(* The steps.                                                              *)

LEMMA InitOK == Init => IInv
<1> SUFFICES ASSUME Init PROVE IInv
  OBVIOUS
<1>1. ImagesOK
  BY TexInitAlive DEF Init
<1>2. TypeOK
  <2>1. text.addr \in Addrs /\ text.port \in Ports
    BY DEF Init, Empty, Addrs, Ports
  <2>2. mServerAddr \in Addrs /\ iServerPort \in Ports
    BY DEF Init, Addrs, Ports
  <2>3. mServerInfoExplicit \in Seq([name : Addrs, ip : Addrs, port : Ports])
    <3>1. mServerInfoExplicit = <<>>
      BY DEF Init
    <3>2. \A S : <<>> \in Seq(S)
      OBVIOUS
    <3> QED
      BY <3>1, <3>2
  <2> QED
    BY <1>1, <2>1, <2>2, <2>3 DEF Init, TypeOK, ImagesOK
<1>3. WindowInv
  BY DEF Init, WindowInv, KeysFollowServerWindow, RowsAreEntries
<1>4. NoneOverlooked
  <2>0. iCurrentUDPPort = 0
    BY DEF Init
  <2>1. UDP_SERVER_PORT .. iCurrentUDPPort - 1 = {}
    BY <2>0, PortAssumption
  <2> QED
    BY <2>1 DEF NoneOverlooked, Heard
<1> QED
  BY <1>1, <1>2, <1>3, <1>4 DEF IInv, TexturesAlive, ImagesOK

\* The address a name resolves to is one of the network, or the name itself.
LEMMA ResolvedType == ASSUME NEW addr \in Addrs PROVE Resolved(addr) \in Addrs
BY DEF Resolved, Known, Addrs

\* What OpenSocket does to the connection, the list and the images.
LEMMA OpenSocketProperties ==
    ASSUME TypeOK, ImagesAlive,
           NEW addList \in BOOLEAN, NEW addr \in Addrs, NEW port \in Ports,
           NEW ok \in BOOLEAN, OpenSocket(addList, addr, port, ok)
    PROVE  /\ mServerAddr' \in Addrs /\ iServerPort' \in Ports
           /\ bConnected' \in BOOLEAN
           /\ mServerInfoExplicit' \in Seq([name : Addrs, ip : Addrs, port : Ports])
           /\ \A i \in DOMAIN mServerInfoExplicit :
                 /\ i \in DOMAIN mServerInfoExplicit'
                 /\ mServerInfoExplicit'[i] = mServerInfoExplicit[i]
           /\ ~ ok \/ ~ addList => UNCHANGED mServerInfoExplicit
           /\ ImagesOK'
<1> DEFINE Entries == [name : Addrs, ip : Addrs, port : Ports]
           entry == [name |-> addr, ip |-> Resolved(addr), port |-> port]
<1>1. mServerInfoExplicit \in Seq(Entries) /\ entry \in Entries
  BY ResolvedType DEF TypeOK
<1>2. \/ UNCHANGED mServerInfoExplicit
      \/ ok /\ addList /\ mServerInfoExplicit' = Append(mServerInfoExplicit, entry)
  BY DEF OpenSocket, Listed
<1>3. /\ mServerInfoExplicit' \in Seq(Entries)
      /\ \A i \in DOMAIN mServerInfoExplicit :
            /\ i \in DOMAIN mServerInfoExplicit'
            /\ mServerInfoExplicit'[i] = mServerInfoExplicit[i]
  <2> HIDE DEF Entries, entry
  <2> QED
    BY <1>1, <1>2
<1>4. DropImages \/ UNCHANGED texVars
  BY DEF OpenSocket, DropConnection
<1>5. ImagesOK'
  <2>1. CASE DropImages
    BY <2>1, DropKeepsAlive
  <2>2. CASE UNCHANGED texVars
    BY <2>2 DEF texVars, TypeOK, ImagesOK, ImagesAlive, Registered
  <2> QED
    BY <1>4, <2>1, <2>2
<1> QED
  BY <1>2, <1>3, <1>5 DEF OpenSocket

\* What a step may do to the list of explicit servers: it only grows.
ExplicitGrows ==
    /\ mServerInfoExplicit' \in Seq([name : Addrs, ip : Addrs, port : Ports])
    /\ \A i \in DOMAIN mServerInfoExplicit :
          /\ i \in DOMAIN mServerInfoExplicit'
          /\ mServerInfoExplicit'[i] = mServerInfoExplicit[i]

\* A step that leaves the list alone, or one that leaves the textures alone.
LEMMA SameList == TypeOK /\ UNCHANGED mServerInfoExplicit => ExplicitGrows
BY DEF TypeOK, ExplicitGrows

LEMMA SameImages == ImagesOK /\ UNCHANGED texVars => ImagesOK'
BY DEF texVars, ImagesOK, ImagesAlive, Registered

\* A server that is listed stays listed.
LEMMA ListedStays ==
    ASSUME ExplicitGrows, NEW name, NEW port, InExplicitList(name, port)
    PROVE  InExplicitList(name, port)'
BY DEF ExplicitGrows, InExplicitList

\* No server is overlooked by a step that has nothing to do with discovery.
LEMMA QuietDiscovery ==
    NoneOverlooked /\ ExplicitGrows /\ UNCHANGED <<mServerInfoDisc, udpVars>>
        => NoneOverlooked'
BY ListedStays DEF NoneOverlooked, udpVars, Heard

LEMMA StartStep == IInv /\ Start => IInv'
<1> SUFFICES ASSUME IInv, Start PROVE IInv'
  OBVIOUS
<1> USE DEF IInv
<1>1. /\ phase = "start" /\ phase' = "running"
      /\ UNCHANGED <<guiVars, mServerInfoDisc, udpVars>>
  BY DEF Start
<1>2. TypeOK /\ ImagesOK
  BY <1>1 DEF TypeOK, ImagesOK, TexturesAlive
<1>3. /\ mServerAddr' \in Addrs /\ iServerPort' \in Ports /\ bConnected' \in BOOLEAN
      /\ ExplicitGrows /\ ImagesOK'
  <2>1. CASE UNCHANGED <<tcpVars, texVars, mServerInfoExplicit>>
    BY <2>1, <1>2, SameList, SameImages DEF TypeOK, tcpVars
  <2>2. CASE ~ UNCHANGED <<tcpVars, texVars, mServerInfoExplicit>>
    <3>1. PICK c \in ConfigServers, ok \in BOOLEAN : OpenSocket(TRUE, c[1], c[2], ok)
      BY <2>2 DEF Start
    <3>2. c[1] \in Addrs /\ c[2] \in Ports
      BY DEF Addrs, Ports
    <3> QED
      BY <1>2, <3>1, <3>2, OpenSocketProperties DEF ImagesOK, ExplicitGrows
  <2> QED
    BY <2>1, <2>2
<1>4. TypeOK'
  BY <1>1, <1>2, <1>3 DEF TypeOK, guiVars, udpVars, ExplicitGrows, ImagesOK
<1>5. WindowInv'
  BY <1>1 DEF WindowInv, guiVars, KeysFollowServerWindow, RowsAreEntries
<1>6. NoneOverlooked'
  BY <1>1, <1>3, QuietDiscovery
<1> QED
  BY <1>3, <1>4, <1>5, <1>6 DEF TexturesAlive, ImagesOK

LEMMA ConnectStep == IInv /\ ConnectClicked => IInv'
<1> SUFFICES ASSUME IInv, ConnectClicked PROVE IInv'
  OBVIOUS
<1> USE DEF IInv
<1>1. /\ phase = "running" /\ "server" \in visible
      /\ UNCHANGED <<phase, rows, text, mServerInfoDisc, udpVars>>
  BY DEF ConnectClicked
<1>2. TypeOK /\ ImagesOK
  BY <1>1 DEF TypeOK, ImagesOK, TexturesAlive
<1>3. CASE text.form = "bad_port" /\ mServerAddr' = text.addr /\ iServerPort' = 0
             /\ UNCHANGED <<bConnected, mServerInfoExplicit, texVars, visible,
                            bGlobalDisableKeyMovement>>
  <2>1. ExplicitGrows /\ ImagesOK'
    BY <1>2, <1>3, SameList, SameImages
  <2>2. TypeOK'
    BY <1>1, <1>2, <1>3, <2>1 DEF TypeOK, udpVars, ExplicitGrows, ImagesOK, Ports
  <2>3. WindowInv'
    BY <1>1, <1>3 DEF WindowInv, KeysFollowServerWindow, RowsAreEntries
  <2>4. NoneOverlooked'
    BY <1>1, <2>1, QuietDiscovery
  <2> QED
    BY <2>1, <2>2, <2>3, <2>4 DEF TexturesAlive, ImagesOK
<1>4. ASSUME NEW ok \in BOOLEAN,
             OpenSocket(~ InExplicitList(text.addr, text.port),
                        text.addr, text.port, ok),
             IF ok THEN Hide("server")
             ELSE /\ visible' = visible \cup {"message"}
                  /\ UNCHANGED bGlobalDisableKeyMovement
      PROVE  IInv'
  <2>1. /\ mServerAddr' \in Addrs /\ iServerPort' \in Ports /\ bConnected' \in BOOLEAN
        /\ ExplicitGrows /\ ImagesOK'
        /\ ~ ok => UNCHANGED mServerInfoExplicit
    <3>1. (~ InExplicitList(text.addr, text.port)) \in BOOLEAN
      OBVIOUS
    <3>2. text.addr \in Addrs /\ text.port \in Ports
      BY <1>2 DEF TypeOK
    <3> QED
      BY <1>2, <1>4, <3>1, <3>2, OpenSocketProperties DEF ImagesOK, ExplicitGrows
  <2>2. \/ /\ ok /\ visible' = visible \ {"server"}
           /\ bGlobalDisableKeyMovement' = FALSE
        \/ /\ ~ ok /\ visible' = visible \cup {"message"}
           /\ UNCHANGED <<bGlobalDisableKeyMovement, mServerInfoExplicit>>
    BY <1>4, <2>1 DEF Hide, KeysAfterClose
  <2>3. TypeOK'
    BY <1>1, <1>2, <2>1, <2>2 DEF TypeOK, udpVars, ExplicitGrows, ImagesOK
  <2>4. WindowInv'
    BY <1>1, <2>2 DEF WindowInv, KeysFollowServerWindow, RowsAreEntries
  <2>5. NoneOverlooked'
    BY <1>1, <2>1, QuietDiscovery
  <2> QED
    BY <2>1, <2>3, <2>4, <2>5 DEF TexturesAlive, ImagesOK
<1> QED
  BY <1>3, <1>4 DEF ConnectClicked

LEMMA ReconnectStep == IInv /\ ReconnectClicked => IInv'
<1> SUFFICES ASSUME IInv, ReconnectClicked PROVE IInv'
  OBVIOUS
<1> USE DEF IInv
<1>1. /\ phase = "running"
      /\ UNCHANGED <<phase, bGlobalDisableKeyMovement, rows, text,
                     mServerInfoDisc, udpVars>>
  BY DEF ReconnectClicked
<1>2. TypeOK /\ ImagesOK
  BY <1>1 DEF TypeOK, ImagesOK, TexturesAlive
<1>3. PICK ok \in BOOLEAN :
         /\ OpenSocket(FALSE, mServerAddr, iServerPort, ok)
         /\ visible' = IF ok THEN visible \ {"disconnect"} ELSE visible
  BY DEF ReconnectClicked
<1>4. /\ mServerAddr' \in Addrs /\ iServerPort' \in Ports /\ bConnected' \in BOOLEAN
      /\ ExplicitGrows /\ ImagesOK'
      /\ UNCHANGED mServerInfoExplicit
  <2>1. mServerAddr \in Addrs /\ iServerPort \in Ports
    BY <1>2 DEF TypeOK
  <2> QED
    BY <1>2, <1>3, <2>1, OpenSocketProperties DEF ImagesOK, ExplicitGrows
<1>5. TypeOK'
  BY <1>1, <1>2, <1>4 DEF TypeOK, udpVars, ExplicitGrows, ImagesOK
<1>6. WindowInv'
  BY <1>1, <1>3, <1>4 DEF WindowInv, KeysFollowServerWindow, RowsAreEntries
<1>7. NoneOverlooked'
  BY <1>1, <1>4, QuietDiscovery
<1> QED
  BY <1>4, <1>5, <1>6, <1>7 DEF TexturesAlive, ImagesOK

\* A new discovery asks every port of the first range.
LEMMA BeginStep ==
    ASSUME IInv, BeginDiscovery, UNCHANGED <<mServerInfoExplicit, tcpVars, texVars>>,
           phase = "running", UNCHANGED phase,
           "server" \in visible', bGlobalDisableKeyMovement'
    PROVE  IInv'
<1> USE DEF IInv
<1>1. TypeOK /\ ImagesOK
  BY DEF TypeOK, ImagesOK, TexturesAlive
<1>2. ExplicitGrows /\ ImagesOK'
  BY <1>1, SameList, SameImages
<1>3. TypeOK'
  <2>1. iCurrentUDPPort' \in Nat
    BY PortAssumption DEF BeginDiscovery
  <2>2. probes' \subseteq Server /\ replies' \subseteq Server /\ lost' \in BOOLEAN
    BY DEF BeginDiscovery, TypeOK, Heard
  <2>3. text'.addr \in Addrs /\ text'.port \in Ports
    BY DEF BeginDiscovery, Empty, Addrs, Ports
  <2>4. mServerInfoDisc' \in [Server -> Nat]
    BY DEF BeginDiscovery
  <2>5. bGlobalDisableKeyMovement' \in BOOLEAN
    OBVIOUS
  <2> QED
    BY <1>1, <1>2, <2>1, <2>2, <2>3, <2>4, <2>5
    DEF TypeOK, tcpVars, ImagesOK, ExplicitGrows
<1>4. WindowInv'
  BY DEF WindowInv, BeginDiscovery, KeysFollowServerWindow, RowsAreEntries, RowsOf
<1>5. NoneOverlooked'
  <2>1. iCurrentUDPPort' - 1 = UDP_SERVER_PORT + UDP_PORT_RANGE - 1
    BY PortAssumption DEF BeginDiscovery
  <2>2. Heard(UDP_SERVER_PORT .. iCurrentUDPPort' - 1) \subseteq probes'
    BY <2>1 DEF BeginDiscovery
  <2> QED
    BY <2>2 DEF NoneOverlooked, Heard
<1> QED
  BY <1>2, <1>3, <1>4, <1>5 DEF TexturesAlive, ImagesOK

\* A reply lists its server, and asks the ports it brings into the range.
LEMMA ReplyStep == ASSUME IInv, NEW s \in Server, ReplyArrives(s) PROVE IInv'
<1> USE DEF IInv
<1>1. /\ phase = "running" /\ s \in replies
      /\ UNCHANGED <<phase, guiVars, mServerInfoExplicit, tcpVars, lost, texVars>>
      /\ replies' = replies \ {s}
      /\ iCurrentUDPPort' = Further(s)
      /\ probes' = probes \cup Heard(iCurrentUDPPort .. Further(s) - 1)
  BY DEF ReplyArrives
<1>2. TypeOK /\ ImagesOK
  BY <1>1 DEF TypeOK, ImagesOK, TexturesAlive
<1>3. ExplicitGrows /\ ImagesOK'
  BY <1>1, <1>2, SameList, SameImages
<1>4. /\ iCurrentUDPPort \in Nat /\ Further(s) \in Nat
      /\ Further(s) >= iCurrentUDPPort
  BY <1>2, PortAssumption DEF TypeOK, Further
<1>5. \/ InExplicitList(ServerName[s], TcpPort[s]) /\ UNCHANGED mServerInfoDisc
      \/ mServerInfoDisc' = [mServerInfoDisc EXCEPT ![s] = @ + 1]
  BY DEF ReplyArrives
<1>6. /\ mServerInfoDisc' \in [Server -> Nat]
      /\ \A r \in Server : mServerInfoDisc[r] > 0 => mServerInfoDisc'[r] > 0
      /\ InExplicitList(ServerName[s], TcpPort[s]) \/ mServerInfoDisc'[s] > 0
  BY <1>2, <1>5 DEF TypeOK
<1>7. TypeOK'
  <2>1. probes' \subseteq Server /\ replies' \subseteq Server
    BY <1>1, <1>2 DEF TypeOK, Heard
  <2> QED
    BY <1>1, <1>2, <1>3, <1>4, <1>6, <2>1
    DEF TypeOK, guiVars, tcpVars, ImagesOK, ExplicitGrows
<1>8. WindowInv'
  BY <1>1 DEF WindowInv, guiVars, KeysFollowServerWindow, RowsAreEntries
<1>9. NoneOverlooked'
  <2> SUFFICES ASSUME NEW r \in Server,
                      UdpPort[r] \in UDP_SERVER_PORT .. Further(s) - 1
               PROVE  \/ lost'
                      \/ r \in (probes \cup replies)'
                      \/ mServerInfoDisc'[r] > 0
                      \/ InExplicitList(ServerName[r], TcpPort[r])'
    BY <1>1 DEF NoneOverlooked, Heard
  <2>1. CASE r = s
    BY <2>1, <1>3, <1>6, ListedStays
  <2>2. CASE UdpPort[r] \in iCurrentUDPPort .. Further(s) - 1
    BY <2>2, <1>1 DEF Heard
  <2>3. CASE r # s /\ UdpPort[r] \in UDP_SERVER_PORT .. iCurrentUDPPort - 1
    BY <2>3, <1>1, <1>3, <1>6, ListedStays DEF NoneOverlooked, Heard
  <2> QED
    BY <1>4, <2>1, <2>2, <2>3, PortAssumption
<1> QED
  BY <1>3, <1>7, <1>8, <1>9 DEF TexturesAlive, ImagesOK

\* Datagrams that arrive at a server or nowhere.
LEMMA DatagramStep ==
    IInv /\ (DatagramLost \/ \E s \in Server : ProbeArrives(s)) => IInv'
<1> SUFFICES ASSUME IInv, DatagramLost \/ \E s \in Server : ProbeArrives(s)
             PROVE  IInv'
  OBVIOUS
<1> USE DEF IInv
<1>1. /\ UNCHANGED <<phase, guiVars, listVars, tcpVars, iCurrentUDPPort, texVars>>
      /\ probes' \subseteq Server /\ replies' \subseteq Server /\ lost' \in BOOLEAN
      /\ \/ lost'
         \/ (probes \cup replies) \subseteq (probes \cup replies)' /\ lost' = lost
  BY DEF DatagramLost, ProbeArrives, TypeOK
<1>2. ExplicitGrows
  BY <1>1, SameList DEF listVars
<1>3. TypeOK'
  BY <1>1, <1>2 DEF TypeOK, guiVars, listVars, tcpVars, texVars, ExplicitGrows
<1>4. WindowInv'
  BY <1>1 DEF WindowInv, guiVars, listVars, KeysFollowServerWindow, RowsAreEntries
<1>5. NoneOverlooked'
  BY <1>1, <1>2, ListedStays DEF NoneOverlooked, listVars, Heard
<1>6. TexturesAlive'
  BY <1>1 DEF TexturesAlive, texVars, ImagesAlive, Registered
<1> QED
  BY <1>3, <1>4, <1>5, <1>6

\* Windows that are closed, texts and clicks in the list.
LEMMA WindowStep ==
    IInv /\ (\/ \E w \in Windows : CloseWindow(w)
             \/ \E t \in Texts : TextTyped(t)
             \/ \E i \in DOMAIN rows : ServerListClicked(i)) => IInv'
<1> SUFFICES ASSUME IInv,
                    \/ \E w \in Windows : CloseWindow(w)
                    \/ \E t \in Texts : TextTyped(t)
                    \/ \E i \in DOMAIN rows : ServerListClicked(i)
             PROVE  IInv'
  OBVIOUS
<1> USE DEF IInv
<1>1. /\ phase = "running"
      /\ UNCHANGED <<phase, rows, listVars, tcpVars, udpVars, texVars>>
  BY DEF CloseWindow, TextTyped, ServerListClicked
<1>2. TypeOK /\ ImagesOK
  BY <1>1 DEF TypeOK, ImagesOK, TexturesAlive
<1>3. ExplicitGrows /\ ImagesOK'
  BY <1>1, <1>2, SameList, SameImages DEF listVars
<1>4. /\ bGlobalDisableKeyMovement' \in BOOLEAN
      /\ "server" \in visible' => "server" \in visible
      /\ bGlobalDisableKeyMovement' <=> "server" \in visible'
  <2>1. CASE \E w \in Windows : CloseWindow(w)
    <3>1. PICK w \in Windows : CloseWindow(w)
      BY <2>1
    <3>2. CASE w = "server"
      BY <3>1, <3>2 DEF CloseWindow, Hide, KeysAfterClose
    <3>3. CASE w # "server"
      BY <1>1, <3>1, <3>3
      DEF CloseWindow, Hide, KeysAfterClose, WindowInv, KeysFollowServerWindow, TypeOK
    <3> QED
      BY <3>2, <3>3
  <2>2. CASE UNCHANGED <<visible, bGlobalDisableKeyMovement>>
    BY <1>1, <2>2 DEF WindowInv, KeysFollowServerWindow, TypeOK
  <2> QED
    BY <2>1, <2>2 DEF TextTyped, ServerListClicked
<1>5. text'.addr \in Addrs /\ text'.port \in Ports
  <2>1. CASE \E w \in Windows : CloseWindow(w)
    BY <2>1 DEF CloseWindow, TypeOK
  <2>2. CASE \E t \in Texts : TextTyped(t)
    BY <2>2 DEF TextTyped, Addrs, Ports
  <2>3. ASSUME NEW i \in DOMAIN rows, ServerListClicked(i)
        PROVE  text'.addr \in Addrs /\ text'.port \in Ports
    <3>1. CASE i \in DOMAIN mServerInfoExplicit
      <4>1. mServerInfoExplicit[i] \in [name : Addrs, ip : Addrs, port : Ports]
        <5>1. \A S : \A q \in Seq(S) : \A j \in DOMAIN q : q[j] \in S
          OBVIOUS
        <5> QED
          BY <3>1, <5>1 DEF TypeOK
      <4> QED
        BY <2>3, <3>1, <4>1 DEF ServerListClicked
    <3>2. CASE i \notin DOMAIN mServerInfoExplicit
      <4>1. PICK s \in Server : text' = [form |-> "ok", addr |-> Ip[s], port |-> TcpPort[s]]
        BY <2>3, <3>2 DEF ServerListClicked
      <4> QED
        BY <4>1 DEF Addrs, Ports
    <3> QED
      BY <3>1, <3>2
  <2> QED
    BY <2>1, <2>2, <2>3
<1>6. TypeOK'
  BY <1>1, <1>2, <1>3, <1>4, <1>5
  DEF TypeOK, listVars, tcpVars, udpVars, ImagesOK, ExplicitGrows
<1>7. WindowInv'
  BY <1>1, <1>4 DEF WindowInv, KeysFollowServerWindow, RowsAreEntries, listVars
<1>8. NoneOverlooked'
  BY <1>1, <1>3, QuietDiscovery DEF listVars
<1> QED
  BY <1>3, <1>6, <1>7, <1>8 DEF TexturesAlive, ImagesOK

\* A lost connection, an image, the end.
LEMMA ConnectionStep ==
    IInv /\ (\/ ConnectionLost \/ Quit
             \/ \E s \in Sides, good \in BOOLEAN : ImageArrives(s, good)) => IInv'
<1> SUFFICES ASSUME IInv,
                    \/ ConnectionLost \/ Quit
                    \/ \E s \in Sides, good \in BOOLEAN : ImageArrives(s, good)
             PROVE  IInv'
  OBVIOUS
<1> USE DEF IInv
<1>1. /\ phase = "running"
      /\ UNCHANGED <<bGlobalDisableKeyMovement, rows, text, listVars,
                     mServerAddr, iServerPort, udpVars>>
  BY DEF ConnectionLost, Quit, ImageArrives, guiVars, tcpVars
<1>2. TypeOK /\ ImagesOK
  BY <1>1 DEF TypeOK, ImagesOK, TexturesAlive
<1>3. ExplicitGrows
  BY <1>1, <1>2, SameList DEF listVars
<1>4. \/ Quit
      \/ ImagesOK' /\ UNCHANGED phase
  <2>1. ASSUME NEW s \in Sides, NEW good \in BOOLEAN, ImageArrives(s, good)
        PROVE  ImagesOK' /\ UNCHANGED phase
    BY <1>2, <2>1, ImageKeepsAlive DEF ImageArrives, ImagesOK
  <2>2. CASE ConnectionLost
    BY <1>2, <2>2, DropKeepsAlive DEF ConnectionLost, ImagesOK
  <2> QED
    BY <2>1, <2>2
<1>5. /\ phase' \in {"running", "stopped"}
      /\ bConnected' \in BOOLEAN
      /\ DOMAIN mTextures' \subseteq TexId
      /\ sideTex' \in [Sides -> TexId \cup {NoTex}] /\ mParticleTex' \in TexId
      /\ phase' # "stopped" => ImagesAlive'
  <2>1. CASE Quit
    <3>1. DOMAIN mTextures' = {}
      BY <2>1 DEF Quit
    <3> QED
      BY <1>2, <2>1, <3>1 DEF Quit, TypeOK
  <2>2. CASE ~ Quit
    <3>1. bConnected' \in BOOLEAN
      BY <2>2, <1>2 DEF ConnectionLost, ImageArrives, tcpVars, TypeOK
    <3> QED
      BY <1>1, <1>4, <2>2, <3>1 DEF ImagesOK
  <2> QED
    BY <2>1, <2>2
<1>6. TypeOK'
  BY <1>1, <1>2, <1>3, <1>5 DEF TypeOK, listVars, udpVars, ExplicitGrows
<1>7. WindowInv'
  BY <1>1 DEF ConnectionLost, Quit, ImageArrives, guiVars, WindowInv,
              KeysFollowServerWindow, RowsAreEntries, listVars
<1>8. NoneOverlooked'
  BY <1>1, <1>3, QuietDiscovery DEF listVars
<1> QED
  BY <1>5, <1>6, <1>7, <1>8 DEF TexturesAlive

LEMMA NextStep == IInv /\ [Next]_vars => IInv'
<1> SUFFICES ASSUME IInv, [Next]_vars PROVE IInv'
  OBVIOUS
<1>1. CASE RefreshClicked
  <2>1. bGlobalDisableKeyMovement
    BY <1>1 DEF RefreshClicked, IInv, WindowInv, KeysFollowServerWindow
  <2> QED
    BY <1>1, <2>1, BeginStep DEF RefreshClicked
<1>2. ASSUME NEW w \in Windows, OpenWindow(w) PROVE IInv'
  <2>1. CASE w = "server"
    BY <1>2, <2>1, BeginStep DEF OpenWindow
  <2>2. CASE w # "server"
    <3> USE DEF IInv
    <3>1. /\ phase = "running"
          /\ visible' = visible \cup {w}
          /\ UNCHANGED <<phase, bGlobalDisableKeyMovement, rows, text, mServerInfoDisc,
                         udpVars, mServerInfoExplicit, tcpVars, texVars>>
      BY <1>2, <2>2 DEF OpenWindow
    <3>2. TypeOK /\ ImagesOK
      BY <3>1 DEF TypeOK, ImagesOK, TexturesAlive
    <3>3. ExplicitGrows /\ ImagesOK'
      BY <3>1, <3>2, SameList, SameImages
    <3>4. TypeOK'
      BY <3>1, <3>2, <3>3 DEF TypeOK, tcpVars, udpVars, ImagesOK, ExplicitGrows
    <3>5. WindowInv'
      BY <2>2, <3>1 DEF WindowInv, KeysFollowServerWindow, RowsAreEntries
    <3>6. NoneOverlooked'
      BY <3>1, <3>3, QuietDiscovery
    <3> QED
      BY <3>3, <3>4, <3>5, <3>6 DEF TexturesAlive, ImagesOK
  <2> QED
    BY <2>1, <2>2
<1>3. CASE UNCHANGED vars
  <2> USE DEF vars, guiVars, listVars, tcpVars, udpVars, texVars
  <2>1. TypeOK' /\ TexturesAlive'
    BY <1>3 DEF IInv, TypeOK, TexturesAlive, ImagesAlive, Registered
  <2>2. WindowInv' /\ NoneOverlooked'
    BY <1>3 DEF IInv, WindowInv, KeysFollowServerWindow, RowsAreEntries,
                NoneOverlooked, InExplicitList
  <2> QED
    BY <2>1, <2>2 DEF IInv
<1> QED
  BY <1>1, <1>2, <1>3, StartStep, ConnectStep, ReconnectStep, ReplyStep,
     DatagramStep, WindowStep, ConnectionStep
  DEF Next

-----------------------------------------------------------------------------
(* The theorems.                                                           *)

\* The invariant of the client's windows, lists and images.
THEOREM BrowserInvariant == Spec => []IInv
BY InitOK, NextStep, PTL DEF Spec

\* Type correctness of the client's windows, lists and images.
THEOREM BrowserTypes == Spec => []TypeOK
<1>1. IInv => TypeOK
  BY DEF IInv
<1> QED
  BY BrowserInvariant, <1>1, PTL

\* The keys move the camera exactly while the server window is not shown.
THEOREM KeysDoFollow == Spec => []KeysFollowServerWindow
<1>1. IInv => KeysFollowServerWindow
  BY DEF IInv, WindowInv
<1> QED
  BY BrowserInvariant, <1>1, PTL

\* A row of the shown list box is the explicit entry it stands for.
THEOREM RowsStandForEntries == Spec => []RowsAreEntries
<1>1. IInv => RowsAreEntries
  BY DEF IInv, WindowInv
<1> QED
  BY BrowserInvariant, <1>1, PTL

\* No pointer to a deleted texture is drawn with.
THEOREM NoDeadTexture == Spec => []TexturesAlive
<1>1. IInv => TexturesAlive
  BY DEF IInv
<1> QED
  BY BrowserInvariant, <1>1, PTL

\* No server in the range that was probed is overlooked: the safety half of
\* EveryServerFound, for any number of servers and any ports.
THEOREM NoServerOverlooked == Spec => []NoneOverlooked
<1>1. IInv => NoneOverlooked
  BY DEF IInv
<1> QED
  BY BrowserInvariant, <1>1, PTL
=============================================================================
