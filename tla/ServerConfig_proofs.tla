------------------------- MODULE ServerConfig_proofs -------------------------
(***************************************************************************)
(* Proofs about ServerConfig, for any plug-ins of these kinds, any         *)
(* configuration files, any packets and any number of loads.               *)
(***************************************************************************)
EXTENDS ServerConfig, FiniteSetTheorems, WellFoundedInduction, TLAPS

\* Induction, without an operator for the formula.
LEMMA SetInduction ==
    ASSUME NEW T \in SUBSET Nat, 0 \in T, \A n \in T : n + 1 \in T
    PROVE  T = Nat
<1> SUFFICES ASSUME Nat \ T # {}
             PROVE  FALSE
  OBVIOUS
<1>1. IsWellFoundedOn(OpToRel(<, Nat), Nat)
  BY NatLessThanWellFounded
<1>2. PICK x \in Nat \ T : \A y \in Nat \ T : ~ (<<y, x>> \in OpToRel(<, Nat))
  BY <1>1, WFMin
<1>3. \A y \in Nat \ T : ~ (y < x)
  BY <1>2 DEF OpToRel
<1>4. x # 0
  OBVIOUS
<1>5. x - 1 \in Nat /\ x - 1 < x /\ (x - 1) + 1 = x
  BY <1>4
<1> QED
  BY <1>3, <1>5

\* A set of numbers that is not empty has a least element.
LEMMA LeastExists ==
    ASSUME NEW S \in SUBSET Nat, S # {}
    PROVE  \E x \in S : \A y \in S : x <= y
<1>1. IsWellFoundedOn(OpToRel(<, Nat), Nat)
  BY NatLessThanWellFounded
<1>2. PICK x \in S : \A y \in S : ~ (<<y, x>> \in OpToRel(<, Nat))
  BY <1>1, WFMin
<1>3. \A y \in S : ~ (y < x)
  BY <1>2 DEF OpToRel
<1> QED
  BY <1>3
-----------------------------------------------------------------------------
(* The tables of the colour modules.                                       *)

\* The number of a name in a table is one of its indices.
LEMMA TypeIdBound ==
    ASSUME NEW names, Len(names) \in Nat, NEW n,
           \E i \in 1 .. Len(names) : names[i] = n
    PROVE  TypeId(names, n) \in Nat /\ TypeId(names, n) < Len(names)
BY DEF TypeId

\* The names of three of the plug-ins.
Names(names) == {names[i] : i \in 1 .. Len(names)}

LEMMA ColoursNamesLen == Len(ColoursNames) = 16
BY DEF ColoursNames

LEMMA ColoursNamesHave ==
    {"TCP", "HTTP", "HTTPS", "MAIL", "FTP", "VPN", "DNS", "NTP", "SSH", "UDP",
     "ICMP", "IRC", "WINDOWS", "P2P", "GAMES", "OTHER"} \subseteq Names(ColoursNames)
<1> DEFINE N == ColoursNames
<1>1. /\ N[1] = "TCP" /\ N[2] = "HTTP" /\ N[3] = "HTTPS" /\ N[4] = "MAIL"
      /\ N[5] = "FTP" /\ N[6] = "VPN" /\ N[7] = "DNS" /\ N[8] = "NTP"
      /\ N[9] = "SSH" /\ N[10] = "UDP" /\ N[11] = "ICMP" /\ N[12] = "IRC"
      /\ N[13] = "WINDOWS" /\ N[14] = "P2P" /\ N[15] = "GAMES" /\ N[16] = "OTHER"
  BY DEF ColoursNames
<1> QED
  BY <1>1, ColoursNamesLen DEF Names

LEMMA LpiNamesLen == Len(LpiNames) = 20
BY DEF LpiNames

LEMMA LpiNamesHave ==
    {"HTTP", "HTTPS", "MAIL", "DNS", "P2P", "P2P_UDP", "WINDOWS", "GAMES",
     "MALWARE", "VOIP", "TUNNELLING", "STREAMING", "SERVICES", "FILES", "REMOTE",
     "CHAT", "ICMP", "OTHER", "UNK_TCP", "UNK_UDP"} \subseteq Names(LpiNames)
<1> DEFINE N == LpiNames
<1>1. /\ N[1] = "HTTP" /\ N[2] = "HTTPS" /\ N[3] = "MAIL" /\ N[4] = "DNS"
      /\ N[5] = "P2P" /\ N[6] = "P2P_UDP" /\ N[7] = "WINDOWS" /\ N[8] = "GAMES"
      /\ N[9] = "MALWARE" /\ N[10] = "VOIP" /\ N[11] = "TUNNELLING"
      /\ N[12] = "STREAMING" /\ N[13] = "SERVICES" /\ N[14] = "FILES"
      /\ N[15] = "REMOTE" /\ N[16] = "CHAT" /\ N[17] = "ICMP" /\ N[18] = "OTHER"
      /\ N[19] = "UNK_TCP" /\ N[20] = "UNK_UDP"
  BY DEF LpiNames
<1> QED
  BY <1>1, LpiNamesLen DEF Names

LEMMA SipNamesLen == Len(SipNames) = 18
BY DEF SipNames

LEMMA SipNamesHave ==
    {"TCP", "UDP", "REGISTER", "INVITE", "ACK", "BYE", "CANCEL", "RES_1XX",
     "RES_2XX", "RES_3XX", "RES_4XX", "RES_5XX", "RES_6XX", "RES_7XX", "RES_8XX",
     "RES_9XX", "RES_0XX", "OTHER"} \subseteq Names(SipNames)
<1> DEFINE N == SipNames
<1>1. /\ N[1] = "TCP" /\ N[2] = "UDP" /\ N[3] = "REGISTER" /\ N[4] = "INVITE"
      /\ N[5] = "ACK" /\ N[6] = "BYE" /\ N[7] = "CANCEL" /\ N[8] = "RES_1XX"
      /\ N[9] = "RES_2XX" /\ N[10] = "RES_3XX" /\ N[11] = "RES_4XX"
      /\ N[12] = "RES_5XX" /\ N[13] = "RES_6XX" /\ N[14] = "RES_7XX"
      /\ N[15] = "RES_8XX" /\ N[16] = "RES_9XX" /\ N[17] = "RES_0XX"
      /\ N[18] = "OTHER"
  BY DEF SipNames
<1> QED
  BY <1>1, SipNamesLen DEF Names

\* A packet's name is the one of a set that holds its number, or the default.
LEMMA ClassifyIs ==
    ASSUME NEW sets, NEW n, NEW otherwise
    PROVE  Classify(sets, n, otherwise) \in DOMAIN sets \cup {otherwise}
BY DEF Classify

LEMMA ColoursTypeNamed ==
    ASSUME NEW p
    PROVE  ColoursType(p) \in Names(ColoursNames)
<1> DEFINE proto == Classify(ColoursProtocols, p.proto, "OTHER")
           port  == Classify(ColoursPorts, ServerPort(p), proto)
<1>1. DOMAIN ColoursProtocols = {"TCP", "UDP", "ICMP", "VPN"}
  BY DEF ColoursProtocols
<1>2. DOMAIN ColoursPorts = {"HTTP", "FTP", "MAIL", "DNS", "SSH", "HTTPS", "IRC",
                             "VPN", "NTP", "WINDOWS", "P2P", "GAMES"}
  BY DEF ColoursPorts
<1>3. proto \in {"TCP", "UDP", "ICMP", "VPN", "OTHER"}
  BY <1>1, ClassifyIs
<1>4. port \in DOMAIN ColoursPorts \cup {proto}
  BY ClassifyIs
<1>5. ColoursType(p) \in {"OTHER", port}
  BY DEF ColoursType
<1> HIDE DEF proto, port
<1> QED
  BY <1>2, <1>3, <1>4, <1>5, ColoursNamesHave

LEMMA SipTypeNamed ==
    ASSUME NEW p
    PROVE  SipType(p) \in Names(SipNames)
<1>1. \A w \in DOMAIN SipLetters :
        SipLetters[w] \in {"REGISTER", "INVITE", "ACK", "BYE", "CANCEL"}
  BY DEF SipLetters
<1>2. \A d \in DOMAIN SipDigits :
        SipDigits[d] \in {"RES_1XX", "RES_2XX", "RES_3XX", "RES_4XX", "RES_5XX",
                          "RES_6XX", "RES_7XX", "RES_8XX", "RES_9XX", "RES_0XX"}
  BY DEF SipDigits
<1>3. \/ SipType(p) \in {"OTHER", "TCP", "UDP"}
      \/ \E w \in DOMAIN SipLetters : SipType(p) = SipLetters[w]
      \/ \E d \in DOMAIN SipDigits : SipType(p) = SipDigits[d]
  BY DEF SipType
<1> QED
  BY <1>1, <1>2, <1>3, SipNamesHave

LEMMA LpiGuessNamed ==
    ASSUME NEW col
    PROVE  LpiTypeOfGuess(col) \in Names(LpiNames)
<1> DEFINE proto == col.protocol.protocol
           cat   == col.protocol.category
           tcp   == Classify([UNK_TCP |-> {6}, UNK_UDP |-> {17}], col.transport, "OTHER")
<1>1. \A t \in DOMAIN LpiProtocolTypes :
        LpiProtocolTypes[t] \in {"HTTP", "HTTPS", "DNS", "UNK_TCP", "UNK_UDP",
                                 "ICMP", "WINDOWS"}
  BY DEF LpiProtocolTypes
<1>2. \A c \in DOMAIN LpiCategoryTypes :
        LpiCategoryTypes[c] \in {"MAIL", "P2P", "P2P_UDP", "SERVICES", "CHAT",
                                 "REMOTE", "STREAMING", "GAMES", "FILES",
                                 "TUNNELLING", "VOIP", "MALWARE"}
  BY DEF LpiCategoryTypes
<1>3. tcp \in {"UNK_TCP", "UNK_UDP", "OTHER"}
  BY ClassifyIs
<1>4. \/ LpiTypeOfGuess(col) \in {"TUNNELLING", "UNK_UDP", "OTHER", tcp}
      \/ \E t \in DOMAIN LpiProtocolTypes : LpiTypeOfGuess(col) = LpiProtocolTypes[t]
      \/ \E c \in DOMAIN LpiCategoryTypes : LpiTypeOfGuess(col) = LpiCategoryTypes[c]
  BY DEF LpiTypeOfGuess
<1> HIDE DEF tcp
<1> QED
  BY <1>1, <1>2, <1>3, <1>4, LpiNamesHave

LEMMA LpiTypeNamed ==
    ASSUME NEW col, NEW p
    PROVE  LpiType(col, p) \in Names(LpiNames)
<1>1. DOMAIN LpiPorts = {"HTTP", "FILES", "MAIL", "DNS", "REMOTE", "HTTPS", "CHAT",
                         "TUNNELLING", "SERVICES", "STREAMING"}
  BY DEF LpiPorts
<1>2. DOMAIN LpiTransports = {"UNK_TCP", "UNK_UDP", "ICMP", "TUNNELLING"}
  BY DEF LpiTransports
<1>3. \A q : Classify(LpiPorts, q, "NONE") \in DOMAIN LpiPorts \cup {"NONE"}
  BY ClassifyIs
<1>4. Classify(LpiTransports, col.transport, "OTHER") \in DOMAIN LpiTransports \cup {"OTHER"}
  BY ClassifyIs
<1>5. LpiTypeOfPorts(col) \in DOMAIN LpiPorts \cup DOMAIN LpiTransports \cup {"OTHER"}
  <2>1. CASE \E q \in col.ports : Classify(LpiPorts, q, "NONE") # "NONE"
    <3> DEFINE q0 == CHOOSE q \in col.ports : Classify(LpiPorts, q, "NONE") # "NONE"
    <3>1. LpiTypeOfPorts(col) = Classify(LpiPorts, q0, "NONE")
      BY <2>1 DEF LpiTypeOfPorts
    <3>2. Classify(LpiPorts, q0, "NONE") # "NONE"
      BY <2>1
    <3> HIDE DEF q0
    <3> QED
      BY <1>3, <3>1, <3>2
  <2>2. CASE ~ \E q \in col.ports : Classify(LpiPorts, q, "NONE") # "NONE"
    BY <1>4, <2>2 DEF LpiTypeOfPorts
  <2> QED
    BY <2>1, <2>2
<1>6. LpiType(col, p) \in {"OTHER", LpiTypeOfPorts(col), LpiTypeOfGuess(col)}
  BY DEF LpiType
<1> QED
  BY <1>1, <1>2, <1>5, <1>6, LpiGuessNamed, LpiNamesHave

-----------------------------------------------------------------------------
(* The types of bpfcolour.                                                 *)

\* There is one set of entered expressions that fits the definition.
LEMMA BpfFirstsExist ==
    ASSUME NEW exprs, Len(exprs) \in Nat
    PROVE  /\ BpfFirsts(exprs) \subseteq 1 .. Len(exprs)
           /\ \A i \in 1 .. Len(exprs) :
                i \in BpfFirsts(exprs) <=>
                  \A j \in BpfFirsts(exprs) : j < i => ~ BpfSame(exprs[j], exprs[i])
<1> DEFINE Fits(n, S) == \A i \in 1 .. n :
             i \in S <=> \A j \in S : j < i => ~ BpfSame(exprs[j], exprs[i])
           T == {n \in Nat : \E S \in SUBSET (1 .. n) : Fits(n, S)}
<1>1. 0 \in T
  <2>1. {} \in SUBSET (1 .. 0) /\ Fits(0, {})
    OBVIOUS
  <2> QED
    BY <2>1
<1>2. ASSUME NEW n \in T
      PROVE  n + 1 \in T
  <2>1. n \in Nat
    OBVIOUS
  <2>2. PICK S \in SUBSET (1 .. n) : Fits(n, S)
    BY <1>2
  <2>3. \A k \in 1 .. (n + 1) : k \in 1 .. n \/ k = n + 1
    BY <2>1
  <2>4. 1 .. n \subseteq 1 .. (n + 1) /\ n + 1 \in 1 .. (n + 1) /\ n + 1 \notin 1 .. n
    BY <2>1
  <2>5. CASE \A j \in S : ~ BpfSame(exprs[j], exprs[n + 1])
    <3> DEFINE R == S \cup {n + 1}
    <3>1. R \in SUBSET (1 .. (n + 1))
      BY <2>4
    <3>2. ASSUME NEW i \in 1 .. n
          PROVE  i \in R <=> \A j \in R : j < i => ~ BpfSame(exprs[j], exprs[i])
      <4>1. i \in R <=> i \in S
        BY <2>4
      <4>2. ~ (n + 1 < i)
        BY <2>1
      <4> QED
        BY <2>2, <4>1, <4>2
    <3>3. n + 1 \in R <=> \A j \in R : j < n + 1 => ~ BpfSame(exprs[j], exprs[n + 1])
      <4>1. ~ (n + 1 < n + 1)
        BY <2>1
      <4> QED
        BY <2>5, <4>1
    <3>4. Fits(n + 1, R)
      <4> HIDE DEF R
      <4> QED
        BY <2>3, <3>2, <3>3
    <3> HIDE DEF R, Fits
    <3> QED
      BY <2>1, <3>1, <3>4
  <2>6. CASE \E j \in S : BpfSame(exprs[j], exprs[n + 1])
    <3>1. S \in SUBSET (1 .. (n + 1))
      BY <2>4
    <3>2. n + 1 \notin S
      BY <2>4
    <3>3. \A j \in S : j < n + 1
      BY <2>1
    <3>4. Fits(n + 1, S)
      BY <2>2, <2>3, <2>6, <3>2, <3>3
    <3> HIDE DEF Fits
    <3> QED
      BY <2>1, <3>1, <3>4
  <2> QED
    BY <2>5, <2>6
<1>3. T = Nat
  <2>1. T \in SUBSET Nat
    OBVIOUS
  <2> HIDE DEF T
  <2> QED
    BY <1>1, <1>2, <2>1, SetInduction
<1>4. \E S \in SUBSET (1 .. Len(exprs)) : Fits(Len(exprs), S)
  BY <1>3
<1> QED
  BY <1>4 DEF BpfFirsts

\* The entered expressions are finitely many.
LEMMA BpfFirstsFinite ==
    ASSUME NEW exprs, Len(exprs) \in Nat
    PROVE  /\ IsFiniteSet(BpfFirsts(exprs)) /\ BpfFirsts(exprs) \in SUBSET Nat
           /\ Cardinality(BpfFirsts(exprs)) \in Nat
<1>1. BpfFirsts(exprs) \subseteq 1 .. Len(exprs)
  BY BpfFirstsExist
<1>2. IsFiniteSet(1 .. Len(exprs))
  BY FS_Interval
<1>3. IsFiniteSet(BpfFirsts(exprs))
  BY <1>1, <1>2, FS_Subset
<1> QED
  BY <1>1, <1>3, FS_CardinalityType

\* Fewer elements lie below an element than there are.
LEMMA RankBound ==
    ASSUME NEW S, IsFiniteSet(S), S \in SUBSET Nat, NEW x \in S
    PROVE  /\ Cardinality({j \in S : j < x}) \in Nat
           /\ Cardinality({j \in S : j < x}) < Cardinality(S)
<1> DEFINE below == {j \in S : j < x}
<1>1. below \subseteq S /\ x \notin below
  OBVIOUS
<1> HIDE DEF below
<1>2. below # S
  BY <1>1
<1>3. /\ IsFiniteSet(below)
      /\ Cardinality(below) <= Cardinality(S)
      /\ Cardinality(below) = Cardinality(S) => below = S
  BY <1>1, FS_Subset
<1>4. Cardinality(below) \in Nat /\ Cardinality(S) \in Nat
  BY <1>3, FS_CardinalityType
<1>5. Cardinality(below) < Cardinality(S)
  BY <1>2, <1>3, <1>4
<1> QED
  BY <1>4, <1>5 DEF below

\* Every number below the size of a set is that of the elements below one.
LEMMA RankOnto ==
    ASSUME NEW S, IsFiniteSet(S), S \in SUBSET Nat, NEW n \in Nat, n < Cardinality(S)
    PROVE  \E x \in S : Cardinality({j \in S : j < x}) = n
<1> DEFINE Below(x) == {j \in S : j < x}
           T == {m \in Nat : m < Cardinality(S) =>
                               \E x \in S : Cardinality(Below(x)) = m}
<1>0. Cardinality(S) \in Nat
  BY FS_CardinalityType
<1>1. 0 \in T
  <2>1. CASE S = {}
    BY <2>1, FS_EmptySet
  <2>2. CASE S # {}
    <3>1. PICK x \in S : \A y \in S : x <= y
      BY <2>2, LeastExists
    <3>2. \A y \in S : x \in Nat /\ y \in Nat /\ ~ (y < x)
      BY <3>1
    <3>3. Below(x) = {}
      BY <3>2
    <3>4. Cardinality(Below(x)) = 0
      BY <3>3, FS_EmptySet
    <3> QED
      BY <3>4
  <2> QED
    BY <2>1, <2>2
<1>2. ASSUME NEW m \in T
      PROVE  m + 1 \in T
  <2> SUFFICES ASSUME m + 1 < Cardinality(S)
               PROVE  \E x \in S : Cardinality(Below(x)) = m + 1
    OBVIOUS
  <2>0. m \in Nat /\ m < Cardinality(S)
    BY <1>0
  <2>1. PICK x \in S : Cardinality(Below(x)) = m
    BY <2>0
  <2> DEFINE above == {j \in S : x < j}
             upto  == Below(x) \cup {x}
  <2>2. IsFiniteSet(Below(x)) /\ x \notin Below(x)
    BY FS_Subset
  <2> HIDE DEF Below
  <2>3. Cardinality(upto) = m + 1 /\ IsFiniteSet(upto)
    BY <2>1, <2>2, FS_AddElement
  <2>4. above # {}
    <3>1. ASSUME NEW j \in S
          PROVE  j < x \/ j = x \/ x < j
      <4>1. j \in Nat /\ x \in Nat
        OBVIOUS
      <4> QED
        BY <4>1
    <3>2. S \subseteq upto \cup above
      BY <3>1 DEF Below
    <3>3. upto \subseteq S
      BY DEF Below
    <3>4. above = {} => S = upto
      BY <3>2, <3>3
    <3>5. Cardinality(S) # Cardinality(upto)
      BY <1>0, <2>0, <2>3
    <3> QED
      BY <3>4, <3>5
  <2>5. PICK y \in above : \A z \in above : y <= z
    BY <2>4, LeastExists
  <2>6. Below(y) = upto
    <3>1. ASSUME NEW j \in S
          PROVE  j < y <=> j < x \/ j = x
      <4>1. j \in Nat /\ x \in Nat /\ y \in Nat /\ x < y
        OBVIOUS
      <4>2. x < j => y <= j
        BY <2>5
      <4> QED
        BY <4>1, <4>2
    <3>2. \A j : j \in Below(y) <=> j \in S /\ j < y
      BY DEF Below
    <3>3. \A j : j \in upto <=> j \in S /\ (j < x \/ j = x)
      BY DEF Below
    <3> QED
      BY <3>1, <3>2, <3>3
  <2> QED
    BY <2>3, <2>5, <2>6
<1>3. T = Nat
  <2>1. T \in SUBSET Nat
    OBVIOUS
  <2> HIDE DEF T
  <2> QED
    BY <1>1, <1>2, <2>1, SetInduction
<1> QED
  BY <1>3

\* The id of an expression is below the number of types.
LEMMA BpfIdBound ==
    ASSUME NEW exprs, Len(exprs) \in Nat, NEW i \in 1 .. Len(exprs)
    PROVE  /\ BpfId(exprs, i) \in Nat
           /\ BpfId(exprs, i) < Cardinality(BpfFirsts(exprs))
<1> DEFINE F == BpfFirsts(exprs)
           Is(j) == j = i \/ (i \notin F /\ BpfSame(exprs[j], exprs[i]))
           first == CHOOSE j \in F : Is(j)
<1>1. \E j \in F : Is(j)
  BY BpfFirstsExist
<1>2. first \in F
  BY <1>1
<1>3. BpfId(exprs, i) = Cardinality({j \in F : j < first})
  BY DEF BpfId
<1>4. IsFiniteSet(F) /\ F \in SUBSET Nat
  BY BpfFirstsFinite
<1> HIDE DEF F, first
<1> QED
  BY <1>2, <1>3, <1>4, RankBound DEF F

\* Every type is that of an expression.
LEMMA BpfInfoOf ==
    ASSUME NEW exprs, Len(exprs) \in Nat
    PROVE  /\ Len(BpfInfo(exprs)) = Cardinality(BpfFirsts(exprs))
           /\ \A n \in 1 .. Len(BpfInfo(exprs)) :
                \E i \in 1 .. Len(exprs) : BpfInfo(exprs)[n] = exprs[i]
<1> DEFINE F == BpfFirsts(exprs)
           C == Cardinality(F)
<1>1. /\ IsFiniteSet(F) /\ F \in SUBSET Nat /\ C \in Nat
      /\ F \subseteq 1 .. Len(exprs)
  BY BpfFirstsFinite, BpfFirstsExist
<1>2. Len(BpfInfo(exprs)) = C
  BY <1>1 DEF BpfInfo
<1>3. ASSUME NEW n \in 1 .. C
      PROVE  \E i \in 1 .. Len(exprs) : BpfInfo(exprs)[n] = exprs[i]
  <2> DEFINE chosen == CHOOSE i \in F : BpfId(exprs, i) = n - 1
  <2>1. n - 1 \in Nat /\ n - 1 < C
    BY <1>1
  <2>2. PICK x \in F : Cardinality({j \in F : j < x}) = n - 1
    <3> HIDE DEF F
    <3> QED
      BY <1>1, <2>1, RankOnto
  <2>3. BpfId(exprs, x) = n - 1
    <3>1. x = CHOOSE j \in F : j = x \/ (x \notin F /\ BpfSame(exprs[j], exprs[x]))
      BY <2>2
    <3> QED
      BY <2>2, <3>1 DEF BpfId
  <2>4. chosen \in F
    BY <2>2, <2>3
  <2>5. BpfInfo(exprs)[n] = exprs[chosen]
    BY DEF BpfInfo
  <2> HIDE DEF chosen, F
  <2> QED
    BY <1>1, <2>4, <2>5
<1> HIDE DEF F
<1> QED
  BY <1>2, <1>3 DEF F
-----------------------------------------------------------------------------
(* The types a module gives packets are in the table of the greeting.      *)

\* No colour of the bpf configuration is black once hex2dec has read it: the
\* table ends at the first type that is.
NoBlack ==
    \A param \in DOMAIN BpfConfig : \A i \in 1 .. Len(BpfConfig[param]) :
        BpfColour(BpfConfig[param][i].hex) # Black

\* A colour module that could be loaded.
ColourModule(path, param) ==
    /\ path \in DOMAIN Library
    /\ Kind(path) \in {"colours", "sip", "lpi", "bpf"}
    /\ Kind(path) = "bpf" /\ param # Absent => param \in DOMAIN BpfConfig

\* Then the table is complete.
LEMMA AllDescribed ==
    ASSUME NoBlack, NEW path, NEW param, ColourModule(path, param)
    PROVE  Described(path, param) = Info(path, param)
<1> DEFINE all  == Info(path, param)
           ends == {n \in 1 .. Len(all) : Kind(path) = "bpf" /\ BpfColour(all[n].hex) = Black}
<1>1. ends = {}
  <2>1. CASE Kind(path) # "bpf"
    BY <2>1
  <2>2. CASE Kind(path) = "bpf" /\ param = Absent
    <3>1. all = << >>
      BY <2>2 DEF Info
    <3>2. 1 .. Len(<< >>) = {}
      OBVIOUS
    <3> HIDE DEF all
    <3> QED
      BY <3>1, <3>2
  <2>3. CASE Kind(path) = "bpf" /\ param # Absent
    <3>1. param \in DOMAIN BpfConfig
      BY <2>3 DEF ColourModule
    <3> DEFINE exprs == BpfConfig[param]
    <3>2. all = BpfInfo(exprs)
      BY <2>3 DEF Info
    <3>3. /\ Len(exprs) \in Nat
          /\ \A i \in 1 .. Len(exprs) : BpfColour(exprs[i].hex) # Black
      BY <3>1, BpfConfigAssumption DEF NoBlack
    <3> HIDE DEF all, exprs
    <3>4. \A n \in 1 .. Len(all) : \E i \in 1 .. Len(exprs) : all[n] = exprs[i]
      BY <3>2, <3>3, BpfInfoOf
    <3>5. \A n \in 1 .. Len(all) : BpfColour(all[n].hex) # Black
      BY <3>3, <3>4
    <3> QED
      BY <3>5
  <2> QED
    BY <2>1, <2>2, <2>3
<1> HIDE DEF ends
<1>2. Described(path, param) = IF ends = {} THEN all
        ELSE SubSeq(all, 1, (CHOOSE n \in ends : \A m \in ends : n <= m) - 1)
  BY DEF Described, ends
<1> QED
  BY <1>1, <1>2

\* The types that mod_get_colour may give a packet.
LEMMA TypeInTable ==
    ASSUME ColourModule(modptrs["colour"], conf.params["colour"]),
           NEW data, NEW p, NEW type \in ColourIds(data, p)
    PROVE  /\ type \in Nat
           /\ type < Len(Info(modptrs["colour"], conf.params["colour"]))
<1> DEFINE path  == modptrs["colour"]
           param == conf.params["colour"]
<1>1. CASE Kind(path) = "colours"
  <2>1. type = TypeId(ColoursNames, ColoursType(p)) /\ Info(path, param) = ColoursNames
    BY <1>1 DEF ColourIds, Info
  <2>2. \E i \in 1 .. Len(ColoursNames) : ColoursNames[i] = ColoursType(p)
    BY ColoursTypeNamed DEF Names
  <2>3. Len(ColoursNames) \in Nat
    BY ColoursNamesLen
  <2> DEFINE id == TypeId(ColoursNames, ColoursType(p))
  <2>4. id \in Nat /\ id < Len(ColoursNames)
    BY <2>2, <2>3, TypeIdBound
  <2> HIDE DEF id
  <2> QED
    BY <2>1, <2>4 DEF id
<1>2. CASE Kind(path) = "sip"
  <2>1. type = TypeId(SipNames, SipType(p)) /\ Info(path, param) = SipNames
    BY <1>2 DEF ColourIds, Info
  <2>2. \E i \in 1 .. Len(SipNames) : SipNames[i] = SipType(p)
    BY SipTypeNamed DEF Names
  <2>3. Len(SipNames) \in Nat
    BY SipNamesLen
  <2> DEFINE id == TypeId(SipNames, SipType(p))
  <2>4. id \in Nat /\ id < Len(SipNames)
    BY <2>2, <2>3, TypeIdBound
  <2> HIDE DEF id
  <2> QED
    BY <2>1, <2>4 DEF id
<1>3. CASE Kind(path) = "lpi"
  <2> DEFINE name == IF p.l3 # "ip4" THEN "OTHER"
                     ELSE LpiType(LpiStep(LpiState(data, p), p), p)
  <2>1. type = TypeId(LpiNames, name) /\ Info(path, param) = LpiNames
    BY <1>3 DEF ColourIds, Info
  <2>2. name \in Names(LpiNames)
    BY LpiTypeNamed, LpiNamesHave
  <2> HIDE DEF name
  <2>3. \E i \in 1 .. Len(LpiNames) : LpiNames[i] = name
    BY <2>2 DEF Names
  <2>4. Len(LpiNames) \in Nat
    BY LpiNamesLen
  <2> DEFINE id == TypeId(LpiNames, name)
  <2>5. id \in Nat /\ id < Len(LpiNames)
    BY <2>3, <2>4, TypeIdBound
  <2> HIDE DEF id
  <2> QED
    BY <2>1, <2>5 DEF id
<1>4. CASE Kind(path) = "bpf"
  <2> DEFINE exprs == BpfConfig[param]
  <2>1. /\ param # Absent /\ type \in BpfIds(exprs, p)
        /\ Info(path, param) = BpfInfo(exprs)
    BY <1>4 DEF ColourIds, Info
  <2>2. Len(exprs) \in Nat
    BY <1>4, <2>1, BpfConfigAssumption DEF ColourModule
  <2> HIDE DEF exprs
  <2>3. \E i \in 1 .. Len(exprs) : type = BpfId(exprs, i)
    BY <2>1 DEF BpfIds
  <2> QED
    BY <2>1, <2>2, <2>3, BpfIdBound, BpfInfoOf
<1> QED
  BY <1>1, <1>2, <1>3, <1>4 DEF ColourModule

-----------------------------------------------------------------------------
(* The rows of multiplenet24.                                              *)

IsRows(rows) == /\ rows = [i \in DOMAIN rows |-> rows[i]]
                /\ DOMAIN rows \subseteq 1 .. NETCOUNT

LEMMA RowNumbers ==
    ASSUME NEW rows, IsRows(rows)
    PROVE  DOMAIN rows \subseteq Nat /\ 0 \notin DOMAIN rows
BY NetcountAssumption DEF IsRows

LEMMA NoRowsIs ==
    ASSUME NEW n
    PROVE  IsRows(NoRows(n))
BY DEF NoRows, IsRows

LEMMA SubnetRowIs ==
    ASSUME NEW rows, IsRows(rows), NEW net
    PROVE  /\ SubnetRow(rows, net) = 0 <=> Stops(rows, net) = {}
           /\ SubnetRow(rows, net) # 0 =>
                /\ SubnetRow(rows, net) \in Stops(rows, net)
                /\ \A j \in Stops(rows, net) : SubnetRow(rows, net) <= j
<1>1. Stops(rows, net) \in SUBSET Nat /\ 0 \notin Stops(rows, net)
  BY NetcountAssumption DEF Stops, IsRows
<1>2. CASE Stops(rows, net) = {}
  BY <1>2 DEF SubnetRow
<1>3. CASE Stops(rows, net) # {}
  <2>1. \E i \in Stops(rows, net) : \A j \in Stops(rows, net) : i <= j
    BY <1>1, <1>3, LeastExists
  <2>2. SubnetRow(rows, net) =
          CHOOSE i \in Stops(rows, net) : \A j \in Stops(rows, net) : i <= j
    BY <1>3 DEF SubnetRow
  <2> QED
    BY <1>1, <1>3, <2>1, <2>2
<1> QED
  BY <1>2, <1>3

\* A row that is the first of those where the scan would stop is the row.
LEMMA SubnetRowUnique ==
    ASSUME NEW rows, IsRows(rows), NEW net, NEW i \in Stops(rows, net),
           \A j \in Stops(rows, net) : i <= j
    PROVE  SubnetRow(rows, net) = i
<1>1. Stops(rows, net) \in SUBSET Nat /\ Stops(rows, net) # {}
  BY NetcountAssumption DEF Stops, IsRows
<1>2. /\ SubnetRow(rows, net) \in Stops(rows, net)
      /\ SubnetRow(rows, net) <= i
  BY <1>1, SubnetRowIs
<1>3. i <= SubnetRow(rows, net)
  BY <1>2
<1> QED
  BY <1>1, <1>2, <1>3

\* check_subnet changes at most the row of the network, and only a free one.
LEMMA CheckSubnetIs ==
    ASSUME NEW rows, IsRows(rows), NEW net
    PROVE  LET after == CheckSubnet(rows, net)
               row   == SubnetRow(rows, net)
           IN  /\ IsRows(after) /\ DOMAIN after = DOMAIN rows
               /\ \A i \in DOMAIN rows : i # row => after[i] = rows[i]
               /\ row # 0 => /\ row \in DOMAIN rows /\ after[row] = net
                             /\ rows[row] \in {net, NoNet}
<1> DEFINE row == SubnetRow(rows, net)
<1>1. CASE row = 0
  BY <1>1 DEF CheckSubnet
<1>2. CASE row # 0
  <2>1. row \in DOMAIN rows /\ rows[row] \in {net, NoNet}
    BY <1>2, SubnetRowIs DEF Stops
  <2>2. CheckSubnet(rows, net) = [rows EXCEPT ![row] = net]
    BY <1>2 DEF CheckSubnet
  <2> HIDE DEF row
  <2> QED
    BY <2>1, <2>2 DEF IsRows, row
<1> QED
  BY <1>1, <1>2

\* A network that was looked for has its row, if there was one left.
LEMMA CheckSubnetEnters ==
    ASSUME NEW rows, IsRows(rows), NEW net
    PROVE  LET after == CheckSubnet(rows, net)
               row   == SubnetRow(rows, net)
           IN  /\ SubnetRow(after, net) = row
               /\ row # 0 => after[row] = net
<1> DEFINE after == CheckSubnet(rows, net)
           row   == SubnetRow(rows, net)
<1>1. CASE row = 0
  BY <1>1 DEF CheckSubnet
<1>2. CASE row # 0
  <2>r. IsRows(after)
    BY <1>2, CheckSubnetIs
  <2>d. DOMAIN after = DOMAIN rows
    BY <1>2, CheckSubnetIs
  <2>1. /\ row \in DOMAIN rows /\ after[row] = net
        /\ \A i \in DOMAIN rows : i # row => after[i] = rows[i]
    BY <1>2, CheckSubnetIs
  <2>2. \A j \in Stops(rows, net) : row <= j
    BY <1>2, SubnetRowIs
  <2> HIDE DEF after, row
  <2>3. row \in Stops(after, net)
    BY <2>d, <2>1 DEF Stops
  <2>4. \A j \in Stops(after, net) : row <= j
    <3> SUFFICES ASSUME NEW j \in Stops(after, net), j # row
                 PROVE  row <= j
      BY <2>1, RowNumbers
    <3>1. j \in Stops(rows, net)
      BY <2>d, <2>1 DEF Stops
    <3> QED
      BY <2>2, <3>1
  <2>5. SubnetRow(after, net) = row
    BY <2>r, <2>3, <2>4, SubnetRowUnique
  <2> QED
    BY <2>1, <2>5 DEF after, row
<1> QED
  BY <1>1, <1>2

\* A network with a row keeps it, and one without a row never gets one.
LEMMA CheckSubnetKeeps ==
    ASSUME NEW rows, IsRows(rows), NEW net, net # NoNet, NEW other,
           \/ SubnetRow(rows, net) = 0
           \/ rows[SubnetRow(rows, net)] = net
    PROVE  LET after == CheckSubnet(rows, other)
               row   == SubnetRow(rows, net)
           IN  /\ SubnetRow(after, net) = row
               /\ row # 0 => after[row] = net
<1> DEFINE after == CheckSubnet(rows, other)
           row   == SubnetRow(rows, net)
           hit   == SubnetRow(rows, other)
<1>r. IsRows(after)
  BY CheckSubnetIs
<1>d. DOMAIN after = DOMAIN rows
  BY CheckSubnetIs
<1>0. /\ \A i \in DOMAIN rows : i # hit => after[i] = rows[i]
      /\ hit # 0 => /\ hit \in DOMAIN rows /\ after[hit] = other
                    /\ rows[hit] \in {other, NoNet}
  BY CheckSubnetIs
<1>1. CASE row = 0
  <2>1. Stops(rows, net) = {}
    BY <1>1, SubnetRowIs
  <2> HIDE DEF after, row, hit
  <2>2. \A i \in DOMAIN rows : rows[i] \notin {net, NoNet}
    BY <2>1 DEF Stops
  <2>3. \A i \in DOMAIN rows : after[i] = rows[i]
    BY <1>0, <2>2, RowNumbers
  <2>4. Stops(after, net) = {}
    BY <1>d, <2>2, <2>3 DEF Stops
  <2> QED
    BY <1>r, <1>1, <2>4, SubnetRowIs DEF after, row
<1>2. CASE row # 0
  <2>1. /\ row \in Stops(rows, net) /\ row \in DOMAIN rows /\ rows[row] = net
        /\ \A j \in Stops(rows, net) : row <= j
    BY <1>2, SubnetRowIs DEF Stops
  <2> HIDE DEF after, row, hit
  <2>2. after[row] = net
    BY <1>0, <2>1, RowNumbers
  <2>3. row \in Stops(after, net)
    BY <1>d, <2>1, <2>2 DEF Stops
  <2>4. \A j \in Stops(after, net) : row <= j
    <3> SUFFICES ASSUME NEW j \in Stops(after, net)
                 PROVE  j \in Stops(rows, net)
      BY <2>1
    <3>1. j \in DOMAIN rows /\ after[j] \in {net, NoNet}
      BY <1>d DEF Stops
    <3>2. CASE j # hit
      BY <1>0, <3>1, <3>2 DEF Stops
    <3>3. CASE j = hit
      BY <1>0, <3>1, <3>3, RowNumbers DEF Stops
    <3> QED
      BY <3>2, <3>3
  <2>5. SubnetRow(after, net) = row
    BY <1>r, <2>3, <2>4, SubnetRowUnique
  <2> QED
    BY <2>2, <2>5 DEF after, row
<1> QED
  BY <1>1, <1>2

-----------------------------------------------------------------------------
(* The places of a flow.                                                   *)

\* The place a module gives an address for good, given the rows it has now.
Fixed(path, rows, ip, place) ==
    /\ Kind(path) # "multiplenet24" => place \in Places(Kind(path), rows, ip)
    /\ /\ Kind(path) = "multiplenet24" /\ Net24(ip) # NoNet
       /\ SubnetRow(rows, Net24(ip)) # 0
       => /\ rows[SubnetRow(rows, Net24(ip))] = Net24(ip)
          /\ place = <<SubnetRow(rows, Net24(ip)), ip[4]>>

PositionModule(path) ==
    /\ path \in DOMAIN Library
    /\ Kind(path) \in {"network16", "networkxxyy", "radial", "random", "rurallink",
                       "multiplenet24"}

\* Only multiplenet24 looks at its rows, and the others have one place for an
\* address.
LEMMA PlacesSettled ==
    ASSUME NEW path, PositionModule(path), Kind(path) # "multiplenet24",
           NEW rows, NEW after, NEW ip
    PROVE  /\ Places(Kind(path), after, ip) = Places(Kind(path), rows, ip)
           /\ \A a, b \in Places(Kind(path), rows, ip) : a = b
<1>1. CASE Kind(path) = "network16"
  BY <1>1 DEF Places
<1>2. CASE Kind(path) = "networkxxyy"
  BY <1>2 DEF Places
<1>3. CASE Kind(path) = "radial"
  BY <1>3 DEF Places
<1>4. CASE Kind(path) = "random"
  BY <1>4 DEF Places
<1>5. CASE Kind(path) = "rurallink"
  BY <1>5 DEF Places
<1> QED
  BY <1>1, <1>2, <1>3, <1>4, <1>5 DEF PositionModule

\* What is fixed stays so when any network is looked for.
LEMMA FixedStays ==
    ASSUME NEW path, PositionModule(path), NEW rows, IsRows(rows), NEW ip, NEW place,
           Fixed(path, rows, ip, place), NEW other
    PROVE  Fixed(path, CheckSubnet(rows, other), ip, place)
<1> DEFINE after == CheckSubnet(rows, other)
           net   == Net24(ip)
<1>1. CASE Kind(path) # "multiplenet24"
  BY <1>1, PlacesSettled DEF Fixed
<1>2. CASE Kind(path) = "multiplenet24"
  <2> SUFFICES ASSUME net # NoNet, SubnetRow(after, net) # 0
               PROVE  /\ after[SubnetRow(after, net)] = net
                      /\ place = <<SubnetRow(after, net), ip[4]>>
    BY <1>2 DEF Fixed
  <2>1. /\ SubnetRow(rows, net) # 0 => /\ rows[SubnetRow(rows, net)] = net
                                       /\ place = <<SubnetRow(rows, net), ip[4]>>
    BY <1>2 DEF Fixed
  <2> HIDE DEF net
  <2>2. /\ SubnetRow(after, net) = SubnetRow(rows, net)
        /\ SubnetRow(rows, net) # 0 => after[SubnetRow(rows, net)] = net
    BY <2>1, CheckSubnetKeeps
  <2> QED
    BY <2>1, <2>2
<1> QED
  BY <1>1, <1>2

\* Two fixed places of an address are the same.
LEMMA FixedUnique ==
    ASSUME NEW path, PositionModule(path), NEW rows, NEW ip, NEW a, NEW b,
           Fixed(path, rows, ip, a), Fixed(path, rows, ip, b),
           Kind(path) = "multiplenet24" =>
             Net24(ip) # NoNet /\ SubnetRow(rows, Net24(ip)) # 0
    PROVE  a = b
<1>1. CASE Kind(path) # "multiplenet24"
  BY <1>1, PlacesSettled DEF Fixed
<1>2. CASE Kind(path) = "multiplenet24"
  BY <1>2 DEF Fixed
<1> QED
  BY <1>1, <1>2

\* The rows of all the modules.
IsNets(all) ==
    /\ all = [path \in DOMAIN Library |-> all[path]]
    /\ \A path \in DOMAIN Library : IsRows(all[path])

\* After a call, what was fixed still is.
LEMMA RowsAfterKeeps ==
    ASSUME NEW all, IsNets(all), NEW role, PositionModule(modptrs[role]),
           NEW dir, NEW p
    PROVE  /\ IsNets(RowsAfter(all, role, dir, p))
           /\ \A path, ip, place :
                PositionModule(path) /\ Fixed(path, all[path], ip, place) =>
                  Fixed(path, RowsAfter(all, role, dir, p)[path], ip, place)
<1> DEFINE own   == modptrs[role]
           net   == Net24(AddressFor(role, dir, p))
           after == RowsAfter(all, role, dir, p)
<1>0. own \in DOMAIN Library /\ \A path \in DOMAIN Library : IsRows(all[path])
  BY DEF PositionModule, IsNets
<1>1. CASE Kind(own) # "multiplenet24"
  BY <1>1 DEF RowsAfter
<1>2. CASE Kind(own) = "multiplenet24"
  <2>1. after = [all EXCEPT ![own] = CheckSubnet(@, net)]
    BY <1>2 DEF RowsAfter
  <2> HIDE DEF own, net, after
  <2>2. /\ after = [path \in DOMAIN Library |-> after[path]]
        /\ after[own] = CheckSubnet(all[own], net)
        /\ \A path \in DOMAIN Library : path # own => after[path] = all[path]
    BY <1>0, <2>1 DEF IsNets
  <2>3. IsNets(after)
    <3>1. IsRows(after[own])
      BY <1>0, <2>2, CheckSubnetIs
    <3> QED
      BY <1>0, <2>2, <3>1 DEF IsNets
  <2>4. ASSUME NEW path, NEW ip, NEW place, PositionModule(path),
               Fixed(path, all[path], ip, place)
        PROVE  Fixed(path, after[path], ip, place)
    <3>1. path \in DOMAIN Library
      BY <2>4 DEF PositionModule
    <3>2. CASE path = own
      BY <1>0, <2>2, <2>4, <3>2, FixedStays
    <3>3. CASE path # own
      BY <2>2, <2>4, <3>1, <3>3
    <3> QED
      BY <3>2, <3>3
  <2> QED
    BY <2>3, <2>4 DEF after
<1> QED
  BY <1>1, <1>2

\* The place a call gives is fixed.
LEMMA RowsAfterFixes ==
    ASSUME NEW all, IsNets(all), NEW role, PositionModule(modptrs[role]),
           NEW dir, NEW p, NEW place \in PlacesOf(all, role, dir, p)
    PROVE  Fixed(modptrs[role], RowsAfter(all, role, dir, p)[modptrs[role]],
                 AddressFor(role, dir, p), place)
<1> DEFINE own  == modptrs[role]
           ip   == AddressFor(role, dir, p)
           net  == Net24(ip)
           rows == all[own]
<1>0. own \in DOMAIN Library /\ IsRows(rows)
  BY DEF PositionModule, IsNets
<1>1. place \in Places(Kind(own), rows, ip)
  BY DEF PlacesOf
<1>2. CASE Kind(own) # "multiplenet24"
  BY <1>1, <1>2 DEF RowsAfter, Fixed
<1>3. CASE Kind(own) = "multiplenet24"
  <2> DEFINE after == CheckSubnet(rows, net)
  <2>1. RowsAfter(all, role, dir, p)[own] = after
    BY <1>0, <1>3 DEF RowsAfter, IsNets
  <2>2. place \in MultipleNet24(rows, ip)
    BY <1>1, <1>3 DEF Places
  <2>3. SubnetRow(rows, net) # 0 => place = <<SubnetRow(rows, net), ip[4]>>
    BY <2>2 DEF MultipleNet24
  <2> HIDE DEF own, ip, rows, net
  <2>4. /\ SubnetRow(after, net) = SubnetRow(rows, net)
        /\ SubnetRow(rows, net) # 0 => after[SubnetRow(rows, net)] = net
    BY <1>0, CheckSubnetEnters
  <2> HIDE DEF after
  <2>5. Fixed(own, after, ip, place)
    BY <1>3, <2>3, <2>4 DEF Fixed, net
  <2> QED
    BY <2>1, <2>5 DEF own, ip
<1> QED
  BY <1>2, <1>3

-----------------------------------------------------------------------------
(* What lpicolour keeps of a flow.                                         *)

\* It has seen the sides it keeps a payload of, and guessed from both once it
\* has seen both.
LpiOK(col) ==
    /\ col = [seen |-> col.seen, transport |-> col.transport, ports |-> col.ports,
              use_ports |-> col.use_ports,
              payload |-> [d \in 0 .. 1 |-> col.payload[d]],
              protocol |-> col.protocol]
    /\ ~ col.use_ports =>
         /\ col.seen = {d \in 0 .. 1 : col.payload[d] # NoPayload}
         /\ col.seen = {0, 1} =>
              col.protocol = LpiProtocol(col.transport, col.payload[0], col.payload[1])

LEMMA LpiFlowOK ==
    ASSUME NEW p
    PROVE  LpiOK(LpiFlow(p))
<1>1. {d \in 0 .. 1 : NoPayload # NoPayload} # {0, 1}
  OBVIOUS
<1> QED
  BY <1>1 DEF LpiFlow, LpiOK

LEMMA LpiStepOK ==
    ASSUME NEW col, LpiOK(col), NEW p, p.way \in 0 .. 2
    PROVE  LpiOK(LpiStep(col, p))
<1> DEFINE upd == LpiUpdate(col, p)
           w   == p.way
<1>1. CASE w = 2
  BY <1>1 DEF LpiStep
<1>2. CASE w # 2
  <2>0. w \in 0 .. 1
    BY <1>2
  <2>1. /\ upd.payload = [d \in 0 .. 1 |-> IF d = w /\ col.payload[d] = NoPayload
                                           THEN p.payload ELSE col.payload[d]]
        /\ upd.seen = col.seen /\ upd.transport = col.transport
        /\ upd.use_ports = col.use_ports /\ upd.protocol = col.protocol
        /\ upd = [seen |-> upd.seen, transport |-> upd.transport, ports |-> upd.ports,
                  use_ports |-> upd.use_ports, payload |-> upd.payload,
                  protocol |-> upd.protocol]
    <3> DEFINE pay == [col.payload EXCEPT ![w] = IF @ = NoPayload THEN p.payload ELSE @]
               ps  == IF col.ports = {} THEN {p.sport, p.dport} ELSE col.ports
    <3>1. /\ col = [seen |-> col.seen, transport |-> col.transport,
                    ports |-> col.ports, use_ports |-> col.use_ports,
                    payload |-> col.payload, protocol |-> col.protocol]
          /\ col.payload = [d \in 0 .. 1 |-> col.payload[d]]
      BY DEF LpiOK
    <3>2. upd = [[col EXCEPT !.ports = ps] EXCEPT !.payload = pay]
      BY <3>1 DEF LpiUpdate
    <3>3. pay = [d \in 0 .. 1 |-> IF d = w /\ col.payload[d] = NoPayload
                                  THEN p.payload ELSE col.payload[d]]
      BY <2>0, <3>1
    <3> HIDE DEF pay, ps
    <3>4. upd = [seen |-> col.seen, transport |-> col.transport, ports |-> ps,
                 use_ports |-> col.use_ports, payload |-> pay,
                 protocol |-> col.protocol]
      BY <3>1, <3>2
    <3> HIDE DEF upd
    <3> QED
      BY <3>3, <3>4
  <2> HIDE DEF upd
  <2>2. CASE col.use_ports
    <3>1. LpiStep(col, p) = upd
      BY <1>2, <2>2 DEF LpiStep, upd
    <3> QED
      BY <2>1, <2>2, <3>1 DEF LpiOK
  <2>3. CASE ~ col.use_ports
    <3> DEFINE new   == LpiGuess(upd, w)
               fresh == LpiProtocol(upd.transport, upd.payload[0], upd.payload[1])
    <3>1. LpiStep(col, p) = new
      BY <1>2, <2>3 DEF LpiStep, upd
    <3>2. /\ new.payload = upd.payload /\ new.transport = upd.transport
          /\ new.use_ports = upd.use_ports
          /\ new.protocol = IF CheckNeeded(upd, w) THEN fresh ELSE upd.protocol
          /\ new.seen = IF upd.payload[w] # NoPayload THEN upd.seen \cup {w}
                                                      ELSE upd.seen
          /\ new = [seen |-> new.seen, transport |-> new.transport,
                    ports |-> new.ports, use_ports |-> new.use_ports,
                    payload |-> new.payload, protocol |-> new.protocol]
      <4> DEFINE guess == IF CheckNeeded(upd, w) THEN fresh ELSE upd.protocol
                 sides == IF upd.payload[w] # NoPayload THEN upd.seen \cup {w}
                                                        ELSE upd.seen
      <4>1. new = [[upd EXCEPT !.protocol = guess] EXCEPT !.seen = sides]
        BY <2>1 DEF LpiGuess
      <4> HIDE DEF guess, sides
      <4>2. new = [seen |-> sides, transport |-> upd.transport, ports |-> upd.ports,
                   use_ports |-> upd.use_ports, payload |-> upd.payload,
                   protocol |-> guess]
        BY <2>1, <4>1
      <4> HIDE DEF new
      <4> QED
        BY <4>2 DEF guess, sides
    <3> HIDE DEF new
    <3>3. /\ col.seen = {d \in 0 .. 1 : col.payload[d] # NoPayload}
          /\ col.seen = {0, 1} =>
               col.protocol = LpiProtocol(col.transport, col.payload[0], col.payload[1])
      BY <2>3 DEF LpiOK
    <3>4. new.seen = {d \in 0 .. 1 : new.payload[d] # NoPayload}
      BY <2>0, <2>1, <3>2, <3>3
    <3>5. ASSUME new.seen = {0, 1}
          PROVE  new.protocol = fresh
      <4>1. CASE w \in col.seen
        <5>1. col.payload[w] # NoPayload
          BY <3>3, <4>1
        <5>2. upd.payload = [d \in 0 .. 1 |-> col.payload[d]]
          BY <2>1, <5>1
        <5>3. new.seen = col.seen
          BY <2>1, <3>2, <4>1
        <5>4. upd.payload[0] = col.payload[0] /\ upd.payload[1] = col.payload[1]
          BY <5>2
        <5>5. ~ CheckNeeded(upd, w)
          BY <2>1, <4>1 DEF CheckNeeded
        <5> QED
          BY <2>1, <3>2, <3>3, <3>5, <5>3, <5>4, <5>5
      <4>2. CASE w \notin col.seen
        <5>1. CheckNeeded(upd, w)
          BY <2>0, <2>1, <4>2 DEF CheckNeeded
        <5> QED
          BY <3>2, <5>1
      <4> QED
        BY <4>1, <4>2
    <3>6. new.payload = [d \in 0 .. 1 |-> new.payload[d]]
      BY <2>1, <3>2
    <3>7. fresh = LpiProtocol(new.transport, new.payload[0], new.payload[1])
      BY <3>2
    <3> HIDE DEF fresh
    <3> QED
      BY <3>1, <3>2, <3>4, <3>5, <3>6, <3>7 DEF LpiOK
  <2> QED
    BY <2>2, <2>3
<1> QED
  BY <1>1, <1>2

-----------------------------------------------------------------------------
(* The inductive invariant.                                                *)

\* Nothing is exported before the modules are loaded, and the greeting
\* describes what its module says.
TableInv ==
    /\ phase = "boot" => exported = None /\ DOMAIN flows = {}
    /\ phase \in {"top", "trace"} =>
         colour_msg.types = Described(colour_msg.path, colour_msg.param)

\* What hangs on a flow is a state lpicolour can have left.
LpiInv ==
    \A k \in DOMAIN flows :
        flows[k].colour_data = None \/ LpiOK(flows[k].colour_data)

\* The places of a flow are those its ends have for good.
PlaceInv ==
    phase = "trace" =>
      \A k \in DOMAIN flows :
        /\ Fixed(modptrs["left"], nets[modptrs["left"]], k[1], flows[k].left)
        /\ Fixed(modptrs["right"], nets[modptrs["right"]], k[2], flows[k].right)

IInv == /\ TypeOK /\ ColourDataFresh /\ TableInv /\ LpiInv /\ GuessUsesBothSides
        /\ PlaceInv /\ PlacedAsAnnounced
-----------------------------------------------------------------------------
\* The modules of a configuration that could be loaded.
LEMMA LoadedModules ==
    ASSUME TypeOK, phase \in {"top", "trace"}
    PROVE  /\ ColourModule(modptrs["colour"], conf.params["colour"])
           /\ PositionModule(modptrs["left"]) /\ PositionModule(modptrs["right"])
<1>1. \A r \in Roles : Loads(r, modptrs[r], conf.params[r])
  BY DEF TypeOK
<1>2. ColourModule(modptrs["colour"], conf.params["colour"])
  <2> DEFINE path == modptrs["colour"]
             param == conf.params["colour"]
  <2>1. Loads("colour", path, param)
    BY <1>1 DEF Roles
  <2> HIDE DEF path, param
  <2>2. ColourModule(path, param)
    BY <2>1, LibraryAssumption DEF Loads, ColourModule, Kind
  <2> QED
    BY <2>2 DEF path, param
<1>3. ASSUME NEW r \in {"left", "right"}
      PROVE  PositionModule(modptrs[r])
  <2>1. Loads(r, modptrs[r], conf.params[r])
    BY <1>1 DEF Roles
  <2> QED
    BY <2>1, LibraryAssumption DEF Loads, PositionModule, Kind
<1> QED
  BY <1>2, <1>3

\* per_packet asks for the end of the flow on the side it asks about.
LEMMA AddressOfKey ==
    ASSUME NEW dir \in {DIR_OUTBOUND, DIR_INBOUND}, NEW p
    PROVE  /\ AddressFor("left", dir, p) = KeyOf(dir, p)[1]
           /\ AddressFor("right", dir, p) = KeyOf(dir, p)[2]
BY DEF AddressFor, KeyOf, ChecksSource, SIDE_LEFT, SIDE_RIGHT, DIR_OUTBOUND, DIR_INBOUND

\* What handling a packet does to flows, rows and the exported message.
HandleDoes(p, dir, expired, first, second) ==
    LET key   == KeyOf(dir, p)
        nets1 == RowsAfter(nets, Callee(dir, 1), dir, p)
        place == [r \in {"left", "right"} |->
                    IF r = Callee(dir, 1) THEN first ELSE second]
        flow  == IF key \in DOMAIN flows THEN flows[key]
                 ELSE [left |-> place["left"], right |-> place["right"],
                       colour_data |-> None, load |-> loads]
    IN  /\ first \in PlacesOf(nets, Callee(dir, 1), dir, p)
        /\ second \in PlacesOf(nets1, Callee(dir, 2), dir, p)
        /\ nets' = RowsAfter(nets1, Callee(dir, 2), dir, p)
        /\ key \in DOMAIN flows'
        /\ flows'[key] = [left |-> flow.left, right |-> flow.right,
                          colour_data |-> ColourData(flow.colour_data, p),
                          load |-> flow.load]
        /\ \A k \in DOMAIN flows' : k # key => k \in DOMAIN flows /\ flows'[k] = flows[k]
        /\ exported' # None => /\ exported'.key = key /\ exported'.place = place
                               /\ exported'.type \in ColourIds(flow.colour_data, p)

LEMMA HandleIs ==
    ASSUME TypeOK, NEW p, NEW dir, NEW expired, Handle(p, dir, expired)
    PROVE  \E first, second : HandleDoes(p, dir, expired, first, second)
<1> DEFINE key   == KeyOf(dir, p)
           nets1 == RowsAfter(nets, Callee(dir, 1), dir, p)
           place(first, second) ==
             [r \in {"left", "right"} |-> IF r = Callee(dir, 1) THEN first ELSE second]
           flow(pl) == IF key \in DOMAIN flows THEN flows[key]
                       ELSE [left |-> pl["left"], right |-> pl["right"],
                             colour_data |-> None, load |-> loads]
           kept(pl) == IF ColourIds(flow(pl).colour_data, p) = {} THEN DOMAIN flows
                       ELSE DOMAIN flows \ expired
<1>1. PICK first \in PlacesOf(nets, Callee(dir, 1), dir, p),
           second \in PlacesOf(nets1, Callee(dir, 2), dir, p) :
        LET pl == place(first, second)
        IN  /\ nets' = RowsAfter(nets1, Callee(dir, 2), dir, p)
            /\ flows' = [k \in kept(pl) \cup {key} |->
                           IF k = key
                           THEN [flow(pl) EXCEPT !.colour_data = ColourData(@, p)]
                           ELSE flows[k]]
            /\ IF ColourIds(flow(pl).colour_data, p) = {} THEN exported' = None
               ELSE \E type \in ColourIds(flow(pl).colour_data, p) :
                      exported' = [key |-> key, type |-> type, place |-> pl]
  BY DEF Handle
<1> DEFINE pl == place(first, second)
           f  == flow(pl)
<1>2. f = [left |-> f.left, right |-> f.right, colour_data |-> f.colour_data,
           load |-> f.load]
  BY DEF TypeOK
<1> HIDE DEF key, nets1, place, pl
<1>3. key \in DOMAIN flows' /\ flows'[key] = [f EXCEPT !.colour_data = ColourData(@, p)]
  BY <1>1 DEF pl
<1>4. \A k \in DOMAIN flows' : k # key => k \in DOMAIN flows /\ flows'[k] = flows[k]
  BY <1>1 DEF pl
<1>5. exported' # None =>
        \E type \in ColourIds(f.colour_data, p) :
           exported' = [key |-> key, type |-> type, place |-> pl]
  BY <1>1 DEF pl
<1> HIDE DEF flow, kept, f
<1>6. flows'[key] = [left |-> f.left, right |-> f.right,
                     colour_data |-> ColourData(f.colour_data, p), load |-> f.load]
  BY <1>2, <1>3
<1>7. exported' # None => /\ exported'.key = key /\ exported'.place = pl
                          /\ exported'.type \in ColourIds(f.colour_data, p)
  BY <1>5
<1> QED
  BY <1>1, <1>3, <1>4, <1>6, <1>7
    DEF HandleDoes, key, nets1, place, flow, f, pl

\* A flow with a payload of both sides has the guess of both.
LEMMA LpiGuesses ==
    ASSUME LpiInv
    PROVE  GuessUsesBothSides
<1> SUFFICES ASSUME NEW k \in DOMAIN flows, flows[k].colour_data # None,
                    ~ flows[k].colour_data.use_ports,
                    \A d \in 0 .. 1 : flows[k].colour_data.payload[d] # NoPayload
             PROVE  flows[k].colour_data.protocol =
                      LpiProtocol(flows[k].colour_data.transport,
                                  flows[k].colour_data.payload[0],
                                  flows[k].colour_data.payload[1])
  BY DEF GuessUsesBothSides
<1> DEFINE col == flows[k].colour_data
<1>1. LpiOK(col)
  BY DEF LpiInv
<1> HIDE DEF col
<1>2. ~ col.use_ports /\ \A d \in 0 .. 1 : col.payload[d] # NoPayload
  BY DEF col
<1>3. col.seen = {d \in 0 .. 1 : col.payload[d] # NoPayload}
  BY <1>1, <1>2 DEF LpiOK
<1>4. col.seen = 0 .. 1 /\ 0 .. 1 = {0, 1}
  BY <1>2, <1>3
<1>5. col.protocol = LpiProtocol(col.transport, col.payload[0], col.payload[1])
  BY <1>1, <1>2, <1>4 DEF LpiOK
<1> QED
  BY <1>5 DEF col

LEMMA HandleInv ==
    ASSUME IInv, phase = "trace", NEW p \in Packets,
           NEW dir \in {DIR_OUTBOUND, DIR_INBOUND}, NEW expired,
           Handle(p, dir, expired),
           UNCHANGED <<file, conf, restart_config, phase, modptrs, inited, loads,
                       colour_msg>>
    PROVE  /\ IInv'
           /\ exported' # None =>
                /\ exported'.type \in Nat
                /\ exported'.type < Len(Info(modptrs["colour"], conf.params["colour"]))
<1> DEFINE key   == KeyOf(dir, p)
           left  == modptrs["left"]
           right == modptrs["right"]
           nets1 == RowsAfter(nets, Callee(dir, 1), dir, p)
<1>0. /\ TypeOK /\ ColourDataFresh /\ LpiInv /\ PlaceInv /\ p.way \in 0 .. 2
  BY PacketsAssumption DEF IInv
<1>1. /\ PositionModule(left) /\ PositionModule(right)
      /\ ColourModule(modptrs["colour"], conf.params["colour"])
  BY <1>0, LoadedModules
<1>2. PICK first, second : HandleDoes(p, dir, expired, first, second)
  BY <1>0, HandleIs
<1> DEFINE place == [r \in {"left", "right"} |-> IF r = Callee(dir, 1) THEN first ELSE second]
           flow  == IF key \in DOMAIN flows THEN flows[key]
                    ELSE [left |-> place["left"], right |-> place["right"],
                          colour_data |-> None, load |-> loads]
<1>3. /\ first \in PlacesOf(nets, Callee(dir, 1), dir, p)
      /\ second \in PlacesOf(nets1, Callee(dir, 2), dir, p)
      /\ nets' = RowsAfter(nets1, Callee(dir, 2), dir, p)
      /\ key \in DOMAIN flows'
      /\ flows'[key] = [left |-> flow.left, right |-> flow.right,
                        colour_data |-> ColourData(flow.colour_data, p),
                        load |-> flow.load]
      /\ \A k \in DOMAIN flows' : k # key => k \in DOMAIN flows /\ flows'[k] = flows[k]
      /\ exported' # None => /\ exported'.key = key /\ exported'.place = place
                             /\ exported'.type \in ColourIds(flow.colour_data, p)
  BY <1>2 DEF HandleDoes
<1>4. \/ /\ Callee(dir, 1) = "left" /\ Callee(dir, 2) = "right"
         /\ place["left"] = first /\ place["right"] = second
      \/ /\ Callee(dir, 1) = "right" /\ Callee(dir, 2) = "left"
         /\ place["right"] = first /\ place["left"] = second
  BY DEF Callee, DIR_OUTBOUND, DIR_INBOUND
<1>5. IsNets(nets)
  BY <1>0 DEF TypeOK, IsNets, IsRows
<1>6. /\ IsNets(nets1)
      /\ \A path, ip, pl : PositionModule(path) /\ Fixed(path, nets[path], ip, pl) =>
                             Fixed(path, nets1[path], ip, pl)
  BY <1>1, <1>4, <1>5, RowsAfterKeeps
<1>7. /\ IsNets(nets')
      /\ \A path, ip, pl : PositionModule(path) /\ Fixed(path, nets1[path], ip, pl) =>
                             Fixed(path, nets'[path], ip, pl)
  BY <1>1, <1>3, <1>4, <1>6, RowsAfterKeeps
<1>8. /\ Fixed(left, nets'[left], key[1], place["left"])
      /\ Fixed(right, nets'[right], key[2], place["right"])
  <2>1. Fixed(modptrs[Callee(dir, 1)], nets1[modptrs[Callee(dir, 1)]],
              AddressFor(Callee(dir, 1), dir, p), first)
    BY <1>1, <1>3, <1>4, <1>5, RowsAfterFixes
  <2>2. Fixed(modptrs[Callee(dir, 1)], nets'[modptrs[Callee(dir, 1)]],
              AddressFor(Callee(dir, 1), dir, p), first)
    BY <1>1, <1>4, <1>7, <2>1
  <2>3. Fixed(modptrs[Callee(dir, 2)], nets'[modptrs[Callee(dir, 2)]],
              AddressFor(Callee(dir, 2), dir, p), second)
    BY <1>1, <1>3, <1>4, <1>6, RowsAfterFixes
  <2> QED
    BY <1>4, <2>2, <2>3, AddressOfKey
<1>9. /\ flow = [left |-> flow.left, right |-> flow.right,
                 colour_data |-> flow.colour_data, load |-> flow.load]
      /\ flow.load = loads
      /\ Kind(modptrs["colour"]) # "lpi" => flow.colour_data = None
      /\ flow.colour_data = None \/ LpiOK(flow.colour_data)
      /\ Fixed(left, nets'[left], key[1], flow.left)
      /\ Fixed(right, nets'[right], key[2], flow.right)
  <2>1. CASE key \in DOMAIN flows
    <3>1. flow = flows[key]
      BY <2>1
    <3>2. /\ Fixed(left, nets[left], key[1], flow.left)
          /\ Fixed(right, nets[right], key[2], flow.right)
      BY <1>0, <2>1, <3>1 DEF PlaceInv
    <3>3. /\ Fixed(left, nets'[left], key[1], flow.left)
          /\ Fixed(right, nets'[right], key[2], flow.right)
      BY <1>1, <1>6, <1>7, <3>2
    <3> HIDE DEF flow
    <3> QED
      BY <1>0, <2>1, <3>1, <3>3 DEF TypeOK, ColourDataFresh, LpiInv
  <2>2. CASE key \notin DOMAIN flows
    <3>1. flow = [left |-> place["left"], right |-> place["right"],
                  colour_data |-> None, load |-> loads]
      BY <2>2
    <3> HIDE DEF flow, place
    <3>2. /\ flow.left = place["left"] /\ flow.right = place["right"]
          /\ flow.colour_data = None /\ flow.load = loads
      BY <3>1
    <3> QED
      BY <1>8, <3>1, <3>2
  <2> QED
    BY <2>1, <2>2
<1> HIDE DEF flow, place
<1>10. TypeOK'
  <2>1. \A k \in DOMAIN flows' : flows'[k] = [left |-> flows'[k].left,
                                              right |-> flows'[k].right,
                                              colour_data |-> flows'[k].colour_data,
                                              load |-> flows'[k].load]
    BY <1>0, <1>3 DEF TypeOK
  <2>2. IsNets(nets')
    BY <1>7
  <2> QED
    BY <1>0, <2>1, <2>2 DEF TypeOK, Loads, IsNets, IsRows
<1>11. ColourDataFresh'
  <2>1. Kind(modptrs["colour"]) # "lpi" => ColourData(flow.colour_data, p) = None
    BY <1>9 DEF ColourData
  <2> QED
    BY <1>0, <1>3, <1>9, <2>1 DEF ColourDataFresh, Kind
<1>12. LpiInv'
  <2>1. LpiOK(LpiState(flow.colour_data, p))
    BY <1>9, LpiFlowOK DEF LpiState
  <2>2. LpiOK(LpiStep(LpiState(flow.colour_data, p), p))
    BY <1>0, <2>1, LpiStepOK
  <2>3. \/ ColourData(flow.colour_data, p) = None
        \/ LpiOK(ColourData(flow.colour_data, p))
    BY <1>9, <2>2 DEF ColourData
  <2> QED
    BY <1>0, <1>3, <2>3 DEF LpiInv
<1>13. PlaceInv'
  <2>1. ASSUME NEW k \in DOMAIN flows', k # key
        PROVE  /\ Fixed(left, nets'[left], k[1], flows'[k].left)
               /\ Fixed(right, nets'[right], k[2], flows'[k].right)
    <3>1. k \in DOMAIN flows /\ flows'[k] = flows[k]
      BY <1>3, <2>1
    <3>2. /\ Fixed(left, nets[left], k[1], flows[k].left)
          /\ Fixed(right, nets[right], k[2], flows[k].right)
      BY <1>0, <3>1 DEF PlaceInv
    <3> QED
      BY <1>1, <1>6, <1>7, <3>1, <3>2
  <2>2. flows'[key].left = flow.left /\ flows'[key].right = flow.right
    BY <1>3
  <2> QED
    BY <1>9, <2>1, <2>2 DEF PlaceInv, Fixed, Kind
<1>14. PlacedAsAnnounced'
  <2> SUFFICES ASSUME exported' # None
               PROVE  /\ Settled(left, key[1])' => place["left"] = flow.left
                      /\ Settled(right, key[2])' => place["right"] = flow.right
    BY <1>3 DEF PlacedAsAnnounced, Settled, Kind
  <2>1. ASSUME Settled(left, key[1])'
        PROVE  place["left"] = flow.left
    <3>1. Kind(left) = "multiplenet24" =>
            Net24(key[1]) # NoNet /\ SubnetRow(nets'[left], Net24(key[1])) # 0
      BY <2>1 DEF Settled, Kind
    <3> QED
      BY <1>1, <1>8, <1>9, <3>1, FixedUnique
  <2>2. ASSUME Settled(right, key[2])'
        PROVE  place["right"] = flow.right
    <3>1. Kind(right) = "multiplenet24" =>
            Net24(key[2]) # NoNet /\ SubnetRow(nets'[right], Net24(key[2])) # 0
      BY <2>2 DEF Settled, Kind
    <3> QED
      BY <1>1, <1>8, <1>9, <3>1, FixedUnique
  <2> QED
    BY <2>1, <2>2
<1>15. TableInv'
  BY DEF IInv, TableInv
<1>16. GuessUsesBothSides'
  BY <1>12, LpiGuesses, PTL
<1>17. exported' # None =>
         /\ exported'.type \in Nat
         /\ exported'.type < Len(Info(modptrs["colour"], conf.params["colour"]))
  BY <1>1, <1>3, TypeInTable
<1> QED
  BY <1>10, <1>11, <1>12, <1>13, <1>14, <1>15, <1>16, <1>17 DEF IInv

-----------------------------------------------------------------------------
(* The steps.                                                              *)

\* Without a flow or a message there is little to show.
LEMMA NoFlowsInv ==
    ASSUME TypeOK', DOMAIN flows' = {}, exported' = None, TableInv'
    PROVE  IInv'
<1>1. ColourDataFresh' /\ LpiInv' /\ GuessUsesBothSides' /\ PlaceInv'
  BY DEF ColourDataFresh, LpiInv, GuessUsesBothSides, PlaceInv
<1>2. PlacedAsAnnounced'
  BY DEF PlacedAsAnnounced
<1> QED
  BY <1>1, <1>2 DEF IInv

LEMMA InitIInv ==
    ASSUME Init
    PROVE  IInv
<1>1. DOMAIN flows = {} /\ exported = None /\ phase = "boot"
  <2>1. DOMAIN << >> = {}
    OBVIOUS
  <2> QED
    BY <2>1 DEF Init
<1>2. IsNets(nets)
  BY NoRowsIs DEF Init, IsNets
<1>3. TypeOK
  BY <1>1, <1>2 DEF Init, TypeOK, IsNets, IsRows
<1>4. ColourDataFresh /\ LpiInv /\ GuessUsesBothSides /\ PlaceInv
  BY <1>1 DEF ColourDataFresh, LpiInv, GuessUsesBothSides, PlaceInv
<1>5. TableInv /\ PlacedAsAnnounced
  BY <1>1 DEF TableInv, PlacedAsAnnounced
<1> QED
  BY <1>3, <1>4, <1>5 DEF IInv

LEMMA EndsInv ==
    ASSUME TypeOK, NEW as \in {"dead", "overrun"}, Ends(as)
    PROVE  IInv'
<1>1. DOMAIN flows' = {} /\ exported' = None /\ phase' = as
  <2>1. DOMAIN << >> = {}
    OBVIOUS
  <2> QED
    BY <2>1 DEF Ends
<1>2. UNCHANGED <<file, restart_config, modptrs, nets, loads>>
  BY DEF Ends
<1>3. TypeOK'
  BY <1>1, <1>2 DEF TypeOK
<1>4. TableInv'
  BY <1>1 DEF TableInv
<1> QED
  BY <1>1, <1>3, <1>4, NoFlowsInv

\* After load_modules the modules are those of the configuration.
LEMMA LoadTypes ==
    ASSUME TypeOK, Usable, Load
    PROVE  /\ modptrs' = conf'.modules /\ loads' \in Nat
           /\ \A r \in Roles : Loads(r, modptrs'[r], conf'.params[r])
           /\ IsNets(nets')
<1>1. modptrs' = conf'.modules /\ loads' \in Nat
  BY DEF Load, TypeOK
<1>2. \A r \in Roles : Loads(r, modptrs'[r], conf'.params[r])
  BY DEF Load, Usable, LoadsAll
<1>3. IsNets(nets')
  BY NoRowsIs DEF Load, FreshRows, IsNets
<1> QED
  BY <1>1, <1>2, <1>3

LEMMA BootInv ==
    ASSUME IInv, Boot
    PROVE  IInv'
<1>0. TypeOK /\ TableInv /\ phase = "boot"
  BY DEF IInv, Boot
<1>1. CASE ~ Usable
  BY <1>0, <1>1, EndsInv DEF Boot, Die
<1>2. CASE Usable
  <2>1. /\ Load /\ phase' = "top" /\ restart_config' = FALSE
        /\ colour_msg' = [path |-> modptrs'["colour"], param |-> conf'.params["colour"],
                          types |-> Described(modptrs'["colour"], conf'.params["colour"])]
        /\ UNCHANGED <<file, flows, exported>>
    BY <1>2 DEF Boot
  <2>2. TypeOK'
    BY <1>0, <1>2, <2>1, LoadTypes DEF TypeOK, Loads, IsNets, IsRows
  <2>3. TableInv'
    <3>1. colour_msg'.types = Described(colour_msg'.path, colour_msg'.param)
      <4> DEFINE path  == modptrs'["colour"]
                 param == conf'.params["colour"]
                 types == Described(path, param)
      <4>1. colour_msg' = [path |-> path, param |-> param, types |-> types]
        BY <2>1
      <4>2. /\ colour_msg'.path = path /\ colour_msg'.param = param
            /\ colour_msg'.types = types
        <5> HIDE DEF path, param, types
        <5> QED
          BY <4>1
      <4> HIDE DEF path, param
      <4> QED
        BY <4>2
    <3>2. phase' = "top"
      BY <2>1
    <3> QED
      BY <3>1, <3>2 DEF TableInv
  <2> QED
    BY <1>0, <2>1, <2>2, <2>3, NoFlowsInv DEF TableInv
<1> QED
  BY <1>1, <1>2

LEMMA TopInv ==
    ASSUME IInv, NEW started \in BOOLEAN, Top(started)
    PROVE  IInv'
<1>0. TypeOK /\ TableInv /\ phase = "top"
  BY DEF IInv, Top
<1>1. CASE (restart_config /\ ~ Usable) \/ ~ started
  BY <1>0, <1>1, EndsInv DEF Top, Die
<1>2. CASE (restart_config => Usable) /\ started
  <2>1. /\ IF restart_config THEN Load
           ELSE UNCHANGED <<conf, modptrs, inited, nets, loads>>
        /\ restart_config' = FALSE /\ flows' = << >> /\ phase' = "trace"
        /\ exported' = None /\ UNCHANGED <<file, colour_msg>>
    BY <1>2 DEF Top, Cleared
  <2>2. DOMAIN << >> = {}
    OBVIOUS
  <2>3. DOMAIN flows' = {}
    BY <2>1, <2>2
  <2>4. TypeOK'
    <3>1. CASE restart_config
      <4>1. Load /\ Usable
        BY <1>2, <2>1, <3>1
      <4>2. /\ modptrs' = conf'.modules /\ loads' \in Nat
            /\ \A r \in Roles : Loads(r, modptrs'[r], conf'.params[r])
            /\ IsNets(nets')
        BY <1>0, <4>1, LoadTypes
      <4>3. file' \in ConfigFiles /\ restart_config' \in BOOLEAN /\ phase' = "trace"
        BY <1>0, <2>1 DEF TypeOK
      <4>4. \A k \in DOMAIN flows' : flows'[k] = [left |-> flows'[k].left,
                                              right |-> flows'[k].right,
                                              colour_data |-> flows'[k].colour_data,
                                              load |-> flows'[k].load]
        BY <2>3
      <4> QED
        BY <4>2, <4>3, <4>4 DEF TypeOK, IsNets, IsRows
    <3>2. CASE ~ restart_config
      <4>1. UNCHANGED <<conf, modptrs, nets, loads, file>>
        BY <2>1, <3>2
      <4>2. /\ modptrs' = conf'.modules /\ loads' \in Nat
            /\ \A r \in Roles : Loads(r, modptrs'[r], conf'.params[r])
            /\ IsNets(nets')
        BY <1>0, <4>1 DEF TypeOK, IsNets, IsRows
      <4>3. file' \in ConfigFiles /\ restart_config' \in BOOLEAN /\ phase' = "trace"
        BY <1>0, <2>1 DEF TypeOK
      <4>4. \A k \in DOMAIN flows' : flows'[k] = [left |-> flows'[k].left,
                                              right |-> flows'[k].right,
                                              colour_data |-> flows'[k].colour_data,
                                              load |-> flows'[k].load]
        BY <2>3
      <4> QED
        BY <4>2, <4>3, <4>4 DEF TypeOK, IsNets, IsRows
    <3> QED
      BY <3>1, <3>2
  <2>5. TableInv'
    BY <1>0, <2>1 DEF TableInv
  <2> QED
    BY <2>1, <2>3, <2>4, <2>5, NoFlowsInv
<1> QED
  BY <1>1, <1>2

LEMMA PerPacketInv ==
    ASSUME IInv, NEW p \in Packets, NEW expired, PerPacket(p, expired)
    PROVE  /\ IInv'
           /\ exported' # None =>
                /\ exported'.type \in Nat
                /\ exported'.type < Len(Info(modptrs["colour"], conf.params["colour"]))
                /\ UNCHANGED <<conf, modptrs, colour_msg>>
                /\ phase = "trace"
<1>0. TypeOK /\ phase = "trace"
  BY DEF IInv, PerPacket
<1>1. ASSUME NEW as \in {"dead", "overrun"}, Ends(as)
      PROVE  IInv' /\ exported' = None
  BY <1>0, <1>1, EndsInv DEF Ends
<1>2. CASE /\ Direction(p) \in {DIR_OUTBOUND, DIR_INBOUND}
           /\ Handle(p, Direction(p), expired)
           /\ UNCHANGED <<file, conf, restart_config, phase, modptrs, inited,
                          loads, colour_msg>>
  BY <1>0, <1>2, HandleInv
<1> QED
  BY <1>1, <1>2 DEF PerPacket, Die

LEMMA EndTraceInv ==
    ASSUME IInv, NEW failed \in BOOLEAN, EndTrace(failed)
    PROVE  IInv'
<1>0. TypeOK /\ TableInv /\ LpiInv /\ phase = "trace"
  BY DEF IInv, EndTrace
<1>1. CASE Die
  BY <1>0, <1>1, EndsInv DEF Die
<1>2. CASE /\ phase' = "top" /\ flows' = (IF failed THEN flows ELSE << >>)
           /\ exported' = None
           /\ UNCHANGED <<file, conf, restart_config, modptrs, inited, nets,
                          loads, colour_msg>>
  <2>1. DOMAIN << >> = {}
    OBVIOUS
  <2>2. \A k \in DOMAIN flows' : k \in DOMAIN flows /\ flows'[k] = flows[k]
    BY <1>2, <2>1
  <2>3. TypeOK'
    BY <1>0, <1>2, <2>2 DEF TypeOK, Loads
  <2>4. ColourDataFresh' /\ PlaceInv' /\ PlacedAsAnnounced'
    BY <1>2 DEF ColourDataFresh, PlaceInv, PlacedAsAnnounced
  <2>5. LpiInv'
    BY <1>0, <2>2 DEF LpiInv
  <2>6. GuessUsesBothSides'
    BY <2>5, LpiGuesses, PTL
  <2>7. TableInv'
    BY <1>0, <1>2 DEF TableInv
  <2> QED
    BY <2>3, <2>4, <2>5, <2>6, <2>7 DEF IInv
<1> QED
  BY <1>1, <1>2 DEF EndTrace

\* Signals and edits of the file leave flows and modules alone.
LEMMA OutsideInv ==
    ASSUME IInv, exported' = None \/ UNCHANGED exported,
           file' \in ConfigFiles, restart_config' \in BOOLEAN,
           UNCHANGED <<conf, phase, modptrs, nets, loads, colour_msg, flows>>
    PROVE  IInv'
<1>1. TypeOK'
  BY DEF IInv, TypeOK, Loads
<1>2. ColourDataFresh' /\ PlaceInv'
  BY DEF IInv, ColourDataFresh, PlaceInv, Kind, Fixed
<1>3. LpiInv' /\ GuessUsesBothSides'
  BY DEF IInv, LpiInv, GuessUsesBothSides
<1>4. PlacedAsAnnounced'
  BY DEF IInv, PlacedAsAnnounced, Settled, Kind
<1>5. TableInv'
  BY DEF IInv, TableInv
<1> QED
  BY <1>1, <1>2, <1>3, <1>4, <1>5 DEF IInv

LEMMA NextIInv ==
    ASSUME IInv, [Next]_vars
    PROVE  IInv'
<1>1. CASE Boot
  BY <1>1, BootInv
<1>2. ASSUME NEW started \in BOOLEAN, Top(started)
      PROVE  IInv'
  BY <1>2, TopInv
<1>3. ASSUME NEW p \in Packets, NEW expired \in SUBSET DOMAIN flows,
             PerPacket(p, expired)
      PROVE  IInv'
  BY <1>3, PerPacketInv
<1>4. ASSUME NEW failed \in BOOLEAN, EndTrace(failed)
      PROVE  IInv'
  BY <1>4, EndTraceInv
<1>5. CASE Sigusr1
  BY <1>5, OutsideInv DEF Sigusr1, IInv, TypeOK
<1>6. ASSUME NEW f \in ConfigFiles, EditFile(f)
      PROVE  IInv'
  BY <1>6, OutsideInv DEF EditFile, IInv, TypeOK
<1>7. CASE UNCHANGED vars
  BY <1>7, OutsideInv DEF vars, IInv, TypeOK
<1> QED
  BY <1>1, <1>2, <1>3, <1>4, <1>5, <1>6, <1>7 DEF Next

-----------------------------------------------------------------------------
(* The theorems.                                                           *)

\* The strengthened invariant: what the modules keep, what hangs on a flow,
\* the rows that place it and the table of types fit one another.
THEOREM ConfigInvariant == Spec => []IInv
<1>1. Init => IInv
  BY InitIInv
<1>2. IInv /\ [Next]_vars => IInv'
  BY NextIInv
<1> QED
  BY <1>1, <1>2, PTL DEF Spec

\* The variables keep their types; in particular the modules in use are always
\* those of the configuration in use.
THEOREM ConfigTypes == Spec => []TypeOK
<1>1. IInv => TypeOK
  BY DEF IInv
<1> QED
  BY <1>1, ConfigInvariant, PTL

\* No packet meets a flow with the colour_data of a module that is no longer
\* loaded: init_packets() is called before the first packet of every trace,
\* also after a trace that failed.
THEOREM ColourDataIsFresh == Spec => []ColourDataFresh
<1>1. IInv => ColourDataFresh
  BY DEF IInv
<1> QED
  BY <1>1, ConfigInvariant, PTL

\* lpicolour's last guess for a flow it has seen data of both ways is that of
\* libprotoident for the data of both, whichever came first.
THEOREM GuessIsOfBothSides == Spec => []GuessUsesBothSides
<1>1. IInv => GuessUsesBothSides
  BY DEF IInv
<1> QED
  BY <1>1, ConfigInvariant, PTL

\* The ends of a packet are where the FLOW message of its flow put them, for
\* every position module, any parameter and number of networks and either
\* direction: an end in a network that found all the rows taken excepted, and
\* until a scan has left its array.
THEOREM PlacesAreAnnounced == Spec => []PlacedAsAnnounced
<1>1. IInv => PlacedAsAnnounced
  BY DEF IInv
<1> QED
  BY <1>1, ConfigInvariant, PTL

\* A packet message with the table its module had at the start of the server
\* names a type of that table, unless a colour of the bpf configuration turns
\* black and ends the table early.
THEOREM TypesAreDescribed ==
    ASSUME NoBlack
    PROVE  Spec => []TypesDescribed
<1>1. Init => TypesDescribed
  BY DEF Init, TypesDescribed
<1>2. ASSUME IInv, TypesDescribed, [Next]_vars
      PROVE  TypesDescribed'
  <2>1. CASE exported' = None
    BY <2>1 DEF TypesDescribed
  <2>2. ASSUME NEW p \in Packets, NEW expired \in SUBSET DOMAIN flows,
               PerPacket(p, expired), exported' # None
        PROVE  TypesDescribed'
    <3> DEFINE path  == modptrs["colour"]
               param == conf.params["colour"]
    <3>1. /\ exported'.type < Len(Info(path, param))
          /\ UNCHANGED <<conf, modptrs, colour_msg>> /\ phase = "trace"
      BY <1>2, <2>2, PerPacketInv
    <3>2. colour_msg.types = Described(colour_msg.path, colour_msg.param)
      BY <1>2, <3>1 DEF IInv, TableInv
    <3>3. Described(path, param) = Info(path, param)
      BY <1>2, <3>1, LoadedModules, AllDescribed DEF IInv
    <3> HIDE DEF path, param
    <3>4. path = colour_msg.path /\ param = colour_msg.param
            => exported'.type < Len(colour_msg.types)
      BY <3>1, <3>2, <3>3
    <3> QED
      BY <3>1, <3>4 DEF TypesDescribed, path, param
  <2>3. CASE Boot /\ exported' # None
    BY <1>2, <2>3 DEF IInv, TableInv, Boot, Die, Ends
  <2>4. CASE UNCHANGED vars
    BY <1>2, <2>4 DEF TypesDescribed, vars
  <2>5. ASSUME NEW started \in BOOLEAN, Top(started)
        PROVE  exported' = None
    BY <2>5 DEF Top, Die, Ends
  <2>6. ASSUME NEW failed \in BOOLEAN, EndTrace(failed)
        PROVE  exported' = None
    BY <2>6 DEF EndTrace, Die, Ends
  <2>7. (Sigusr1 \/ \E f \in ConfigFiles : EditFile(f)) => exported' = None
    BY DEF Sigusr1, EditFile
  <2> QED
    BY <1>2, <2>1, <2>2, <2>3, <2>4, <2>5, <2>6, <2>7 DEF Next
<1>3. Spec => []IInv
  BY ConfigInvariant
<1> QED
  BY <1>1, <1>2, <1>3, PTL DEF Spec
=============================================================================
