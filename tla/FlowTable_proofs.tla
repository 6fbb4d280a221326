-------------------------- MODULE FlowTable_proofs --------------------------
(***************************************************************************)
(* Proofs about FlowTable, for any addresses, clients and times.           *)
(*                                                                         *)
(* First the lemmas about the list and the map of the lru container, then  *)
(* the inductive invariant IInv, which is the conjunction of the invariants *)
(* the runs check, with one lemma per action.  The last part adds          *)
(* TimesInv, that the list is in the order of the times: it holds only     *)
(* when timestamps do not go back, and is what makes the early exit of     *)
(* expire_flows right.                                                     *)
(***************************************************************************)
EXTENDS FlowTable, SequenceTheorems, TLAPS

\* find() of a key that is on the list: the list keeps its length, the key is
\* its last element and the others close the gap it left.
LEMMA FindListProperties ==
  ASSUME NEW S, NEW list \in Seq(S), NEW k \in S,
         \E i \in 1 .. Len(list) : list[i] = k,
         \A i, j \in 1 .. Len(list) : list[i] = list[j] => i = j
  PROVE  /\ FindList(list, k) \in Seq(S)
         /\ Len(FindList(list, k)) = Len(list)
         /\ FindList(list, k)[Len(list)] = k
         /\ \A i \in 1 .. Len(list) - 1 : 
              FindList(list, k)[i] = IF i < Node(list, k) THEN list[i] ELSE list[i+1]
         /\ Node(list, k) \in 1 .. Len(list) /\ list[Node(list,k)] = k
<1> DEFINE m == Node(list, k)
<1>1. m \in 1 .. Len(list) /\ list[m] = k
  BY DEF Node
<1>2. Len(list) \in Nat
  BY LenProperties
<1> HIDE DEF m
<1>3. /\ SubSeq(list, 1, m-1) \in Seq(S)
      /\ Len(SubSeq(list, 1, m-1)) = m - 1
      /\ \A i \in 1 .. m-1 : SubSeq(list, 1, m-1)[i] = list[i]
  BY <1>1, <1>2, SubSeqProperties
<1>4. /\ SubSeq(list, m+1, Len(list)) \in Seq(S)
      /\ Len(SubSeq(list, m+1, Len(list))) = Len(list) - m
      /\ \A i \in 1 .. Len(list) - m : SubSeq(list, m+1, Len(list))[i] = list[m+i]
  BY <1>1, <1>2, SubSeqProperties
<1>5. /\ RemoveAt(list, m) \in Seq(S)
      /\ Len(RemoveAt(list, m)) = Len(list) - 1
      /\ \A i \in 1 .. Len(list) - 1 :
           RemoveAt(list, m)[i] = IF i < m THEN list[i] ELSE list[i+1]
  <2> DEFINE a == SubSeq(list, 1, m-1)
             b == SubSeq(list, m+1, Len(list))
  <2>1. RemoveAt(list, m) = a \o b
    BY DEF RemoveAt
  <2>2. /\ a \in Seq(S) /\ Len(a) = m - 1
        /\ \A i \in 1 .. m-1 : a[i] = list[i]
    BY <1>3
  <2>3. /\ b \in Seq(S) /\ Len(b) = Len(list) - m
        /\ \A i \in 1 .. Len(list) - m : b[i] = list[m+i]
    BY <1>4
  <2> HIDE DEF a, b
  <2>4. /\ a \o b \in Seq(S)
        /\ Len(a \o b) = Len(a) + Len(b)
        /\ \A i \in 1 .. Len(a) + Len(b) :
             (a \o b)[i] = IF i <= Len(a) THEN a[i] ELSE b[i - Len(a)]
    <3>1. a \in Seq(S) /\ b \in Seq(S)
      BY <2>2, <2>3
    <3> QED
      BY ONLY <3>1, ConcatProperties
  <2>5. ASSUME NEW i \in 1 .. Len(list) - 1
        PROVE  (a \o b)[i] = IF i < m THEN list[i] ELSE list[i+1]
    <3>1. CASE i < m
      BY <1>1, <1>2, <2>2, <2>3, <2>4, <3>1
    <3>2. CASE ~ (i < m)
      <4>1. /\ i - (m-1) \in 1 .. Len(list) - m
            /\ m + (i - (m-1)) = i + 1
        BY <1>1, <1>2, <3>2
      <4>2. (a \o b)[i] = b[i - (m-1)]
        BY <1>1, <1>2, <2>2, <2>3, <2>4, <3>2
      <4>3. b[i - (m-1)] = list[m + (i - (m-1))]
        BY <2>3, <4>1
      <4> QED
        BY <3>2, <4>1, <4>2, <4>3
    <3> QED
      BY <3>1, <3>2
  <2> QED
    BY <1>1, <1>2, <2>1, <2>2, <2>3, <2>4, <2>5
<1> QED
  BY <1>1, <1>2, <1>5, AppendProperties DEF FindList, m
-----------------------------------------------------------------------------
(* The table and the views at any point of a handler. *)

TableOK(list, d, i) ==
  /\ list \in Seq(Key)
  /\ DOMAIN d \subseteq Key
  /\ \A k \in DOMAIN d : d[k] \in FlowInfo
  /\ i \in Nat
  /\ Consistent(list, d)
  /\ \A k \in DOMAIN d : d[k].flow_id + 1 < i
  /\ \A k, l \in DOMAIN d :
       k # l => /\ d[k].flow_id # d[l].flow_id
                /\ d[k].flow_id # d[l].flow_id + 1

ViewOK(d, v) ==
  /\ v \in [Clients -> SUBSET HalfFlow]
  /\ \A c \in clients, k \in DOMAIN d, dir \in Directions : \E r \in v[c] :
       r.id = HalfId(d[k], dir) /\ r.key = k /\ r.from = dir
  /\ \A c \in clients : \A r \in v[c] :
       r.key \in DOMAIN d /\ r.id = HalfId(d[r.key], r.from)

\* Touching a flow that is in the table keeps the table consistent and the
\* views faithful.
LEMMA TouchOK ==
  ASSUME NEW list, NEW d, NEW i, NEW v, NEW k \in DOMAIN d, NEW secs \in Times,
         TableOK(list, d, i), ViewOK(d, v)
  PROVE  /\ TableOK(FindList(list, k), Touch(d, k, secs), i)
         /\ ViewOK(Touch(d, k, secs), v)
<1> DEFINE l == FindList(list, k)
           e == Touch(d, k, secs)
           m == Node(list, k)
<1>1. /\ list \in Seq(Key) /\ k \in Key /\ Len(list) \in Nat
      /\ \E j \in 1 .. Len(list) : list[j] = k
      /\ \A p, q \in 1 .. Len(list) : list[p] = list[q] => p = q
  BY LenProperties DEF TableOK, Consistent
<1>2. /\ l \in Seq(Key) /\ Len(l) = Len(list) /\ l[Len(list)] = k
      /\ \A j \in 1 .. Len(list) - 1 :
           l[j] = IF j < m THEN list[j] ELSE list[j+1]
      /\ m \in 1 .. Len(list) /\ list[m] = k
  BY <1>1, FindListProperties
<1>3. /\ DOMAIN e = DOMAIN d
      /\ \A x \in DOMAIN d : /\ e[x] \in FlowInfo
                             /\ e[x].flow_id = d[x].flow_id
                             /\ e[x].init_dir = d[x].init_dir
  BY DEF Touch, TableOK, FlowInfo
<1> HIDE DEF l, e, m
<1> DEFINE idx == [p \in 1 .. Len(list) |-> IF p = Len(list) THEN m
                                         ELSE IF p < m THEN p ELSE p + 1]
<1>3a. \A p \in 1 .. Len(list) : idx[p] \in 1 .. Len(list) /\ l[p] = list[idx[p]]
  <2> SUFFICES ASSUME NEW p \in 1 .. Len(list)
               PROVE  idx[p] \in 1 .. Len(list) /\ l[p] = list[idx[p]]
    OBVIOUS
  <2>1. CASE p = Len(list)
    BY <1>2, <2>1
  <2>2. CASE p # Len(list)
    <3>1. p \in 1 .. Len(list) - 1
      BY <1>1, <2>2
    <3>2. l[p] = IF p < m THEN list[p] ELSE list[p+1]
      BY <1>2, <3>1
    <3> QED
      BY <1>1, <2>2, <3>1, <3>2
  <2> QED
    BY <2>1, <2>2
<1>3b. \A p, q \in 1 .. Len(list) : idx[p] = idx[q] => p = q
  BY <1>1, <1>2
<1>3c. \A q \in 1 .. Len(list) : \E p \in 1 .. Len(list) : idx[p] = q
  <2> SUFFICES ASSUME NEW q \in 1 .. Len(list)
               PROVE  \E p \in 1 .. Len(list) : idx[p] = q
    OBVIOUS
  <2>1. CASE q = m
    BY <1>1, <2>1
  <2>2. CASE q < m
    BY <1>1, <1>2, <2>2
  <2>3. CASE q > m
    <3>1. q - 1 \in 1 .. Len(list) /\ idx[q - 1] = q
      BY <1>1, <1>2, <2>3
    <3> QED
      BY <3>1
  <2> QED
    BY <1>2, <2>1, <2>2, <2>3
<1> HIDE DEF idx
<1>4. \A p, q \in 1 .. Len(l) : l[p] = l[q] => p = q
  <2> SUFFICES ASSUME NEW p \in 1 .. Len(list), NEW q \in 1 .. Len(list),
                      l[p] = l[q]
               PROVE  p = q
    BY <1>2
  <2>1. list[idx[p]] = list[idx[q]]
    BY <1>3a
  <2>2. idx[p] = idx[q]
    BY <1>1, <1>3a, <2>1
  <2> QED
    BY <1>3b, <2>2
<1>5. /\ \A p \in 1 .. Len(l) : l[p] \in DOMAIN e
      /\ \A x \in DOMAIN e : \E p \in 1 .. Len(l) : l[p] = x
  <2>1. /\ \A p \in 1 .. Len(list) : list[p] \in DOMAIN d
        /\ \A x \in DOMAIN d : \E q \in 1 .. Len(list) : list[q] = x
    BY DEF TableOK, Consistent
  <2>2. ASSUME NEW p \in 1 .. Len(list) PROVE l[p] \in DOMAIN e
    BY <1>3, <1>3a, <2>1
  <2>3. ASSUME NEW x \in DOMAIN d PROVE \E p \in 1 .. Len(list) : l[p] = x
    <3>1. PICK q \in 1 .. Len(list) : list[q] = x
      BY <2>1
    <3>2. PICK p \in 1 .. Len(list) : idx[p] = q
      BY <1>3c
    <3> QED
      BY <1>3a, <3>1, <3>2
  <2> QED
    BY <1>2, <1>3, <2>2, <2>3
<1>6. TableOK(l, e, i)
  <2>1. Consistent(l, e)
    BY <1>4, <1>5 DEF Consistent
  <2>2. DOMAIN e \subseteq Key /\ \A x \in DOMAIN e : e[x] \in FlowInfo
    BY <1>3 DEF TableOK
  <2>3. /\ i \in Nat
        /\ \A x \in DOMAIN e : e[x].flow_id + 1 < i
        /\ \A x, y \in DOMAIN e :
             x # y => /\ e[x].flow_id # e[y].flow_id
                      /\ e[x].flow_id # e[y].flow_id + 1
    BY <1>3 DEF TableOK
  <2> QED
    BY <1>2, <2>1, <2>2, <2>3 DEF TableOK
<1>7. ViewOK(e, v)
  BY <1>3 DEF ViewOK, HalfId
<1> QED
  BY <1>6, <1>7 DEF l, e

\* Inserting and announcing a flow that is not in the table keeps the table
\* consistent, the ids distinct and the views faithful.
LEMMA InsertOK ==
  ASSUME NEW list, NEW d, NEW i, NEW v, NEW k \in Key \ DOMAIN d,
         NEW secs \in Times, NEW dir \in Directions,
         clients \subseteq Clients, TableOK(list, d, i), ViewOK(d, v)
  PROVE  LET info == [flow_id |-> i, time |-> secs, init_dir |-> dir]
         IN  /\ TableOK(InsertList(list, k), InsertData(d, k, info), NextId(i))
             /\ ViewOK(InsertData(d, k, info),
                       Announced(v, NewFlowMsgs(k, info)))
<1> DEFINE info == [flow_id |-> i, time |-> secs, init_dir |-> dir]
           l == InsertList(list, k)
           e == InsertData(d, k, info)
           w == Announced(v, NewFlowMsgs(k, info))
<1>1. /\ list \in Seq(Key) /\ Len(list) \in Nat /\ i \in Nat
      /\ \A p \in 1 .. Len(list) : list[p] \in DOMAIN d
      /\ \A x \in DOMAIN d : \E p \in 1 .. Len(list) : list[p] = x
      /\ \A p, q \in 1 .. Len(list) : list[p] = list[q] => p = q
  BY LenProperties DEF TableOK, Consistent
<1>2. /\ l \in Seq(Key) /\ Len(l) = Len(list) + 1 /\ l[Len(list) + 1] = k
      /\ \A p \in 1 .. Len(list) : l[p] = list[p]
  BY <1>1, AppendProperties DEF InsertList
<1>3. /\ DOMAIN e = DOMAIN d \cup {k} /\ e[k] = info
      /\ \A x \in DOMAIN d : e[x] = d[x]
  BY DEF InsertData
<1>4. info \in FlowInfo
  BY <1>1 DEF FlowInfo
<1> HIDE DEF l, e
<1>5. Consistent(l, e)
  <2>1. ASSUME NEW p \in 1 .. Len(l) PROVE l[p] \in DOMAIN e
    <3>1. CASE p = Len(list) + 1
      BY <1>2, <1>3, <3>1
    <3>2. CASE p # Len(list) + 1
      <4>1. p \in 1 .. Len(list)
        BY <1>1, <1>2, <3>2
      <4> QED
        BY <1>1, <1>2, <1>3, <4>1
    <3> QED
      BY <3>1, <3>2
  <2>2. ASSUME NEW x \in DOMAIN e PROVE \E p \in 1 .. Len(l) : l[p] = x
    <3>1. CASE x = k
      BY <1>1, <1>2, <3>1
    <3>2. CASE x # k
      <4>1. PICK p \in 1 .. Len(list) : list[p] = x
        BY <1>1, <1>3, <3>2
      <4> QED
        BY <1>1, <1>2, <4>1
    <3> QED
      BY <3>1, <3>2
  <2>3. ASSUME NEW p \in 1 .. Len(l), NEW q \in 1 .. Len(l), l[p] = l[q]
        PROVE  p = q
    <3>1. CASE p \in 1 .. Len(list) /\ q \in 1 .. Len(list)
      BY <1>1, <1>2, <2>3, <3>1
    <3>2. CASE p \in 1 .. Len(list) /\ q = Len(list) + 1
      BY <1>1, <1>2, <2>3, <3>2
    <3>3. CASE q \in 1 .. Len(list) /\ p = Len(list) + 1
      BY <1>1, <1>2, <2>3, <3>3
    <3> QED
      BY <1>1, <1>2, <3>1, <3>2, <3>3
  <2> QED
    BY <2>1, <2>2, <2>3 DEF Consistent
<1>6. TableOK(l, e, NextId(i))
  <2>1. DOMAIN e \subseteq Key /\ \A x \in DOMAIN e : e[x] \in FlowInfo
    BY <1>3, <1>4 DEF TableOK
  <2>2. \A x \in DOMAIN d : d[x].flow_id \in Nat /\ d[x].flow_id + 1 < i
    BY DEF TableOK, FlowInfo
  <2>3. \A x \in DOMAIN e : e[x].flow_id + 1 < i + 2
    BY <1>1, <1>3, <2>2
  <2>4. \A x, y \in DOMAIN e :
          x # y => /\ e[x].flow_id # e[y].flow_id
                   /\ e[x].flow_id # e[y].flow_id + 1
    BY <1>1, <1>3, <2>2 DEF TableOK
  <2> QED
    BY <1>1, <1>2, <1>5, <2>1, <2>3, <2>4 DEF TableOK, NextId
<1>7. ViewOK(e, w)
  <2>1. NewFlowMsgs(k, info) \subseteq HalfFlow
    BY <1>1 DEF NewFlowMsgs, HalfFlow, Directions, DIR_OUTBOUND, DIR_INBOUND
  <2>2. w \in [Clients -> SUBSET HalfFlow]
    BY <2>1 DEF Announced, ViewOK
  <2>3. \A c \in clients : w[c] = v[c] \cup NewFlowMsgs(k, info)
    BY DEF Announced
  <2>4. ASSUME NEW a \in Directions
        PROVE  \E r \in NewFlowMsgs(k, info) :
                 r.id = HalfId(info, a) /\ r.key = k /\ r.from = a
    BY <1>1 DEF NewFlowMsgs, HalfId, Directions, DIR_OUTBOUND, DIR_INBOUND
  <2>5. ASSUME NEW r \in NewFlowMsgs(k, info)
        PROVE  r.key = k /\ r.id = HalfId(info, r.from)
    BY <1>1 DEF NewFlowMsgs, HalfId, Directions, DIR_OUTBOUND, DIR_INBOUND
  <2> HIDE DEF w
  <2>6. ASSUME NEW c \in clients,
               NEW x \in DOMAIN e, NEW a \in Directions
        PROVE  \E r \in w[c] : r.id = HalfId(e[x], a) /\ r.key = x /\ r.from = a
    <3>1. CASE x = k
      BY <1>3, <2>3, <2>4, <3>1
    <3>2. CASE x # k
      <4>1. x \in DOMAIN d /\ e[x] = d[x]
        BY <1>3, <3>2
      <4>2. PICK r \in v[c] : r.id = HalfId(d[x], a) /\ r.key = x /\ r.from = a
        BY <4>1 DEF ViewOK
      <4> QED
        BY <2>3, <4>1, <4>2
    <3> QED
      BY <3>1, <3>2
  <2>7. ASSUME NEW c \in clients, NEW r \in w[c]
        PROVE  r.key \in DOMAIN e /\ r.id = HalfId(e[r.key], r.from)
    <3>1. CASE r \in v[c]
      BY <1>3, <3>1 DEF ViewOK
    <3>2. CASE r \in NewFlowMsgs(k, info)
      BY <1>3, <2>5, <3>2
    <3> QED
      BY <2>3, <3>1, <3>2
  <2> QED
    BY <2>2, <2>6, <2>7 DEF ViewOK
<1> QED
  BY <1>6, <1>7 DEF l, e

\* pop() called n times: what is left is the list without its first n keys.
LEMMA PopListProperties ==
  ASSUME NEW S, NEW list \in Seq(S), NEW n \in 0 .. Len(list)
  PROVE  /\ PopList(list, n) \in Seq(S)
         /\ Len(PopList(list, n)) = Len(list) - n
         /\ \A p \in 1 .. Len(list) - n : PopList(list, n)[p] = list[p + n]
<1>1. Len(list) \in Nat /\ \A p \in n+1 .. Len(list) : list[p] \in S
  BY LenProperties
<1>2. /\ SubSeq(list, n+1, Len(list)) \in Seq(S)
      /\ Len(SubSeq(list, n+1, Len(list))) =
           IF n+1 <= Len(list) THEN Len(list) - (n+1) + 1 ELSE 0
      /\ \A p \in 1 .. Len(list) - (n+1) + 1 :
           SubSeq(list, n+1, Len(list))[p] = list[(n+1) + p - 1]
  BY <1>1, SubSeqProperties
<1> QED
  BY <1>1, <1>2 DEF PopList

\* Popping the n flows at the front and sending KILLFLOW for both their ids
\* leaves a consistent table and faithful views of what is left.
LEMMA PopOK ==
  ASSUME NEW list, NEW d, NEW i, NEW v, clients \subseteq Clients,
         TableOK(list, d, i), ViewOK(d, v), NEW n \in 0 .. Len(list)
  PROVE  /\ TableOK(PopList(list, n), PopData(list, d, n), i)
         /\ ViewOK(PopData(list, d, n), Killed(v, IdsOfFront(list, d, n)))
         /\ DOMAIN PopData(list, d, n) = {list[p] : p \in n+1 .. Len(list)}
<1> DEFINE l == PopList(list, n)
           e == PopData(list, d, n)
           ids == IdsOfFront(list, d, n)
           w == Killed(v, ids)
<1>1. /\ list \in Seq(Key) /\ Len(list) \in Nat /\ i \in Nat
      /\ \A p \in 1 .. Len(list) : list[p] \in DOMAIN d
      /\ \A x \in DOMAIN d : \E p \in 1 .. Len(list) : list[p] = x
      /\ \A p, q \in 1 .. Len(list) : list[p] = list[q] => p = q
  BY LenProperties DEF TableOK, Consistent
<1>2. /\ l \in Seq(Key) /\ Len(l) = Len(list) - n
      /\ \A p \in 1 .. Len(list) - n : l[p] = list[p + n]
  <2>1. list \in Seq(Key) /\ n \in 0 .. Len(list)
    BY <1>1
  <2> HIDE DEF l
  <2>2. /\ PopList(list, n) \in Seq(Key)
        /\ Len(PopList(list, n)) = Len(list) - n
        /\ \A p \in 1 .. Len(list) - n : PopList(list, n)[p] = list[p + n]
    BY ONLY <2>1, PopListProperties
  <2> QED
    BY <2>2 DEF l
<1>3. /\ \A x : x \in DOMAIN e <=>
             x \in DOMAIN d /\ \A p \in 1 .. n : list[p] # x
      /\ \A x \in DOMAIN e : e[x] = d[x]
  BY DEF PopData
<1>4. \A j : j \in ids <=>
        \E p \in 1 .. n : j = d[list[p]].flow_id \/ j = d[list[p]].flow_id + 1
  BY DEF IdsOfFront
<1>5. \A c \in clients : \A r : r \in w[c] <=> r \in v[c] /\ r.id \notin ids
  BY DEF Killed
<1>6. w \in [Clients -> SUBSET HalfFlow]
  BY DEF Killed, ViewOK
<1>7. \A x \in DOMAIN d : /\ d[x].flow_id \in Nat /\ d[x].init_dir \in Directions
                         /\ d[x].flow_id + 1 < i
  BY DEF TableOK, FlowInfo
<1> HIDE DEF l, e, ids, w
<1>8. \A x \in DOMAIN e : \E p \in n+1 .. Len(list) : list[p] = x
  BY <1>1, <1>3
<1>9. ASSUME NEW p \in n+1 .. Len(list) PROVE list[p] \in DOMAIN e
  <2>1. p \in 1 .. Len(list) /\ \A q \in 1 .. n : q \in 1 .. Len(list) /\ q # p
    BY <1>1
  <2>2. list[p] \in DOMAIN d /\ \A q \in 1 .. n : list[q] # list[p]
    BY <1>1, <2>1
  <2> QED
    BY <1>3, <2>2
<1>10. Consistent(l, e)
  <2>1. ASSUME NEW p \in 1 .. Len(l) PROVE l[p] \in DOMAIN e
    <3>1. p + n \in n+1 .. Len(list) /\ l[p] = list[p + n]
      BY <1>1, <1>2
    <3> QED
      BY <1>9, <3>1
  <2>2. ASSUME NEW x \in DOMAIN e PROVE \E p \in 1 .. Len(l) : l[p] = x
    <3>1. PICK q \in n+1 .. Len(list) : list[q] = x
      BY <1>8
    <3>2. q - n \in 1 .. Len(l) /\ l[q - n] = list[(q - n) + n] /\ (q - n) + n = q
      BY <1>1, <1>2
    <3> QED
      BY <3>1, <3>2
  <2>3. ASSUME NEW p \in 1 .. Len(l), NEW q \in 1 .. Len(l), l[p] = l[q]
        PROVE  p = q
    <3>1. /\ p + n \in 1 .. Len(list) /\ q + n \in 1 .. Len(list)
          /\ list[p + n] = list[q + n]
      BY <1>1, <1>2, <2>3
    <3>2. p + n = q + n
      BY <1>1, <3>1
    <3> QED
      BY <1>1, <1>2, <3>2
  <2> QED
    BY <2>1, <2>2, <2>3 DEF Consistent
<1>11. TableOK(l, e, i)
  <2>1. DOMAIN e \subseteq Key /\ \A x \in DOMAIN e : e[x] \in FlowInfo
    BY <1>3 DEF TableOK
  <2>2. /\ \A x \in DOMAIN e : e[x].flow_id + 1 < i
        /\ \A x, y \in DOMAIN e :
             x # y => /\ e[x].flow_id # e[y].flow_id
                      /\ e[x].flow_id # e[y].flow_id + 1
    BY <1>3 DEF TableOK
  <2> QED
    BY <1>1, <1>2, <1>10, <2>1, <2>2 DEF TableOK
<1>12. ASSUME NEW x \in DOMAIN d, NEW a \in Directions
       PROVE  HalfId(d[x], a) \in ids <=> \E p \in 1 .. n : list[p] = x
  <2>1. HalfId(d[x], a) = d[x].flow_id \/ HalfId(d[x], a) = d[x].flow_id + 1
    BY DEF HalfId
  <2>2. ASSUME NEW p \in 1 .. n, list[p] = x PROVE HalfId(d[x], a) \in ids
    BY <1>4, <2>1, <2>2
  <2>3. ASSUME NEW p \in 1 .. n, list[p] # x,
               \/ HalfId(d[x], a) = d[list[p]].flow_id
               \/ HalfId(d[x], a) = d[list[p]].flow_id + 1
        PROVE  FALSE
    <3>1. list[p] \in DOMAIN d
      BY <1>1
    <3>2. /\ d[x].flow_id # d[list[p]].flow_id
          /\ d[x].flow_id # d[list[p]].flow_id + 1
          /\ d[list[p]].flow_id # d[x].flow_id + 1
      BY <2>3, <3>1 DEF TableOK
    <3> QED
      BY <1>7, <2>1, <2>3, <3>1, <3>2
  <2> QED
    BY <1>4, <2>2, <2>3
<1>13. ViewOK(e, w)
  <2>1. ASSUME NEW c \in clients, NEW x \in DOMAIN e, NEW a \in Directions
        PROVE  \E r \in w[c] : r.id = HalfId(e[x], a) /\ r.key = x /\ r.from = a
    <3>1. x \in DOMAIN d /\ e[x] = d[x]
      BY <1>3
    <3>2. PICK r \in v[c] : r.id = HalfId(d[x], a) /\ r.key = x /\ r.from = a
      BY <3>1 DEF ViewOK
    <3>3. r.id \notin ids
      BY <1>3, <1>12, <3>1, <3>2
    <3> QED
      BY <1>5, <3>1, <3>2, <3>3
  <2>2. ASSUME NEW c \in clients, NEW r \in w[c]
        PROVE  r.key \in DOMAIN e /\ r.id = HalfId(e[r.key], r.from)
    <3>1. /\ r \in v[c] /\ r.id \notin ids /\ r \in HalfFlow
          /\ r.key \in DOMAIN d /\ r.id = HalfId(d[r.key], r.from)
      BY <1>5 DEF ViewOK
    <3>2. r.from \in Directions
      BY <3>1 DEF HalfFlow
    <3>3. r.key \in DOMAIN e
      BY <1>3, <1>12, <3>1, <3>2
    <3> QED
      BY <1>3, <3>1, <3>3
  <2> QED
    BY <1>6, <2>1, <2>2 DEF ViewOK
<1> QED
  BY <1>8, <1>9, <1>11, <1>13 DEF l, e, ids, w

\* The unsigned subtraction of expire_flows gives the true age when time has
\* not gone back.
LEMMA IdleIsAge ==
  ASSUME NEW d, NEW k, NEW time \in Times, d[k].time \in Times,
         d[k].time <= time
  PROVE  Idle(d, k, time) <=> time - d[k].time > EXPIRE_SECS
<1>1. time - d[k].time \in 0 .. TimeMod - 1 /\ TimeMod \in Nat \ {0}
  BY TimeAssumption DEF Times
<1>2. \A a \in 0 .. TimeMod - 1 : a % TimeMod = a
  BY <1>1
<1> QED
  BY <1>1, <1>2 DEF Idle

\* The flow that per_packet has just touched is never expired by it.
LEMMA FinishOK ==
  ASSUME NEW list, NEW d, NEW i, NEW v, NEW k \in DOMAIN d,
         NEW dir \in Directions, NEW secs \in Times,
         NEW coloured \in BOOLEAN, NEW shown \in BOOLEAN,
         clients \subseteq Clients, clients' = clients,
         TableOK(list, d, i), ViewOK(d, v),
         list[Len(list)] = k, d[k].time = secs,
         Finish(list, d, v, k, dir, secs, coloured, shown)
  PROVE  /\ TableOK(lru_list', data', i)
         /\ ViewOK(data', view')
         /\ exported' \in Packet \cup {NoPacket}
         /\ PacketOnKnownFlow'
<1>1. list \in Seq(Key) /\ Len(list) \in Nat
      /\ \A p, q \in 1 .. Len(list) : list[p] = list[q] => p = q
  BY LenProperties DEF TableOK, Consistent
<1>2. Len(list) \in 1 .. Len(list)
  BY <1>1 DEF TableOK, Consistent
<1>3. CASE /\ ~ coloured
           /\ lru_list' = list /\ data' = d /\ view' = v
           /\ exported' = NoPacket
  BY <1>3 DEF PacketOnKnownFlow
<1>4. CASE coloured /\ exported' = NoPacket
  <2>1. PICK n \in 0 .. Len(list) :
          /\ lru_list' = PopList(list, n)
          /\ data' = PopData(list, d, n)
          /\ view' = Killed(v, IdsOfFront(list, d, n))
    BY <1>4 DEF Finish
  <2>2. TableOK(lru_list', data', i) /\ ViewOK(data', view')
    BY <2>1, PopOK
  <2> QED
    BY <1>4, <2>2 DEF PacketOnKnownFlow
<1>5. CASE /\ coloured
           /\ exported' = [id |-> HalfId(d[k], dir), key |-> k, dir |-> dir]
  <2>1. PICK n \in 0 .. Len(list) :
          /\ Expires(list, d, secs, n)
          /\ lru_list' = PopList(list, n)
          /\ data' = PopData(list, d, n)
          /\ view' = Killed(v, IdsOfFront(list, d, n))
    BY <1>5 DEF Finish
  <2>2. TableOK(lru_list', data', i) /\ ViewOK(data', view')
    BY <2>1, PopOK
  <2>3. d[k] \in FlowInfo /\ k \in Key
    BY DEF TableOK
  <2>4. ~ Idle(d, k, secs)
    BY <2>3, IdleIsAge, TimeAssumption DEF Times
  <2>5. \A p \in 1 .. n : list[p] # k
    <3> SUFFICES ASSUME NEW p \in 1 .. n, list[p] = k PROVE FALSE
      OBVIOUS
    <3>1. Idle(d, list[p], secs)
      BY <2>1 DEF Expires
    <3> QED
      BY <2>4, <3>1
  <2>6. k \in DOMAIN data' /\ data'[k] = d[k]
    BY <2>1, <2>5 DEF PopData
  <2>7. \A c \in clients : \E r \in view'[c] :
          r.id = HalfId(d[k], dir) /\ r.key = k /\ r.from = dir
    BY <2>2, <2>6 DEF ViewOK
  <2>8. HalfId(d[k], dir) \in Nat
    BY <2>3 DEF HalfId, FlowInfo
  <2>9. exported' \in Packet
    BY <1>5, <2>3, <2>8 DEF Packet
  <2>10. PacketOnKnownFlow'
    BY <1>5, <2>7 DEF PacketOnKnownFlow
  <2> QED
    BY <2>2, <2>9, <2>10
<1> QED
  BY <1>3, <1>4, <1>5 DEF Finish
-----------------------------------------------------------------------------
(***************************************************************************)
(* The inductive invariant: the types, the consistency of the container,   *)
(* the ids below the counter and distinct, the views, the last packet.     *)
(***************************************************************************)
IInv == /\ TypeOK
        /\ LruConsistent
        /\ IdsDistinct
        /\ ViewsMatch
        /\ PacketOnKnownFlow

\* The invariant in terms of the predicates the lemmas above speak of.
LEMMA IInvParts ==
  IInv <=> /\ TableOK(lru_list, data, id)
           /\ ViewOK(data, view)
           /\ tracing \in BOOLEAN
           /\ lastSecs \in Times
           /\ clients \subseteq Clients
           /\ exported \in Packet \cup {NoPacket}
           /\ PacketOnKnownFlow
  BY DEF IInv, TypeOK, LruConsistent, IdsDistinct, ViewsMatch, KnowsFlow,
         TableOK, ViewOK

\* The table starts empty, so the invariant holds of it.
LEMMA InitOK == Init => IInv
<1> SUFFICES ASSUME Init PROVE IInv
  OBVIOUS
<1>1. lru_list \in Seq(Key) /\ Len(lru_list) = 0 /\ DOMAIN data = {}
  BY EmptySeq DEF Init
<1>2. TableOK(lru_list, data, id)
  BY <1>1 DEF Init, TableOK, Consistent
<1>3. ViewOK(data, view)
  BY <1>1 DEF Init, ViewOK
<1>4. lastSecs \in Times /\ tracing \in BOOLEAN /\ clients \subseteq Clients
  <2>1. lastSecs \in Times
    BY TimeAssumption DEF Init, Times
  <2>2. tracing \in BOOLEAN /\ clients \subseteq Clients
    BY Zenon DEF Init
  <2> QED
    BY <2>1, <2>2
<1>5. exported \in Packet \cup {NoPacket} /\ PacketOnKnownFlow
  BY DEF Init, PacketOnKnownFlow
<1> QED
  BY <1>2, <1>3, <1>4, <1>5, IInvParts

\* What a step has to establish to preserve the invariant.
LEMMA IInvNext ==
  ASSUME TableOK(lru_list, data, id)', ViewOK(data, view)',
         tracing' \in BOOLEAN, lastSecs' \in Times, clients' \subseteq Clients,
         exported' \in Packet \cup {NoPacket}, PacketOnKnownFlow'
  PROVE  IInv'
  BY DEF IInv, TypeOK, LruConsistent, IdsDistinct, ViewsMatch, KnowsFlow,
         TableOK, ViewOK

\* A packet, of a flow that is known or not, preserves the invariant.
LEMMA PerPacketOK ==
  ASSUME IInv, NEW dir \in Directions, NEW src \in Endpoints,
         NEW dst \in Endpoints, NEW secs \in Times,
         NEW coloured \in BOOLEAN, NEW shown \in BOOLEAN,
         PerPacket(dir, src, dst, secs, coloured, shown)
  PROVE  IInv'
<1> DEFINE k == FlowKey(dir, src, dst)
<1>1. k \in Key
  BY DEF FlowKey, Key
<1>2. TableOK(lru_list, data, id) /\ ViewOK(data, view) /\ clients \subseteq Clients
  BY IInvParts
<1>3. /\ lastSecs' \in Times /\ tracing' \in BOOLEAN
      /\ clients' = clients /\ clients' \subseteq Clients
  BY IInvParts DEF PerPacket
<1> HIDE DEF k
<1>4. CASE SeenFlow(k, dir, secs, coloured, shown)
  <2> DEFINE l == FindList(lru_list, k)
             e == Touch(data, k, secs)
  <2>1. k \in DOMAIN data /\ id' = id
    BY <1>4 DEF SeenFlow
  <2>2. TableOK(l, e, id) /\ ViewOK(e, view)
    BY <1>2, <2>1, TouchOK
  <2>3. l[Len(l)] = k
    <3>1. /\ lru_list \in Seq(Key) /\ Len(lru_list) \in Nat
          /\ \E p \in 1 .. Len(lru_list) : lru_list[p] = k
          /\ \A p, q \in 1 .. Len(lru_list) : lru_list[p] = lru_list[q] => p = q
      BY <1>2, <2>1, LenProperties DEF TableOK, Consistent
    <3> QED
      BY <1>1, <3>1, FindListProperties
  <2>4. k \in DOMAIN e /\ e[k].time = secs
    BY <1>2, <2>1 DEF Touch, TableOK, FlowInfo
  <2>5. Finish(l, e, view, k, dir, secs, coloured, shown)
    BY <1>4 DEF SeenFlow
  <2> HIDE DEF l, e
  <2>6. /\ TableOK(lru_list', data', id) /\ ViewOK(data', view')
        /\ exported' \in Packet \cup {NoPacket} /\ PacketOnKnownFlow'
    BY <1>2, <1>3, <2>2, <2>3, <2>4, <2>5, FinishOK
  <2> QED
    BY <1>3, <2>1, <2>6, IInvNext DEF TableOK, ViewOK
<1>5. CASE NewFlow(k, dir, secs, coloured, shown)
  <2> DEFINE info == [flow_id |-> id, time |-> secs, init_dir |-> dir]
             l == InsertList(lru_list, k)
             e == InsertData(data, k, info)
             w == Announced(view, NewFlowMsgs(k, info))
  <2>1. k \notin DOMAIN data /\ id' = NextId(id)
    BY <1>5 DEF NewFlow
  <2>2. TableOK(l, e, NextId(id)) /\ ViewOK(e, w)
    BY <1>1, <1>2, <2>1, InsertOK
  <2>3. l[Len(l)] = k
    <3>1. lru_list \in Seq(Key) /\ Len(lru_list) \in Nat
      BY <1>2, LenProperties DEF TableOK
    <3> QED
      BY <1>1, <3>1, AppendProperties DEF InsertList
  <2>4. k \in DOMAIN e /\ e[k].time = secs
    BY DEF InsertData
  <2>5. Finish(l, e, w, k, dir, secs, coloured, shown)
    BY <1>5 DEF NewFlow
  <2> HIDE DEF l, e, w
  <2>6. /\ TableOK(lru_list', data', NextId(id)) /\ ViewOK(data', view')
        /\ exported' \in Packet \cup {NoPacket} /\ PacketOnKnownFlow'
    BY <1>2, <1>3, <2>2, <2>3, <2>4, <2>5, FinishOK
  <2> QED
    BY <1>3, <2>1, <2>6, IInvNext DEF TableOK, ViewOK
<1> QED
  BY <1>4, <1>5 DEF PerPacket, k

\* Starting a trace preserves the invariant.
LEMMA StartTraceOK == IInv /\ StartTrace => IInv'
<1> SUFFICES ASSUME IInv, StartTrace PROVE IInv'
  OBVIOUS
<1>1. lru_list' \in Seq(Key) /\ Len(lru_list') = 0 /\ DOMAIN data' = {}
  BY EmptySeq DEF StartTrace
<1>2. TableOK(lru_list, data, id)'
  BY <1>1 DEF StartTrace, TableOK, Consistent
<1>3. ViewOK(data, view)'
  BY <1>1, IInvParts DEF StartTrace, ViewOK
<1>4. /\ tracing' \in BOOLEAN /\ lastSecs' \in Times
      /\ clients' \subseteq Clients
      /\ exported' \in Packet \cup {NoPacket} /\ PacketOnKnownFlow'
  BY IInvParts, TimeAssumption DEF StartTrace, Times, PacketOnKnownFlow
<1> QED
  BY <1>2, <1>3, <1>4, IInvNext

\* Ending a trace, failed or not, preserves the invariant.
LEMMA EndTraceOK ==
  ASSUME IInv, NEW failed \in BOOLEAN, EndTrace(failed)
  PROVE  IInv'
<1>1. /\ TableOK(lru_list, data, id) /\ ViewOK(data, view)
      /\ clients \subseteq Clients
  BY IInvParts
<1>2. /\ tracing' \in BOOLEAN /\ lastSecs' \in Times
      /\ clients' = clients /\ clients' \subseteq Clients /\ id' = id
      /\ exported' \in Packet \cup {NoPacket} /\ PacketOnKnownFlow'
  BY IInvParts DEF EndTrace, PacketOnKnownFlow
<1>3. CASE failed
  <2>1. lru_list' = lru_list /\ data' = data /\ view' = view
    BY <1>3 DEF EndTrace
  <2>2. TableOK(lru_list, data, id)' /\ ViewOK(data, view)'
    BY <1>1, <1>2, <2>1 DEF TableOK, ViewOK
  <2> QED
    BY <1>2, <2>2, IInvNext
<1>4. CASE ~ failed
  <2> DEFINE n == Len(lru_list)
             w == Killed(view, IdsOfFront(lru_list, data, n))
  <2>1. n \in 0 .. Len(lru_list) /\ n \in Nat
    BY <1>1, LenProperties DEF TableOK
  <2>2. /\ TableOK(PopList(lru_list, n), PopData(lru_list, data, n), id)
        /\ ViewOK(PopData(lru_list, data, n), w)
        /\ DOMAIN PopData(lru_list, data, n) =
             {lru_list[p] : p \in n+1 .. Len(lru_list)}
    BY <1>1, <2>1, PopOK
  <2>3. DOMAIN PopData(lru_list, data, n) = {}
    BY <2>1, <2>2
  <2>4. lru_list' \in Seq(Key) /\ Len(lru_list') = 0 /\ DOMAIN data' = {}
    BY <1>4, EmptySeq DEF EndTrace
  <2>5. TableOK(lru_list, data, id)'
    BY <1>1, <1>2, <2>4 DEF TableOK, Consistent
  <2>6. view' = w
    BY <1>4 DEF EndTrace
  <2> HIDE DEF w
  <2>7. ViewOK(data, view)'
    BY <1>2, <2>2, <2>3, <2>4, <2>6 DEF ViewOK
  <2> QED
    BY <1>2, <2>5, <2>7, IInvNext
<1> QED
  BY <1>3, <1>4

\* The snapshot a new client is sent makes its view a faithful one.
LEMMA JoinOK ==
  ASSUME IInv, NEW c \in Clients, Join(c)
  PROVE  IInv'
<1> DEFINE snapshot == UNION {ExistingFlowMsgs(k, data[k]) : k \in DOMAIN data}
<1>1. /\ TableOK(lru_list, data, id) /\ ViewOK(data, view)
      /\ clients \subseteq Clients
  BY IInvParts
<1>2. /\ tracing' \in BOOLEAN /\ lastSecs' \in Times
      /\ clients' = clients \cup {c} /\ clients' \subseteq Clients
      /\ lru_list' = lru_list /\ data' = data /\ id' = id
      /\ exported' \in Packet \cup {NoPacket} /\ PacketOnKnownFlow'
  BY IInvParts DEF Join, PacketOnKnownFlow
<1>3. TableOK(lru_list, data, id)'
  BY <1>1, <1>2 DEF TableOK
<1>4. view' = [view EXCEPT ![c] = snapshot] /\ c \notin clients
  BY DEF Join
<1>5. \A k \in DOMAIN data : k \in Key /\ data[k] \in FlowInfo
  BY <1>1 DEF TableOK
<1>6. \A r : r \in snapshot <=>
             \E k \in DOMAIN data : r \in ExistingFlowMsgs(k, data[k])
  OBVIOUS
<1> HIDE DEF snapshot
<1>7. ASSUME NEW k \in DOMAIN data, NEW r \in ExistingFlowMsgs(k, data[k])
      PROVE  /\ r \in HalfFlow /\ r.key = k
             /\ r.id = HalfId(data[k], r.from)
  BY <1>5 DEF ExistingFlowMsgs, HalfFlow, HalfId, Key, FlowInfo, Directions,
              DIR_OUTBOUND, DIR_INBOUND
<1>8. ASSUME NEW k \in DOMAIN data, NEW dir \in Directions
      PROVE  \E r \in ExistingFlowMsgs(k, data[k]) :
               r.id = HalfId(data[k], dir) /\ r.key = k /\ r.from = dir
  BY <1>5 DEF ExistingFlowMsgs, HalfId, FlowInfo, Directions,
              DIR_OUTBOUND, DIR_INBOUND
<1>9. ViewOK(data, view)'
  <2>1. view' \in [Clients -> SUBSET HalfFlow]
    BY <1>1, <1>4, <1>6, <1>7 DEF ViewOK
  <2>2. ASSUME NEW e \in clients', NEW k \in DOMAIN data, NEW dir \in Directions
        PROVE  \E r \in view'[e] :
                 r.id = HalfId(data[k], dir) /\ r.key = k /\ r.from = dir
    <3>1. CASE e = c
      <4>1. view'[e] = snapshot
        BY <1>1, <1>4, <3>1 DEF ViewOK
      <4>2. PICK r \in ExistingFlowMsgs(k, data[k]) :
              r.id = HalfId(data[k], dir) /\ r.key = k /\ r.from = dir
        BY <1>8
      <4> QED
        BY <1>6, <4>1, <4>2
    <3>2. CASE e # c
      <4>1. e \in clients /\ view'[e] = view[e]
        BY <1>1, <1>2, <1>4, <3>2 DEF ViewOK
      <4> QED
        BY <1>1, <4>1 DEF ViewOK
    <3> QED
      BY <3>1, <3>2
  <2>3. ASSUME NEW e \in clients', NEW r \in view'[e]
        PROVE  r.key \in DOMAIN data /\ r.id = HalfId(data[r.key], r.from)
    <3>1. CASE e = c
      <4>1. r \in snapshot
        BY <1>1, <1>4, <3>1 DEF ViewOK
      <4> QED
        BY <1>6, <1>7, <4>1
    <3>2. CASE e # c
      <4>1. e \in clients /\ view'[e] = view[e]
        BY <1>1, <1>2, <1>4, <3>2 DEF ViewOK
      <4> QED
        BY <1>1, <4>1 DEF ViewOK
    <3> QED
      BY <3>1, <3>2
  <2> QED
    BY <1>2, <2>1, <2>2, <2>3 DEF ViewOK
<1> QED
  BY <1>2, <1>3, <1>9, IInvNext

\* A client that leaves disturbs no other client's view.
LEMMA LeaveOK ==
  ASSUME IInv, NEW c \in Clients, Leave(c)
  PROVE  IInv'
<1>1. /\ TableOK(lru_list, data, id) /\ ViewOK(data, view)
      /\ clients \subseteq Clients
  BY IInvParts
<1>2. /\ tracing' \in BOOLEAN /\ lastSecs' \in Times
      /\ clients' = clients \ {c} /\ clients' \subseteq Clients
      /\ lru_list' = lru_list /\ data' = data /\ id' = id
      /\ exported' \in Packet \cup {NoPacket} /\ PacketOnKnownFlow'
  BY IInvParts DEF Leave, PacketOnKnownFlow
<1>3. TableOK(lru_list, data, id)'
  BY <1>1, <1>2 DEF TableOK
<1>4. /\ view' \in [Clients -> SUBSET HalfFlow]
      /\ \A e \in clients' : e \in clients /\ view'[e] = view[e]
  BY <1>1, <1>2 DEF Leave, ViewOK
<1>5. ViewOK(data, view)'
  BY <1>1, <1>2, <1>4 DEF ViewOK
<1> QED
  BY <1>2, <1>3, <1>5, IInvNext

\* Every step preserves the invariant.
LEMMA Inductive == IInv /\ [Next]_vars => IInv'
<1> SUFFICES ASSUME IInv, [Next]_vars PROVE IInv'
  OBVIOUS
<1>1. ASSUME NEW dir \in Directions, NEW src \in Endpoints,
             NEW dst \in Endpoints, NEW secs \in Times,
             NEW coloured \in BOOLEAN, NEW shown \in BOOLEAN,
             PerPacket(dir, src, dst, secs, coloured, shown)
      PROVE  IInv'
  BY <1>1, PerPacketOK
<1>2. CASE StartTrace
  BY <1>2, StartTraceOK
<1>3. ASSUME NEW failed \in BOOLEAN, EndTrace(failed) PROVE IInv'
  BY <1>3, EndTraceOK
<1>4. ASSUME NEW c \in Clients, Join(c) PROVE IInv'
  BY <1>4, JoinOK
<1>5. ASSUME NEW c \in Clients, Leave(c) PROVE IInv'
  BY <1>5, LeaveOK
<1>6. CASE UNCHANGED vars
  BY <1>6 DEF vars, IInv, TypeOK, LruConsistent, IdsDistinct, ViewsMatch,
              KnowsFlow, PacketOnKnownFlow
<1> QED
  BY <1>1, <1>2, <1>3, <1>4, <1>5, <1>6 DEF Next

\* The inductive invariant holds of the flow table for any set of addresses,
\* clients and timestamps, whether or not the timestamps go back.
THEOREM Invariance == Spec => []IInv
  BY InitOK, Inductive, PTL DEF Spec

\* Type correctness of the flow table.
THEOREM TypeCorrect == Spec => []TypeOK
<1>1. IInv => TypeOK
  BY DEF IInv
<1> QED
  BY <1>1, Invariance, PTL

\* The list and the map of the lru container never disagree.
THEOREM ContainerConsistent == Spec => []LruConsistent
<1>1. IInv => LruConsistent
  BY DEF IInv
<1> QED
  BY <1>1, Invariance, PTL

\* No two flows in progress share an id.
THEOREM DistinctIds == Spec => []IdsDistinct
<1>1. IInv => IdsDistinct
  BY DEF IInv
<1> QED
  BY <1>1, Invariance, PTL

\* Every client sees the flows in progress and no others, early or late.
THEOREM FaithfulViews == Spec => []ViewsMatch
<1>1. IInv => ViewsMatch
  BY DEF IInv
<1> QED
  BY <1>1, Invariance, PTL

\* A packet message always names a half-flow that all clients have.
THEOREM PacketsOnKnownFlows == Spec => []PacketOnKnownFlow
<1>1. IInv => PacketOnKnownFlow
  BY DEF IInv
<1> QED
  BY <1>1, Invariance, PTL
-----------------------------------------------------------------------------
(***************************************************************************)
(* Expiry, when the timestamps of a trace never go back.  The early exit   *)
(* of expire_flows is sound because the list is then sorted by time.       *)
(***************************************************************************)

Sorted(list, d, t) ==
  /\ \A k \in DOMAIN d : d[k].time <= t
  /\ \A p, q \in 1 .. Len(list) :
       p < q => d[list[p]].time <= d[list[q]].time

TimesInv == /\ Sorted(lru_list, data, lastSecs)
            /\ NoIdleFlowKept

\* When time does not go back, moving the touched flow to the back keeps the
\* list in the order of the times.
LEMMA TouchSorted ==
  ASSUME NEW list, NEW d, NEW i, NEW k \in DOMAIN d, NEW secs \in Times,
         NEW t \in Times, t <= secs, TableOK(list, d, i), Sorted(list, d, t)
  PROVE  Sorted(FindList(list, k), Touch(d, k, secs), secs)
<1> DEFINE l == FindList(list, k)
           e == Touch(d, k, secs)
           m == Node(list, k)
<1>1. /\ list \in Seq(Key) /\ k \in Key /\ Len(list) \in Nat
      /\ \E j \in 1 .. Len(list) : list[j] = k
      /\ \A p \in 1 .. Len(list) : list[p] \in DOMAIN d
      /\ \A p, q \in 1 .. Len(list) : list[p] = list[q] => p = q
  BY LenProperties DEF TableOK, Consistent
<1>2. /\ Len(l) = Len(list) /\ l[Len(list)] = k
      /\ \A j \in 1 .. Len(list) - 1 :
           l[j] = IF j < m THEN list[j] ELSE list[j+1]
      /\ m \in 1 .. Len(list) /\ list[m] = k
  BY <1>1, FindListProperties
<1>3. /\ DOMAIN e = DOMAIN d
      /\ \A x \in DOMAIN d : d[x].time \in Nat /\ d[x].time <= secs
      /\ \A x \in DOMAIN d : e[x].time = IF x = k THEN secs ELSE d[x].time
  BY TimeAssumption DEF Touch, TableOK, FlowInfo, Times, Sorted
<1>4. secs \in Nat
  BY TimeAssumption DEF Times
<1> HIDE DEF l, e, m
<1>5. \A x \in DOMAIN e : e[x].time <= secs
  BY <1>3, <1>4
<1>6. ASSUME NEW p \in 1 .. Len(list), NEW q \in 1 .. Len(list), p < q
      PROVE  e[l[p]].time <= e[l[q]].time
  <2> DEFINE a == IF p < m THEN p ELSE p + 1
             z == IF q < m THEN q ELSE q + 1
  <2>1. p \in 1 .. Len(list) - 1 /\ a \in 1 .. Len(list) /\ a # m
    BY <1>1, <1>2, <1>6
  <2>2. l[p] = list[a]
    BY <1>2, <2>1
  <2>3. e[l[p]].time = d[list[a]].time /\ d[list[a]].time <= secs
    BY <1>1, <1>2, <1>3, <2>1, <2>2
  <2>4. CASE q = Len(list)
    BY <1>1, <1>2, <1>3, <2>3, <2>4
  <2>5. CASE q # Len(list)
    <3>1. q \in 1 .. Len(list) - 1 /\ z \in 1 .. Len(list) /\ z # m /\ a < z
      BY <1>1, <1>2, <1>6, <2>5
    <3>2. l[q] = list[z]
      BY <1>2, <3>1
    <3>3. e[l[q]].time = d[list[z]].time
      BY <1>1, <1>2, <1>3, <3>1, <3>2
    <3>4. d[list[a]].time <= d[list[z]].time
      BY <2>1, <3>1 DEF Sorted
    <3> QED
      BY <2>3, <3>3, <3>4
  <2> QED
    BY <2>4, <2>5
<1> QED
  BY <1>2, <1>5, <1>6 DEF Sorted, l, e

\* So does inserting a flow at the back.
LEMMA InsertSorted ==
  ASSUME NEW list, NEW d, NEW i, NEW k \in Key \ DOMAIN d, NEW secs \in Times,
         NEW t \in Times, t <= secs, NEW info, info.time = secs,
         TableOK(list, d, i), Sorted(list, d, t)
  PROVE  Sorted(InsertList(list, k), InsertData(d, k, info), secs)
<1> DEFINE l == InsertList(list, k)
           e == InsertData(d, k, info)
<1>1. /\ list \in Seq(Key) /\ Len(list) \in Nat
      /\ \A p \in 1 .. Len(list) : list[p] \in DOMAIN d
  BY LenProperties DEF TableOK, Consistent
<1>2. /\ Len(l) = Len(list) + 1 /\ l[Len(list) + 1] = k
      /\ \A p \in 1 .. Len(list) : l[p] = list[p]
  BY <1>1, AppendProperties DEF InsertList
<1>3. /\ \A x \in DOMAIN d : d[x].time \in Nat /\ d[x].time <= secs
      /\ DOMAIN e = DOMAIN d \cup {k} /\ e[k].time = secs
      /\ \A x \in DOMAIN d : e[x] = d[x]
  BY TimeAssumption DEF InsertData, TableOK, FlowInfo, Times, Sorted
<1>4. secs \in Nat
  BY TimeAssumption DEF Times
<1> HIDE DEF l, e
<1>5. \A x \in DOMAIN e : e[x].time <= secs
  BY <1>3, <1>4
<1>6. ASSUME NEW p \in 1 .. Len(l), NEW q \in 1 .. Len(l), p < q
      PROVE  e[l[p]].time <= e[l[q]].time
  <2>1. p \in 1 .. Len(list) /\ l[p] = list[p] /\ list[p] \in DOMAIN d
    BY <1>1, <1>2, <1>6
  <2>2. CASE q = Len(list) + 1
    BY <1>2, <1>3, <2>1, <2>2
  <2>3. CASE q # Len(list) + 1
    <3>1. q \in 1 .. Len(list) /\ l[q] = list[q] /\ list[q] \in DOMAIN d
      BY <1>1, <1>2, <2>3
    <3> QED
      BY <1>3, <1>6, <2>1, <3>1 DEF Sorted
  <2> QED
    BY <2>2, <2>3
<1> QED
  BY <1>5, <1>6 DEF Sorted, l, e

\* Expiring flows from the front of a list in the order of the times removes
\* all the idle ones, and leaves the order as it was.
LEMMA FinishTimes ==
  ASSUME NEW list, NEW d, NEW i, NEW v, NEW k \in DOMAIN d,
         NEW dir \in Directions, NEW secs \in Times,
         NEW coloured \in BOOLEAN, NEW shown \in BOOLEAN,
         clients \subseteq Clients, lastSecs' = secs,
         TableOK(list, d, i), ViewOK(d, v), Sorted(list, d, secs),
         list[Len(list)] = k, d[k].time = secs,
         Finish(list, d, v, k, dir, secs, coloured, shown)
  PROVE  /\ Sorted(lru_list', data', secs)
         /\ NoIdleFlowKept'
<1>1. /\ list \in Seq(Key) /\ Len(list) \in 1 .. Len(list) /\ Len(list) \in Nat
      /\ \A p \in 1 .. Len(list) : list[p] \in DOMAIN d
      /\ \A x \in DOMAIN d : \E p \in 1 .. Len(list) : list[p] = x
  BY LenProperties DEF TableOK, Consistent
<1>2. /\ secs \in Nat
      /\ \A x \in DOMAIN d : d[x].time \in Times /\ d[x].time <= secs
  BY TimeAssumption DEF TableOK, FlowInfo, Times, Sorted
<1>3. \A x \in DOMAIN d : d[x].time \in Nat
  BY <1>2, TimeAssumption DEF Times
<1>4. \A x \in DOMAIN d : Idle(d, x, secs) <=> secs - d[x].time > EXPIRE_SECS
  BY <1>2, IdleIsAge
<1>5. CASE ~ coloured
  <2>1. lru_list' = list /\ data' = d /\ exported' = NoPacket
    BY <1>5 DEF Finish
  <2> QED
    BY <2>1 DEF NoIdleFlowKept
<1>6. CASE coloured
  <2>1. PICK n \in 0 .. Len(list) :
          /\ Expires(list, d, secs, n)
          /\ lru_list' = PopList(list, n)
          /\ data' = PopData(list, d, n)
    BY <1>6 DEF Finish
  <2>2. DOMAIN data' = {list[p] : p \in n+1 .. Len(list)}
    BY <2>1, PopOK
  <2>3. \A x \in DOMAIN data' : x \in DOMAIN d /\ data'[x] = d[x]
    BY <2>1 DEF PopData
  <2>4. /\ lru_list' \in Seq(Key) /\ Len(lru_list') = Len(list) - n
        /\ \A p \in 1 .. Len(list) - n : lru_list'[p] = list[p + n]
    BY <1>1, <2>1, PopListProperties
  <2>5. Sorted(lru_list', data', secs)
    <3>1. \A x \in DOMAIN data' : data'[x].time <= secs
      BY <1>2, <2>3
    <3>2. ASSUME NEW p \in 1 .. Len(lru_list'), NEW q \in 1 .. Len(lru_list'),
                 p < q
          PROVE  data'[lru_list'[p]].time <= data'[lru_list'[q]].time
      <4>1. /\ p + n \in n+1 .. Len(list) /\ q + n \in n+1 .. Len(list)
            /\ p + n < q + n
        BY <1>1, <2>4, <3>2
      <4>2. lru_list'[p] = list[p + n] /\ lru_list'[q] = list[q + n]
        BY <1>1, <2>4
      <4>3. list[p + n] \in DOMAIN data' /\ list[q + n] \in DOMAIN data'
        BY <2>2, <4>1
      <4>4. d[list[p + n]].time <= d[list[q + n]].time
        BY <1>1, <4>1 DEF Sorted
      <4> QED
        BY <2>3, <4>2, <4>3, <4>4
    <3> QED
      BY <3>1, <3>2 DEF Sorted
  <2>6. NoIdleFlowKept'
    <3> SUFFICES ASSUME NEW x \in DOMAIN data'
                 PROVE  secs - data'[x].time <= EXPIRE_SECS
      BY DEF NoIdleFlowKept
    <3>1. PICK q \in n+1 .. Len(list) : list[q] = x
      BY <2>2
    <3>2. n < Len(list) /\ n+1 \in 1 .. Len(list) /\ q \in 1 .. Len(list)
      BY <1>1, <3>1
    <3>3. ~ (secs - d[list[n+1]].time > EXPIRE_SECS)
      BY <1>1, <1>4, <2>1, <3>2 DEF Expires
    <3>4. data'[x] = d[x] /\ d[x].time \in Nat /\ d[list[n+1]].time \in Nat
      BY <1>1, <1>3, <2>3, <3>2
    <3>5. CASE q = n+1
      BY <1>2, <3>1, <3>3, <3>4, <3>5, TimeAssumption
    <3>6. CASE q # n+1
      <4>1. n+1 < q
        BY <3>1, <3>6
      <4>2. d[list[n+1]].time <= d[list[q]].time
        BY <3>2, <4>1 DEF Sorted
      <4> QED
        BY <1>2, <3>1, <3>3, <3>4, <4>2, TimeAssumption
    <3> QED
      BY <3>5, <3>6
  <2> QED
    BY <2>5, <2>6
<1> QED
  BY <1>5, <1>6

\* A packet keeps the list in the order of the times.
LEMMA PerPacketTimes ==
  ASSUME Monotone, IInv, TimesInv,
         NEW dir \in Directions, NEW src \in Endpoints,
         NEW dst \in Endpoints, NEW secs \in Times,
         NEW coloured \in BOOLEAN, NEW shown \in BOOLEAN,
         PerPacket(dir, src, dst, secs, coloured, shown)
  PROVE  TimesInv'
<1> DEFINE k == FlowKey(dir, src, dst)
<1>1. k \in Key
  BY DEF FlowKey, Key
<1>2. TableOK(lru_list, data, id) /\ ViewOK(data, view) /\ clients \subseteq Clients
  BY IInvParts
<1>3. lastSecs' = secs /\ lastSecs \in Times /\ lastSecs <= secs
  BY IInvParts DEF PerPacket
<1>4. Sorted(lru_list, data, lastSecs)
  BY DEF TimesInv
<1> HIDE DEF k
<1>5. CASE SeenFlow(k, dir, secs, coloured, shown)
  <2> DEFINE l == FindList(lru_list, k)
             e == Touch(data, k, secs)
  <2>1. k \in DOMAIN data
    BY <1>5 DEF SeenFlow
  <2>2. TableOK(l, e, id) /\ ViewOK(e, view)
    BY <1>2, <2>1, TouchOK
  <2>3. Sorted(l, e, secs)
    BY <1>2, <1>3, <1>4, <2>1, TouchSorted
  <2>4. l[Len(l)] = k
    <3>1. /\ lru_list \in Seq(Key) /\ Len(lru_list) \in Nat
          /\ \E p \in 1 .. Len(lru_list) : lru_list[p] = k
          /\ \A p, q \in 1 .. Len(lru_list) : lru_list[p] = lru_list[q] => p = q
      BY <1>2, <2>1, LenProperties DEF TableOK, Consistent
    <3> QED
      BY <1>1, <3>1, FindListProperties
  <2>5. /\ DOMAIN e = DOMAIN data /\ e[k].time = secs
        /\ \A x \in DOMAIN data : x # k => e[x] = data[x]
    BY <1>2, <2>1 DEF Touch, TableOK, FlowInfo
  <2>6. Finish(l, e, view, k, dir, secs, coloured, shown)
    BY <1>5 DEF SeenFlow
  <2> HIDE DEF l, e
  <2>7. Sorted(lru_list', data', secs) /\ NoIdleFlowKept'
    BY <1>2, <1>3, <2>1, <2>2, <2>3, <2>4, <2>5, <2>6, FinishTimes
  <2> QED
    BY <1>3, <2>7 DEF TimesInv
<1>6. CASE NewFlow(k, dir, secs, coloured, shown)
  <2> DEFINE info == [flow_id |-> id, time |-> secs, init_dir |-> dir]
             l == InsertList(lru_list, k)
             e == InsertData(data, k, info)
             w == Announced(view, NewFlowMsgs(k, info))
  <2>1. k \notin DOMAIN data
    BY <1>6 DEF NewFlow
  <2>2. TableOK(l, e, NextId(id)) /\ ViewOK(e, w)
    BY <1>1, <1>2, <2>1, InsertOK
  <2>3. Sorted(l, e, secs)
    BY <1>1, <1>2, <1>3, <1>4, <2>1, InsertSorted
  <2>4. l[Len(l)] = k
    <3>1. lru_list \in Seq(Key) /\ Len(lru_list) \in Nat
      BY <1>2, LenProperties DEF TableOK
    <3> QED
      BY <1>1, <3>1, AppendProperties DEF InsertList
  <2>5. /\ DOMAIN e = DOMAIN data \cup {k} /\ e[k].time = secs
        /\ \A x \in DOMAIN data : e[x] = data[x]
    BY <2>1 DEF InsertData
  <2>6. Finish(l, e, w, k, dir, secs, coloured, shown)
    BY <1>6 DEF NewFlow
  <2> HIDE DEF l, e, w
  <2>7. Sorted(lru_list', data', secs) /\ NoIdleFlowKept'
    BY <1>2, <1>3, <2>2, <2>3, <2>4, <2>5, <2>6, FinishTimes
  <2> QED
    BY <1>3, <2>7 DEF TimesInv
<1> QED
  BY <1>5, <1>6 DEF PerPacket, k

\* Every step keeps the list in the order of the times.
LEMMA TimesInductive ==
  ASSUME Monotone, IInv, TimesInv, [Next]_vars
  PROVE  TimesInv'
<1>1. ASSUME NEW dir \in Directions, NEW src \in Endpoints,
             NEW dst \in Endpoints, NEW secs \in Times,
             NEW coloured \in BOOLEAN, NEW shown \in BOOLEAN,
             PerPacket(dir, src, dst, secs, coloured, shown)
      PROVE  TimesInv'
  BY <1>1, PerPacketTimes
<1>2. CASE StartTrace
  <2>1. /\ DOMAIN data' = {} /\ Len(lru_list') = 0 /\ exported' = NoPacket
    BY <1>2, EmptySeq DEF StartTrace
  <2> QED
    BY <2>1 DEF TimesInv, Sorted, NoIdleFlowKept
<1>3. ASSUME NEW failed \in BOOLEAN, EndTrace(failed) PROVE TimesInv'
  <2>1. exported' = NoPacket /\ lastSecs' = lastSecs
    BY <1>3 DEF EndTrace
  <2>2. CASE failed
    <3>1. lru_list' = lru_list /\ data' = data
      BY <1>3, <2>2 DEF EndTrace
    <3> QED
      BY <2>1, <3>1 DEF TimesInv, Sorted, NoIdleFlowKept
  <2>3. CASE ~ failed
    <3>1. DOMAIN data' = {} /\ Len(lru_list') = 0
      BY <1>3, <2>3, EmptySeq DEF EndTrace
    <3> QED
      BY <2>1, <3>1 DEF TimesInv, Sorted, NoIdleFlowKept
  <2> QED
    BY <2>2, <2>3
<1>4. ASSUME NEW c \in Clients, Join(c) \/ Leave(c) PROVE TimesInv'
  <2>1. /\ lru_list' = lru_list /\ data' = data /\ lastSecs' = lastSecs
        /\ exported' = NoPacket
    BY <1>4 DEF Join, Leave
  <2> QED
    BY <2>1 DEF TimesInv, Sorted, NoIdleFlowKept
<1>5. CASE UNCHANGED vars
  BY <1>5 DEF vars, TimesInv, Sorted, NoIdleFlowKept
<1> QED
  BY <1>1, <1>2, <1>3, <1>4, <1>5 DEF Next

\* The empty list is in order.
LEMMA InitTimes == Init => TimesInv
<1> SUFFICES ASSUME Init PROVE TimesInv
  OBVIOUS
<1>1. DOMAIN data = {} /\ Len(lru_list) = 0 /\ exported = NoPacket
  BY EmptySeq DEF Init
<1> QED
  BY <1>1 DEF TimesInv, Sorted, NoIdleFlowKept

\* With timestamps that never go back, the early exit of expire_flows leaves
\* no idle flow behind.
THEOREM NoIdleFlows == ASSUME Monotone PROVE Spec => []NoIdleFlowKept
<1>1. Init => TimesInv
  BY InitTimes
<1>2. IInv /\ TimesInv /\ [Next]_vars => TimesInv'
  BY TimesInductive
<1>3. TimesInv => NoIdleFlowKept
  BY DEF TimesInv
<1> QED
  BY <1>1, <1>2, <1>3, Invariance, PTL DEF Spec
=============================================================================
