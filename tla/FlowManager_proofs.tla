------------------------- MODULE FlowManager_proofs -------------------------
(***************************************************************************)
(* Proofs about the client's flows (module FlowManager) for any objects,   *)
(* ids and descriptors.                                                    *)
(***************************************************************************)
EXTENDS FlowManager, TLAPS

\* Appending to a sequence without repetition.
LEMMA PushProperties ==
  ASSUME NEW S, NEW s \in Seq(S), NEW x \in S
  PROVE  /\ Append(s, x) \in Seq(S)
         /\ Len(Append(s, x)) = Len(s) + 1
         /\ \A i \in 1 .. Len(s) : Append(s, x)[i] = s[i]
         /\ Append(s, x)[Len(s) + 1] = x
         /\ Elements(Append(s, x)) = Elements(s) \cup {x}
         /\ Distinct(s) /\ x \notin Elements(s) => Distinct(Append(s, x))
<1> DEFINE t == Append(s, x)
<1>1. /\ t \in Seq(S) /\ Len(s) \in Nat /\ Len(t) = Len(s) + 1
      /\ \A i \in 1 .. Len(s) : t[i] = s[i]
      /\ t[Len(s) + 1] = x
  OBVIOUS
<1> HIDE DEF t
<1>2. Elements(t) = Elements(s) \cup {x}
  <2>1. ASSUME NEW i \in 1 .. Len(t) PROVE t[i] \in Elements(s) \cup {x}
    BY <1>1 DEF Elements
  <2>2. ASSUME NEW i \in 1 .. Len(s) PROVE s[i] \in Elements(t)
    BY <1>1 DEF Elements
  <2>3. x \in Elements(t)
    <3>1. Len(s) + 1 \in 1 .. Len(t)
      BY <1>1
    <3> QED
      BY <1>1, <3>1 DEF Elements
  <2> QED
    BY <2>1, <2>2, <2>3 DEF Elements
<1>3. Distinct(s) /\ x \notin Elements(s) => Distinct(t)
  BY <1>1 DEF Distinct, Elements
<1> QED
  BY <1>1, <1>2, <1>3 DEF t

\* Taking the last element off a sequence without repetition.
LEMMA PopProperties ==
  ASSUME NEW S, NEW s \in Seq(S), s # << >>, Distinct(s)
  PROVE  /\ Front(s) \in Seq(S)
         /\ Last(s) \in S
         /\ Len(s) \in 1 .. Len(s)
         /\ Len(Front(s)) = Len(s) - 1
         /\ \A i \in 1 .. Len(s) - 1 : Front(s)[i] = s[i]
         /\ Elements(Front(s)) = Elements(s) \ {Last(s)}
         /\ Distinct(Front(s))
<1> DEFINE t == Front(s)
<1>1. Len(s) \in Nat /\ Len(s) > 0
  OBVIOUS
<1>2a. Last(s) = s[Len(s)] /\ Last(s) \in S
  BY <1>1 DEF Last
<1>2b. PICK n \in Nat : Len(s) = n + 1
  <2>1. Len(s) - 1 \in Nat
    BY <1>1
  <2> QED
    BY <1>1, <2>1
<1>2c. /\ t \in Seq(S) /\ Len(t) = n
       /\ \A i \in 1 .. n : t[i] = s[i]
  BY <1>2b DEF Front
<1>2. /\ t \in Seq(S) /\ Len(t) = Len(s) - 1
      /\ \A i \in 1 .. Len(s) - 1 : t[i] = s[i]
      /\ Last(s) = s[Len(s)] /\ Last(s) \in S
  BY <1>2a, <1>2b, <1>2c
<1> HIDE DEF t
<1>3. Elements(t) = Elements(s) \ {Last(s)}
  <2>1. ASSUME NEW i \in 1 .. Len(t) PROVE t[i] \in Elements(s) \ {Last(s)}
    BY <1>1, <1>2 DEF Elements, Distinct
  <2>2. ASSUME NEW i \in 1 .. Len(s), s[i] # Last(s) PROVE s[i] \in Elements(t)
    <3>1. i \in 1 .. Len(t)
      BY <1>1, <1>2, <2>2
    <3> QED
      BY <1>2, <3>1 DEF Elements
  <2> QED
    BY <2>1, <2>2 DEF Elements
<1>4. Distinct(t)
  BY <1>1, <1>2 DEF Distinct
<1> QED
  BY <1>1, <1>2, <1>3, <1>4 DEF t

\* delFlow's removal: the last element takes the place of the one removed.
LEMMA SwapProperties ==
  ASSUME NEW S, NEW s \in Seq(S), NEW i \in 1 .. Len(s), Distinct(s)
  PROVE  LET t == Front([s EXCEPT ![i] = Last(s)])
         IN  /\ t \in Seq(S)
             /\ Len(t) = Len(s) - 1
             /\ \A j \in 1 .. Len(s) - 1 : t[j] = IF j = i THEN Last(s) ELSE s[j]
             /\ Elements(t) = Elements(s) \ {s[i]}
             /\ Distinct(t)
<1> DEFINE u == [s EXCEPT ![i] = Last(s)]
           t == Front(u)
<1>1. Len(s) \in Nat /\ Len(s) > 0 /\ Last(s) = s[Len(s)] /\ Last(s) \in S
  BY DEF Last
<1>2. /\ u \in Seq(S) /\ Len(u) = Len(s)
      /\ \A j \in 1 .. Len(s) : u[j] = IF j = i THEN Last(s) ELSE s[j]
  BY <1>1
<1> HIDE DEF u
<1>3. /\ t \in Seq(S) /\ Len(t) = Len(s) - 1
      /\ \A j \in 1 .. Len(s) - 1 : t[j] = u[j]
  BY <1>1, <1>2 DEF Front
<1> HIDE DEF t
<1>4. \A j \in 1 .. Len(s) - 1 : t[j] = IF j = i THEN Last(s) ELSE s[j]
  BY <1>1, <1>2, <1>3
<1>5. Elements(t) = Elements(s) \ {s[i]}
  <2>1. ASSUME NEW j \in 1 .. Len(t) PROVE t[j] \in Elements(s) \ {s[i]}
    BY <1>1, <1>3, <1>4 DEF Elements, Distinct
  <2>2. ASSUME NEW j \in 1 .. Len(s), s[j] # s[i] PROVE s[j] \in Elements(t)
    <3>1. CASE j = Len(s)
      <4>1. i \in 1 .. Len(t) /\ t[i] = s[j]
        BY <1>1, <1>3, <1>4, <2>2, <3>1
      <4> QED
        BY <4>1 DEF Elements
    <3>2. CASE j # Len(s)
      <4>1. j \in 1 .. Len(t) /\ t[j] = s[j]
        BY <1>1, <1>3, <1>4, <2>2, <3>2
      <4> QED
        BY <4>1 DEF Elements
    <3> QED
      BY <3>1, <3>2
  <2> QED
    BY <2>1, <2>2 DEF Elements
<1>6. Distinct(t)
  BY <1>1, <1>3, <1>4 DEF Distinct
<1> QED
  BY <1>3, <1>4, <1>5, <1>6 DEF t, u
-----------------------------------------------------------------------------
(* The inductive invariant: what the runs check, and that a flow that can  *)
(* be clicked on has had a packet.                                         *)

VisibleHasType == \A f \in Active : ~ flow[f].hide => flow[f].mDescr # NULL

IInv ==
  /\ TypeOK /\ PoolConsistent /\ EveryFlowFound
  /\ SelectionDrawable /\ VisibleHasType
  /\ HiddenAsAsked /\ DescriptorsExist

Pool == PoolConsistent /\ EveryFlowFound
View == SelectionDrawable /\ VisibleHasType /\ HiddenAsAsked /\ DescriptorsExist

LEMMA InitInv == Init => IInv
<1> SUFFICES ASSUME Init PROVE IInv
  OBVIOUS
<1> USE DEF Init
<1>1. Blank \in Flow
  BY DEF Blank, Fresh, Flow
<1>2. TypeOK
  <2>1. DOMAIN mFlowMap = {} /\ DOMAIN mFlowDescriptors = {}
    OBVIOUS
  <2>2. /\ mFreeFlows \in Seq(Flows) /\ mActiveFlows \in Seq(Flows)
        /\ threads \in Seq(Thread) /\ Len(threads) = 0
    OBVIOUS
  <2>3. flow \in [Flows -> Flow]
    BY <1>1
  <2>4. mSelectedFlow = NULL /\ bConnected \in BOOLEAN /\ mDnsThread = 0
    OBVIOUS
  <2> QED
    BY ONLY <2>1, <2>2, <2>3, <2>4 DEF TypeOK
<1>3. Active = {} /\ Free = {}
  BY DEF Active, Free, Elements
<1>4. Distinct(mActiveFlows) /\ Distinct(mFreeFlows)
  BY DEF Distinct
<1>5. Pool
  BY <1>3, <1>4 DEF Pool, PoolConsistent, EveryFlowFound
<1>6. View
  BY <1>3 DEF View, SelectionDrawable, VisibleHasType, HiddenAsAsked, DescriptorsExist
<1> QED
  BY <1>2, <1>5, <1>6 DEF IInv, Pool, View

\* What an active flow is.
LEMMA ActiveIsFlow ==
  ASSUME TypeOK
  PROVE  /\ Active \subseteq Flows /\ Free \subseteq Flows
         /\ \A f \in Flows : flow[f] \in Flow
  BY DEF TypeOK, Active, Free, Elements

\* Steps that move no flow and change neither ids nor places.
LEMMA PoolKept ==
  ASSUME TypeOK, Pool, UNCHANGED lists,
         \A f \in Flows : /\ flow'[f].activeID = flow[f].activeID
                          /\ flow'[f].flowID = flow[f].flowID
  PROVE  Pool'
<1>1. Active' = Active /\ Free' = Free
  BY DEF lists, Active, Free
<1>2. \A i \in 1 .. Len(mActiveFlows) : mActiveFlows[i] \in Flows
  BY DEF TypeOK
<1>3. \A id \in DOMAIN mFlowMap : mFlowMap[id] \in Flows
  BY DEF TypeOK
<1>4. PoolConsistent'
  BY <1>1, <1>2, <1>3 DEF Pool, PoolConsistent, lists
<1>5. EveryFlowFound'
  BY <1>1, ActiveIsFlow DEF Pool, EveryFlowFound, lists
<1> QED
  BY <1>4, <1>5 DEF Pool

\* Steps that leave types, hide flags and the selection as they are.
LEMMA ViewKept ==
  ASSUME TypeOK, View, UNCHANGED <<lists, mSelectedFlow, app>>,
         \A f \in Flows : /\ flow'[f].hide = flow[f].hide
                          /\ flow'[f].mDescr = flow[f].mDescr
  PROVE  View'
<1>1. Active' = Active /\ Shown' = Shown
  BY DEF lists, app, Active, Shown
<1>2. SelectionDrawable'
  BY <1>1, ActiveIsFlow DEF View, SelectionDrawable
<1>3. VisibleHasType' /\ HiddenAsAsked' /\ DescriptorsExist'
  BY <1>1, ActiveIsFlow DEF View, VisibleHasType, HiddenAsAsked, DescriptorsExist, app
<1> QED
  BY <1>2, <1>3 DEF View
-----------------------------------------------------------------------------
(* One lemma per action. *)

\* What With and But do to a map of flows.
LEMMA MapProperties ==
  ASSUME NEW fn, NEW x, NEW y
  PROVE  /\ DOMAIN With(fn, x, y) = DOMAIN fn \cup {x}
         /\ With(fn, x, y)[x] = y
         /\ \A z \in DOMAIN fn : z # x => With(fn, x, y)[z] = fn[z]
         /\ DOMAIN But(fn, x) = DOMAIN fn \ {x}
         /\ \A z \in DOMAIN fn \ {x} : But(fn, x)[z] = fn[z]
  BY DEF With, But

\* newFlow: a flow that is not active, from the stack or new, becomes active.
LEMMA NewFlowInv == ASSUME IInv, NEW id \in Ids, NewFlow(id) PROVE IInv'
<1> USE DEF IInv
<1>1. PICK f \in Flows :
        /\ GetFreeFlow(f)
        /\ mActiveFlows' = Append(mActiveFlows, f)
        /\ flow' = [flow EXCEPT ![f] = Fresh(id, Place)]
        /\ mFlowMap' = With(mFlowMap, id, f)
  BY DEF NewFlow
<1>2. /\ RepeatedIds \/ id \notin DOMAIN mFlowMap
      /\ UNCHANGED <<mSelectedFlow, app, dns>>
  BY DEF NewFlow
<1>3. /\ mFreeFlows' \in Seq(Flows)
      /\ f \notin Active /\ f \notin Free'
      /\ Free' \subseteq Free
      /\ Distinct(mFreeFlows')
  <2>1. CASE mFreeFlows = << >>
    <3>1. Free = {}
      BY <2>1 DEF Free, Elements
    <3> QED
      BY <1>1, <2>1, <3>1 DEF GetFreeFlow, Free, TypeOK, PoolConsistent
  <2>2. CASE mFreeFlows # << >>
    <3>1. f = Last(mFreeFlows) /\ mFreeFlows' = Front(mFreeFlows)
      BY <1>1, <2>2 DEF GetFreeFlow
    <3>2. /\ mFreeFlows' \in Seq(Flows)
          /\ Elements(mFreeFlows') = Elements(mFreeFlows) \ {f}
          /\ Distinct(mFreeFlows')
      BY <2>2, <3>1, PopProperties DEF TypeOK, PoolConsistent
    <3>3. f \in Elements(mFreeFlows)
      BY <2>2, <3>1 DEF TypeOK, Last, Elements
    <3> QED
      BY <3>2, <3>3 DEF PoolConsistent, Active, Free
  <2> QED
    BY <2>1, <2>2
<1>4. /\ mActiveFlows' \in Seq(Flows)
      /\ Len(mActiveFlows) \in Nat
      /\ Len(mActiveFlows') = Place
      /\ \A i \in 1 .. Len(mActiveFlows) : mActiveFlows'[i] = mActiveFlows[i]
      /\ mActiveFlows'[Place] = f
      /\ Active' = Active \cup {f}
      /\ Distinct(mActiveFlows')
  BY <1>1, <1>3, PushProperties DEF TypeOK, PoolConsistent, Active, Place
<1>5. Fresh(id, Place) \in Flow
  BY <1>4 DEF Fresh, Flow, Place
<1>6. /\ flow' \in [Flows -> Flow]
      /\ flow'[f] = Fresh(id, Place)
      /\ \A g \in Active : flow'[g] = flow[g]
  BY <1>1, <1>3, <1>5, ActiveIsFlow DEF TypeOK
<1>7. /\ DOMAIN mFlowMap' = DOMAIN mFlowMap \cup {id}
      /\ mFlowMap'[id] = f
      /\ \A i \in DOMAIN mFlowMap : i # id => mFlowMap'[i] = mFlowMap[i]
  BY <1>1 DEF With
<1>8. TypeOK'
  BY <1>2, <1>3, <1>4, <1>6, <1>7 DEF TypeOK, app, dns
<1>9. PoolConsistent'
  <2>1. Active' \cap Free' = {}
    BY <1>3, <1>4 DEF PoolConsistent
  <2>2. ASSUME NEW i \in 1 .. Len(mActiveFlows')
        PROVE  flow'[mActiveFlows'[i]].activeID = i
    <3>1. CASE i = Place
      BY <1>4, <1>6, <3>1 DEF Fresh
    <3>2. CASE i # Place
      <4>1. i \in 1 .. Len(mActiveFlows) /\ mActiveFlows[i] \in Active
        BY <1>4, <3>2 DEF Place, Active, Elements
      <4> QED
        BY <1>4, <1>6, <4>1 DEF PoolConsistent
    <3> QED
      BY <3>1, <3>2
  <2>3. ASSUME NEW i \in DOMAIN mFlowMap'
        PROVE  mFlowMap'[i] \in Active' /\ flow'[mFlowMap'[i]].flowID = i
    <3>1. CASE i = id
      BY <1>4, <1>6, <1>7, <3>1 DEF Fresh
    <3>2. CASE i # id
      BY <1>4, <1>6, <1>7, <3>2 DEF PoolConsistent
    <3> QED
      BY <3>1, <3>2
  <2> QED
    BY <1>3, <1>4, <2>1, <2>2, <2>3 DEF PoolConsistent
<1>10. EveryFlowFound'
  <2> SUFFICES ASSUME ~ RepeatedIds, NEW g \in Active'
               PROVE  flow'[g].flowID \in DOMAIN mFlowMap' /\ mFlowMap'[flow'[g].flowID] = g
    BY DEF EveryFlowFound
  <2>1. CASE g = f
    BY <1>6, <1>7, <2>1 DEF Fresh
  <2>2. CASE g # f
    <3>1. g \in Active /\ flow'[g] = flow[g]
      BY <1>4, <1>6, <2>2
    <3>2. flow[g].flowID \in DOMAIN mFlowMap /\ mFlowMap[flow[g].flowID] = g
      BY <3>1 DEF EveryFlowFound
    <3> QED
      BY <1>2, <1>7, <3>1, <3>2
  <2> QED
    BY <2>1, <2>2
<1>11. Shown' = Shown
  BY <1>2 DEF app, Shown
<1>12. NULL \notin Shown
  BY NullAssumption DEF TypeOK, Shown
<1>13. SelectionDrawable'
  BY <1>2, <1>4, <1>6 DEF SelectionDrawable
<1>14. VisibleHasType' /\ HiddenAsAsked' /\ DescriptorsExist'
  <2> SUFFICES ASSUME NEW g \in Active'
               PROVE  /\ ~ flow'[g].hide => flow'[g].mDescr # NULL
                      /\ bConnected' => (flow'[g].hide <=> flow'[g].mDescr \notin Shown')
                      /\ bConnected' =>
                           flow'[g].mDescr \in DOMAIN mFlowDescriptors' \cup {NULL}
    BY DEF VisibleHasType, HiddenAsAsked, DescriptorsExist
  <2>1. CASE g = f
    BY <1>6, <1>11, <1>12, <2>1 DEF Fresh
  <2>2. CASE g # f
    <3>1. g \in Active /\ flow'[g] = flow[g]
      BY <1>4, <1>6, <2>2
    <3> QED
      BY <1>2, <1>11, <3>1 DEF VisibleHasType, HiddenAsAsked, DescriptorsExist, app
  <2> QED
    BY <2>1, <2>2
<1> QED
  BY <1>8, <1>9, <1>10, <1>13, <1>14
\* delFlow: a flow becomes free and the last active one takes its place.
LEMMA DelFlowInv == ASSUME IInv, NEW id \in Ids, DelFlow(id) PROVE IInv'
<1> USE DEF IInv
<1> DEFINE f == mFlowMap[id]
           index == flow[f].activeID
           last == Last(mActiveFlows)
<1>1. /\ id \in DOMAIN mFlowMap
      /\ mFlowMap' = But(mFlowMap, id)
      /\ mFreeFlows' = Append(mFreeFlows, f)
      /\ mSelectedFlow' = Deselected(f)
      /\ threads' = IF mSelectedFlow = f THEN Killed ELSE threads
      /\ flow' = Renumbered(flow, last, index)
      /\ mActiveFlows' = Front([mActiveFlows EXCEPT ![index] = last])
      /\ UNCHANGED <<app, mDnsThread>>
  BY DEF DelFlow
<1>2. /\ f \in Active /\ f \in Flows /\ flow[f].flowID = id /\ f \notin Free
      /\ index \in 1 .. Len(mActiveFlows) /\ mActiveFlows[index] = f
  <2>1. f \in Active /\ flow[f].flowID = id
    BY <1>1 DEF PoolConsistent
  <2>2. PICK i \in 1 .. Len(mActiveFlows) : mActiveFlows[i] = f
    BY <2>1 DEF Active, Elements
  <2>3. index = i
    BY <2>2 DEF PoolConsistent
  <2> QED
    BY <2>1, <2>2, <2>3, ActiveIsFlow DEF PoolConsistent
<1>3. /\ Len(mActiveFlows) \in Nat /\ Len(mActiveFlows) \in 1 .. Len(mActiveFlows)
      /\ last = mActiveFlows[Len(mActiveFlows)] /\ last \in Active /\ last \in Flows
  BY <1>2, ActiveIsFlow DEF Active, Elements, Last, TypeOK
<1> HIDE DEF f, index, last
<1>4. /\ mActiveFlows' \in Seq(Flows)
      /\ Len(mActiveFlows') = Len(mActiveFlows) - 1
      /\ \A j \in 1 .. Len(mActiveFlows) - 1 :
           mActiveFlows'[j] = IF j = index THEN last ELSE mActiveFlows[j]
      /\ Active' = Active \ {f}
      /\ Distinct(mActiveFlows')
  <2>1. LET t == Front([mActiveFlows EXCEPT ![index] = last])
        IN  /\ t \in Seq(Flows)
            /\ Len(t) = Len(mActiveFlows) - 1
            /\ \A j \in 1 .. Len(mActiveFlows) - 1 :
                 t[j] = IF j = index THEN last ELSE mActiveFlows[j]
            /\ Elements(t) = Elements(mActiveFlows) \ {mActiveFlows[index]}
            /\ Distinct(t)
    BY <1>2, SwapProperties DEF last, TypeOK, PoolConsistent
  <2> QED
    BY <1>1, <1>2, <2>1 DEF Active
<1>5. /\ mFreeFlows' \in Seq(Flows)
      /\ Free' = Free \cup {f}
      /\ Distinct(mFreeFlows')
  BY <1>1, <1>2, PushProperties DEF TypeOK, PoolConsistent, Free
<1>6. /\ DOMAIN mFlowMap' = DOMAIN mFlowMap \ {id}
      /\ \A i \in DOMAIN mFlowMap' : mFlowMap'[i] = mFlowMap[i]
  BY <1>1 DEF But
<1>7. /\ flow' \in [Flows -> Flow]
      /\ \A g \in Flows :
           /\ flow'[g].flowID = flow[g].flowID /\ flow'[g].hide = flow[g].hide
           /\ flow'[g].mDescr = flow[g].mDescr
           /\ flow'[g].activeID = IF g = last THEN index ELSE flow[g].activeID
  <2>1. index \in Nat
    BY <1>2, <1>3
  <2>2. ASSUME NEW g \in Flows
        PROVE  /\ flow[g] \in Flow
               /\ [flow[g] EXCEPT !.activeID = index] \in Flow
    <3>1. flow[g] \in Flow
      BY DEF TypeOK
    <3> QED
      BY ONLY <2>1, <3>1 DEF Flow
  <2>3. flow' = [flow EXCEPT ![last] = [flow[last] EXCEPT !.activeID = index]]
    BY <1>1 DEF Renumbered
  <2>4. /\ flow' \in [Flows -> Flow]
        /\ flow'[last] = [flow[last] EXCEPT !.activeID = index]
        /\ \A g \in Flows : g # last => flow'[g] = flow[g]
    BY <1>3, <2>2, <2>3 DEF TypeOK
  <2>5. flow[last] \in Flow
    BY <1>3, <2>2
  <2>6. /\ flow'[last].flowID = flow[last].flowID /\ flow'[last].hide = flow[last].hide
        /\ flow'[last].mDescr = flow[last].mDescr /\ flow'[last].activeID = index
    BY <2>4, <2>5 DEF Flow
  <2> QED
    BY <2>4, <2>6
<1>8. threads' \in Seq(Thread) /\ Len(threads') = Len(threads)
  <2>1. CASE mSelectedFlow = f
    <3>1. /\ threads \in Seq(Thread) /\ DOMAIN threads = 1 .. Len(threads)
          /\ Len(threads) \in Nat
      BY DEF TypeOK
    <3>2. \A i \in 1 .. Len(threads) :
            (IF i = mDnsThread THEN [threads[i] EXCEPT !.at = "ended"] ELSE threads[i])
              \in Thread
      <4> SUFFICES ASSUME NEW i \in 1 .. Len(threads)
                   PROVE  [threads[i] EXCEPT !.at = "ended"] \in Thread
        BY <3>1
      <4>1. threads[i] \in Thread
        BY <3>1
      <4> QED
        BY <4>1 DEF Thread
    <3>3. threads' = [i \in 1 .. Len(threads) |->
             IF i = mDnsThread THEN [threads[i] EXCEPT !.at = "ended"] ELSE threads[i]]
      BY <1>1, <2>1, <3>1 DEF Killed
    <3> QED
      BY <3>1, <3>2, <3>3
  <2>2. CASE mSelectedFlow # f
    BY <1>1, <2>2 DEF TypeOK
  <2> QED
    BY <2>1, <2>2
<1>9. TypeOK'
  BY <1>1, <1>4, <1>5, <1>6, <1>7, <1>8 DEF TypeOK, app, Deselected
<1>10. PoolConsistent'
  <2>1. ASSUME NEW i \in 1 .. Len(mActiveFlows')
        PROVE  flow'[mActiveFlows'[i]].activeID = i
    <3>1. i \in 1 .. Len(mActiveFlows) /\ i # Len(mActiveFlows)
      BY <1>3, <1>4
    <3>2. mActiveFlows[i] \in Flows /\ flow[mActiveFlows[i]].activeID = i
      BY <3>1 DEF TypeOK, PoolConsistent
    <3>3. CASE i = index
      BY <1>3, <1>4, <1>7, <3>1, <3>3
    <3>4. CASE i # index
      <4>1. mActiveFlows[i] # last
        BY <1>3, <3>1 DEF PoolConsistent, Distinct
      <4> QED
        BY <1>4, <1>7, <3>1, <3>2, <3>4, <4>1
    <3> QED
      BY <3>3, <3>4
  <2>2. ASSUME NEW i \in DOMAIN mFlowMap'
        PROVE  mFlowMap'[i] \in Active' /\ flow'[mFlowMap'[i]].flowID = i
    <3>1. i \in DOMAIN mFlowMap /\ i # id /\ mFlowMap'[i] = mFlowMap[i]
      BY <1>6
    <3>2. mFlowMap[i] \in Active /\ flow[mFlowMap[i]].flowID = i
      BY <3>1 DEF PoolConsistent
    <3> QED
      BY <1>2, <1>4, <1>7, <3>1, <3>2, ActiveIsFlow
  <2>3. Active' \cap Free' = {}
    BY <1>4, <1>5 DEF PoolConsistent
  <2> QED
    BY <1>4, <1>5, <2>1, <2>2, <2>3 DEF PoolConsistent
<1>11. EveryFlowFound'
  <2> SUFFICES ASSUME ~ RepeatedIds, NEW g \in Active'
               PROVE  flow'[g].flowID \in DOMAIN mFlowMap' /\ mFlowMap'[flow'[g].flowID] = g
    BY DEF EveryFlowFound
  <2>1. g \in Active /\ g # f /\ g \in Flows
    BY <1>4, ActiveIsFlow
  <2>2. flow[g].flowID \in DOMAIN mFlowMap /\ mFlowMap[flow[g].flowID] = g
    BY <2>1 DEF EveryFlowFound
  <2>3. flow[g].flowID # id
    BY <2>1, <2>2 DEF f
  <2> QED
    BY <1>6, <1>7, <2>1, <2>2, <2>3
<1>12. Shown' = Shown
  BY <1>1 DEF app, Shown
<1>13. SelectionDrawable'
  BY <1>1, <1>4, <1>7 DEF SelectionDrawable, Deselected, TypeOK
<1>14. VisibleHasType' /\ HiddenAsAsked' /\ DescriptorsExist'
  <2> SUFFICES ASSUME NEW g \in Active'
               PROVE  /\ ~ flow'[g].hide => flow'[g].mDescr # NULL
                      /\ bConnected' => (flow'[g].hide <=> flow'[g].mDescr \notin Shown')
                      /\ bConnected' =>
                           flow'[g].mDescr \in DOMAIN mFlowDescriptors' \cup {NULL}
    BY DEF VisibleHasType, HiddenAsAsked, DescriptorsExist
  <2>1. /\ g \in Active /\ g \in Flows
        /\ bConnected' = bConnected /\ mFlowDescriptors' = mFlowDescriptors
    BY <1>1, <1>4, ActiveIsFlow DEF app
  <2>2. flow'[g].hide = flow[g].hide /\ flow'[g].mDescr = flow[g].mDescr
    BY <1>7, <2>1
  <2> QED
    BY <1>12, <2>1, <2>2 DEF VisibleHasType, HiddenAsAsked, DescriptorsExist
<1> QED
  BY <1>9, <1>10, <1>11, <1>13, <1>14
\* delAll, and openSocket, which calls it.
LEMMA ForgetInv ==
  ASSUME TypeOK, Forget, DOMAIN mFlowDescriptors' \subseteq Types,
         \A t \in DOMAIN mFlowDescriptors' : mFlowDescriptors'[t] \in BOOLEAN,
         bConnected' \in BOOLEAN
  PROVE  IInv'
<1>1. /\ mFreeFlows' = << >> /\ mActiveFlows' = << >> /\ mFlowMap' = << >>
      /\ flow' = [f \in Flows |-> Blank] /\ mSelectedFlow' = NULL
      /\ UNCHANGED dns
  BY DEF Forget, ActiveLeft
<1>2. Blank \in Flow
  BY DEF Blank, Fresh, Flow
<1>3. TypeOK'
  <2>1. DOMAIN mFlowMap' = {}
    BY <1>1
  <2>2. mFreeFlows' \in Seq(Flows) /\ mActiveFlows' \in Seq(Flows)
    BY <1>1
  <2>3. flow' \in [Flows -> Flow]
    BY <1>1, <1>2
  <2> QED
    BY <1>1, <2>1, <2>2, <2>3 DEF TypeOK, dns
<1>4. Active' = {} /\ Free' = {}
  BY <1>1 DEF Active, Free, Elements
<1>5. PoolConsistent'
  <2>1. DOMAIN mFlowMap' = {} /\ Len(mActiveFlows') = 0
    BY <1>1
  <2>2. Distinct(mActiveFlows') /\ Distinct(mFreeFlows')
    BY <1>1 DEF Distinct
  <2> QED
    BY <1>4, <2>1, <2>2 DEF PoolConsistent
<1>6. EveryFlowFound' /\ SelectionDrawable' /\ VisibleHasType' /\ HiddenAsAsked'
        /\ DescriptorsExist'
  BY <1>1, <1>4
     DEF EveryFlowFound, SelectionDrawable, VisibleHasType, HiddenAsAsked, DescriptorsExist
<1> QED
  BY <1>3, <1>5, <1>6 DEF IInv

\* newPacket: the flow gets a type that is shown, and is shown itself.
LEMMA NewPacketInv ==
  ASSUME IInv, NEW id \in Ids, NEW type \in Types, NewPacket(id, type) PROVE IInv'
<1> USE DEF IInv
<1> DEFINE f == mFlowMap[id]
<1>1. /\ type \in Shown /\ id \in DOMAIN mFlowMap
      /\ flow' = [flow EXCEPT ![f].mDescr = type, ![f].hide = FALSE]
      /\ UNCHANGED <<lists, mSelectedFlow, app, dns>>
  BY DEF NewPacket
<1>2. f \in Flows /\ \A g \in Flows : flow[g] \in Flow
  BY <1>1 DEF TypeOK
<1> HIDE DEF f
<1>3. [[flow[f] EXCEPT !.mDescr = type] EXCEPT !.hide = FALSE] \in Flow
  <2>1. flow[f] \in Flow
    BY <1>2
  <2> QED
    BY ONLY <2>1, type \in Types DEF Flow
<1>4. /\ flow' \in [Flows -> Flow]
      /\ flow'[f] = [[flow[f] EXCEPT !.mDescr = type] EXCEPT !.hide = FALSE]
      /\ \A g \in Flows : g # f => flow'[g] = flow[g]
  BY <1>1, <1>2, <1>3 DEF TypeOK
<1>5. /\ flow'[f].activeID = flow[f].activeID /\ flow'[f].flowID = flow[f].flowID
      /\ flow'[f].mDescr = type /\ flow'[f].hide = FALSE
  <2>1. flow[f] \in Flow
    BY <1>2
  <2> QED
    BY ONLY <1>4, <2>1 DEF Flow
<1>6. TypeOK'
  BY <1>1, <1>4 DEF TypeOK, lists, app, dns
<1>7. Pool'
  BY <1>1, <1>4, <1>5, PoolKept DEF Pool
<1>8. Active' = Active /\ Shown' = Shown
  BY <1>1 DEF lists, app, Active, Shown
<1>9. type # NULL /\ type \in DOMAIN mFlowDescriptors
  BY <1>1, NullAssumption DEF Shown
<1>10. SelectionDrawable'
  BY <1>1, <1>4, <1>5, <1>8, <1>9, ActiveIsFlow DEF SelectionDrawable
<1>11. VisibleHasType' /\ HiddenAsAsked' /\ DescriptorsExist'
  <2> SUFFICES ASSUME NEW g \in Active'
               PROVE  /\ ~ flow'[g].hide => flow'[g].mDescr # NULL
                      /\ bConnected' => (flow'[g].hide <=> flow'[g].mDescr \notin Shown')
                      /\ bConnected' =>
                           flow'[g].mDescr \in DOMAIN mFlowDescriptors' \cup {NULL}
    BY DEF VisibleHasType, HiddenAsAsked, DescriptorsExist
  <2>1. g \in Active /\ g \in Flows
    BY <1>8, ActiveIsFlow
  <2>2. bConnected' = bConnected /\ mFlowDescriptors' = mFlowDescriptors
    BY <1>1 DEF app
  <2>3. CASE g = f
    BY <1>1, <1>5, <1>8, <1>9, <2>2, <2>3
  <2>4. CASE g # f
    BY <1>4, <1>8, <2>1, <2>2, <2>4 DEF VisibleHasType, HiddenAsAsked, DescriptorsExist
  <2> QED
    BY <2>3, <2>4
<1> QED
  BY <1>6, <1>7, <1>10, <1>11 DEF Pool
\* addFlowDescriptor: no flow has had a packet of the new type.
LEMMA AddFlowDescriptorInv ==
  ASSUME IInv, NEW type \in Types, AddFlowDescriptor(type) PROVE IInv'
<1> USE DEF IInv
<1>1. /\ bConnected /\ type \notin DOMAIN mFlowDescriptors
      /\ mFlowDescriptors' = With(mFlowDescriptors, type, TRUE)
      /\ UNCHANGED <<lists, flow, mSelectedFlow, bConnected, dns>>
  BY DEF AddFlowDescriptor
<1>2. /\ DOMAIN mFlowDescriptors' = DOMAIN mFlowDescriptors \cup {type}
      /\ mFlowDescriptors'[type] = TRUE
      /\ \A t \in DOMAIN mFlowDescriptors : mFlowDescriptors'[t] = mFlowDescriptors[t]
  BY <1>1 DEF With
<1>3. TypeOK'
  BY <1>1, <1>2 DEF TypeOK, lists, dns
<1>4. Pool'
  BY <1>1, PoolKept DEF Pool
<1>5. Active' = Active /\ Shown' = Shown \cup {type}
  BY <1>1, <1>2 DEF lists, Active, Shown
<1>6. SelectionDrawable' /\ VisibleHasType' /\ DescriptorsExist'
  BY <1>1, <1>2, <1>5 DEF SelectionDrawable, VisibleHasType, DescriptorsExist
<1>7. \A g \in Active : flow[g].mDescr # type
  BY <1>1, NullAssumption DEF DescriptorsExist
<1>8. HiddenAsAsked'
  BY <1>1, <1>5, <1>7 DEF HiddenAsAsked
<1> QED
  BY <1>3, <1>4, <1>6, <1>8 DEF Pool

\* disconnect: the descriptors go, and with them what is claimed of them.
LEMMA DisconnectInv == ASSUME IInv, Disconnect PROVE IInv'
<1> USE DEF IInv
<1>1. /\ bConnected' = FALSE /\ mFlowDescriptors' = << >>
      /\ UNCHANGED <<lists, flow, mSelectedFlow, dns>>
  BY DEF Disconnect
<1>2. DOMAIN mFlowDescriptors' = {}
  BY <1>1
<1>3. TypeOK'
  BY <1>1, <1>2 DEF TypeOK, lists, dns
<1>4. Pool'
  BY <1>1, PoolKept DEF Pool
<1>5. Active' = Active
  BY <1>1 DEF lists, Active
<1>6. SelectionDrawable' /\ VisibleHasType' /\ HiddenAsAsked' /\ DescriptorsExist'
  BY <1>1, <1>5 DEF SelectionDrawable, VisibleHasType, HiddenAsAsked, DescriptorsExist
<1> QED
  BY <1>3, <1>4, <1>6 DEF Pool

\* The check boxes.
LEMMA ShowTypesInv ==
  ASSUME IInv, NEW types \in SUBSET Types, NEW show \in BOOLEAN,
         types \subseteq DOMAIN mFlowDescriptors, ShowTypes(types, show)
  PROVE  IInv'
<1> USE DEF IInv
<1>1. /\ mFlowDescriptors' = [t \in DOMAIN mFlowDescriptors |->
                                IF t \in types THEN show ELSE mFlowDescriptors[t]]
      /\ flow' = Toggled(types, show)
      /\ UNCHANGED <<lists, mSelectedFlow, bConnected, dns>>
  BY DEF ShowTypes
<1>2. /\ DOMAIN mFlowDescriptors' = DOMAIN mFlowDescriptors
      /\ \A t \in DOMAIN mFlowDescriptors :
           mFlowDescriptors'[t] = IF t \in types THEN show ELSE mFlowDescriptors[t]
  BY <1>1
<1>3. ASSUME NEW g \in Flows
      PROVE  /\ flow'[g] \in Flow
             /\ flow'[g].activeID = flow[g].activeID /\ flow'[g].flowID = flow[g].flowID
             /\ flow'[g].mDescr = flow[g].mDescr
             /\ flow'[g].hide = IF g \in Active /\ flow[g].mDescr \in types
                                THEN ~ show ELSE flow[g].hide
  <2>1. flow[g] \in Flow
    BY ActiveIsFlow
  <2>2. CASE g \in Active /\ flow[g].mDescr \in types
    <3>1. flow'[g] = [flow[g] EXCEPT !.hide = ~ show]
      BY <1>1, <2>2 DEF Toggled
    <3> QED
      BY ONLY <2>1, <2>2, <3>1, show \in BOOLEAN DEF Flow
  <2>3. CASE ~ (g \in Active /\ flow[g].mDescr \in types)
    <3>1. flow'[g] = flow[g]
      BY <1>1, <2>3 DEF Toggled
    <3> QED
      BY <2>1, <2>3, <3>1
  <2> QED
    BY <2>2, <2>3
<1>4. flow' \in [Flows -> Flow]
  BY <1>1, <1>3 DEF Toggled
<1>5. TypeOK'
  BY <1>1, <1>2, <1>4 DEF TypeOK, lists, dns
<1>6. Pool'
  BY <1>1, <1>3, PoolKept DEF Pool
<1>7. Active' = Active
  BY <1>1 DEF lists, Active
<1>8. SelectionDrawable' /\ DescriptorsExist'
  BY <1>1, <1>2, <1>3, <1>7, ActiveIsFlow DEF SelectionDrawable, DescriptorsExist
<1>9. ASSUME NEW g \in Active'
      PROVE  /\ ~ flow'[g].hide => flow'[g].mDescr # NULL
             /\ bConnected' => (flow'[g].hide <=> flow'[g].mDescr \notin Shown')
  <2>1. g \in Active /\ g \in Flows
    BY <1>7, ActiveIsFlow
  <2>2. CASE flow[g].mDescr \in types
    <3>1. flow'[g].hide = ~ show /\ flow'[g].mDescr = flow[g].mDescr
      BY <1>3, <2>1, <2>2
    <3>2. flow[g].mDescr \in Shown' <=> show
      BY <1>2, <2>2 DEF Shown
    <3>3. flow[g].mDescr # NULL
      BY <2>2, NullAssumption
    <3> QED
      BY <3>1, <3>2, <3>3
  <2>3. CASE flow[g].mDescr \notin types
    <3>1. flow'[g].hide = flow[g].hide /\ flow'[g].mDescr = flow[g].mDescr
      BY <1>3, <2>1, <2>3
    <3>2. flow[g].mDescr \in Shown' <=> flow[g].mDescr \in Shown
      BY <1>2, <2>3 DEF Shown
    <3> QED
      BY <1>1, <2>1, <3>1, <3>2 DEF VisibleHasType, HiddenAsAsked
  <2> QED
    BY <2>2, <2>3
<1> QED
  BY <1>5, <1>6, <1>8, <1>9 DEF Pool, VisibleHasType, HiddenAsAsked

\* onClick: a visible flow is selected, and a thread may be started.
LEMMA ClickFlowInv == ASSUME IInv, NEW f \in Flows, ClickFlow(f) PROVE IInv'
<1> USE DEF IInv
<1>1. /\ f \in Active /\ ~ flow[f].hide
      /\ mSelectedFlow' = f
      /\ UNCHANGED <<lists, app>>
  BY DEF ClickFlow, Clickable
<1>2. /\ flow' \in [Flows -> Flow]
      /\ threads' \in Seq(Thread) /\ mDnsThread' \in 0 .. Len(threads')
      /\ \A g \in Flows :
           /\ flow'[g].activeID = flow[g].activeID /\ flow'[g].flowID = flow[g].flowID
           /\ flow'[g].mDescr = flow[g].mDescr /\ flow'[g].hide = flow[g].hide
  <2>1. CASE flow[f].text = "none"
    <3>1. /\ flow' = [flow EXCEPT ![f].text = "asked"]
          /\ threads' = Append(threads, [flow |-> f, at |-> "begin", id |-> NULL])
          /\ mDnsThread' = Len(threads')
      BY <2>1 DEF ClickFlow
    <3>2. flow[f] \in Flow
      BY ActiveIsFlow
    <3>3. /\ [flow[f] EXCEPT !.text = "asked"] \in Flow
          /\ [flow[f] EXCEPT !.text = "asked"].activeID = flow[f].activeID
          /\ [flow[f] EXCEPT !.text = "asked"].flowID = flow[f].flowID
          /\ [flow[f] EXCEPT !.text = "asked"].mDescr = flow[f].mDescr
          /\ [flow[f] EXCEPT !.text = "asked"].hide = flow[f].hide
      BY ONLY <3>2 DEF Flow
    <3>4. [flow |-> f, at |-> "begin", id |-> NULL] \in Thread
      BY DEF Thread
    <3>5. threads' \in Seq(Thread) /\ Len(threads') \in Nat
      BY <3>1, <3>4 DEF TypeOK
    <3>6. flow' \in [Flows -> Flow]
      BY <3>1, <3>3 DEF TypeOK
    <3>7. /\ flow'[f] = [flow[f] EXCEPT !.text = "asked"]
          /\ \A g \in Flows : g # f => flow'[g] = flow[g]
      BY <3>1 DEF TypeOK
    <3> QED
      BY <3>1, <3>3, <3>5, <3>6, <3>7
  <2>2. CASE flow[f].text # "none"
    BY <2>2 DEF ClickFlow, dns, TypeOK
  <2> QED
    BY <2>1, <2>2
<1>3. TypeOK'
  BY <1>1, <1>2 DEF TypeOK, lists, app
<1>4. Pool'
  BY <1>1, <1>2, PoolKept DEF Pool
<1>5. Active' = Active /\ Shown' = Shown
  BY <1>1 DEF lists, app, Active, Shown
<1>6. SelectionDrawable'
  BY <1>1, <1>2, <1>5, ActiveIsFlow DEF SelectionDrawable, VisibleHasType
<1>7. VisibleHasType' /\ HiddenAsAsked' /\ DescriptorsExist'
  BY <1>1, <1>2, <1>5, ActiveIsFlow DEF VisibleHasType, HiddenAsAsked, DescriptorsExist, app
<1> QED
  BY <1>3, <1>4, <1>6, <1>7 DEF Pool

\* onClick on nothing.
LEMMA ClickNothingInv == ASSUME IInv, ClickNothing PROVE IInv'
<1> USE DEF IInv
<1>1. mSelectedFlow' = NULL /\ UNCHANGED <<lists, flow, app, dns>>
  BY DEF ClickNothing
<1>2. TypeOK'
  BY <1>1 DEF TypeOK, lists, app, dns
<1>3. Pool'
  BY <1>1, PoolKept DEF Pool
<1>4. Active' = Active /\ Shown' = Shown
  BY <1>1 DEF lists, app, Active, Shown
<1>5. SelectionDrawable' /\ VisibleHasType' /\ HiddenAsAsked' /\ DescriptorsExist'
  BY <1>1, <1>4
     DEF SelectionDrawable, VisibleHasType, HiddenAsAsked, DescriptorsExist, app
<1> QED
  BY <1>2, <1>3, <1>5 DEF Pool

\* The look-up threads write only texts, so they disturb nothing else.
LEMMA DnsInv ==
  ASSUME IInv, NEW i \in DOMAIN threads, DnsBegin(i) \/ DnsResolve(i) \/ DnsWrite(i)
  PROVE  IInv'
<1> USE DEF IInv
<1>1. UNCHANGED <<lists, mSelectedFlow, app, mDnsThread>>
  BY DEF DnsBegin, DnsResolve, DnsWrite
<1>2. /\ threads \in Seq(Thread) /\ threads[i] \in Thread /\ threads[i].flow \in Flows
      /\ DOMAIN threads = 1 .. Len(threads)
  <2>1. threads \in Seq(Thread) /\ DOMAIN threads = 1 .. Len(threads)
    BY DEF TypeOK
  <2>2. threads[i] \in Thread
    BY <2>1
  <2> QED
    BY <2>1, <2>2 DEF Thread
<1>3. threads' \in Seq(Thread) /\ Len(threads') = Len(threads)
  <2>1. ASSUME NEW r \in Thread PROVE [threads EXCEPT ![i] = r] \in Seq(Thread)
                                      /\ Len([threads EXCEPT ![i] = r]) = Len(threads)
    BY <1>2
  <2>2. CASE DnsBegin(i)
    <3>1. PICK id \in FlowIDs(threads[i].flow) :
            threads' = [threads EXCEPT ![i] =
                          [[threads[i] EXCEPT !.at = "resolve"] EXCEPT !.id = id]]
      BY <2>2, <1>2 DEF DnsBegin
    <3>2. id \in Ids \cup {NULL}
      <4>1. flow[threads[i].flow] \in Flow
        BY <1>2, ActiveIsFlow
      <4> QED
        BY <3>1, <4>1 DEF FlowIDs, Flow
    <3>3. [[threads[i] EXCEPT !.at = "resolve"] EXCEPT !.id = id] \in Thread
      BY ONLY <1>2, <3>2 DEF Thread
    <3> QED
      BY <2>1, <3>1, <3>3
  <2>3. CASE DnsResolve(i) \/ DnsWrite(i)
    <3>1. PICK at \in {"write", "ended"} :
            threads' = [threads EXCEPT ![i] = [threads[i] EXCEPT !.at = at]]
      BY <2>3, <1>2 DEF DnsResolve, DnsWrite
    <3>2. [threads[i] EXCEPT !.at = at] \in Thread
      BY ONLY <1>2, at \in {"write", "ended"} DEF Thread
    <3> QED
      BY <2>1, <3>1, <3>2
  <2> QED
    BY <2>2, <2>3
<1>4. /\ flow' \in [Flows -> Flow]
      /\ \A g \in Flows :
           /\ flow'[g].activeID = flow[g].activeID /\ flow'[g].flowID = flow[g].flowID
           /\ flow'[g].mDescr = flow[g].mDescr /\ flow'[g].hide = flow[g].hide
  <2>1. CASE flow' = flow
    BY <2>1 DEF TypeOK
  <2>2. CASE flow' # flow
    <3> DEFINE f == threads[i].flow
    <3>1. PICK text \in {"none", "answered"} : flow' = [flow EXCEPT ![f].text = text]
      BY <2>2 DEF DnsBegin, DnsResolve, DnsWrite
    <3>2. f \in Flows /\ flow[f] \in Flow
      BY <1>2, ActiveIsFlow
    <3> HIDE DEF f
    <3>3. /\ [flow[f] EXCEPT !.text = text] \in Flow
          /\ [flow[f] EXCEPT !.text = text].activeID = flow[f].activeID
          /\ [flow[f] EXCEPT !.text = text].flowID = flow[f].flowID
          /\ [flow[f] EXCEPT !.text = text].mDescr = flow[f].mDescr
          /\ [flow[f] EXCEPT !.text = text].hide = flow[f].hide
      BY ONLY <3>2, text \in {"none", "answered"} DEF Flow
    <3>4. flow' \in [Flows -> Flow]
      BY <3>1, <3>2, <3>3 DEF TypeOK
    <3>5. /\ flow'[f] = [flow[f] EXCEPT !.text = text]
          /\ \A g \in Flows : g # f => flow'[g] = flow[g]
      BY <3>1, <3>2 DEF TypeOK
    <3> QED
      BY <3>3, <3>4, <3>5
  <2> QED
    BY <2>1, <2>2
<1>5. TypeOK'
  BY <1>1, <1>3, <1>4 DEF TypeOK, lists, app
<1>6. Pool'
  BY <1>1, <1>4, PoolKept DEF Pool
<1>7. View'
  BY <1>1, <1>4, ViewKept DEF View
<1> QED
  BY <1>5, <1>6, <1>7 DEF Pool, View
-----------------------------------------------------------------------------
(* The invariant holds in every reachable state. *)

LEMMA NextInv == IInv /\ [Next]_vars => IInv'
<1> SUFFICES ASSUME IInv, [Next]_vars PROVE IInv'
  OBVIOUS
<1>1. ASSUME NEW id \in Ids, NewFlow(id) PROVE IInv'
  BY <1>1, NewFlowInv
<1>2. ASSUME NEW id \in Ids, DelFlow(id) PROVE IInv'
  BY <1>2, DelFlowInv
<1>3. ASSUME NEW id \in Ids, NEW type \in Types, NewPacket(id, type) PROVE IInv'
  BY <1>3, NewPacketInv
<1>4. CASE DelAll
  BY <1>4, ForgetInv DEF DelAll, IInv, TypeOK, app
<1>5. ASSUME NEW type \in Types, AddFlowDescriptor(type) PROVE IInv'
  BY <1>5, AddFlowDescriptorInv
<1>6. ASSUME NEW succeeds \in BOOLEAN, OpenSocket(succeeds) PROVE IInv'
  <2>1. DOMAIN mFlowDescriptors' = {} /\ bConnected' \in BOOLEAN
    BY <1>6 DEF OpenSocket
  <2> QED
    BY <1>6, <2>1, ForgetInv DEF OpenSocket, DropFlows, IInv
<1>7. CASE Disconnect
  BY <1>7, DisconnectInv
<1>8. ASSUME NEW type \in Types, NEW show \in BOOLEAN, OnProtocolClicked(type, show)
      PROVE  IInv'
  BY <1>8, ShowTypesInv DEF OnProtocolClicked
<1>9. ASSUME NEW show \in BOOLEAN, OnProtocolButtonClicked(show) PROVE IInv'
  BY <1>9, ShowTypesInv DEF OnProtocolButtonClicked, IInv, TypeOK
<1>10. ASSUME NEW f \in Flows, ClickFlow(f) PROVE IInv'
  BY <1>10, ClickFlowInv
<1>11. CASE ClickNothing
  BY <1>11, ClickNothingInv
<1>12. ASSUME NEW i \in DOMAIN threads, DnsBegin(i) \/ DnsResolve(i) \/ DnsWrite(i)
       PROVE  IInv'
  BY <1>12, DnsInv
<1>13. CASE UNCHANGED vars
  <2>1. /\ UNCHANGED <<lists, mSelectedFlow, app, dns>>
        /\ \A f \in Flows : flow'[f] = flow[f]
    BY <1>13 DEF vars, lists, app, dns
  <2>2. TypeOK'
    BY <1>13 DEF IInv, TypeOK, vars
  <2> QED
    BY <2>1, <2>2, PoolKept, ViewKept DEF IInv, Pool, View
<1> QED
  BY <1>1, <1>2, <1>3, <1>4, <1>5, <1>6, <1>7, <1>8, <1>9, <1>10, <1>11, <1>12, <1>13
     DEF Next

\* Whatever messages, clicks, look-ups and lost connections come in whatever
\* order, the inductive invariant holds.
THEOREM PoolInvariant == Spec => []IInv
<1> QED
  BY InitInv, NextInv, PTL DEF Spec

\* Type correctness of the flow manager.
THEOREM PoolTypes == Spec => []TypeOK
<1>1. IInv => TypeOK
  BY DEF IInv
<1> QED
  BY <1>1, PoolInvariant, PTL

\* Every flow object is active or free, once; it knows its place, and ids only
\* find active flows: delFlow always removes the flow it was asked to.
THEOREM PoolIsConsistent == Spec => []PoolConsistent
<1>1. IInv => PoolConsistent
  BY DEF IInv
<1> QED
  BY <1>1, PoolInvariant, PTL

\* If the server does not announce an id twice, every flow that is drawn can be
\* found by its id.
THEOREM FlowsAreFound == Spec => []EveryFlowFound
<1>1. IInv => EveryFlowFound
  BY DEF IInv
<1> QED
  BY <1>1, PoolInvariant, PTL

\* render2d never follows a selection that was removed or has no descriptor yet.
THEOREM SelectionIsDrawable == Spec => []SelectionDrawable
<1>1. IInv => SelectionDrawable
  BY DEF IInv
<1> QED
  BY <1>1, PoolInvariant, PTL

\* The hide flags agree with the check boxes.
THEOREM HiddenIsAsked == Spec => []HiddenAsAsked
<1>1. IInv => HiddenAsAsked
  BY DEF IInv
<1> QED
  BY <1>1, PoolInvariant, PTL

\* No flow of a live connection points to a deleted descriptor.
THEOREM DescriptorsDoExist == Spec => []DescriptorsExist
<1>1. IInv => DescriptorsExist
  BY DEF IInv
<1> QED
  BY <1>1, PoolInvariant, PTL
=============================================================================
