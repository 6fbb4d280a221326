---------------------------- MODULE FlowManager ----------------------------
(***************************************************************************)
(* The client's flows (src/client/src/flowmanager.cpp, flow.cpp), with the *)
(* flow descriptors and the connection they depend on (socket.cpp) and the *)
(* check boxes that hide them (gui.cpp).  Flows are objects on the heap    *)
(* that move between a vector of active flows and a stack of free ones; a  *)
(* map finds them by the server's id, each knows its place in the vector,  *)
(* and one of them may be selected with the mouse.                         *)
(*                                                                         *)
(* Everything runs in the client's main thread, one handler at a time,     *)
(* except the threads that look up the name of a selected flow's address.  *)
(* A click starts one for either end; they do the same, so one is modelled.*)
(* Positions, textures and particles are left out; the build has a GUI.    *)
(***************************************************************************)
EXTENDS Integers, SequencesExt

CONSTANTS
  Flows,       \* addresses a Flow object can have
  Ids,         \* ids of flows in the server's messages
  Types,       \* ids of flow descriptors
  MaxThreads,  \* bound: DNS threads started
  RepeatedIds, \* may a FLOW have an id that is in use? (after a lost KILLFLOW)
  NULL

ASSUME NullAssumption == NULL \notin Flows \cup Types
ASSUME ThreadAssumption == MaxThreads \in Nat /\ RepeatedIds \in BOOLEAN

VARIABLES
  mFreeFlows,       \* stack, top last
  mActiveFlows,     \* vector; places are counted from 1
  mFlowMap,         \* id -> flow
  flow,             \* the contents of the Flow objects
  mSelectedFlow,
  mFlowDescriptors, \* type -> bShown, for the descriptors that exist
  bConnected,
  threads,          \* the DNS threads started so far
  mDnsThread        \* the last one, 0 if there was none

vars == <<mFreeFlows, mActiveFlows, mFlowMap, flow, mSelectedFlow,
          mFlowDescriptors, bConnected, threads, mDnsThread>>
lists == <<mFreeFlows, mActiveFlows, mFlowMap>>
dns == <<threads, mDnsThread>>
app == <<mFlowDescriptors, bConnected>>
-----------------------------------------------------------------------------
Flow == [flowID : Ids \cup {NULL}, activeID : Nat, hide : BOOLEAN,
         mDescr : Types \cup {NULL}, text : {"none", "asked", "answered"}]
Thread == [flow : Flows, at : {"begin", "resolve", "write", "ended"},
           id : Ids \cup {NULL}]

Elements(s) == {s[i] : i \in 1 .. Len(s)}
Active == Elements(mActiveFlows)
Free == Elements(mFreeFlows)
Shown == {t \in DOMAIN mFlowDescriptors : mFlowDescriptors[t]}

\* What addFlow and newFlow write into an object.
Fresh(id, place) == [flowID |-> id, activeID |-> place, hide |-> TRUE,
                     mDescr |-> NULL, text |-> "none"]

\* What is in the memory of an object that does not exist is never used.
Blank == Fresh(NULL, 0)

\* A function with one more point.
With(fn, x, y) == [z \in DOMAIN fn \cup {x} |-> IF z = x THEN y ELSE fn[z]]
\* A function without a point.
But(fn, x) == [z \in DOMAIN fn \ {x} |-> fn[z]]

\* Mutant of Renumbered: the moved flow keeps its old place.
RenumberedNot(contents, last, index) == contents
\* mActiveFlows[index]->activeID = index, for the flow moved there.
Renumbered(contents, last, index) == [contents EXCEPT ![last].activeID = index]

\* The place of a flow that is pushed.
Place == Len(mActiveFlows) + 1

\* Mutant of Deselected: the selection is not looked at.
DeselectedNot(f) == mSelectedFlow
\* The selection after f is gone.
Deselected(f) == IF mSelectedFlow = f THEN NULL ELSE mSelectedFlow

\* The flows onClick looks at.
Clickable == {f \in Active : ~ flow[f].hide}

\* Mutant of Toggled: only flows that are to be hidden are looked at.
ToggledToHide(types, show) ==
  [f \in Flows |-> IF f \in Active /\ flow[f].mDescr \in types /\ ~ show
                   THEN [flow[f] EXCEPT !.hide = TRUE] ELSE flow[f]]
\* showType, for each of these types.
Toggled(types, show) ==
  [f \in Flows |-> IF f \in Active /\ flow[f].mDescr \in types
                   THEN [flow[f] EXCEPT !.hide = ~ show] ELSE flow[f]]

\* Mutant of ActiveLeft: delAll forgets the vector.
AllLeft == mActiveFlows
\* What delAll leaves in the vector.
ActiveLeft == << >>

\* SDL_KillThread on the last thread started.
Killed == [i \in DOMAIN threads |->
             IF i = mDnsThread THEN [threads[i] EXCEPT !.at = "ended"]
                               ELSE threads[i]]
-----------------------------------------------------------------------------
Init ==
  /\ mFreeFlows = << >> /\ mActiveFlows = << >> /\ mFlowMap = << >>
  /\ flow = [f \in Flows |-> Blank]
  /\ mSelectedFlow = NULL
  /\ mFlowDescriptors = << >>
  /\ bConnected = FALSE
  /\ threads = << >> /\ mDnsThread = 0

(* Messages of the server. *)

\* getFreeFlow: the flow on top of the stack, or a new object.
GetFreeFlow(f) ==
  IF mFreeFlows = << >>
  THEN f \notin Active /\ UNCHANGED mFreeFlows
  ELSE f = Last(mFreeFlows) /\ mFreeFlows' = Front(mFreeFlows)

\* newFlow and addFlow.
NewFlow(id) ==
  /\ bConnected
  /\ RepeatedIds \/ id \notin DOMAIN mFlowMap
  /\ \E f \in Flows :
       /\ GetFreeFlow(f)
       /\ mActiveFlows' = Append(mActiveFlows, f)
       /\ flow' = [flow EXCEPT ![f] = Fresh(id, Place)]
       /\ mFlowMap' = With(mFlowMap, id, f)
  /\ UNCHANGED <<mSelectedFlow, app, dns>>

\* A PACKET that is neither of a hidden type nor skipped, and newPacket.  The
\* server has described the type before (otherwise getFD returns NULL, which
\* is dereferenced).
NewPacket(id, type) ==
  /\ bConnected
  /\ type \in Shown
  /\ id \in DOMAIN mFlowMap
  /\ flow' = [flow EXCEPT ![mFlowMap[id]].mDescr = type,
                          ![mFlowMap[id]].hide = FALSE]
  /\ UNCHANGED <<lists, mSelectedFlow, app, dns>>

\* delFlow.
DelFlow(id) ==
  /\ bConnected
  /\ id \in DOMAIN mFlowMap
  /\ LET f == mFlowMap[id]
         index == flow[f].activeID
         last == Last(mActiveFlows)
     IN  /\ mFlowMap' = But(mFlowMap, id)
         /\ mFreeFlows' = Append(mFreeFlows, f)
         /\ mSelectedFlow' = Deselected(f)
         /\ threads' = IF mSelectedFlow = f THEN Killed ELSE threads
         /\ flow' = Renumbered(flow, last, index)
         /\ mActiveFlows' = Front([mActiveFlows EXCEPT ![index] = last])
  /\ UNCHANGED <<app, mDnsThread>>

\* delAll: all objects are deleted.
Forget ==
  /\ mFreeFlows' = << >>
  /\ mActiveFlows' = ActiveLeft
  /\ mFlowMap' = << >>
  /\ flow' = [f \in Flows |-> Blank]
  /\ mSelectedFlow' = NULL
  /\ UNCHANGED dns

DelAll == bConnected /\ Forget /\ UNCHANGED app

\* addFlowDescriptor: a type is shown by default; a second description of a
\* type is ignored.
AddFlowDescriptor(type) ==
  /\ bConnected
  /\ type \notin DOMAIN mFlowDescriptors
  /\ mFlowDescriptors' = With(mFlowDescriptors, type, TRUE)
  /\ UNCHANGED <<lists, flow, mSelectedFlow, bConnected, dns>>

(* The connection. *)

\* Mutant of DropFlows: the flows of the last server stay.
DropNothing == UNCHANGED <<lists, flow, mSelectedFlow, dns>>
\* openSocket calls delAll.
DropFlows == Forget

\* openSocket, which disconnects first and may then fail.
OpenSocket(succeeds) ==
  /\ DropFlows
  /\ mFlowDescriptors' = << >>
  /\ bConnected' = succeeds

\* The connection is lost: disconnect deletes the descriptors, not the flows.
Disconnect ==
  /\ bConnected
  /\ bConnected' = FALSE
  /\ mFlowDescriptors' = << >>
  /\ UNCHANGED <<lists, flow, mSelectedFlow, dns>>

(* The user. *)

\* A check box, or one of the buttons that set all of them.
ShowTypes(types, show) ==
  /\ mFlowDescriptors' = [t \in DOMAIN mFlowDescriptors |->
                            IF t \in types THEN show ELSE mFlowDescriptors[t]]
  /\ flow' = Toggled(types, show)
  /\ UNCHANGED <<lists, mSelectedFlow, bConnected, dns>>

OnProtocolClicked(type, show) ==
  type \in DOMAIN mFlowDescriptors /\ ShowTypes({type}, show)

OnProtocolButtonClicked(show) == ShowTypes(DOMAIN mFlowDescriptors, show)

\* onClick near the end of a flow: its name is asked for unless it has been.
ClickFlow(f) ==
  /\ f \in Clickable
  /\ mSelectedFlow' = f
  /\ IF flow[f].text = "none"
     THEN /\ Len(threads) < MaxThreads
          /\ flow' = [flow EXCEPT ![f].text = "asked"]
          /\ threads' = Append(threads, [flow |-> f, at |-> "begin", id |-> NULL])
          /\ mDnsThread' = Len(threads')
     ELSE UNCHANGED <<flow, dns>>
  /\ UNCHANGED <<lists, app>>

\* onClick near no flow.
ClickNothing ==
  /\ mSelectedFlow' = NULL
  /\ UNCHANGED <<lists, flow, app, dns>>

(* DNS threads. *)

\* What the thread finds in the memory of its flow.
FlowIDs(f) == IF f \in Active \cup Free THEN {flow[f].flowID} ELSE Ids

\* f->flowID is read.
DnsBegin(i) ==
  /\ threads[i].at = "begin"
  /\ \E id \in FlowIDs(threads[i].flow) :
       threads' = [threads EXCEPT ![i].at = "resolve", ![i].id = id]
  /\ UNCHANGED <<lists, flow, mSelectedFlow, app, mDnsThread>>

\* SDLNet_ResolveIP returns, and flowValid is asked about the id.
DnsResolve(i) ==
  /\ threads[i].at = "resolve"
  /\ threads' = [threads EXCEPT ![i].at =
                   IF threads[i].id \in DOMAIN mFlowMap THEN "write" ELSE "ended"]
  /\ UNCHANGED <<lists, flow, mSelectedFlow, app, mDnsThread>>

\* The name, or an empty text, is written to the flow; to an object that has
\* been deleted it is written as well, with effects that are not modelled.
DnsWrite(i) ==
  /\ threads[i].at = "write"
  /\ threads' = [threads EXCEPT ![i].at = "ended"]
  /\ LET f == threads[i].flow
     IN  IF f \in Active \cup Free
         THEN \E text \in {"none", "answered"} : flow' = [flow EXCEPT ![f].text = text]
         ELSE UNCHANGED flow
  /\ UNCHANGED <<lists, mSelectedFlow, app, mDnsThread>>

Next ==
  \/ \E id \in Ids : NewFlow(id) \/ DelFlow(id)
  \/ \E id \in Ids, type \in Types : NewPacket(id, type)
  \/ DelAll
  \/ \E type \in Types : AddFlowDescriptor(type)
  \/ \E succeeds \in BOOLEAN : OpenSocket(succeeds)
  \/ Disconnect
  \/ \E type \in Types, show \in BOOLEAN : OnProtocolClicked(type, show)
  \/ \E show \in BOOLEAN : OnProtocolButtonClicked(show)
  \/ \E f \in Flows : ClickFlow(f)
  \/ ClickNothing
  \/ \E i \in DOMAIN threads : DnsBegin(i) \/ DnsResolve(i) \/ DnsWrite(i)

Spec == Init /\ [][Next]_vars
-----------------------------------------------------------------------------
\* The types of the variables.
TypeOK ==
  /\ mFreeFlows \in Seq(Flows) /\ mActiveFlows \in Seq(Flows)
  /\ DOMAIN mFlowMap \subseteq Ids
  /\ \A id \in DOMAIN mFlowMap : mFlowMap[id] \in Flows
  /\ flow \in [Flows -> Flow]
  /\ mSelectedFlow \in Flows \cup {NULL}
  /\ DOMAIN mFlowDescriptors \subseteq Types
  /\ \A t \in DOMAIN mFlowDescriptors : mFlowDescriptors[t] \in BOOLEAN
  /\ bConnected \in BOOLEAN
  /\ threads \in Seq(Thread)
  /\ mDnsThread \in 0 .. Len(threads)

Distinct(s) == \A i, j \in 1 .. Len(s) : s[i] = s[j] => i = j

\* Every flow object is in one place: active or free, once, and knows its
\* place in the vector, so delFlow's swap with the last flow removes the right
\* one; an id never finds a free or deleted flow, nor one with another id.
PoolConsistent ==
  /\ Distinct(mActiveFlows) /\ Distinct(mFreeFlows)
  /\ Active \cap Free = {}
  /\ \A i \in 1 .. Len(mActiveFlows) : flow[mActiveFlows[i]].activeID = i
  /\ \A id \in DOMAIN mFlowMap : /\ mFlowMap[id] \in Active
                                 /\ flow[mFlowMap[id]].flowID = id

\* As long as the server does not announce an id twice, every flow that is
\* drawn can be found by its id, so its KILLFLOW will remove it.
EveryFlowFound ==
  RepeatedIds \/ \A f \in Active : /\ flow[f].flowID \in DOMAIN mFlowMap
                                   /\ mFlowMap[flow[f].flowID] = f

\* render2d takes the colour of the selected flow's descriptor without a test:
\* after every removal, reuse, hiding, clearing and click the selected flow is
\* an active one whose mDescr is not NULL.  The descriptor itself is deleted
\* only by a disconnect (DescriptorsExist), and render2d is called only while
\* connected (render.cpp:157).
SelectionDrawable ==
  mSelectedFlow # NULL => /\ mSelectedFlow \in Active
                          /\ flow[mSelectedFlow].mDescr # NULL

\* A flow can be clicked on exactly if it has had a packet and the type of its
\* last packet is checked: the flag kept in each flow never disagrees with the
\* check boxes, in whatever order packets and clicks arrive.
HiddenAsAsked ==
  bConnected =>
    \A f \in Active : flow[f].hide <=> flow[f].mDescr \notin Shown

\* While connected no flow points to a descriptor that has been deleted, also
\* not to one of the server before.
DescriptorsExist ==
  bConnected =>
    \A f \in Active : flow[f].mDescr \in DOMAIN mFlowDescriptors \cup {NULL}

\* "Delete the DNS threads, in case we were trying to resolve still"
\* (flowmanager.cpp, delFlow): no thread works on a flow that was removed.
RemovedNotResolved ==
  \A i \in DOMAIN threads :
    threads[i].at # "ended" => threads[i].flow \notin Free
=============================================================================
