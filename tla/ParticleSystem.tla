--------------------------- MODULE ParticleSystem ---------------------------
(***************************************************************************)
(* The particle systems of the client: ps_classic.cpp, ps_shaders.cpp,     *)
(* ps_texture.cpp and their choice in particles.cpp.                       *)
(*                                                                         *)
(* A fixed pool of particles is either on the free stack or in exactly one *)
(* collection.  A collection holds at most Capacity particles of one       *)
(* colour and size, and is found by a number made of both; when it is full *)
(* the next number is tried.  Every frame the update ages every particle   *)
(* once and frees the dead ones, deleting from the vector it walks over.   *)
(* The systems that draw with a shader record ONE collection's display     *)
(* list a frame, in turn, and then call the lists of all of them: what is  *)
(* on the screen is what was recorded, frames ago.                         *)
(*                                                                         *)
(* Positions, speeds and the order of the stack are left out: one free     *)
(* particle is as good as another.  Life is in units of one update; that   *)
(* of a free particle is never read, so it is 0, and its colour Black.  Of *)
(* a time stamp only this is kept: a display list holds what it recorded   *)
(* of a particle, or Wrong for one that has died since, or whose stamp was *)
(* moved since.                                                            *)
(***************************************************************************)
EXTENDS Integers, Sequences, SequencesExt, FiniteSets

CONSTANTS
    Particle,       \* mParticles; MAX_PARTICLES of them
    Capacity,       \* particles of one collection (1024)
    Colours,        \* colours of flow descriptors, and of the title banner
    Black,          \* the colour of the particle PSShaders::init adds
    Sum,            \* Color::sum() * 10000, of every colour
    Sizes,          \* size multipliers of packets, as size * 10000
    Lives,          \* lives a particle may be added with
    Jitters,        \* how much of it the jitter may take while connected
    BlackLife,      \* the life of PSShaders::init's particle
    Methods,        \* values of iParticleMethod in the configuration file
    Hardware,       \* the OpenGL features that may be there
    Wrong           \* a recorded particle that no longer is like this

ASSUME PoolAssumption ==
    /\ IsFiniteSet(Particle) /\ Particle # {} /\ Wrong \notin Particle
    /\ Capacity \in Nat \ {0}
ASSUME ColourAssumption == Black \in Colours /\ Sum \in [Colours -> Int]
ASSUME NumbersAssumption ==
    /\ Sizes \subseteq Int /\ Lives \subseteq Int /\ Jitters \subseteq Int
    /\ BlackLife \in Int

VARIABLES
    phase,          \* "start" | "events" | "network" (updateMain) | "stopped"
    kind,           \* which class mParticleSystem is
    connected,      \* bConnected
    mFree,          \* how often a particle is on the stack of free ones
    collections,    \* mParticleCollections, by number
    life,           \* of every particle
    colour,         \* of every particle: r, g, b
    current,        \* mCurrentCollection, as the number it points at
    descriptor      \* of every colour: is there a flow descriptor, and shown?

vars == <<phase, kind, connected, mFree, collections, life, colour, current,
          descriptor>>

\* The part of the state the loops of the classes work on.
pool == [mFree |-> mFree, collections |-> collections, life |-> life]

Keep(p) ==
    /\ mFree' = p.mFree
    /\ collections' = p.collections
    /\ life' = p.life

-----------------------------------------------------------------------------
(* Collections.                                                            *)

\* What a display list is worth for the particles that die, or move in time.
Outdated(mList, gone) ==
    (mList \ gone) \cup (IF mList \cap gone = {} THEN {} ELSE {Wrong})

\* Mutant of Without: pop_back() and nothing moved into the gap.
WithoutLast(list, i) == Front(list)

\* collection->mParticles[i] = the last one; pop_back().
Without(list, i) == SubSeq([list EXCEPT ![i] = Last(list)], 1, Len(list) - 1)

\* del(): out of its collection, inactive, on the free stack.
Del(p, key, i) ==
    LET dead == p.collections[key].mParticles[i]
    IN  [mFree |-> [p.mFree EXCEPT ![dead] = @ + 1],
         collections |-> [p.collections EXCEPT
             ![key].mParticles = Without(@, i),
             ![key].mList = Outdated(@, {dead})],
         life |-> [p.life EXCEPT ![dead] = 0]]

Keys(p) == DOMAIN p.collections

\* A loop over the map; the order of its numbers makes no difference here.
ForEach(Op(_, _), p) ==
    LET keys == SetToSeq(Keys(p))
        after[n \in 0..Cardinality(Keys(p))] ==
            IF n = 0 THEN p ELSE Op(after[n - 1], keys[n])
    IN  after[Cardinality(Keys(p))]

\* while(size() > 0) del(collection, 0), for every collection.
Emptied(p, key) ==
    LET left[n \in 0..Len(p.collections[key].mParticles)] ==
            IF n = 0 THEN p ELSE Del(left[n - 1], key, 1)
    IN  left[Len(p.collections[key].mParticles)]

DelAll(p) == ForEach(Emptied, p)

\* The number of the i-th collection of a colour and size.  Numbers of two
\* colours may meet: only a line in the log tells.
Key(col, size, i) == Sum[col] + size + i

Fits(p, key) ==
    key \in Keys(p) => Len(p.collections[key].mParticles) < Capacity

\* getCollection: the first number that is free or has room.
MostCollections == (Cardinality(Particle) \div Capacity) + 1

KeyFor(p, col, size) ==
    LET i == CHOOSE n \in 1..MostCollections :
                 /\ Fits(p, Key(col, size, n))
                 /\ \A m \in 1..(n - 1) : ~Fits(p, Key(col, size, m))
    IN  Key(col, size, i)

NewCollection(col, size) ==
    [mParticles |-> <<>>, fSize |-> size, mColor |-> col, bShown |-> TRUE,
     mList |-> {}]

GetCollection(p, key, col, size) ==
    IF key \in Keys(p) THEN p.collections
    ELSE [k \in Keys(p) \cup {key} |->
              IF k = key THEN NewCollection(col, size) ELSE p.collections[k]]

\* add(): nothing is added when no particle is free.
Added(p, col, size, lasts) ==
    LET key == KeyFor(p, col, size)
        new == CHOOSE one \in Particle : p.mFree[one] > 0
    IN  [mFree |-> [p.mFree EXCEPT ![new] = @ - 1],
         collections |-> [GetCollection(p, key, col, size) EXCEPT
                              ![key].mParticles = Append(@, new)],
         life |-> [p.life EXCEPT ![new] = lasts]]

\* add(): the particle taken from the stack gets its colour.
Painted(col) ==
    colour' = [one \in Particle |-> IF mFree'[one] > 0 THEN Black
                                   ELSE IF mFree[one] > 0 THEN col
                                   ELSE colour[one]]

\* showColor: every collection whose colour has this sum.
Showing(cs, col, shown) ==
    [k \in DOMAIN cs |->
        IF Sum[cs[k].mColor] = Sum[col] THEN [cs[k] EXCEPT !.bShown = shown]
        ELSE cs[k]]

-----------------------------------------------------------------------------
(* update().                                                               *)

\* Mutant of AgeStep: no i-- after a deletion.
AgeStepSkips(s, key) ==
    LET p == s.pool
        one == p.collections[key].mParticles[s.i]
    IN  IF s.i > Len(p.collections[key].mParticles) THEN s
        ELSE IF p.life[one] < 0
        THEN [i |-> s.i + 1, pool |-> Del(p, key, s.i)]
        ELSE [i |-> s.i + 1, pool |-> [p EXCEPT !.life[one] = @ - 1]]

\* One turn of the loop of updateCollection: a dead particle is deleted and
\* the one swapped into its place is looked at next; a live one ages.
AgeStep(s, key) ==
    LET p == s.pool
        one == p.collections[key].mParticles[s.i]
    IN  IF p.life[one] < 0
        THEN [i |-> s.i, pool |-> Del(p, key, s.i)]
        ELSE [i |-> s.i + 1, pool |-> [p EXCEPT !.life[one] = @ - 1]]

\* Every turn deletes one or passes one: as many turns as particles.
UpdateCollection(p, key) ==
    LET turn[n \in 0..Len(p.collections[key].mParticles)] ==
            IF n = 0 THEN [i |-> 1, pool |-> p] ELSE AgeStep(turn[n - 1], key)
    IN  turn[Len(p.collections[key].mParticles)].pool

Updated(p) == ForEach(UpdateCollection, p)

-----------------------------------------------------------------------------
(* Start and stop.                                                         *)

NoneFree == [p \in Particle |-> 0]

\* initParticleSystem: 0 tries these, in this order.
Unspecified == "unspecified"
AutoOrder == <<"shaders", "sprites", "classic">>
Shaded(k) == k \in {"shaders", "directional"}    \* draws with display lists

Needs(k) == CASE k = "classic" -> {}
              [] k = "sprites" -> {"point_sprite"}
              [] k = "texture" -> {"point_sprite", "framebuffer"}
              [] OTHER         -> {"point_sprite", "programs"}

Chosen(method, features) ==
    IF method # Unspecified THEN method
    ELSE SelectSeq(AutoOrder, LAMBDA k : Needs(k) \subseteq features)[1]

FreshPool ==
    [mFree |-> [p \in Particle |-> 1], collections |-> <<>>,
     life |-> [p \in Particle |-> 0]]

\* init() of the chosen class: a shaded one adds a black particle so that
\* there is a collection to point mCurrentCollection at.
Start ==
    /\ phase = "start"
    /\ \E method \in Methods, features \in Hardware :
          LET k == Chosen(method, features) IN
          IF ~(Needs(k) \subseteq features)
          THEN phase' = "stopped" /\ UNCHANGED <<kind, current>> /\ Keep(pool)
          ELSE /\ phase' = "events"
               /\ kind' = k
               /\ IF Shaded(k)
                  THEN /\ Keep(Added(FreshPool, Black, 10000, BlackLife))
                       /\ current' = Key(Black, 10000, 1)
                  ELSE Keep(FreshPool) /\ UNCHANGED current
    /\ Painted(Black)
    /\ UNCHANGED <<connected, descriptor>>

\* shutdown() from utilShutdown: the free stack is emptied, every particle
\* deleted and the collections with them.
Shutdown ==
    /\ phase = "events"
    /\ phase' = "stopped"
    /\ collections' = <<>>
    /\ mFree' = DelAll([pool EXCEPT !.mFree = NoneFree]).mFree
    /\ life' = FreshPool.life
    /\ UNCHANGED <<kind, connected, colour, current, descriptor>>

-----------------------------------------------------------------------------
(* What the rest of the client calls: the network in updateMain, the user  *)
(* and the clean-up timer between two frames.                              *)

Running == phase \in {"events", "network"}

NoDescriptors == [c \in Colours |-> "none"]

\* openSocket and disconnect: no particles, no descriptors; the collections,
\* what they show and their display lists stay.
Reconnect ==
    /\ Running
    /\ Keep(DelAll(pool)) /\ Painted(Black)
    /\ descriptor' = NoDescriptors
    /\ connected' \in BOOLEAN
    /\ UNCHANGED <<phase, kind, current>>

\* addFlowDescriptor: only the first of an id; its colour is shown.
ShownAgainNot(cs, col) == cs          \* mutant: no showColor
ShownAgain(cs, col) == Showing(cs, col, TRUE)

AddFlowDescriptor(col) ==
    /\ phase = "network" /\ connected
    /\ descriptor[col] = "none"
    /\ descriptor' = [descriptor EXCEPT ![col] = "shown"]
    /\ collections' = ShownAgain(collections, col)
    /\ UNCHANGED <<phase, kind, connected, mFree, life, colour, current>>

\* onProtocolClicked: the check box of a protocol.
ProtocolClicked(col) ==
    /\ phase = "events"
    /\ descriptor[col] # "none"
    /\ LET on == descriptor[col] = "hidden" IN
       /\ descriptor' = [descriptor EXCEPT ![col] =
                             IF on THEN "shown" ELSE "hidden"]
       /\ collections' = Showing(collections, col, on)
    /\ UNCHANGED <<phase, kind, connected, mFree, life, colour, current>>

\* newPacket: a particle of the flow's colour, hidden or not.
NewPacket(col, size, lasts, jitter) ==
    /\ phase = "network" /\ connected
    /\ descriptor[col] # "none"
    /\ mFree # NoneFree
    /\ Keep(Added(pool, col, size, lasts - jitter)) /\ Painted(col)
    /\ UNCHANGED <<phase, kind, connected, current, descriptor>>

\* generateTestData: the banner, unconnected, never with a shader.
TestData(col, lasts) ==
    /\ phase = "network" /\ ~connected
    /\ kind \in {"classic", "sprites"}
    /\ mFree # NoneFree
    /\ Keep(Added(pool, col, 10000, lasts)) /\ Painted(col)
    /\ UNCHANGED <<phase, kind, connected, current, descriptor>>

\* doPeriodicCleanup, every hour: fTime starts again at 0 and the particles'
\* time stamps follow it back; those recorded in a display list do not.
PeriodicCleanup ==
    /\ phase = "events"
    /\ collections' = [k \in DOMAIN collections |->
           [collections[k] EXCEPT !.mList = Outdated(@, Particle)]]
    /\ UNCHANGED <<phase, kind, connected, mFree, life, colour, current, descriptor>>

-----------------------------------------------------------------------------
(* The frame.                                                              *)

\* The collection after the current one in the map, or the first.
Following(keys, key) ==
    LET later == {k \in keys : k > key}
    IN  CHOOSE k \in (IF later = {} THEN keys ELSE later) :
            \A l \in (IF later = {} THEN keys ELSE later) : k <= l

\* Mutant of Recording: an empty collection returns before glNewList.
RecordingUnlessEmpty(c) ==
    IF c.mParticles = <<>> THEN c.mList ELSE ToSet(c.mParticles)

\* What renderAll compiles into a list: the particles there are, as they are.
\* An empty collection compiles an empty list.
Recording(c) == ToSet(c.mParticles)

\* render(): only a shaded system keeps anything of what it draws.
Render ==
    /\ phase = "events"
    /\ IF Shaded(kind)
       THEN LET next == Following(DOMAIN collections, current)
            IN  /\ current' = next
                /\ collections' = [collections EXCEPT
                       ![next].mList = Recording(collections[next])]
       ELSE UNCHANGED <<current, collections>>
    \* a frame that took no time is thrown away: no updateMain
    /\ \/ UNCHANGED phase
       \/ phase' = "network"
    /\ UNCHANGED <<kind, connected, mFree, life, colour, descriptor>>

\* update(), after the network was read.
Update ==
    /\ phase = "network"
    /\ phase' = "events"
    /\ Keep(Updated(pool)) /\ Painted(Black)
    /\ UNCHANGED <<kind, connected, current, descriptor>>

-----------------------------------------------------------------------------
Init ==
    /\ phase = "start" /\ kind = "none"
    /\ connected = FALSE
    /\ mFree = NoneFree /\ collections = <<>>
    /\ life = FreshPool.life
    /\ colour = [p \in Particle |-> Black]
    /\ current = 0
    /\ descriptor = NoDescriptors

Next ==
    \/ Start \/ Shutdown \/ Reconnect \/ PeriodicCleanup \/ Render
    \/ Update
    \/ \E c \in Colours :
          \/ AddFlowDescriptor(c) \/ ProtocolClicked(c)
          \/ \E s \in Sizes, l \in Lives, j \in Jitters : NewPacket(c, s, l, j)
          \/ \E l \in Lives : TestData(c, l)

\* utilEventLoop runs frame after frame until the user quits; Update is the
\* one step by which updateMain returns.
Returns == phase = "network" /\ phase' = "events"
Fairness == WF_vars(Start) /\ WF_vars(Render) /\ WF_phase(Returns)

Spec == Init /\ [][Next]_vars /\ Fairness

-----------------------------------------------------------------------------
\* The types of the variables; the iterator mCurrentCollection of a system that
\* draws with display lists points at a collection, for render() advances and
\* follows it without a check.
Collection == [mParticles : Seq(Particle), fSize : Int, mColor : Colours,
               bShown : BOOLEAN, mList : SUBSET (Particle \cup {Wrong})]

TypeOK ==
    /\ phase \in {"start", "events", "network", "stopped"}
    /\ connected \in BOOLEAN
    /\ mFree \in [Particle -> Int] /\ life \in [Particle -> Int]
    /\ IsFiniteSet(DOMAIN collections) /\ DOMAIN collections \subseteq Int
    /\ collections \in [DOMAIN collections -> Collection]
    /\ Running /\ Shaded(kind) => current \in DOMAIN collections
    /\ descriptor \in [Colours -> {"none", "shown", "hidden"}]
    /\ colour \in [Particle -> Colours]

-----------------------------------------------------------------------------
(* What the particle systems promise.                                      *)

Live == UNION {ToSet(collections[k].mParticles) : k \in DOMAIN collections}

\* While the client runs, every particle is on the free stack or in a
\* collection, exactly once, and no collection is above its capacity: del()
\* while update() walks the same vector, delAll() and the overflow into a
\* further collection neither lose nor double one (ps_classic.cpp:224-484).
PoolConserved ==
    Running =>
      /\ \A p \in Particle : mFree[p] = IF p \in Live THEN 0 ELSE 1
      /\ \A k \in DOMAIN collections :
            /\ IsInjective(collections[k].mParticles)
            /\ Len(collections[k].mParticles) <= Capacity
            /\ \A l \in DOMAIN collections \ {k} :
                  ToSet(collections[k].mParticles)
                      \cap ToSet(collections[l].mParticles) = {}

\* An update ages every live particle by exactly one and frees exactly those
\* whose life was over, although it deletes from the vector it walks over
\* (ps_shaders.cpp:201-218, ps_classic.cpp:237-253).
AgedOnce ==
    (phase = "network" /\ phase' = "events") =>
        \A p \in Live : IF life[p] < 0 THEN mFree'[p] = 1
                        ELSE mFree'[p] = 0 /\ life'[p] = life[p] - 1

UpdateAgesOnce == [][AgedOnce]_vars

\* A particle of a colour whose check box is set is in a collection that is
\* drawn, whatever was hidden since, or for an earlier server: showColor()
\* toggles "particles with a specific colour" (ps_interface.h:39,
\* socket.cpp:616-619).  It does where the numbers of no two colours meet.
\* Where they do, a full collection of one colour overflows into one of the
\* other, and is hidden with it (ps_classic.cpp:432-442, 507-518).
CheckedIsShown ==
    \A k \in DOMAIN collections, one \in Particle :
        one \in ToSet(collections[k].mParticles) /\ descriptor[colour[one]] = "shown"
            => collections[k].bShown

\* A list that shows something else than its collection holds, a dead
\* particle, a missing one or a time stamp from before the clean-up, is
\* recorded anew before long (ps_shaders.cpp:225-241).
Fresh(k) ==
    /\ k \in DOMAIN collections
    /\ collections[k].mList = ToSet(collections[k].mParticles)

AllKeys == {Key(c, s, i) : c \in Colours, s \in Sizes \cup {10000},
                           i \in 1..MostCollections}

ListsCatchUp ==
    \A k \in AllKeys :
        (k \in DOMAIN collections /\ Shaded(kind))
            ~> (phase = "stopped" \/ Fresh(k))
=============================================================================
