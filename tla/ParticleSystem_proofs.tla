----------------------- MODULE ParticleSystem_proofs -----------------------
(***************************************************************************)
(* Proofs about ParticleSystem, for any finite pool, any capacity of a     *)
(* collection, any colours, sizes and lives.                               *)
(*                                                                         *)
(* TypeOK and PoolConserved are inductive together.  What is hard is that  *)
(* the loops of delAll() and update(), which delete from the vector they   *)
(* walk over, preserve them: each has a lemma for one turn (DelFacts,      *)
(* TurnDeletes, TurnAges), one that its recursive function is well defined *)
(* (EmptiedLoop, DelAllLoop, UpdateLoop, UpdatedLoop) and one for what the *)
(* whole loop does, by induction over its turns (EmptiedFacts,             *)
(* DelAllFacts, UpdateCollectionFacts, UpdatedFacts).  That add() always   *)
(* finds a collection with room is the pigeonhole principle (SomeFits).    *)
(***************************************************************************)
EXTENDS ParticleSystem, FiniteSetTheorems, WellFoundedInduction, TLAPS

\* Induction, without an operator for the formula.
LEMMA SetInduction ==
    ASSUME NEW T \in SUBSET Nat, 0 \in T, \A n \in T : n + 1 \in T
    PROVE  T = Nat
<1> SUFFICES ASSUME Nat \ T # {}
             PROVE  FALSE
  OBVIOUS
<1>1. IsWellFoundedOn(OpToRel(<, Nat), Nat)
  BY NatLessThanWellFounded
<1>2. PICK x \in Nat \ T : \A y \in Nat \ T : ~ (<<y, x>> \in OpToRel(<, Nat))
  BY <1>1, WFMin
<1>3. \A y \in Nat \ T : ~ (y < x)
  BY <1>2 DEF OpToRel
<1>4. x # 0
  OBVIOUS
<1>5. x - 1 \in Nat /\ x - 1 < x /\ (x - 1) + 1 = x
  BY <1>4
<1> QED
  BY <1>3, <1>5

\* A set of numbers that is not empty has a least element.
LEMMA LeastExists ==
    ASSUME NEW S \in SUBSET Nat, S # {}
    PROVE  \E x \in S : \A y \in S : x <= y
<1>1. IsWellFoundedOn(OpToRel(<, Nat), Nat)
  BY NatLessThanWellFounded
<1>2. PICK x \in S : \A y \in S : ~ (<<y, x>> \in OpToRel(<, Nat))
  BY <1>1, WFMin
<1>3. \A y \in S : ~ (y < x)
  BY <1>2 DEF OpToRel
<1> QED
  BY <1>3
-----------------------------------------------------------------------------
(* Pools.                                                                  *)

In(p, k) == ToSet(p.collections[k].mParticles)

LiveIn(p) == UNION {In(p, k) : k \in Keys(p)}

IsPool(p) ==
    /\ p = [mFree |-> p.mFree, collections |-> p.collections, life |-> p.life]
    /\ p.mFree \in [Particle -> Int] /\ p.life \in [Particle -> Int]
    /\ IsFiniteSet(Keys(p)) /\ Keys(p) \subseteq Int
    /\ p.collections \in [Keys(p) -> Collection]

\* No particle is in two places of collections, and none overflows.
Separate(p) ==
    \A k \in Keys(p) :
        /\ IsInjective(p.collections[k].mParticles)
        /\ Len(p.collections[k].mParticles) <= Capacity
        /\ \A l \in Keys(p) \ {k} : In(p, k) \cap In(p, l) = {}

\* The same collections, but for the particles and what was recorded of them.
Alike(p, q) ==
    /\ Keys(q) = Keys(p)
    /\ \A k \in Keys(p) : /\ q.collections[k].mColor = p.collections[k].mColor
                          /\ q.collections[k].bShown = p.collections[k].bShown

\* Taking one out and moving the last one into the gap.
LEMMA WithoutFacts ==
    ASSUME NEW S, NEW list \in Seq(S), IsInjective(list), NEW i \in 1..Len(list)
    PROVE  /\ Without(list, i) \in Seq(S)
           /\ Len(Without(list, i)) = Len(list) - 1
           /\ \A j \in 1..(Len(list) - 1) :
                  Without(list, i)[j] = IF j = i THEN list[Len(list)] ELSE list[j]
           /\ IsInjective(Without(list, i))
           /\ ToSet(Without(list, i)) = ToSet(list) \ {list[i]}
<1> DEFINE last == Len(list)
           w    == Without(list, i)
<1>1. last \in Nat \ {0} /\ DOMAIN list = 1..last /\ i \in 1..last
  OBVIOUS
<1> DEFINE moved == [list EXCEPT ![i] = list[last]]
<1>2. moved \in Seq(S) /\ Len(moved) = last
  BY <1>1
<1>3. w = SubSeq(moved, 1, last - 1)
  BY DEF Without, Last
<1>4. \A j \in 1..last : moved[j] = IF j = i THEN list[last] ELSE list[j]
  BY <1>1
<1> HIDE DEF moved, last
<1>5. /\ w \in Seq(S) /\ Len(w) = last - 1
      /\ \A j \in 1..(last - 1) : w[j] = moved[j]
  BY <1>1, <1>2, <1>3
<1> HIDE DEF w
<1>6. \A j \in 1..(last - 1) : w[j] = IF j = i THEN list[last] ELSE list[j]
  BY <1>1, <1>4, <1>5
<1>7. DOMAIN w = 1..(last - 1)
  BY <1>1, <1>5
<1>8. \A a, b \in 1..last : list[a] = list[b] => a = b
  BY <1>1 DEF IsInjective
<1>9. IsInjective(w)
  <2> SUFFICES ASSUME NEW a \in 1..(last - 1), NEW b \in 1..(last - 1), w[a] = w[b]
               PROVE  a = b
    BY <1>7 DEF IsInjective
  <2>1. a \in 1..last /\ b \in 1..last /\ last \in 1..last /\ a # last /\ b # last
    BY <1>1
  <2> QED
    BY <1>6, <1>8, <2>1
<1>10. ToSet(w) = ToSet(list) \ {list[i]}
  <2>1. ASSUME NEW j \in 1..(last - 1)
        PROVE  w[j] \in ToSet(list) \ {list[i]}
    <3>1. j \in 1..last /\ i \in 1..last /\ last \in 1..last /\ j # last
      BY <1>1
    <3>2. w[j] \in ToSet(list)
      BY <1>1, <1>6, <3>1 DEF ToSet
    <3>3. w[j] # list[i]
      BY <1>6, <1>8, <3>1
    <3> QED
      BY <3>2, <3>3
  <2>2. ASSUME NEW j \in 1..last, list[j] # list[i]
        PROVE  list[j] \in ToSet(w)
    <3>1. CASE j = last
      <4>1. i \in 1..(last - 1)
        BY <1>1, <2>2, <3>1
      <4>2. w[i] = list[j]
        BY <1>6, <3>1, <4>1
      <4> QED
        BY <1>7, <4>1, <4>2 DEF ToSet
    <3>2. CASE j # last
      <4>1. j \in 1..(last - 1) /\ j # i
        BY <1>1, <2>2, <3>2
      <4>2. w[j] = list[j]
        BY <1>6, <4>1
      <4> QED
        BY <1>7, <4>1, <4>2 DEF ToSet
    <3> QED
      BY <3>1, <3>2
  <2> QED
    BY <1>1, <1>7, <2>1, <2>2 DEF ToSet
<1> QED
  BY <1>5, <1>6, <1>9, <1>10 DEF w, last

\* del(): one particle less in one collection.
LEMMA DelFacts ==
    ASSUME NEW p, IsPool(p), Separate(p), NEW key \in Keys(p),
           NEW i \in 1..Len(p.collections[key].mParticles)
    PROVE  /\ IsPool(Del(p, key, i)) /\ Separate(Del(p, key, i))
           /\ Alike(p, Del(p, key, i))
           /\ \A k \in Keys(p) \ {key} :
                  Del(p, key, i).collections[k] = p.collections[k]
           /\ Del(p, key, i).collections[key].mParticles
                  = Without(p.collections[key].mParticles, i)
           /\ In(Del(p, key, i), key)
                  = In(p, key) \ {p.collections[key].mParticles[i]}
           /\ \A x \in Particle :
                  /\ Del(p, key, i).mFree[x] =
                       p.mFree[x] + IF x = p.collections[key].mParticles[i] THEN 1 ELSE 0
                  /\ Del(p, key, i).life[x] =
                       IF x = p.collections[key].mParticles[i] THEN 0 ELSE p.life[x]
<1> DEFINE q    == Del(p, key, i)
           col  == p.collections[key]
           list == col.mParticles
           dead == list[i]
           gone == {dead}
           rest == Without(list, i)
           left == Outdated(col.mList, gone)
           new  == [mParticles |-> rest, fSize |-> col.fSize, mColor |-> col.mColor,
                    bShown |-> col.bShown, mList |-> left]
<1>1. /\ col \in Collection /\ list \in Seq(Particle) /\ IsInjective(list)
      /\ i \in 1..Len(list) /\ dead \in Particle /\ Len(list) \in Nat
      /\ Len(list) <= Capacity
  BY DEF IsPool, Separate, Collection
<1>2. /\ rest \in Seq(Particle) /\ Len(rest) = Len(list) - 1 /\ IsInjective(rest)
      /\ ToSet(rest) = ToSet(list) \ gone
  BY <1>1, WithoutFacts
<1>3. left \in SUBSET (Particle \cup {Wrong})
  BY <1>1 DEF Outdated, Collection
<1>4. /\ q.mFree = [p.mFree EXCEPT ![dead] = @ + 1]
      /\ q.life = [p.life EXCEPT ![dead] = 0]
      /\ q = [mFree |-> q.mFree, collections |-> q.collections, life |-> q.life]
  BY DEF Del
<1>5. q.collections = [k \in Keys(p) |-> IF k = key THEN new ELSE p.collections[k]]
  <2>1. q.collections = [p.collections EXCEPT
             ![key].mParticles = Without(@, i), ![key].mList = Outdated(@, {dead})]
    BY DEF Del
  <2>2. col = [mParticles |-> list, fSize |-> col.fSize, mColor |-> col.mColor,
               bShown |-> col.bShown, mList |-> col.mList]
    BY <1>1 DEF Collection
  <2> QED
    BY <2>1, <2>2 DEF Keys, IsPool
<1> HIDE DEF q, rest, left, dead, gone
<1>6. new \in Collection
  BY <1>1, <1>2, <1>3 DEF Collection
<1>7. Keys(q) = Keys(p)
  BY <1>5 DEF Keys
<1>8. /\ q.collections[key] = new
      /\ \A k \in Keys(p) \ {key} : q.collections[k] = p.collections[k]
  BY <1>5
<1>9. Alike(p, q)
  BY <1>7, <1>8 DEF Alike
<1>10. In(q, key) = In(p, key) \ gone /\ \A k \in Keys(p) \ {key} : In(q, k) = In(p, k)
  BY <1>2, <1>8 DEF In
<1>11. IsPool(q)
  <2>1. q.collections \in [Keys(q) -> Collection]
    BY <1>5, <1>6, <1>7 DEF IsPool
  <2>2. q.mFree \in [Particle -> Int] /\ q.life \in [Particle -> Int]
    BY <1>1, <1>4 DEF IsPool
  <2> QED
    BY <1>4, <1>7, <2>1, <2>2 DEF IsPool
<1>12. Separate(q)
  <2> SUFFICES ASSUME NEW k \in Keys(p)
               PROVE  /\ IsInjective(q.collections[k].mParticles)
                      /\ Len(q.collections[k].mParticles) <= Capacity
                      /\ \A l \in Keys(p) \ {k} : In(q, k) \cap In(q, l) = {}
    BY <1>7 DEF Separate
  <2>1. \A l \in Keys(p) : In(q, l) \subseteq In(p, l)
    BY <1>10
  <2>2. \A l \in Keys(p) \ {k} : In(p, k) \cap In(p, l) = {}
    BY DEF Separate
  <2>3. Len(rest) <= Capacity
    BY <1>1, <1>2, PoolAssumption
  <2>4. /\ IsInjective(q.collections[k].mParticles)
        /\ Len(q.collections[k].mParticles) <= Capacity
    <3>1. CASE k = key
      BY <1>2, <1>8, <2>3, <3>1
    <3>2. CASE k # key
      BY <1>8, <3>2 DEF Separate
    <3> QED
      BY <3>1, <3>2
  <2> QED
    BY <2>1, <2>2, <2>4
<1>13. \A x \in Particle :
          /\ q.mFree[x] = p.mFree[x] + IF x = dead THEN 1 ELSE 0
          /\ q.life[x] = IF x = dead THEN 0 ELSE p.life[x]
  BY <1>1, <1>4 DEF IsPool
<1> QED
  BY <1>8, <1>9, <1>10, <1>11, <1>12, <1>13 DEF q, rest, gone, dead
-----------------------------------------------------------------------------
(* delAll().                                                               *)

\* The loop of delAll over one collection is well defined.
EmptiedBy(left, p, key, N) ==
    /\ left[0] = p
    /\ \A n \in 1..N : left[n] = Del(left[n - 1], key, 1)
    /\ Emptied(p, key) = left[N]

LEMMA EmptiedLoop ==
    ASSUME NEW p, NEW key, NEW N \in Nat, N = Len(p.collections[key].mParticles)
    PROVE  \E left : EmptiedBy(left, p, key, N)
<1> DEFINE Is(g, k) == g = [n \in 0..k |-> IF n = 0 THEN p
                                         ELSE Del(g[n - 1], key, 1)]
           T == {k \in Nat : \E g : Is(g, k)}
<1>1. 0 \in T
  <2>1. Is([n \in 0..0 |-> p], 0)
    OBVIOUS
  <2> QED
    BY <2>1
<1>2. ASSUME NEW k \in T
      PROVE  k + 1 \in T
  <2>1. PICK g : Is(g, k)
    OBVIOUS
  <2> DEFINE h == [n \in 0..(k + 1) |-> IF n = k + 1 THEN Del(g[k], key, 1) ELSE g[n]]
  <2>2. ASSUME NEW n \in 0..(k + 1)
        PROVE  h[n] = IF n = 0 THEN p ELSE Del(h[n - 1], key, 1)
    <3>1. CASE n = k + 1
      <4>1. n # 0 /\ n - 1 \in 0..(k + 1) /\ n - 1 # k + 1 /\ n - 1 = k
        BY <3>1
      <4>2. h[n - 1] = g[k]
        BY <4>1
      <4> QED
        BY <3>1, <4>1, <4>2
    <3>2. CASE n = 0
      BY <2>1, <3>2
    <3>3. CASE n # 0 /\ n # k + 1
      <4>1. n \in 0..k /\ n - 1 \in 0..(k + 1) /\ n - 1 # k + 1
        BY <3>3
      <4>2. h[n - 1] = g[n - 1] /\ h[n] = g[n]
        BY <3>3, <4>1
      <4>3. g[n] = Del(g[n - 1], key, 1)
        BY <2>1, <3>3, <4>1
      <4> QED
        BY <3>3, <4>2, <4>3
    <3> QED
      BY <3>1, <3>2, <3>3
  <2>3. Is(h, k + 1)
    BY <2>2
  <2> HIDE DEF h, Is
  <2> QED
    BY <2>3
<1>3. T = Nat
  <2> HIDE DEF T
  <2> QED
    BY <1>1, <1>2, SetInduction DEF T
<1>4. \E g : Is(g, N)
  BY <1>3
<1> DEFINE left[n \in 0..N] == IF n = 0 THEN p ELSE Del(left[n - 1], key, 1)
<1>5. Is(left, N)
  BY <1>4
<1>6. Emptied(p, key) = left[N]
  BY DEF Emptied
<1> HIDE DEF left
<1>7. left[0] = p
  BY <1>5
<1>8. \A n \in 1..N : left[n] = Del(left[n - 1], key, 1)
  BY <1>5
<1> QED
  BY <1>6, <1>7, <1>8 DEF EmptiedBy

LEMMA EmptiedFacts ==
    ASSUME NEW p, IsPool(p), Separate(p), NEW key \in Keys(p)
    PROVE  /\ IsPool(Emptied(p, key)) /\ Separate(Emptied(p, key))
           /\ Alike(p, Emptied(p, key))
           /\ \A k \in Keys(p) \ {key} : In(Emptied(p, key), k) = In(p, k)
           /\ In(Emptied(p, key), key) = {}
           /\ \A x \in Particle : Emptied(p, key).mFree[x] =
                  p.mFree[x] + IF x \in In(p, key) THEN 1 ELSE 0
<1> DEFINE Parts(q) == q.collections[key].mParticles
           N == Len(Parts(p))
<1>1. N \in Nat /\ Parts(p) \in Seq(Particle) /\ N = Len(Parts(p))
  BY DEF IsPool, Collection
<1> HIDE DEF N
<1>a. PICK left : EmptiedBy(left, p, key, N)
  BY <1>1, EmptiedLoop
<1>2. /\ left[0] = p
      /\ \A n \in 1..N : left[n] = Del(left[n - 1], key, 1)
      /\ Emptied(p, key) = left[N]
  BY <1>a DEF EmptiedBy
<1> DEFINE Good(q, n) ==
             /\ IsPool(q) /\ Separate(q) /\ Alike(p, q)
             /\ \A k \in Keys(p) \ {key} : In(q, k) = In(p, k)
             /\ In(q, key) \subseteq In(p, key)
             /\ Len(Parts(q)) = N - n
             /\ \A x \in Particle : q.mFree[x] =
                  p.mFree[x] + IF x \in In(p, key) \ In(q, key) THEN 1 ELSE 0
           T == {n \in Nat : n <= N => Good(left[n], n)}
<1>3. 0 \in T
  <2>1. left[0] = p
    BY <1>1, <1>2
  <2>2. Good(p, 0)
    BY <1>1 DEF Alike, IsPool
  <2> QED
    BY <2>1, <2>2
<1>4. ASSUME NEW n \in T
      PROVE  n + 1 \in T
  <2> SUFFICES ASSUME n + 1 <= N
               PROVE  Good(left[n + 1], n + 1)
    OBVIOUS
  <2> DEFINE q == left[n]
             r == Del(q, key, 1)
             d == Parts(q)[1]
  <2>1. n \in Nat /\ n <= N /\ n + 1 \in 1..N /\ n + 1 - 1 = n
    BY <1>1
  <2>2. left[n + 1] = r
    BY <1>2, <2>1
  <2>3. Good(q, n)
    BY <2>1
  <2>4. 1 \in 1..Len(Parts(q)) /\ key \in Keys(q) /\ Keys(q) = Keys(p)
    BY <1>1, <2>1, <2>3 DEF Alike
  <2>5. Parts(q) \in Seq(Particle) /\ IsInjective(Parts(q))
    BY <2>3, <2>4 DEF IsPool, Separate, Collection
  <2>6. d \in Particle /\ d \in In(q, key)
    BY <2>4, <2>5 DEF In, ToSet
  <2> HIDE DEF q
  <2>12. IsPool(q) /\ Separate(q)
    BY <2>3
  <2>7. /\ IsPool(r) /\ Separate(r) /\ Alike(q, r)
        /\ \A k \in Keys(q) \ {key} : r.collections[k] = q.collections[k]
        /\ Parts(r) = Without(Parts(q), 1)
        /\ In(r, key) = In(q, key) \ {d}
        /\ \A x \in Particle : r.mFree[x] = q.mFree[x] + IF x = d THEN 1 ELSE 0
    <3> DEFINE one == 1
    <3>1. one \in 1..Len(q.collections[key].mParticles) /\ key \in Keys(q)
      BY <2>4
    <3> HIDE DEF one
    <3>2. /\ IsPool(Del(q, key, one)) /\ Separate(Del(q, key, one))
          /\ Alike(q, Del(q, key, one))
          /\ \A k \in Keys(q) \ {key} :
                 Del(q, key, one).collections[k] = q.collections[k]
          /\ Del(q, key, one).collections[key].mParticles
                 = Without(q.collections[key].mParticles, one)
          /\ In(Del(q, key, one), key)
                 = In(q, key) \ {q.collections[key].mParticles[one]}
          /\ \A x \in Particle : Del(q, key, one).mFree[x] =
                 q.mFree[x] + IF x = q.collections[key].mParticles[one] THEN 1 ELSE 0
      BY <2>12, <3>1, DelFacts
    <3> QED
      BY <3>2 DEF one
  <2>8. Len(Parts(r)) = N - (n + 1)
    <3>1. Len(Without(Parts(q), 1)) = Len(Parts(q)) - 1
      BY <2>4, <2>5, WithoutFacts
    <3> HIDE DEF r
    <3> QED
      BY <1>1, <2>1, <2>3, <2>7, <3>1
  <2> HIDE DEF r, d
  <2>9. Alike(p, r)
    BY <2>3, <2>4, <2>7 DEF Alike
  <2>10. \A k \in Keys(p) \ {key} : In(r, k) = In(p, k)
    BY <2>3, <2>4, <2>7 DEF In
  <2>11. ASSUME NEW x \in Particle
         PROVE  r.mFree[x] = p.mFree[x] + IF x \in In(p, key) \ In(r, key) THEN 1 ELSE 0
    <3>1. q.mFree \in [Particle -> Int] /\ p.mFree[x] \in Int
      BY <2>3 DEF IsPool
    <3>2. q.mFree[x] = p.mFree[x] + IF x \in In(p, key) \ In(q, key) THEN 1 ELSE 0
      BY <2>3
    <3>3. r.mFree[x] = IF x = d THEN q.mFree[x] + 1 ELSE q.mFree[x]
      BY <2>6, <2>7, <3>1
    <3>4. d \in In(p, key) /\ d \in In(q, key)
      BY <2>3, <2>6
    <3> QED
      BY <2>7, <3>1, <3>2, <3>3, <3>4
  <2> QED
    BY <2>2, <2>3, <2>7, <2>8, <2>9, <2>10, <2>11
<1>5. T = Nat
  <2> HIDE DEF T
  <2> QED
    BY <1>3, <1>4, SetInduction DEF T
<1>6. Good(left[N], N)
  <2> HIDE DEF Good
  <2> QED
    BY <1>1, <1>5
<1>7. In(left[N], key) = {}
  <2> DEFINE q == left[N]
  <2>3. Len(Parts(q)) = N - N /\ IsPool(q) /\ key \in Keys(q)
    BY <1>6 DEF Alike
  <2> HIDE DEF q
  <2>4. Parts(q) \in Seq(Particle)
    BY <2>3 DEF IsPool, Collection
  <2>1. Parts(left[N]) \in Seq(Particle) /\ Len(Parts(left[N])) = 0
    BY <1>1, <2>3, <2>4 DEF q
  <2>2. DOMAIN Parts(left[N]) = {}
    BY <2>1
  <2> QED
    BY <2>2 DEF In, ToSet
<1> QED
  BY <1>2, <1>6, <1>7

\* ... and that over all of them.
DelAllBy(after, p, keys, N) ==
    /\ after[0] = p
    /\ \A n \in 1..N : after[n] = Emptied(after[n - 1], keys[n])
    /\ DelAll(p) = after[N]

LEMMA DelAllLoop ==
    ASSUME NEW p, NEW N \in Nat, N = Cardinality(Keys(p)),
           NEW keys, keys = SetToSeq(Keys(p))
    PROVE  \E after : DelAllBy(after, p, keys, N)
<1> DEFINE Is(g, k) == g = [n \in 0..k |-> IF n = 0 THEN p
                                         ELSE Emptied(g[n - 1], keys[n])]
           T == {k \in Nat : \E g : Is(g, k)}
<1>1. 0 \in T
  <2>1. Is([n \in 0..0 |-> p], 0)
    OBVIOUS
  <2> QED
    BY <2>1
<1>2. ASSUME NEW k \in T
      PROVE  k + 1 \in T
  <2>1. PICK g : Is(g, k)
    OBVIOUS
  <2> DEFINE h == [n \in 0..(k + 1) |-> IF n = k + 1 THEN Emptied(g[k], keys[n]) ELSE g[n]]
  <2>2. ASSUME NEW n \in 0..(k + 1)
        PROVE  h[n] = IF n = 0 THEN p ELSE Emptied(h[n - 1], keys[n])
    <3>1. CASE n = k + 1
      <4>1. n # 0 /\ n - 1 \in 0..(k + 1) /\ n - 1 # k + 1 /\ n - 1 = k
        BY <3>1
      <4>2. h[n - 1] = g[k]
        BY <4>1
      <4> QED
        BY <3>1, <4>1, <4>2
    <3>2. CASE n = 0
      BY <2>1, <3>2
    <3>3. CASE n # 0 /\ n # k + 1
      <4>1. n \in 0..k /\ n - 1 \in 0..(k + 1) /\ n - 1 # k + 1
        BY <3>3
      <4>2. h[n - 1] = g[n - 1] /\ h[n] = g[n]
        BY <3>3, <4>1
      <4>3. g[n] = Emptied(g[n - 1], keys[n])
        BY <2>1, <3>3, <4>1
      <4> QED
        BY <3>3, <4>2, <4>3
    <3> QED
      BY <3>1, <3>2, <3>3
  <2>3. Is(h, k + 1)
    BY <2>2
  <2> HIDE DEF h, Is
  <2> QED
    BY <2>3
<1>3. T = Nat
  <2> HIDE DEF T
  <2> QED
    BY <1>1, <1>2, SetInduction DEF T
<1>4. \E g : Is(g, N)
  BY <1>3
<1> DEFINE after[n \in 0..N] == IF n = 0 THEN p ELSE Emptied(after[n - 1], keys[n])
<1>5. Is(after, N)
  BY <1>4
<1>6. DelAll(p) = after[N]
  BY DEF DelAll, ForEach
<1> HIDE DEF after
<1>7. after[0] = p
  BY <1>5
<1>8. \A n \in 1..N : after[n] = Emptied(after[n - 1], keys[n])
  BY <1>5
<1> QED
  BY <1>6, <1>7, <1>8 DEF DelAllBy

\* SetToSeq enumerates a finite set.
LEMMA SetToSeqFacts ==
    ASSUME NEW S, IsFiniteSet(S)
    PROVE  /\ Cardinality(S) \in Nat
           /\ SetToSeq(S) \in [1..Cardinality(S) -> S]
           /\ \A m, n \in 1..Cardinality(S) : SetToSeq(S)[m] = SetToSeq(S)[n] => m = n
           /\ \A s \in S : \E n \in 1..Cardinality(S) : SetToSeq(S)[n] = s
<1> DEFINE N == Cardinality(S)
           D == 1..N
<1>1. N \in Nat /\ ExistsBijection(D, S)
  BY FS_CardinalityType
<1>2. \E f \in [D -> S] : IsInjective(f)
  BY <1>1 DEF ExistsBijection, Bijection, Injection
<1> DEFINE keys == SetToSeq(S)
<1>3. keys \in [D -> S] /\ IsInjective(keys)
  BY <1>2 DEF SetToSeq
<1>4. IsFiniteSet(D) /\ Cardinality(D) = N
  BY <1>1, FS_Interval
<1>5. keys \in Injection(D, S)
  BY <1>3 DEF Injection
<1> HIDE DEF keys, D
<1>6. keys \in Surjection(D, S)
  BY <1>4, <1>5, FS_Injection
<1>7. \A s \in S : \E n \in D : keys[n] = s
  BY <1>6 DEF Surjection
<1>8. \A m, n \in D : keys[m] = keys[n] => m = n
  BY <1>3 DEF IsInjective
<1> QED
  BY <1>1, <1>3, <1>7, <1>8 DEF keys, D

\* delAll() empties every collection and gives every particle back once.
LEMMA DelAllFacts ==
    ASSUME NEW p, IsPool(p), Separate(p)
    PROVE  /\ IsPool(DelAll(p)) /\ Separate(DelAll(p)) /\ Alike(p, DelAll(p))
           /\ \A k \in Keys(p) : In(DelAll(p), k) = {}
           /\ \A x \in Particle : DelAll(p).mFree[x] =
                  p.mFree[x] + IF x \in LiveIn(p) THEN 1 ELSE 0
<1> DEFINE N == Cardinality(Keys(p))
           keys == SetToSeq(Keys(p))
<1>1. /\ N \in Nat /\ keys \in [1..N -> Keys(p)]
      /\ \A m, n \in 1..N : keys[m] = keys[n] => m = n
      /\ \A k \in Keys(p) : \E n \in 1..N : keys[n] = k
  BY SetToSeqFacts DEF IsPool
<1>a. PICK after : DelAllBy(after, p, keys, N)
  BY <1>1, DelAllLoop
<1>2. /\ after[0] = p
      /\ \A n \in 1..N : after[n] = Emptied(after[n - 1], keys[n])
      /\ DelAll(p) = after[N]
  BY <1>a DEF DelAllBy
<1> HIDE DEF N, keys
<1> DEFINE Good(q, n) ==
             /\ IsPool(q) /\ Separate(q) /\ Alike(p, q)
             /\ \A m \in 1..N : In(q, keys[m]) = IF m <= n THEN {} ELSE In(p, keys[m])
             /\ \A x \in Particle : q.mFree[x] =
                  p.mFree[x] + IF \E m \in 1..n : x \in In(p, keys[m]) THEN 1 ELSE 0
           T == {n \in Nat : n <= N => Good(after[n], n)}
<1>3. 0 \in T
  <2>1. after[0] = p
    BY <1>1, <1>2
  <2>2. Good(p, 0)
    BY <1>1 DEF Alike, IsPool
  <2> QED
    BY <2>1, <2>2
<1>4. ASSUME NEW n \in T
      PROVE  n + 1 \in T
  <2> SUFFICES ASSUME n + 1 <= N
               PROVE  Good(after[n + 1], n + 1)
    OBVIOUS
  <2> DEFINE q   == after[n]
             key == keys[n + 1]
             r   == Emptied(q, key)
  <2>1. n \in Nat /\ n <= N /\ n + 1 \in 1..N /\ n + 1 - 1 = n
    BY <1>1
  <2>2. after[n + 1] = r
    BY <1>2, <2>1
  <2>3. Good(q, n)
    BY <2>1
  <2>4. key \in Keys(q) /\ Keys(q) = Keys(p) /\ key \in Keys(p)
    BY <1>1, <2>1, <2>3 DEF Alike
  <2>5. IsPool(q) /\ Separate(q)
    BY <2>3
  <2> HIDE DEF q, key
  <2>6. /\ IsPool(r) /\ Separate(r) /\ Alike(q, r)
        /\ \A k \in Keys(q) \ {key} : In(r, k) = In(q, k)
        /\ In(r, key) = {}
        /\ \A x \in Particle : r.mFree[x] =
             q.mFree[x] + IF x \in In(q, key) THEN 1 ELSE 0
    BY <2>4, <2>5, EmptiedFacts
  <2> HIDE DEF r
  <2>7. Alike(p, r)
    BY <2>3, <2>4, <2>6 DEF Alike
  <2>8. In(q, key) = In(p, key)
    <3>1. In(q, keys[n + 1]) = In(p, keys[n + 1])
      BY <2>1, <2>3
    <3> QED
      BY <3>1 DEF key
  <2>9. ASSUME NEW m \in 1..N
        PROVE  In(r, keys[m]) = IF m <= n + 1 THEN {} ELSE In(p, keys[m])
    <3>1. CASE m = n + 1
      <4>1. keys[m] = key
        BY <3>1 DEF key
      <4> QED
        BY <2>1, <2>6, <3>1, <4>1
    <3>2. CASE m # n + 1
      <4>1. keys[m] \in Keys(q) \ {key}
        BY <1>1, <2>1, <2>4, <3>2 DEF key
      <4>2. In(r, keys[m]) = In(q, keys[m])
        BY <2>6, <4>1
      <4>3. m <= n <=> m <= n + 1
        BY <2>1, <3>2
      <4> QED
        BY <2>3, <4>2, <4>3
    <3> QED
      BY <3>1, <3>2
  <2>10. ASSUME NEW x \in Particle
         PROVE  r.mFree[x] =
                  p.mFree[x] + IF \E m \in 1..(n + 1) : x \in In(p, keys[m]) THEN 1 ELSE 0
    <3>1. p.mFree[x] \in Int
      BY DEF IsPool
    <3>2. r.mFree[x] = q.mFree[x] + IF x \in In(p, key) THEN 1 ELSE 0
      BY <2>6, <2>8
    <3>3. q.mFree[x] = p.mFree[x] + IF \E m \in 1..n : x \in In(p, keys[m]) THEN 1 ELSE 0
      BY <2>3
    <3>4. (\E m \in 1..(n + 1) : x \in In(p, keys[m]))
            <=> (\E m \in 1..n : x \in In(p, keys[m])) \/ x \in In(p, key)
      <4>1. \A m : m \in 1..(n + 1) <=> m \in 1..n \/ m = n + 1
        BY <2>1
      <4> QED
        BY <4>1 DEF key
    <3>5. ASSUME x \in In(p, key), NEW m \in 1..n, x \in In(p, keys[m])
          PROVE  FALSE
      <4>1. m \in 1..N /\ m # n + 1
        BY <1>1, <2>1
      <4>2. keys[m] \in Keys(p) \ {key}
        BY <1>1, <2>1, <4>1 DEF key
      <4>3. In(p, key) \cap In(p, keys[m]) = {}
        BY <2>4, <4>2 DEF Separate
      <4> QED
        BY <3>5, <4>3
    <3> DEFINE met == \E m \in 1..n : x \in In(p, keys[m])
               now == x \in In(p, key)
    <3>6. /\ ~ (met /\ now)
          /\ (\E m \in 1..(n + 1) : x \in In(p, keys[m])) <=> met \/ now
      BY <3>4, <3>5
    <3> QED
      BY <3>1, <3>2, <3>3, <3>6
  <2> QED
    BY <2>2, <2>6, <2>7, <2>9, <2>10
<1>5. T = Nat
  <2> HIDE DEF T
  <2> QED
    BY <1>3, <1>4, SetInduction DEF T
<1>6. Good(after[N], N)
  <2> HIDE DEF Good
  <2> QED
    BY <1>1, <1>5
<1> DEFINE q == after[N]
<1>7. ASSUME NEW k \in Keys(p)
      PROVE  In(q, k) = {}
  <2>1. PICK m \in 1..N : keys[m] = k
    BY <1>1
  <2>2. m <= N
    BY <1>1
  <2> QED
    BY <1>6, <2>1, <2>2
<1>8. \A x : x \in LiveIn(p) <=> \E m \in 1..N : x \in In(p, keys[m])
  BY <1>1 DEF LiveIn
<1> QED
  BY <1>2, <1>6, <1>7, <1>8
-----------------------------------------------------------------------------
(* add().                                                                  *)

\* A particle is free once, or live.
Conserved(p) == \A x \in Particle : p.mFree[x] = IF x \in LiveIn(p) THEN 0 ELSE 1

\* There are more numbers to try than full collections.
LEMMA SomeFits ==
    ASSUME NEW p, IsPool(p), Separate(p), NEW col \in Colours, NEW size \in Int
    PROVE  \E n \in 1..MostCollections : Fits(p, Key(col, size, n))
<1> DEFINE C    == Cardinality(Particle)
           D    == 1..MostCollections
           E    == 1..Capacity
           K(n) == Key(col, size, n)
<1>1. C \in Nat /\ Capacity \in Nat \ {0} /\ IsFiniteSet(Particle)
  BY PoolAssumption, FS_CardinalityType
<1>2. MostCollections \in Nat /\ MostCollections * Capacity > C
  <2>1. C \div Capacity \in Nat /\ C % Capacity \in 0..(Capacity - 1)
        /\ C = Capacity * (C \div Capacity) + (C % Capacity)
    BY <1>1
  <2> DEFINE d == C \div Capacity
             e == C % Capacity
  <2>2. MostCollections = d + 1
    BY DEF MostCollections
  <2> HIDE DEF d, e
  <2>3. (d + 1) * Capacity = Capacity * d + Capacity
    BY <1>1, <2>1 DEF d
  <2> DEFINE full == Capacity * d
  <2>4. /\ d \in Nat /\ full \in Int /\ e \in Int /\ e < Capacity /\ C = full + e
        /\ MostCollections * Capacity = full + Capacity
    <3>1. /\ d \in Nat /\ e \in 0..(Capacity - 1) /\ C = full + e
      BY <2>1 DEF d, e
    <3> QED
      BY <1>1, <2>2, <2>3, <3>1
  <2> HIDE DEF full
  <2>5. full + Capacity > full + e
    BY <1>1, <2>4
  <2> QED
    BY <2>2, <2>4, <2>5
<1> SUFFICES ASSUME \A n \in D : ~ Fits(p, K(n))
             PROVE  FALSE
  OBVIOUS
<1>3. \A n \in D : /\ K(n) \in Keys(p)
                   /\ Len(p.collections[K(n)].mParticles) \in Nat
                   /\ Len(p.collections[K(n)].mParticles) >= Capacity
                   /\ p.collections[K(n)].mParticles \in Seq(Particle)
                   /\ IsInjective(p.collections[K(n)].mParticles)
  BY <1>1 DEF Fits, IsPool, Collection, Separate
<1> DEFINE f == [x \in D \X E |-> p.collections[K(x[1])].mParticles[x[2]]]
<1>4. f \in Injection(D \X E, Particle)
  <2>1. ASSUME NEW n \in D, NEW c \in E
        PROVE  /\ c \in DOMAIN p.collections[K(n)].mParticles
               /\ p.collections[K(n)].mParticles[c] \in Particle
               /\ p.collections[K(n)].mParticles[c] \in In(p, K(n))
    <3> DEFINE list == p.collections[K(n)].mParticles
    <3>1. list \in Seq(Particle) /\ Len(list) \in Nat /\ Len(list) >= Capacity
      BY <1>3
    <3> HIDE DEF list
    <3>2. c \in 1..Len(list)
      BY <1>1, <3>1
    <3> QED
      BY <3>1, <3>2 DEF In, ToSet, list
  <2>2. f \in [D \X E -> Particle]
    BY <2>1
  <2>3. ASSUME NEW n \in D, NEW c \in E, NEW m \in D, NEW b \in E,
               p.collections[K(n)].mParticles[c] = p.collections[K(m)].mParticles[b]
        PROVE  n = m /\ c = b
    <3>1. K(n) = K(m)
      <4>1. K(n) \in Keys(p) /\ K(m) \in Keys(p)
        BY <1>3
      <4>2. In(p, K(n)) \cap In(p, K(m)) # {}
        BY <2>1, <2>3
      <4> QED
        BY <4>1, <4>2 DEF Separate
    <3>2. n = m
      BY <1>2, <3>1, ColourAssumption DEF Key
    <3>3. IsInjective(p.collections[K(n)].mParticles)
      BY <1>3
    <3> QED
      BY <2>1, <2>3, <3>2, <3>3 DEF IsInjective
  <2> QED
    BY <2>2, <2>3 DEF Injection, IsInjective
<1>5. /\ IsFiniteSet(D) /\ Cardinality(D) = MostCollections
      /\ IsFiniteSet(E) /\ Cardinality(E) = Capacity
  <2>1. ASSUME NEW n \in Nat
        PROVE  IsFiniteSet(1..n) /\ Cardinality(1..n) = n
    BY FS_Interval
  <2> QED
    BY <1>1, <1>2, <2>1
<1> HIDE DEF f, D, E, C
<1>6. Cardinality(D \X E) = MostCollections * Capacity
  BY <1>5, FS_Product
<1>7. Cardinality(D \X E) <= Cardinality(Particle)
  BY <1>1, <1>4, FS_Injection
<1> QED
  BY <1>1, <1>2, <1>6, <1>7 DEF C

\* getCollection() finds a number that is free or has room.
LEMMA KeyForFacts ==
    ASSUME NEW p, IsPool(p), Separate(p), NEW col \in Colours, NEW size \in Int
    PROVE  /\ KeyFor(p, col, size) \in Int
           /\ Fits(p, KeyFor(p, col, size))
           /\ \E i \in 1..MostCollections : KeyFor(p, col, size) = Key(col, size, i)
<1> DEFINE S == {n \in 1..MostCollections : Fits(p, Key(col, size, n))}
           First(n) == /\ Fits(p, Key(col, size, n))
                       /\ \A m \in 1..(n - 1) : ~ Fits(p, Key(col, size, m))
<1>1. S # {} /\ S \in SUBSET Nat
  BY SomeFits
<1>2. PICK n \in S : \A m \in S : n <= m
  BY <1>1, LeastExists
<1>3. n \in 1..MostCollections /\ First(n)
  <2>1. n \in Nat /\ MostCollections \in Int
    BY PoolAssumption, FS_CardinalityType DEF MostCollections
  <2>2. ASSUME NEW m \in 1..(n - 1)
        PROVE  m \in 1..MostCollections /\ ~ (n <= m)
    BY <2>1
  <2> QED
    BY <1>2, <2>1, <2>2
<1> DEFINE i == CHOOSE n1 \in 1..MostCollections : First(n1)
<1>4. i \in 1..MostCollections /\ First(i)
  BY <1>3
<1>5. KeyFor(p, col, size) = Key(col, size, i)
  BY DEF KeyFor
<1> HIDE DEF i
<1> QED
  BY <1>4, <1>5, ColourAssumption DEF Key

\* One particle that was free is in the collection of that number, which has
\* the colour asked for if it was made for it; nothing else has moved.
AddedTo(p, q, key, col, new) ==
    /\ p.mFree[new] = 1
    /\ Keys(q) = Keys(p) \cup {key}
    /\ key \notin Keys(p) => q.collections[key].mColor = col
    /\ \A k \in Keys(q) : \A x \in In(q, k) :
             \/ k \in Keys(p) /\ x \in In(p, k)
             \/ k = key /\ x = new

\* add(): a free particle enters one collection with room.
LEMMA AddedFacts ==
    ASSUME NEW p, IsPool(p), Separate(p), Conserved(p),
           \E x \in Particle : p.mFree[x] > 0,
           NEW col \in Colours, NEW size \in Int, NEW lasts \in Int
    PROVE  /\ IsPool(Added(p, col, size, lasts))
           /\ Separate(Added(p, col, size, lasts))
           /\ Conserved(Added(p, col, size, lasts))
           /\ KeyFor(p, col, size) \in Keys(Added(p, col, size, lasts))
           /\ Keys(p) \subseteq Keys(Added(p, col, size, lasts))
           /\ \A k \in Keys(Added(p, col, size, lasts)) :
                 LET new == Added(p, col, size, lasts).collections[k]
                 IN  IF k \in Keys(p)
                     THEN /\ new.mColor = p.collections[k].mColor
                          /\ new.bShown = p.collections[k].bShown
                     ELSE new.bShown = TRUE
           /\ \E new \in Particle :
                 AddedTo(p, Added(p, col, size, lasts), KeyFor(p, col, size), col, new)
<1> DEFINE q     == Added(p, col, size, lasts)
           key   == KeyFor(p, col, size)
           new   == CHOOSE one \in Particle : p.mFree[one] > 0
           fresh == NewCollection(col, size)
           old   == IF key \in Keys(p) THEN p.collections[key] ELSE fresh
           list  == Append(old.mParticles, new)
           grown == [mParticles |-> list, fSize |-> old.fSize, mColor |-> old.mColor,
                     bShown |-> old.bShown, mList |-> old.mList]
<1>1. new \in Particle /\ p.mFree[new] > 0
  OBVIOUS
<1>2. new \notin LiveIn(p) /\ p.mFree[new] = 1
  BY <1>1 DEF Conserved
<1>3. key \in Int /\ Fits(p, key)
  BY KeyForFacts
<1>4. /\ fresh \in Collection /\ fresh.mParticles = << >> /\ fresh.bShown = TRUE
      /\ fresh.mColor = col
  BY DEF NewCollection, Collection
<1> DEFINE base == GetCollection(p, key, col, size)
<1>5. base = [k \in Keys(p) \cup {key} |-> IF k = key THEN old ELSE p.collections[k]]
  BY DEF GetCollection, Keys, IsPool
<1>6. /\ q = [mFree |-> q.mFree, collections |-> q.collections, life |-> q.life]
      /\ q.mFree = [p.mFree EXCEPT ![new] = @ - 1]
      /\ q.life = [p.life EXCEPT ![new] = lasts]
      /\ q.collections = [base EXCEPT ![key].mParticles = Append(@, new)]
  BY DEF Added
<1> HIDE DEF q, key, new, fresh, base
<1>7. old \in Collection
  BY <1>4 DEF IsPool
<1>8. /\ old.mParticles \in Seq(Particle) /\ IsInjective(old.mParticles)
      /\ new \notin ToSet(old.mParticles) /\ Len(old.mParticles) < Capacity
  <2>1. CASE key \in Keys(p)
    <3>1. new \notin In(p, key)
      BY <1>2, <2>1 DEF LiveIn
    <3> QED
      BY <1>3, <1>7, <2>1, <3>1 DEF Fits, Separate, In, Collection
  <2>2. CASE key \notin Keys(p)
    <3>1. old.mParticles = << >>
      BY <1>4, <2>2
    <3>2. DOMAIN << >> = {} /\ Len(<< >>) = 0
      OBVIOUS
    <3> HIDE DEF old
    <3> QED
      BY <1>7, <3>1, <3>2, PoolAssumption DEF ToSet, IsInjective, Collection
  <2> QED
    BY <2>1, <2>2
<1>9. q.collections = [k \in Keys(p) \cup {key} |->
                         IF k = key THEN grown ELSE p.collections[k]]
  <2>1. old = [mParticles |-> old.mParticles, fSize |-> old.fSize,
               mColor |-> old.mColor, bShown |-> old.bShown, mList |-> old.mList]
    BY <1>7 DEF Collection
  <2> HIDE DEF old
  <2>2. base[key] = old /\ DOMAIN base = Keys(p) \cup {key}
        /\ \A k \in Keys(p) \ {key} : base[k] = p.collections[k]
    BY <1>5
  <2>3. [base[key] EXCEPT !.mParticles = Append(@, new)] = grown
    <3>1. [old EXCEPT !.mParticles = Append(@, new)] = [old EXCEPT !.mParticles = list]
      OBVIOUS
    <3> HIDE DEF list
    <3>2. [old EXCEPT !.mParticles = list] = grown
      BY <2>1
    <3> QED
      BY <2>2, <3>1, <3>2
  <2> HIDE DEF grown
  <2> QED
    BY <1>5, <1>6, <2>2, <2>3
<1> HIDE DEF old
<1>10. /\ list \in Seq(Particle) /\ Len(list) = Len(old.mParticles) + 1
       /\ Len(list) <= Capacity /\ ToSet(list) = ToSet(old.mParticles) \cup {new}
       /\ IsInjective(list)
  <2> DEFINE l == old.mParticles
             N == Len(l)
  <2>1. N \in Nat /\ DOMAIN l = 1..N /\ list \in Seq(Particle) /\ Len(list) = N + 1
    BY <1>1, <1>8
  <2>2. \A j \in 1..N : list[j] = l[j]
    BY <1>1, <1>8
  <2>3. list[N + 1] = new /\ DOMAIN list = 1..(N + 1)
    BY <1>1, <1>8
  <2>4. \A j \in 1..N : l[j] # new
    BY <1>8, <2>1 DEF ToSet
  <2>5. \A j : j \in 1..(N + 1) <=> j \in 1..N \/ j = N + 1
    BY <2>1
  <2>6. \A a, b \in 1..N : l[a] = l[b] => a = b
    BY <1>8, <2>1 DEF IsInjective
  <2>7. N + 1 <= Capacity
    BY <1>8, <2>1, PoolAssumption
  <2> HIDE DEF N, list
  <2>8. ToSet(list) = ToSet(l) \cup {new}
    BY <2>1, <2>2, <2>3, <2>5 DEF ToSet
  <2>9. IsInjective(list)
    BY <2>2, <2>3, <2>4, <2>5, <2>6 DEF IsInjective
  <2> QED
    BY <2>1, <2>7, <2>8, <2>9 DEF N
<1>11. grown \in Collection
  BY <1>7, <1>10 DEF Collection
<1> HIDE DEF list
<1>12. /\ Keys(q) = Keys(p) \cup {key}
       /\ q.collections[key] = grown
       /\ \A k \in Keys(p) \ {key} : q.collections[k] = p.collections[k]
  BY <1>9 DEF Keys
<1>13. IsPool(q)
  <2>1. IsFiniteSet(Keys(q)) /\ Keys(q) \subseteq Int
    BY <1>3, <1>12, FS_AddElement DEF IsPool
  <2>2. q.collections \in [Keys(q) -> Collection]
    BY <1>9, <1>11, <1>12 DEF IsPool
  <2>3. q.mFree \in [Particle -> Int] /\ q.life \in [Particle -> Int]
    BY <1>1, <1>2, <1>6 DEF IsPool
  <2> QED
    BY <1>6, <2>1, <2>2, <2>3 DEF IsPool
<1>14. /\ In(q, key) = ToSet(old.mParticles) \cup {new}
       /\ \A k \in Keys(p) \ {key} : In(q, k) = In(p, k)
       /\ key \in Keys(p) => In(p, key) = ToSet(old.mParticles)
       /\ key \notin Keys(p) => ToSet(old.mParticles) = {}
  <2>1. key \notin Keys(p) => old.mParticles = << >>
    BY <1>4 DEF old
  <2>2. ToSet(<< >>) = {}
    BY DEF ToSet
  <2> QED
    BY <1>10, <1>12, <2>1, <2>2 DEF In, old
<1>15. Separate(q)
  <2> SUFFICES ASSUME NEW k \in Keys(q)
               PROVE  /\ IsInjective(q.collections[k].mParticles)
                      /\ Len(q.collections[k].mParticles) <= Capacity
                      /\ \A l \in Keys(q) \ {k} : In(q, k) \cap In(q, l) = {}
    BY DEF Separate
  <2>1. /\ IsInjective(q.collections[k].mParticles)
        /\ Len(q.collections[k].mParticles) <= Capacity
    <3>1. CASE k = key
      BY <1>10, <1>12, <3>1
    <3>2. CASE k # key
      BY <1>12, <3>2 DEF Separate
    <3> QED
      BY <3>1, <3>2
  <2>2. ASSUME NEW l \in Keys(p) \ {key}
        PROVE  In(q, key) \cap In(q, l) = {}
    <3>1. new \notin In(p, l)
      BY <1>2 DEF LiveIn
    <3>2. ToSet(old.mParticles) \cap In(p, l) = {}
      BY <1>14 DEF Separate
    <3> QED
      BY <1>14, <3>1, <3>2
  <2>3. ASSUME NEW l \in Keys(q) \ {k}
        PROVE  In(q, k) \cap In(q, l) = {}
    <3>1. CASE k = key \/ l = key
      BY <1>12, <2>2, <2>3, <3>1
    <3>2. CASE k # key /\ l # key
      <4>1. k \in Keys(p) /\ l \in Keys(p) \ {k}
        BY <1>12, <3>2
      <4>2. In(p, k) \cap In(p, l) = {}
        BY <4>1 DEF Separate
      <4> QED
        BY <1>14, <3>2, <4>1, <4>2
    <3> QED
      BY <3>1, <3>2
  <2> QED
    BY <2>1, <2>3
<1>16. Conserved(q)
  <2>1. LiveIn(q) = LiveIn(p) \cup {new}
    BY <1>12, <1>14 DEF LiveIn
  <2>2. \A x \in Particle : q.mFree[x] = IF x = new THEN p.mFree[x] - 1 ELSE p.mFree[x]
    BY <1>6 DEF IsPool
  <2> QED
    BY <1>2, <2>1, <2>2 DEF Conserved
<1>17. \A k \in Keys(q) :
          IF k \in Keys(p)
          THEN /\ q.collections[k].mColor = p.collections[k].mColor
               /\ q.collections[k].bShown = p.collections[k].bShown
          ELSE q.collections[k].bShown = TRUE
  <2>1. CASE key \in Keys(p)
    <3>1. old = p.collections[key]
      BY <2>1 DEF old
    <3>2. /\ q.collections[key].mColor = p.collections[key].mColor
          /\ q.collections[key].bShown = p.collections[key].bShown
      BY <1>12, <3>1
    <3> QED
      BY <1>12, <2>1, <3>2
  <2>2. CASE key \notin Keys(p)
    <3>1. old.bShown = TRUE
      BY <1>4, <2>2 DEF old
    <3> QED
      BY <1>12, <2>2, <3>1
  <2> QED
    BY <2>1, <2>2
<1>18. AddedTo(p, q, key, col, new)
  <2>1. key \notin Keys(p) => q.collections[key].mColor = col
    <3>1. key \notin Keys(p) => old.mColor = col
      BY <1>4 DEF old
    <3> QED
      BY <1>12, <3>1
  <2>2. ASSUME NEW k \in Keys(q), NEW x \in In(q, k)
        PROVE  \/ k \in Keys(p) /\ x \in In(p, k)
               \/ k = key /\ x = new
    <3>1. CASE k = key
      BY <1>14, <2>2, <3>1
    <3>2. CASE k # key
      BY <1>12, <1>14, <2>2, <3>2
    <3> QED
      BY <3>1, <3>2
  <2>3. p.mFree[new] = 1 /\ Keys(q) = Keys(p) \cup {key}
    BY <1>2, <1>12
  <2>4. \A k \in Keys(q) : \A x \in In(q, k) :
              \/ k \in Keys(p) /\ x \in In(p, k)
              \/ k = key /\ x = new
    BY <2>2
  <2> QED
    BY <2>1, <2>3, <2>4, Zenon DEF AddedTo
<1> QED
  BY <1>1, <1>12, <1>13, <1>15, <1>16, <1>17, <1>18 DEF q, key

LEMMA AddedPlace ==
    ASSUME NEW p, IsPool(p), Separate(p), Conserved(p),
           \E x \in Particle : p.mFree[x] > 0,
           NEW col \in Colours, NEW size \in Int, NEW lasts \in Int
    PROVE  /\ \E new \in Particle :
                 AddedTo(p, Added(p, col, size, lasts), KeyFor(p, col, size), col, new)
           /\ \A k \in Keys(Added(p, col, size, lasts)) : k \in Keys(p) =>
                 Added(p, col, size, lasts).collections[k].mColor =
                     p.collections[k].mColor
<1> DEFINE q == Added(p, col, size, lasts)
<1>1. \A k \in Keys(q) :
         IF k \in Keys(p)
         THEN /\ q.collections[k].mColor = p.collections[k].mColor
              /\ q.collections[k].bShown = p.collections[k].bShown
         ELSE q.collections[k].bShown = TRUE
  BY AddedFacts
<1>2. \E new \in Particle : AddedTo(p, q, KeyFor(p, col, size), col, new)
  BY AddedFacts
<1> HIDE DEF q
<1> QED
  BY <1>1, <1>2 DEF q
-----------------------------------------------------------------------------
(* update().                                                               *)

\* The loop of updateCollection is well defined.
UpdatedBy(turn, p, key, N) ==
    /\ turn[0] = [i |-> 1, pool |-> p]
    /\ \A n \in 1..N : turn[n] = AgeStep(turn[n - 1], key)
    /\ UpdateCollection(p, key) = turn[N].pool

LEMMA UpdateLoop ==
    ASSUME NEW p, NEW key, NEW N \in Nat, N = Len(p.collections[key].mParticles)
    PROVE  \E turn : UpdatedBy(turn, p, key, N)
<1> DEFINE Is(g, k) == g = [n \in 0..k |-> IF n = 0 THEN [i |-> 1, pool |-> p]
                                         ELSE AgeStep(g[n - 1], key)]
           T == {k \in Nat : \E g : Is(g, k)}
<1>1. 0 \in T
  <2>1. Is([n \in 0..0 |-> [i |-> 1, pool |-> p]], 0)
    OBVIOUS
  <2> QED
    BY <2>1
<1>2. ASSUME NEW k \in T
      PROVE  k + 1 \in T
  <2>1. PICK g : Is(g, k)
    OBVIOUS
  <2> DEFINE h == [n \in 0..(k + 1) |-> IF n = k + 1 THEN AgeStep(g[k], key) ELSE g[n]]
  <2>2. ASSUME NEW n \in 0..(k + 1)
        PROVE  h[n] = IF n = 0 THEN [i |-> 1, pool |-> p] ELSE AgeStep(h[n - 1], key)
    <3>1. CASE n = k + 1
      <4>1. n # 0 /\ n - 1 \in 0..(k + 1) /\ n - 1 # k + 1 /\ n - 1 = k
        BY <3>1
      <4>2. h[n - 1] = g[k]
        BY <4>1
      <4> QED
        BY <3>1, <4>1, <4>2
    <3>2. CASE n = 0
      BY <2>1, <3>2
    <3>3. CASE n # 0 /\ n # k + 1
      <4>1. n \in 0..k /\ n - 1 \in 0..(k + 1) /\ n - 1 # k + 1
        BY <3>3
      <4>2. h[n - 1] = g[n - 1] /\ h[n] = g[n]
        BY <3>3, <4>1
      <4>3. g[n] = AgeStep(g[n - 1], key)
        BY <2>1, <3>3, <4>1
      <4> QED
        BY <3>3, <4>2, <4>3
    <3> QED
      BY <3>1, <3>2, <3>3
  <2>3. Is(h, k + 1)
    BY <2>2
  <2> HIDE DEF h, Is
  <2> QED
    BY <2>3
<1>3. T = Nat
  <2> HIDE DEF T
  <2> QED
    BY <1>1, <1>2, SetInduction DEF T
<1>4. \E g : Is(g, N)
  BY <1>3
<1> DEFINE turn[n \in 0..N] == IF n = 0 THEN [i |-> 1, pool |-> p] ELSE AgeStep(turn[n - 1], key)
<1>5. Is(turn, N)
  BY <1>4
<1>6. UpdateCollection(p, key) = turn[N].pool
  BY DEF UpdateCollection
<1> HIDE DEF turn
<1>7. turn[0] = [i |-> 1, pool |-> p]
  BY <1>5
<1>8. ASSUME NEW n \in 1..N
      PROVE  turn[n] = AgeStep(turn[n - 1], key)
  <2>1. n \in 0..N /\ n # 0
    OBVIOUS
  <2> QED
    BY <1>5, <2>1
<1> QED
  BY <1>6, <1>7, <1>8 DEF UpdatedBy

Parts(q, key) == q.collections[key].mParticles

\* Where the walk is after n turns: at i, with the pool q; it began with p.
Kept(p, key, q, i, n) ==
    /\ IsPool(q) /\ Separate(q) /\ Alike(p, q)
    /\ \A k \in Keys(p) \ {key} : In(q, k) = In(p, k)
    /\ i \in Nat /\ 1 <= i
    /\ Len(Parts(q, key)) + n + 1 = Len(Parts(p, key)) + i

\* What it has passed is older by one, what it took out was dead.
Aged(p, key, q, i) ==
    /\ In(q, key) \subseteq In(p, key)
    /\ \A x \in In(p, key) \ In(q, key) : p.life[x] < 0
    /\ \A x \in Particle :
         /\ q.mFree[x] = IF x \in In(p, key) \ In(q, key)
                         THEN p.mFree[x] + 1 ELSE p.mFree[x]
         /\ x \notin In(p, key) => q.life[x] = p.life[x]
    /\ \A j \in 1..Len(Parts(q, key)) :
         IF j < i THEN /\ q.life[Parts(q, key)[j]] = p.life[Parts(q, key)[j]] - 1
                       /\ ~ (p.life[Parts(q, key)[j]] < 0)
         ELSE q.life[Parts(q, key)[j]] = p.life[Parts(q, key)[j]]

\* The particle the walk has come to is one of the collection.
LEMMA WalkFacts ==
    ASSUME NEW p, NEW key \in Keys(p), NEW q, NEW i, NEW n \in Nat,
           Kept(p, key, q, i, n), n < Len(Parts(p, key)),
           IsPool(p)
    PROVE  /\ key \in Keys(q) /\ Keys(q) = Keys(p)
           /\ Parts(q, key) \in Seq(Particle) /\ IsInjective(Parts(q, key))
           /\ Len(Parts(q, key)) \in Nat /\ Len(Parts(p, key)) \in Nat
           /\ i \in 1..Len(Parts(q, key))
           /\ Parts(q, key)[i] \in Particle /\ Parts(q, key)[i] \in In(q, key)
           /\ \A j \in 1..Len(Parts(q, key)) :
                /\ Parts(q, key)[j] \in Particle
                /\ j # i => Parts(q, key)[j] # Parts(q, key)[i]
           /\ \A x \in Particle : q.life[x] \in Int /\ q.mFree[x] \in Int
<1>1. key \in Keys(q) /\ Keys(q) = Keys(p)
  BY DEF Kept, Alike
<1>2. /\ Parts(q, key) \in Seq(Particle) /\ IsInjective(Parts(q, key))
      /\ Parts(p, key) \in Seq(Particle)
  BY <1>1 DEF Kept, IsPool, Separate, Collection, Parts
<1> DEFINE list == Parts(q, key)
           size == Len(Parts(p, key))
<1>3. In(q, key) = ToSet(list)
  BY DEF In, Parts
<1>4. list \in Seq(Particle) /\ IsInjective(list) /\ size \in Nat
  BY <1>2
<1>5. i \in Nat /\ 1 <= i /\ Len(list) + n + 1 = size + i /\ n < size
  BY DEF Kept
<1> HIDE DEF list, size
<1>6. Len(list) \in Nat /\ DOMAIN list = 1..Len(list)
  BY <1>4
<1>7. i \in 1..Len(list)
  BY <1>4, <1>5, <1>6
<1>8. \A j \in 1..Len(list) :
         /\ list[j] \in Particle /\ list[j] \in ToSet(list)
         /\ j # i => list[j] # list[i]
  BY <1>4, <1>6, <1>7 DEF ToSet, IsInjective
<1>9. \A x \in Particle : q.life[x] \in Int /\ q.mFree[x] \in Int
  BY DEF IsPool, Kept
<1> QED
  BY <1>1, <1>3, <1>4, <1>6, <1>7, <1>8, <1>9 DEF list, size

\* A dead particle is taken out; the one moved into its place is next.
LEMMA TurnDeletes ==
    ASSUME NEW p, IsPool(p), NEW key \in Keys(p), NEW q, NEW i, NEW n \in Nat,
           Kept(p, key, q, i, n), Aged(p, key, q, i), n < Len(Parts(p, key)),
           q.life[Parts(q, key)[i]] < 0
    PROVE  Kept(p, key, Del(q, key, i), i, n + 1) /\ Aged(p, key, Del(q, key, i), i)
<1> DEFINE r    == Del(q, key, i)
           list == Parts(q, key)
           left == Parts(r, key)
           size == Len(list)
           one  == list[i]
<1>1. /\ key \in Keys(q) /\ Keys(q) = Keys(p)
      /\ list \in Seq(Particle) /\ IsInjective(list)
      /\ size \in Nat /\ Len(Parts(p, key)) \in Nat
      /\ i \in 1..size
      /\ one \in Particle /\ one \in In(q, key)
      /\ \A j \in 1..size : list[j] \in Particle /\ (j # i => list[j] # one)
      /\ \A x \in Particle : q.life[x] \in Int /\ q.mFree[x] \in Int
  BY WalkFacts
<1>2. /\ IsPool(r) /\ Separate(r) /\ Alike(q, r)
      /\ \A k \in Keys(q) \ {key} : r.collections[k] = q.collections[k]
      /\ left = Without(list, i)
      /\ In(r, key) = In(q, key) \ {one}
      /\ \A x \in Particle :
            /\ r.mFree[x] = q.mFree[x] + IF x = one THEN 1 ELSE 0
            /\ r.life[x] = IF x = one THEN 0 ELSE q.life[x]
  <2>1. /\ IsPool(q) /\ Separate(q)
        /\ i \in 1..Len(q.collections[key].mParticles)
    BY <1>1 DEF Kept, Parts
  <2> QED
    BY <1>1, <2>1, DelFacts DEF Parts
<1>3. /\ Len(left) = size - 1
      /\ \A j \in 1..(size - 1) : left[j] = IF j = i THEN list[size] ELSE list[j]
  <2>1. list \in Seq(Particle) /\ IsInjective(list) /\ i \in 1..Len(list)
    BY <1>1
  <2>2. left = Without(list, i)
    BY <1>2
  <2> HIDE DEF list, left, r
  <2>3. /\ Len(Without(list, i)) = Len(list) - 1
        /\ \A j \in 1..(Len(list) - 1) :
               Without(list, i)[j] = IF j = i THEN list[Len(list)] ELSE list[j]
    BY <2>1, WithoutFacts
  <2> QED
    BY <2>2, <2>3
<1> HIDE DEF r, list, left, size, one
<1>4. Kept(p, key, r, i, n + 1)
  <2>1. Len(left) + (n + 1) + 1 = Len(Parts(p, key)) + i
    <3>1. size + n + 1 = Len(Parts(p, key)) + i /\ i \in Nat
      BY DEF Kept, size, list
    <3> QED
      BY <1>1, <1>3, <3>1
  <2>2. Alike(p, r)
    BY <1>1, <1>2 DEF Alike, Kept
  <2>3. \A k \in Keys(p) \ {key} : In(r, k) = In(p, k)
    BY <1>1, <1>2 DEF In, Kept
  <2> QED
    BY <1>2, <2>1, <2>2, <2>3 DEF Kept, left
<1>5. q.life[one] = p.life[one]
  <2>1. ~ (i < i)
    BY <1>1
  <2> QED
    BY <1>1, <2>1 DEF Aged, one, list, size
<1>6. p.life[one] < 0 /\ one \in In(p, key)
  BY <1>1, <1>5 DEF Aged, one, list
<1>7. ASSUME NEW j \in 1..Len(left)
      PROVE  IF j < i THEN /\ r.life[left[j]] = p.life[left[j]] - 1
                           /\ ~ (p.life[left[j]] < 0)
             ELSE r.life[left[j]] = p.life[left[j]]
  <2> DEFINE l == IF j = i THEN size ELSE j
  <2>1. j \in 1..(size - 1) /\ i \in 1..size /\ size \in Nat
    BY <1>1, <1>3
  <2>2. l \in 1..size /\ l # i /\ (j < i <=> l < i)
    BY <2>1
  <2>3. left[j] = list[l]
    BY <1>3, <2>1
  <2> HIDE DEF l
  <2>4. list[l] # one /\ list[l] \in Particle
    BY <1>1, <2>2
  <2>5. r.life[list[l]] = q.life[list[l]]
    BY <1>2, <2>4
  <2>6. IF l < i THEN /\ q.life[list[l]] = p.life[list[l]] - 1
                      /\ ~ (p.life[list[l]] < 0)
        ELSE q.life[list[l]] = p.life[list[l]]
    BY <2>2 DEF Aged, list, size
  <2> QED
    BY <2>2, <2>3, <2>5, <2>6
<1>8. ASSUME NEW x \in Particle
      PROVE  /\ r.mFree[x] = IF x \in In(p, key) \ In(r, key)
                             THEN p.mFree[x] + 1 ELSE p.mFree[x]
             /\ x \notin In(p, key) => r.life[x] = p.life[x]
  <2>1. /\ q.mFree[x] = IF x \in In(p, key) \ In(q, key)
                        THEN p.mFree[x] + 1 ELSE p.mFree[x]
        /\ x \notin In(p, key) => q.life[x] = p.life[x]
    BY DEF Aged
  <2>2. CASE x = one
    <3>1. r.mFree[x] = q.mFree[x] + 1 /\ q.mFree[x] = p.mFree[x]
      BY <1>1, <1>2, <2>1, <2>2
    <3> QED
      BY <1>2, <1>6, <2>2, <3>1
  <2>3. CASE x # one
    <3>1. r.mFree[x] = q.mFree[x] /\ r.life[x] = q.life[x]
      BY <1>1, <1>2, <2>3
    <3> QED
      BY <1>2, <2>1, <2>3, <3>1
  <2> QED
    BY <2>2, <2>3
<1>9. In(r, key) \subseteq In(p, key) /\ \A x \in In(p, key) \ In(r, key) : p.life[x] < 0
  BY <1>2, <1>6 DEF Aged
<1>10. Aged(p, key, r, i)
  BY <1>7, <1>8, <1>9 DEF Aged, left
<1> QED
  BY <1>4, <1>10 DEF r

\* A pool with an older particle.
LEMMA OlderFacts ==
    ASSUME NEW q, IsPool(q), NEW one
    PROVE  [q EXCEPT !.life[one] = @ - 1]
              = [mFree |-> q.mFree, collections |-> q.collections,
                 life |-> [q.life EXCEPT ![one] = @ - 1]]
BY DEF IsPool

\* One that lives on is passed, and is older by one.
LEMMA TurnAges ==
    ASSUME NEW p, IsPool(p), NEW key \in Keys(p), NEW q, NEW i, NEW n \in Nat,
           Kept(p, key, q, i, n), Aged(p, key, q, i), n < Len(Parts(p, key)),
           ~ (q.life[Parts(q, key)[i]] < 0)
    PROVE  LET r == [q EXCEPT !.life[Parts(q, key)[i]] = @ - 1]
           IN  Kept(p, key, r, i + 1, n + 1) /\ Aged(p, key, r, i + 1)
<1> DEFINE list == Parts(q, key)
           size == Len(list)
           one  == list[i]
           r    == [q EXCEPT !.life[one] = @ - 1]
<1>1. /\ key \in Keys(q) /\ Keys(q) = Keys(p)
      /\ list \in Seq(Particle) /\ size \in Nat /\ Len(Parts(p, key)) \in Nat
      /\ i \in 1..size
      /\ one \in Particle /\ one \in In(q, key)
      /\ \A j \in 1..size : list[j] \in Particle /\ (j # i => list[j] # one)
      /\ \A x \in Particle : q.life[x] \in Int /\ q.mFree[x] \in Int
  BY WalkFacts
<1>2. IsPool(q) /\ Separate(q)
  BY DEF Kept
<1> HIDE DEF one
<1>3. /\ r.mFree = q.mFree /\ r.collections = q.collections
      /\ r.life = [q.life EXCEPT ![one] = @ - 1]
      /\ r = [mFree |-> r.mFree, collections |-> r.collections, life |-> r.life]
  <2>1. r = [mFree |-> q.mFree, collections |-> q.collections,
             life |-> [q.life EXCEPT ![one] = @ - 1]]
    BY <1>2, OlderFacts
  <2> HIDE DEF r
  <2> QED
    BY <2>1
<1>4. /\ \A x \in Particle : r.life[x] = IF x = one THEN q.life[x] - 1 ELSE q.life[x]
      /\ r.life \in [Particle -> Int]
  <2>1. q.life \in [Particle -> Int]
    BY <1>2 DEF IsPool
  <2>2. q.life[one] - 1 \in Int /\ one \in Particle
    BY <1>1 DEF one
  <2> QED
    BY <1>3, <2>1, <2>2
<1>5. Keys(r) = Keys(q) /\ Parts(r, key) = list /\ \A k \in Keys(p) : In(r, k) = In(q, k)
  BY <1>3 DEF Keys, In, Parts
<1> HIDE DEF list, size, r
<1>6. Kept(p, key, r, i + 1, n + 1)
  <2>1. IsPool(r)
    BY <1>2, <1>3, <1>4, <1>5 DEF IsPool
  <2>2. Separate(r) /\ Alike(p, r)
    BY <1>1, <1>2, <1>3, <1>5 DEF Separate, Alike, Kept
  <2>3. i + 1 \in Nat /\ 1 <= i + 1 /\ size + (n + 1) + 1 = Len(Parts(p, key)) + (i + 1)
    <3>1. size + n + 1 = Len(Parts(p, key)) + i
      BY DEF Kept, size, list
    <3> QED
      BY <1>1, <3>1
  <2>4. \A k \in Keys(p) \ {key} : In(r, k) = In(p, k)
    BY <1>5 DEF Kept
  <2> QED
    BY <1>5, <2>1, <2>2, <2>3, <2>4 DEF Kept, size
<1>7. q.life[one] = p.life[one]
  <2>1. ~ (i < i)
    BY <1>1
  <2> QED
    BY <1>1, <2>1 DEF Aged, one, list, size
<1>8. ~ (p.life[one] < 0) /\ one \in In(p, key)
  BY <1>1, <1>7 DEF Aged, one, list
<1>9. ASSUME NEW j \in 1..size
      PROVE  IF j < i + 1 THEN /\ r.life[list[j]] = p.life[list[j]] - 1
                               /\ ~ (p.life[list[j]] < 0)
             ELSE r.life[list[j]] = p.life[list[j]]
  <2>1. CASE j = i
    <3>1. list[j] = one /\ j < i + 1
      BY <1>1, <2>1 DEF one
    <3>2. r.life[one] = q.life[one] - 1
      BY <1>1, <1>4
    <3> QED
      BY <1>7, <1>8, <3>1, <3>2
  <2>2. CASE j # i
    <3>1. r.life[list[j]] = q.life[list[j]]
      BY <1>1, <1>4, <2>2
    <3>2. j < i + 1 <=> j < i
      BY <1>1, <2>2
    <3>3. IF j < i THEN /\ q.life[list[j]] = p.life[list[j]] - 1
                        /\ ~ (p.life[list[j]] < 0)
          ELSE q.life[list[j]] = p.life[list[j]]
      BY DEF Aged, list, size
    <3> QED
      BY <3>1, <3>2, <3>3
  <2> QED
    BY <2>1, <2>2
<1>10. \A x \in Particle :
          /\ r.mFree[x] = IF x \in In(p, key) \ In(r, key)
                          THEN p.mFree[x] + 1 ELSE p.mFree[x]
          /\ x \notin In(p, key) => r.life[x] = p.life[x]
  BY <1>3, <1>4, <1>5, <1>8 DEF Aged
<1>11. Aged(p, key, r, i + 1)
  <2>1. In(r, key) \subseteq In(p, key) /\ \A x \in In(p, key) \ In(r, key) : p.life[x] < 0
    BY <1>5 DEF Aged
  <2>2. Len(Parts(r, key)) = size /\ Parts(r, key) = list
    BY <1>5 DEF size
  <2> QED
    BY <1>9, <1>10, <2>1, <2>2 DEF Aged
<1> QED
  BY <1>6, <1>11 DEF r, one, list

\* updateCollection() ages what lives on and takes out what was over, each
\* once, although a particle may be moved under the walk.
LEMMA UpdateCollectionFacts ==
    ASSUME NEW p, IsPool(p), Separate(p), NEW key \in Keys(p)
    PROVE  /\ IsPool(UpdateCollection(p, key)) /\ Separate(UpdateCollection(p, key))
           /\ Alike(p, UpdateCollection(p, key))
           /\ \A k \in Keys(p) \ {key} : In(UpdateCollection(p, key), k) = In(p, k)
           /\ In(UpdateCollection(p, key), key) = {x \in In(p, key) : ~ (p.life[x] < 0)}
           /\ \A x \in Particle :
                 /\ UpdateCollection(p, key).mFree[x] =
                      IF x \in In(p, key) /\ p.life[x] < 0
                      THEN p.mFree[x] + 1 ELSE p.mFree[x]
                 /\ UpdateCollection(p, key).life[x] =
                      IF x \notin In(p, key) THEN p.life[x]
                      ELSE IF p.life[x] < 0 THEN UpdateCollection(p, key).life[x]
                      ELSE p.life[x] - 1
<1> DEFINE N == Len(Parts(p, key))
<1>1. N \in Nat /\ N = Len(p.collections[key].mParticles)
  BY DEF IsPool, Collection, Parts
<1> HIDE DEF N
<1>2. PICK turn : UpdatedBy(turn, p, key, N)
  BY <1>1, UpdateLoop
<1>3. /\ turn[0] = [i |-> 1, pool |-> p]
      /\ \A n \in 1..N : turn[n] = AgeStep(turn[n - 1], key)
      /\ UpdateCollection(p, key) = turn[N].pool
  BY <1>2 DEF UpdatedBy
<1> DEFINE Good(s, n) == Kept(p, key, s.pool, s.i, n) /\ Aged(p, key, s.pool, s.i)
           T == {n \in Nat : n <= N => Good(turn[n], n)}
<1>4. 0 \in T
  <2>1. Kept(p, key, p, 1, 0)
    BY <1>1 DEF Alike, Kept, N
  <2>2. Aged(p, key, p, 1)
    <3>1. \A j \in 1..Len(Parts(p, key)) : ~ (j < 1)
      OBVIOUS
    <3> QED
      BY <3>1 DEF Aged
  <2>3. turn[0].pool = p /\ turn[0].i = 1
    BY <1>3
  <2> QED
    BY <2>1, <2>2, <2>3
<1>5. ASSUME NEW n \in T
      PROVE  n + 1 \in T
  <2> SUFFICES ASSUME n + 1 <= N
               PROVE  Good(turn[n + 1], n + 1)
    OBVIOUS
  <2> DEFINE s == turn[n]
             q == s.pool
             i == s.i
             r == [q EXCEPT !.life[Parts(q, key)[i]] = @ - 1]
  <2>1. n \in Nat /\ n < N /\ n <= N /\ n + 1 \in 1..N /\ n + 1 - 1 = n
    BY <1>1
  <2>2. turn[n + 1] = AgeStep(s, key)
    BY <1>3, <2>1
  <2>3. Kept(p, key, q, i, n) /\ Aged(p, key, q, i)
    BY <2>1
  <2>4. n < Len(Parts(p, key))
    BY <2>1 DEF N
  <2>5. AgeStep(s, key) = IF q.life[Parts(q, key)[i]] < 0
                          THEN [i |-> i, pool |-> Del(q, key, i)]
                          ELSE [i |-> i + 1, pool |-> r]
    BY DEF AgeStep, Parts
  <2> HIDE DEF s, q, i, r
  <2>6. CASE q.life[Parts(q, key)[i]] < 0
    <3>1. Kept(p, key, Del(q, key, i), i, n + 1) /\ Aged(p, key, Del(q, key, i), i)
      BY <2>1, <2>3, <2>4, <2>6, TurnDeletes
    <3>2. turn[n + 1].pool = Del(q, key, i) /\ turn[n + 1].i = i
      BY <2>2, <2>5, <2>6
    <3> QED
      BY <3>1, <3>2
  <2>7. CASE ~ (q.life[Parts(q, key)[i]] < 0)
    <3>1. Kept(p, key, r, i + 1, n + 1) /\ Aged(p, key, r, i + 1)
      BY <2>1, <2>3, <2>4, <2>7, TurnAges DEF r
    <3>2. turn[n + 1].pool = r /\ turn[n + 1].i = i + 1
      BY <2>2, <2>5, <2>7
    <3> QED
      BY <3>1, <3>2
  <2> QED
    BY <2>6, <2>7
<1>6. T = Nat
  <2> HIDE DEF T
  <2> QED
    BY <1>4, <1>5, SetInduction DEF T
<1> DEFINE q == turn[N].pool
           i == turn[N].i
<1>7. Kept(p, key, q, i, N) /\ Aged(p, key, q, i)
  <2>1. Good(turn[N], N)
    <3> HIDE DEF Good
    <3> QED
      BY <1>1, <1>6
  <2> QED
    BY <2>1
<1> HIDE DEF q, i
<1>8. Parts(q, key) \in Seq(Particle) /\ Len(Parts(q, key)) \in Nat
  BY <1>7 DEF IsPool, Collection, Alike, Kept, Parts
<1>9. \A j \in 1..Len(Parts(q, key)) : j < i
  <2>1. Len(Parts(q, key)) + N + 1 = N + i /\ i \in Nat
    BY <1>7 DEF Kept, N
  <2> QED
    BY <1>1, <1>8, <2>1
<1>10. \A x \in In(q, key) : q.life[x] = p.life[x] - 1 /\ ~ (p.life[x] < 0)
  <2>1. \A x \in In(q, key) : \E j \in 1..Len(Parts(q, key)) : x = Parts(q, key)[j]
    BY <1>8 DEF In, ToSet, Parts
  <2> QED
    BY <1>7, <1>9, <2>1 DEF Aged
<1>11. In(q, key) = {x \in In(p, key) : ~ (p.life[x] < 0)}
  BY <1>7, <1>10 DEF Aged
<1>12. ASSUME NEW x \in Particle
       PROVE  /\ q.mFree[x] = IF x \in In(p, key) /\ p.life[x] < 0
                              THEN p.mFree[x] + 1 ELSE p.mFree[x]
              /\ q.life[x] = IF x \notin In(p, key) THEN p.life[x]
                             ELSE IF p.life[x] < 0 THEN q.life[x]
                             ELSE p.life[x] - 1
  BY <1>7, <1>10, <1>11 DEF Aged
<1>13. /\ IsPool(q) /\ Separate(q) /\ Alike(p, q)
       /\ \A k \in Keys(p) \ {key} : In(q, k) = In(p, k)
  BY <1>7 DEF Kept
<1>14. q = UpdateCollection(p, key)
  BY <1>3 DEF q
<1> QED
  BY <1>11, <1>12, <1>13, <1>14

\* ... and that of update() over the collections.
AllUpdatedBy(after, p, keys, N) ==
    /\ after[0] = p
    /\ \A n \in 1..N : after[n] = UpdateCollection(after[n - 1], keys[n])
    /\ Updated(p) = after[N]

LEMMA UpdatedLoop ==
    ASSUME NEW p, NEW N \in Nat, N = Cardinality(Keys(p)),
           NEW keys, keys = SetToSeq(Keys(p))
    PROVE  \E after : AllUpdatedBy(after, p, keys, N)
<1> DEFINE Is(g, k) == g = [n \in 0..k |-> IF n = 0 THEN p
                                         ELSE UpdateCollection(g[n - 1], keys[n])]
           T == {k \in Nat : \E g : Is(g, k)}
<1>1. 0 \in T
  <2>1. Is([n \in 0..0 |-> p], 0)
    OBVIOUS
  <2> QED
    BY <2>1
<1>2. ASSUME NEW k \in T
      PROVE  k + 1 \in T
  <2>1. PICK g : Is(g, k)
    OBVIOUS
  <2> DEFINE h == [n \in 0..(k + 1) |-> IF n = k + 1 THEN UpdateCollection(g[k], keys[n]) ELSE g[n]]
  <2>2. ASSUME NEW n \in 0..(k + 1)
        PROVE  h[n] = IF n = 0 THEN p ELSE UpdateCollection(h[n - 1], keys[n])
    <3>1. CASE n = k + 1
      <4>1. n # 0 /\ n - 1 \in 0..(k + 1) /\ n - 1 # k + 1 /\ n - 1 = k
        BY <3>1
      <4>2. h[n - 1] = g[k]
        BY <4>1
      <4> QED
        BY <3>1, <4>1, <4>2
    <3>2. CASE n = 0
      BY <2>1, <3>2
    <3>3. CASE n # 0 /\ n # k + 1
      <4>1. n \in 0..k /\ n - 1 \in 0..(k + 1) /\ n - 1 # k + 1
        BY <3>3
      <4>2. h[n - 1] = g[n - 1] /\ h[n] = g[n]
        BY <3>3, <4>1
      <4>3. g[n] = UpdateCollection(g[n - 1], keys[n])
        BY <2>1, <3>3, <4>1
      <4> QED
        BY <3>3, <4>2, <4>3
    <3> QED
      BY <3>1, <3>2, <3>3
  <2>3. Is(h, k + 1)
    BY <2>2
  <2> HIDE DEF h, Is
  <2> QED
    BY <2>3
<1>3. T = Nat
  <2> HIDE DEF T
  <2> QED
    BY <1>1, <1>2, SetInduction DEF T
<1>4. \E g : Is(g, N)
  BY <1>3
<1> DEFINE after[n \in 0..N] == IF n = 0 THEN p ELSE UpdateCollection(after[n - 1], keys[n])
<1>5. Is(after, N)
  BY <1>4
<1>6. Updated(p) = after[N]
  BY DEF Updated, ForEach
<1> HIDE DEF after
<1>7. after[0] = p
  BY <1>5
<1>8. \A n \in 1..N : after[n] = UpdateCollection(after[n - 1], keys[n])
  BY <1>5
<1> QED
  BY <1>6, <1>7, <1>8 DEF AllUpdatedBy

\* update() ages every live particle once, and frees those whose life was over.
LEMMA UpdatedFacts ==
    ASSUME NEW p, IsPool(p), Separate(p)
    PROVE  /\ IsPool(Updated(p)) /\ Separate(Updated(p)) /\ Alike(p, Updated(p))
           /\ \A k \in Keys(p) :
                 In(Updated(p), k) = {x \in In(p, k) : ~ (p.life[x] < 0)}
           /\ \A x \in Particle :
                 /\ Updated(p).mFree[x] =
                      IF x \in LiveIn(p) /\ p.life[x] < 0
                      THEN p.mFree[x] + 1 ELSE p.mFree[x]
                 /\ x \in LiveIn(p) /\ ~ (p.life[x] < 0) =>
                      Updated(p).life[x] = p.life[x] - 1
<1> DEFINE N == Cardinality(Keys(p))
           keys == SetToSeq(Keys(p))
<1>1. /\ N \in Nat /\ keys \in [1..N -> Keys(p)]
      /\ \A m, n \in 1..N : keys[m] = keys[n] => m = n
      /\ \A k \in Keys(p) : \E n \in 1..N : keys[n] = k
  BY SetToSeqFacts DEF IsPool
<1>a. PICK after : AllUpdatedBy(after, p, keys, N)
  BY <1>1, UpdatedLoop
<1>2. /\ after[0] = p
      /\ \A n \in 1..N : after[n] = UpdateCollection(after[n - 1], keys[n])
      /\ Updated(p) = after[N]
  BY <1>a DEF AllUpdatedBy
<1> HIDE DEF N, keys
<1> DEFINE over(x) == p.life[x] < 0
           passed(x, n) == \E m \in 1..n : x \in In(p, keys[m])
           Good(q, n) ==
             /\ IsPool(q) /\ Separate(q) /\ Alike(p, q)
             /\ \A m \in 1..N : In(q, keys[m]) =
                  IF m <= n THEN {x \in In(p, keys[m]) : ~ over(x)} ELSE In(p, keys[m])
             /\ \A x \in Particle :
                  /\ q.mFree[x] = IF passed(x, n) /\ over(x)
                                  THEN p.mFree[x] + 1 ELSE p.mFree[x]
                  /\ passed(x, n) /\ ~ over(x) => q.life[x] = p.life[x] - 1
                  /\ ~ passed(x, n) => q.life[x] = p.life[x]
           T == {n \in Nat : n <= N => Good(after[n], n)}
<1>3. 0 \in T
  <2>1. \A x : ~ passed(x, 0)
    OBVIOUS
  <2>2. \A m \in 1..N : ~ (m <= 0)
    OBVIOUS
  <2>3. Alike(p, p)
    BY DEF Alike
  <2> HIDE DEF passed, over
  <2>4. Good(p, 0)
    BY <2>1, <2>2, <2>3
  <2> HIDE DEF Good
  <2> QED
    BY <1>2, <2>4
<1>4. ASSUME NEW n \in T
      PROVE  n + 1 \in T
  <2> HIDE DEF Good
  <2> SUFFICES ASSUME n + 1 <= N
               PROVE  Good(after[n + 1], n + 1)
    BY <1>1
  <2> USE DEF Good
  <2> DEFINE q   == after[n]
             key == keys[n + 1]
             r   == UpdateCollection(q, key)
  <2>1. n \in Nat /\ n <= N /\ n + 1 \in 1..N /\ n + 1 - 1 = n
    BY <1>1
  <2>2. after[n + 1] = r
    BY <1>2, <2>1
  <2>3. Good(q, n)
    <3> HIDE DEF Good
    <3> QED
      BY <2>1
  <2>4. key \in Keys(q) /\ Keys(q) = Keys(p) /\ key \in Keys(p)
    BY <1>1, <2>1, <2>3 DEF Alike
  <2>5. IsPool(q) /\ Separate(q)
    BY <2>3
  <2> HIDE DEF q, key
  <2>6. /\ IsPool(r) /\ Separate(r) /\ Alike(q, r)
        /\ \A k \in Keys(q) \ {key} : In(r, k) = In(q, k)
        /\ In(r, key) = {x \in In(q, key) : ~ (q.life[x] < 0)}
        /\ \A x \in Particle :
             /\ r.mFree[x] = IF x \in In(q, key) /\ q.life[x] < 0
                             THEN q.mFree[x] + 1 ELSE q.mFree[x]
             /\ r.life[x] = IF x \notin In(q, key) THEN q.life[x]
                            ELSE IF q.life[x] < 0 THEN r.life[x]
                            ELSE q.life[x] - 1
    BY <2>4, <2>5, UpdateCollectionFacts
  <2> HIDE DEF r
  <2>7. Alike(p, r)
    BY <2>3, <2>4, <2>6 DEF Alike
  <2>8. In(q, key) = In(p, key)
    <3>1. ~ (n + 1 <= n)
      BY <2>1
    <3>2. In(q, keys[n + 1]) = In(p, keys[n + 1])
      BY <2>1, <2>3, <3>1
    <3> QED
      BY <3>2 DEF key
  <2>9. ASSUME NEW x \in In(p, key)
        PROVE  ~ passed(x, n)
    <3> SUFFICES ASSUME NEW m \in 1..n, x \in In(p, keys[m])
                 PROVE  FALSE
      OBVIOUS
    <3>1. m \in 1..N /\ m # n + 1
      BY <1>1, <2>1
    <3>2. keys[m] \in Keys(p) \ {key}
      BY <1>1, <2>1, <3>1 DEF key
    <3>3. In(p, key) \cap In(p, keys[m]) = {}
      BY <2>4, <3>2 DEF Separate
    <3> QED
      BY <3>3
  <2>10. \A x \in In(p, key) : x \in Particle /\ q.life[x] = p.life[x]
    <3>1. p.collections[key].mParticles \in Seq(Particle)
      BY <2>4 DEF IsPool, Collection
    <3>2. \A x \in In(p, key) : x \in Particle
      BY <3>1 DEF In, ToSet
    <3> HIDE DEF passed, over
    <3> QED
      BY <2>3, <2>9, <3>2
  <2>11. ASSUME NEW m \in 1..N
         PROVE  In(r, keys[m]) = IF m <= n + 1 THEN {x \in In(p, keys[m]) : ~ over(x)}
                                 ELSE In(p, keys[m])
    <3>1. CASE m = n + 1
      <4>1. keys[m] = key /\ m <= n + 1
        BY <2>1, <3>1 DEF key
      <4>2. In(r, key) = {x \in In(p, key) : ~ over(x)}
        BY <2>6, <2>8, <2>10
      <4> QED
        BY <4>1, <4>2
    <3>2. CASE m # n + 1
      <4>1. keys[m] \in Keys(q) \ {key}
        BY <1>1, <2>1, <2>4, <3>2 DEF key
      <4>2. In(r, keys[m]) = In(q, keys[m])
        BY <2>6, <4>1
      <4>3. m <= n <=> m <= n + 1
        BY <2>1, <3>2
      <4> QED
        BY <2>3, <4>2, <4>3
    <3> QED
      BY <3>1, <3>2
  <2>12. \A x : passed(x, n + 1) <=> passed(x, n) \/ x \in In(p, key)
    <3>1. \A m : m \in 1..(n + 1) <=> m \in 1..n \/ m = n + 1
      BY <2>1
    <3> QED
      BY <3>1 DEF key
  <2>13. ASSUME NEW x \in Particle
         PROVE  /\ r.mFree[x] = IF passed(x, n + 1) /\ over(x)
                                THEN p.mFree[x] + 1 ELSE p.mFree[x]
                /\ passed(x, n + 1) /\ ~ over(x) => r.life[x] = p.life[x] - 1
                /\ ~ passed(x, n + 1) => r.life[x] = p.life[x]
    <3>1. /\ q.mFree[x] = IF passed(x, n) /\ over(x)
                          THEN p.mFree[x] + 1 ELSE p.mFree[x]
          /\ passed(x, n) /\ ~ over(x) => q.life[x] = p.life[x] - 1
          /\ ~ passed(x, n) => q.life[x] = p.life[x]
      BY <2>3
    <3>2. CASE x \in In(p, key)
      <4>1. ~ passed(x, n) /\ passed(x, n + 1) /\ q.life[x] = p.life[x]
        BY <2>9, <2>10, <2>12, <3>2
      <4>2. over(x) <=> q.life[x] < 0
        BY <4>1
      <4> HIDE DEF passed, over
      <4> QED
        BY <2>6, <2>8, <3>1, <3>2, <4>1, <4>2
    <3>3. CASE x \notin In(p, key)
      <4>1. passed(x, n + 1) <=> passed(x, n)
        BY <2>12, <3>3
      <4>2. r.mFree[x] = q.mFree[x] /\ r.life[x] = q.life[x]
        BY <2>6, <2>8, <3>3
      <4> HIDE DEF passed, over
      <4> QED
        BY <3>1, <4>1, <4>2
    <3> QED
      BY <3>2, <3>3
  <2> HIDE DEF passed, over
  <2> QED
    BY <2>2, <2>6, <2>7, <2>11, <2>13
<1>5. T = Nat
  <2> HIDE DEF T
  <2> QED
    BY <1>3, <1>4, SetInduction DEF T
<1>6. Good(after[N], N)
  <2> HIDE DEF Good
  <2> QED
    BY <1>1, <1>5
<1> DEFINE q == after[N]
<1>7. ASSUME NEW k \in Keys(p)
      PROVE  In(q, k) = {x \in In(p, k) : ~ over(x)}
  <2>1. PICK m \in 1..N : keys[m] = k
    BY <1>1
  <2>2. m <= N
    BY <1>1
  <2> HIDE DEF passed, over
  <2> QED
    BY <1>6, <2>1, <2>2
<1>8. \A x : x \in LiveIn(p) <=> passed(x, N)
  BY <1>1 DEF LiveIn
<1>9. \A x \in Particle :
         /\ q.mFree[x] = IF x \in LiveIn(p) /\ over(x)
                         THEN p.mFree[x] + 1 ELSE p.mFree[x]
         /\ x \in LiveIn(p) /\ ~ over(x) => q.life[x] = p.life[x] - 1
  <2> HIDE DEF passed, over
  <2> QED
    BY <1>6, <1>8
<1>10. IsPool(q) /\ Separate(q) /\ Alike(p, q)
  <2> HIDE DEF passed, over
  <2> QED
    BY <1>6
<1> QED
  BY <1>2, <1>7, <1>9, <1>10
-----------------------------------------------------------------------------
(* The collections by their numbers.                                       *)

\* A finite set of integers that is not empty has a least element.
LEMMA FiniteLeast ==
    ASSUME NEW S \in SUBSET Int, IsFiniteSet(S), S # {}
    PROVE  \E x \in S : \A y \in S : x <= y
<1> DEFINE Has(R) == \E x \in R : \A y \in R : x <= y
           T == {n \in Nat : \A R \in SUBSET Int :
                     IsFiniteSet(R) /\ Cardinality(R) = n + 1 => Has(R)}
<1>1. 0 \in T
  <2> SUFFICES ASSUME NEW R \in SUBSET Int, IsFiniteSet(R), Cardinality(R) = 1
               PROVE  Has(R)
    OBVIOUS
  <2>1. PICK x : R = {x}
    BY FS_Singleton
  <2> QED
    BY <2>1
<1>2. ASSUME NEW n \in T
      PROVE  n + 1 \in T
  <2> SUFFICES ASSUME NEW R \in SUBSET Int, IsFiniteSet(R),
                      Cardinality(R) = (n + 1) + 1
               PROVE  Has(R)
    OBVIOUS
  <2>1. PICK x : x \in R
    <3>1. R # {}
      BY FS_EmptySet
    <3> QED
      BY <3>1
  <2> DEFINE rest == R \ {x}
  <2>2. IsFiniteSet(rest) /\ Cardinality(rest) = Cardinality(R) - 1
    BY <2>1, FS_RemoveElement
  <2>3. Cardinality(rest) = n + 1 /\ rest \in SUBSET Int
    <3>1. rest \in SUBSET Int /\ n \in Nat
      OBVIOUS
    <3> HIDE DEF rest, T
    <3> QED
      BY <2>2, <3>1
  <2>4. Has(rest)
    <3> HIDE DEF Has, rest
    <3> QED
      BY <2>2, <2>3
  <2>5. PICK y \in rest : \A z \in rest : y <= z
    BY <2>4
  <2>6. CASE x <= y
    BY <2>1, <2>5, <2>6
  <2>7. CASE ~ (x <= y)
    <3>1. y <= x /\ y \in R
      BY <2>1, <2>5, <2>7
    <3> QED
      BY <2>5, <3>1
  <2> QED
    BY <2>6, <2>7
<1>3. T = Nat
  <2>1. T \in SUBSET Nat
    OBVIOUS
  <2> HIDE DEF T
  <2> QED
    BY <1>1, <1>2, <2>1, SetInduction
<1>4. Cardinality(S) \in Nat /\ Cardinality(S) # 0
  BY FS_CardinalityType, FS_EmptySet
<1>5. Cardinality(S) - 1 \in T /\ (Cardinality(S) - 1) + 1 = Cardinality(S)
  BY <1>3, <1>4
<1> QED
  BY <1>5

\* render() advances to a collection there is.
LEMMA FollowingFacts ==
    ASSUME NEW keys \in SUBSET Int, IsFiniteSet(keys), keys # {}, NEW key
    PROVE  Following(keys, key) \in keys
<1> DEFINE later == {k \in keys : k > key}
           some  == IF later = {} THEN keys ELSE later
<1>1. IsFiniteSet(later)
  BY FS_Subset
<1>2. some \in SUBSET Int /\ IsFiniteSet(some) /\ some # {} /\ some \subseteq keys
  BY <1>1
<1>3. Following(keys, key) = CHOOSE k \in some : \A l \in some : k <= l
  BY DEF Following
<1> HIDE DEF some
<1>4. \E k \in some : \A l \in some : k <= l
  BY <1>2, FiniteLeast
<1> QED
  BY <1>2, <1>3, <1>4
-----------------------------------------------------------------------------
(* The pool in the states of the client.                                   *)

IInv == TypeOK /\ PoolConserved

\* What the lemmas above ask of a pool holds of the variables.
LEMMA PoolFacts ==
    ASSUME TypeOK
    PROVE  /\ IsPool(pool) /\ Keys(pool) = DOMAIN collections
           /\ LiveIn(pool) = Live
           /\ PoolConserved /\ Running => Separate(pool) /\ Conserved(pool)
<1>1. pool.mFree = mFree /\ pool.collections = collections /\ pool.life = life
  BY DEF pool
<1>2. Keys(pool) = DOMAIN collections
  BY <1>1 DEF Keys
<1>3. \A k : In(pool, k) = ToSet(collections[k].mParticles)
  BY <1>1 DEF In
<1>4. pool = [mFree |-> pool.mFree, collections |-> pool.collections,
              life |-> pool.life]
  BY DEF pool
<1> HIDE DEF pool
<1>5. IsPool(pool)
  BY <1>1, <1>2, <1>4 DEF IsPool, TypeOK
<1>6. LiveIn(pool) = Live
  BY <1>2, <1>3 DEF LiveIn, Live
<1>7. PoolConserved /\ Running => Separate(pool)
  BY <1>1, <1>2, <1>3 DEF PoolConserved, Separate
<1>8. PoolConserved /\ Running => Conserved(pool)
  BY <1>1, <1>6 DEF PoolConserved, Conserved
<1> QED
  BY <1>2, <1>5, <1>6, <1>7, <1>8

\* The types of what a loop leaves.
TypedPool ==
    /\ mFree \in [Particle -> Int] /\ life \in [Particle -> Int]
    /\ IsFiniteSet(DOMAIN collections) /\ DOMAIN collections \subseteq Int
    /\ collections \in [DOMAIN collections -> Collection]

\* ... and of a pool that a loop leaves, after the step.
LEMMA KeepFacts ==
    ASSUME NEW q, IsPool(q), Keep(q)
    PROVE  /\ TypedPool' /\ DOMAIN collections' = Keys(q)
           /\ Separate(q) /\ Conserved(q) => PoolConserved'
<1>1. mFree' = q.mFree /\ collections' = q.collections /\ life' = q.life
  BY DEF Keep
<1>2. DOMAIN collections' = Keys(q)
  BY <1>1 DEF Keys
<1>3. TypedPool'
  BY <1>1, <1>2 DEF IsPool, TypedPool
<1>4. \A k : In(q, k) = ToSet(collections'[k].mParticles)
  BY <1>1 DEF In
<1>5. Live' = LiveIn(q)
  BY <1>2, <1>4 DEF LiveIn, Live
<1>6. ASSUME Separate(q), Conserved(q)
      PROVE  PoolConserved'
  <2>1. \A p \in Particle : mFree'[p] = IF p \in Live' THEN 0 ELSE 1
    BY <1>1, <1>5, <1>6 DEF Conserved
  <2>2. ASSUME NEW k \in DOMAIN collections'
        PROVE  /\ IsInjective(collections'[k].mParticles)
               /\ Len(collections'[k].mParticles) <= Capacity
               /\ \A l \in DOMAIN collections' \ {k} :
                     ToSet(collections'[k].mParticles)
                         \cap ToSet(collections'[l].mParticles) = {}
    BY <1>1, <1>2, <1>4, <1>6 DEF Separate
  <2> QED
    BY <2>1, <2>2 DEF PoolConserved
<1> QED
  BY <1>2, <1>3, <1>6

\* A step that leaves every particle where it is.
LEMMA StayFacts ==
    ASSUME TypeOK, PoolConserved, Running, UNCHANGED <<mFree, life>>,
           DOMAIN collections' = DOMAIN collections,
           collections' \in [DOMAIN collections -> Collection],
           \A k \in DOMAIN collections :
               collections'[k].mParticles = collections[k].mParticles
    PROVE  TypedPool' /\ PoolConserved'
<1>1. TypedPool'
  BY DEF TypedPool, TypeOK
<1>2. Live' = Live
  BY DEF Live
<1>3. \A p \in Particle : mFree'[p] = IF p \in Live' THEN 0 ELSE 1
  BY <1>2 DEF PoolConserved
<1>4. ASSUME NEW k \in DOMAIN collections'
      PROVE  /\ IsInjective(collections'[k].mParticles)
             /\ Len(collections'[k].mParticles) <= Capacity
             /\ \A l \in DOMAIN collections' \ {k} :
                   ToSet(collections'[k].mParticles)
                       \cap ToSet(collections'[l].mParticles) = {}
  BY DEF PoolConserved
<1> QED
  BY <1>1, <1>3, <1>4 DEF PoolConserved

LEMMA FreshFacts ==
    /\ IsPool(FreshPool) /\ Separate(FreshPool) /\ Conserved(FreshPool)
    /\ Keys(FreshPool) = {} /\ \E x \in Particle : FreshPool.mFree[x] > 0
<1>1. /\ FreshPool.mFree = [p \in Particle |-> 1]
      /\ FreshPool.life = [p \in Particle |-> 0]
      /\ FreshPool.collections = << >>
      /\ FreshPool = [mFree |-> FreshPool.mFree,
                      collections |-> FreshPool.collections,
                      life |-> FreshPool.life]
  BY DEF FreshPool
<1>2. Keys(FreshPool) = {} /\ << >> \in [{} -> Collection]
  BY <1>1 DEF Keys
<1>3. IsPool(FreshPool)
  BY <1>1, <1>2, FS_EmptySet DEF IsPool
<1>4. Separate(FreshPool)
  BY <1>2 DEF Separate
<1>5. LiveIn(FreshPool) = {}
  BY <1>2 DEF LiveIn
<1>6. Conserved(FreshPool)
  BY <1>1, <1>5 DEF Conserved
<1>7. \E x \in Particle : FreshPool.mFree[x] > 0
  BY <1>1, PoolAssumption
<1> QED
  BY <1>2, <1>3, <1>4, <1>6, <1>7

\* The collections a check box shows or hides keep all the rest.
LEMMA ShowingFacts ==
    ASSUME NEW cs, cs \in [DOMAIN cs -> Collection], NEW col, NEW shown \in BOOLEAN
    PROVE  /\ DOMAIN Showing(cs, col, shown) = DOMAIN cs
           /\ Showing(cs, col, shown) \in [DOMAIN cs -> Collection]
           /\ \A k \in DOMAIN cs :
                /\ Showing(cs, col, shown)[k].mParticles = cs[k].mParticles
                /\ Showing(cs, col, shown)[k].mColor = cs[k].mColor
                /\ Showing(cs, col, shown)[k].bShown =
                      IF Sum[cs[k].mColor] = Sum[col] THEN shown ELSE cs[k].bShown
<1> DEFINE new == Showing(cs, col, shown)
<1>1. new = [k \in DOMAIN cs |-> IF Sum[cs[k].mColor] = Sum[col]
                                 THEN [cs[k] EXCEPT !.bShown = shown] ELSE cs[k]]
  BY DEF Showing
<1> HIDE DEF new
<1>2. ASSUME NEW k \in DOMAIN cs
      PROVE  /\ new[k] \in Collection
             /\ new[k].mParticles = cs[k].mParticles
             /\ new[k].mColor = cs[k].mColor
             /\ new[k].bShown =
                   IF Sum[cs[k].mColor] = Sum[col] THEN shown ELSE cs[k].bShown
  <2> DEFINE c == cs[k]
  <2>1. c \in Collection
    OBVIOUS
  <2> HIDE DEF c
  <2>2. /\ [c EXCEPT !.bShown = shown] \in Collection
        /\ [c EXCEPT !.bShown = shown].mParticles = c.mParticles
        /\ [c EXCEPT !.bShown = shown].mColor = c.mColor
        /\ [c EXCEPT !.bShown = shown].bShown = shown
    BY <2>1 DEF Collection
  <2>3. new[k] = IF Sum[c.mColor] = Sum[col] THEN [c EXCEPT !.bShown = shown] ELSE c
    BY <1>1 DEF c
  <2> QED
    BY <2>1, <2>2, <2>3 DEF c
<1>3. DOMAIN new = DOMAIN cs
  BY <1>1
<1>4. new \in [DOMAIN cs -> Collection]
  BY <1>1, <1>2
<1> QED
  BY <1>2, <1>3, <1>4 DEF new
-----------------------------------------------------------------------------
(* The actions.                                                            *)

\* A particle's colour is that of what it was last added for, or Black.
LEMMA ColourTypes ==
    ASSUME TypeOK, [Next]_vars
    PROVE  colour' \in [Particle -> Colours]
<1>1. ASSUME NEW col \in Colours, Painted(col)
      PROVE  colour' \in [Particle -> Colours]
  BY <1>1, ColourAssumption DEF Painted, TypeOK
<1>2. CASE UNCHANGED colour
  BY <1>2 DEF TypeOK
<1>3. (\E col \in Colours : Painted(col)) \/ UNCHANGED colour
  <2>1. CASE Start \/ Reconnect \/ Update
    BY <2>1, ColourAssumption DEF Start, Reconnect, Update
  <2>2. CASE Shutdown \/ PeriodicCleanup \/ Render \/ UNCHANGED vars
    BY <2>2 DEF Shutdown, PeriodicCleanup, Render, vars
  <2>3. ASSUME NEW c \in Colours, AddFlowDescriptor(c) \/ ProtocolClicked(c)
        PROVE  UNCHANGED colour
    BY <2>3 DEF AddFlowDescriptor, ProtocolClicked
  <2>4. ASSUME NEW c \in Colours, NEW s \in Sizes, NEW l \in Lives,
               NEW j \in Jitters, NewPacket(c, s, l, j)
        PROVE  Painted(c)
    BY <2>4 DEF NewPacket
  <2>5. ASSUME NEW c \in Colours, NEW l \in Lives, TestData(c, l)
        PROVE  Painted(c)
    BY <2>5 DEF TestData
  <2> QED
    BY <2>1, <2>2, <2>3, <2>4, <2>5 DEF Next
<1> QED
  BY <1>1, <1>2, <1>3

LEMMA InitOK == Init => IInv
<1> SUFFICES ASSUME Init
             PROVE  IInv
  OBVIOUS
<1>1. /\ phase = "start" /\ connected = FALSE
      /\ mFree = NoneFree /\ collections = << >> /\ life = FreshPool.life
      /\ descriptor = NoDescriptors
      /\ colour = [p \in Particle |-> Black]
  BY DEF Init
<1>2. mFree \in [Particle -> Int] /\ life \in [Particle -> Int]
  BY <1>1 DEF NoneFree, FreshPool
<1>3. DOMAIN collections = {} /\ collections \in [{} -> Collection]
  BY <1>1
<1>4. descriptor \in [Colours -> {"none", "shown", "hidden"}]
  BY <1>1 DEF NoDescriptors
<1>5. ~ Running
  BY <1>1 DEF Running
<1>6. colour \in [Particle -> Colours]
  BY <1>1, ColourAssumption
<1> QED
  BY <1>1, <1>2, <1>3, <1>4, <1>5, <1>6, FS_EmptySet DEF IInv, TypeOK, PoolConserved

LEMMA StartOK ==
    ASSUME IInv, Start, colour' \in [Particle -> Colours]
    PROVE  IInv'
<1>1. PICK method \in Methods, features \in Hardware :
        LET k == Chosen(method, features) IN
          IF ~(Needs(k) \subseteq features)
          THEN phase' = "stopped" /\ UNCHANGED <<kind, current>> /\ Keep(pool)
          ELSE /\ phase' = "events"
               /\ kind' = k
               /\ IF Shaded(k)
                  THEN /\ Keep(Added(FreshPool, Black, 10000, BlackLife))
                       /\ current' = Key(Black, 10000, 1)
                  ELSE Keep(FreshPool) /\ UNCHANGED current
  BY DEF Start
<1> DEFINE k == Chosen(method, features)
<1>2. /\ connected' \in BOOLEAN
      /\ descriptor' \in [Colours -> {"none", "shown", "hidden"}]
  BY DEF Start, IInv, TypeOK
<1> HIDE DEF k
<1>3. CASE ~ (Needs(k) \subseteq features)
  <2>1. phase' = "stopped" /\ Keep(pool)
    BY <1>1, <1>3 DEF k
  <2>2. IsPool(pool)
    BY PoolFacts DEF IInv
  <2>3. TypedPool'
    BY <2>1, <2>2, KeepFacts
  <2>4. ~ Running'
    BY <2>1 DEF Running
  <2> QED
    BY <1>2, <2>1, <2>3, <2>4 DEF IInv, TypeOK, TypedPool, PoolConserved
<1>4. CASE Needs(k) \subseteq features /\ Shaded(k)
  <2> DEFINE size == 10000
             q    == Added(FreshPool, Black, size, BlackLife)
  <2>1. phase' = "events" /\ kind' = k /\ Keep(q) /\ current' = Key(Black, size, 1)
    BY <1>1, <1>4 DEF k
  <2>2. size \in Int
    OBVIOUS
  <2> HIDE DEF size
  <2>3. /\ IsPool(q) /\ Separate(q) /\ Conserved(q)
        /\ KeyFor(FreshPool, Black, size) \in Keys(q)
    BY <2>2, FreshFacts, AddedFacts, ColourAssumption, NumbersAssumption
  <2>4. KeyFor(FreshPool, Black, size) = Key(Black, size, 1)
    <3> DEFINE First(n) == /\ Fits(FreshPool, Key(Black, size, n))
                           /\ \A m \in 1..(n - 1) : ~ Fits(FreshPool, Key(Black, size, m))
               i == CHOOSE n \in 1..MostCollections : First(n)
    <3>1. \A n : Fits(FreshPool, Key(Black, size, n))
      BY FreshFacts DEF Fits
    <3>2. MostCollections \in Nat /\ 1 \in 1..MostCollections
      <4>1. Cardinality(Particle) \in Nat /\ Capacity \in Nat \ {0}
        BY PoolAssumption, FS_CardinalityType
      <4>2. Cardinality(Particle) \div Capacity \in Nat
        BY <4>1
      <4> QED
        BY <4>2 DEF MostCollections
    <3>3. First(1)
      BY <3>1
    <3>4. i \in 1..MostCollections /\ First(i)
      <4> HIDE DEF First
      <4> QED
        BY <3>2, <3>3
    <3>5. ~ (1 \in 1..(i - 1))
      BY <3>1, <3>4
    <3>6. i = 1
      <4>1. i \in 1..MostCollections
        BY <3>4
      <4> HIDE DEF i
      <4> QED
        BY <3>2, <3>5, <4>1
    <3>7. KeyFor(FreshPool, Black, size) = Key(Black, size, i)
      BY DEF KeyFor
    <3> HIDE DEF i
    <3> QED
      BY <3>6, <3>7
  <2>5. TypedPool' /\ DOMAIN collections' = Keys(q) /\ PoolConserved'
    <3> HIDE DEF q
    <3> QED
      BY <2>1, <2>3, KeepFacts
  <2>6. current' \in DOMAIN collections'
    BY <2>1, <2>3, <2>4, <2>5
  <2> QED
    BY <1>2, <2>1, <2>5, <2>6 DEF IInv, TypeOK, TypedPool
<1>5. CASE Needs(k) \subseteq features /\ ~ Shaded(k)
  <2>1. phase' = "events" /\ kind' = k /\ Keep(FreshPool)
    BY <1>1, <1>5 DEF k
  <2>2. TypedPool' /\ PoolConserved'
    BY <2>1, FreshFacts, KeepFacts
  <2>3. ~ Shaded(kind')
    BY <1>5, <2>1
  <2> QED
    BY <1>2, <2>1, <2>2, <2>3 DEF IInv, TypeOK, TypedPool, Shaded
<1> QED
  BY <1>3, <1>4, <1>5

LEMMA ShutdownOK ==
    ASSUME IInv, Shutdown, colour' \in [Particle -> Colours]
    PROVE  IInv'
<1> DEFINE p == [pool EXCEPT !.mFree = NoneFree]
<1>1. /\ phase = "events" /\ phase' = "stopped" /\ collections' = << >>
      /\ mFree' = DelAll(p).mFree /\ life' = FreshPool.life
      /\ connected' = connected /\ descriptor' = descriptor
  BY DEF Shutdown
<1>2. IsPool(pool) /\ Separate(pool)
  BY <1>1, PoolFacts DEF IInv, Running
<1>3. p = [mFree |-> NoneFree, collections |-> pool.collections, life |-> pool.life]
  BY DEF pool
<1> HIDE DEF p, pool
<1>4. /\ p.mFree = NoneFree /\ p.collections = pool.collections /\ p.life = pool.life
      /\ p = [mFree |-> p.mFree, collections |-> p.collections, life |-> p.life]
  BY <1>3
<1>5. Keys(p) = Keys(pool) /\ \A k : In(p, k) = In(pool, k)
  BY <1>4 DEF Keys, In
<1>6. IsPool(p)
  <2>1. NoneFree \in [Particle -> Int]
    BY DEF NoneFree
  <2> QED
    BY <1>2, <1>4, <1>5, <2>1 DEF IsPool
<1>7. Separate(p)
  BY <1>2, <1>4, <1>5 DEF Separate
<1>8. IsPool(DelAll(p))
  BY <1>6, <1>7, DelAllFacts
<1>9. mFree' \in [Particle -> Int]
  BY <1>1, <1>8 DEF IsPool
<1>10. life' \in [Particle -> Int]
  BY <1>1 DEF FreshPool
<1>11. DOMAIN collections' = {} /\ collections' \in [{} -> Collection]
  BY <1>1
<1>12. ~ Running'
  BY <1>1 DEF Running
<1> QED
  BY <1>1, <1>9, <1>10, <1>11, <1>12, FS_EmptySet DEF IInv, TypeOK, PoolConserved

\* A loop over the collections, that keeps them.
LEMMA LoopOK ==
    ASSUME IInv, Running, NEW q, IsPool(q), Separate(q), Conserved(q), Keep(q),
           DOMAIN collections \subseteq Keys(q),
           phase' \in {"events", "network"}, UNCHANGED <<kind, current>>, colour' \in [Particle -> Colours],
           connected' \in BOOLEAN,
           descriptor' \in [Colours -> {"none", "shown", "hidden"}]
    PROVE  IInv'
<1>1. TypedPool' /\ DOMAIN collections' = Keys(q) /\ PoolConserved'
  BY KeepFacts
<1>2. Shaded(kind) => current \in DOMAIN collections
  BY DEF IInv, TypeOK
<1>3. Shaded(kind)' => current' \in DOMAIN collections'
  BY <1>1, <1>2 DEF Shaded
<1> QED
  BY <1>1, <1>3 DEF IInv, TypeOK, TypedPool

\* After delAll() every particle is free, once.
LEMMA DelAllConserved ==
    ASSUME NEW p, IsPool(p), Separate(p), Conserved(p)
    PROVE  Conserved(DelAll(p))
<1> DEFINE q == DelAll(p)
<1>1. /\ Keys(q) = Keys(p) /\ \A k \in Keys(p) : In(q, k) = {}
      /\ \A x \in Particle : q.mFree[x] = p.mFree[x] + IF x \in LiveIn(p) THEN 1 ELSE 0
  BY DelAllFacts DEF Alike
<1> HIDE DEF q
<1>2. LiveIn(q) = {}
  BY <1>1 DEF LiveIn
<1>3. \A x \in Particle : q.mFree[x] = 1
  BY <1>1 DEF Conserved
<1> QED
  BY <1>2, <1>3 DEF Conserved, q

LEMMA ReconnectOK ==
    ASSUME IInv, Reconnect, colour' \in [Particle -> Colours]
    PROVE  IInv'
<1>1. /\ Running /\ Keep(DelAll(pool)) /\ descriptor' = NoDescriptors
      /\ connected' \in BOOLEAN /\ UNCHANGED <<phase, kind, current>>
  BY DEF Reconnect
<1>2. IsPool(pool) /\ Separate(pool) /\ Conserved(pool) /\ Keys(pool) = DOMAIN collections
  BY <1>1, PoolFacts DEF IInv
<1> DEFINE p == pool
           q == DelAll(p)
<1> HIDE DEF p
<1>3. IsPool(p) /\ Separate(p) /\ Conserved(p) /\ Keys(p) = DOMAIN collections
  BY <1>2 DEF p
<1>4. IsPool(q) /\ Separate(q) /\ Alike(p, q)
  BY <1>3, DelAllFacts
<1>5. Conserved(q)
  BY <1>3, DelAllConserved
<1>6. Keep(q)
  BY <1>1 DEF p
<1> HIDE DEF q
<1>7. DOMAIN collections \subseteq Keys(q)
  BY <1>3, <1>4 DEF Alike
<1>8. descriptor' \in [Colours -> {"none", "shown", "hidden"}]
  BY <1>1 DEF NoDescriptors
<1>9. phase' \in {"events", "network"}
  BY <1>1 DEF Running
<1> QED
  BY <1>1, <1>4, <1>5, <1>6, <1>7, <1>8, <1>9, LoopOK

\* update(): what dies is free, what lives stays where it is.
LEMMA UpdatedConserved ==
    ASSUME NEW p, IsPool(p), Separate(p), Conserved(p)
    PROVE  Conserved(Updated(p))
<1> DEFINE q == Updated(p)
<1>1. /\ Keys(q) = Keys(p)
      /\ \A k \in Keys(p) : In(q, k) = {x \in In(p, k) : ~ (p.life[x] < 0)}
      /\ \A x \in Particle : q.mFree[x] = IF x \in LiveIn(p) /\ p.life[x] < 0
                                          THEN p.mFree[x] + 1 ELSE p.mFree[x]
  BY UpdatedFacts DEF Alike
<1> HIDE DEF q
<1>2. \A x : x \in LiveIn(q) <=> x \in LiveIn(p) /\ ~ (p.life[x] < 0)
  BY <1>1 DEF LiveIn
<1>3. \A x \in Particle : p.mFree[x] = IF x \in LiveIn(p) THEN 0 ELSE 1
  BY DEF Conserved
<1>4. \A x \in Particle : q.mFree[x] = IF x \in LiveIn(q) THEN 0 ELSE 1
  BY <1>1, <1>2, <1>3
<1> QED
  BY <1>4 DEF Conserved, q

LEMMA UpdateOK ==
    ASSUME IInv, Update, colour' \in [Particle -> Colours]
    PROVE  IInv'
<1>1. /\ phase = "network" /\ phase' = "events" /\ Keep(Updated(pool))
      /\ UNCHANGED <<kind, connected, current, descriptor>>
  BY DEF Update
<1>2. /\ Running
      /\ IsPool(pool) /\ Separate(pool) /\ Conserved(pool) /\ Keys(pool) = DOMAIN collections
  BY <1>1, PoolFacts DEF IInv, Running
<1> DEFINE p == pool
           q == Updated(p)
<1> HIDE DEF p
<1>3. IsPool(p) /\ Separate(p) /\ Conserved(p) /\ Keys(p) = DOMAIN collections
  BY <1>2 DEF p
<1>4. IsPool(q) /\ Separate(q) /\ Alike(p, q)
  BY <1>3, UpdatedFacts
<1>5. Conserved(q)
  BY <1>3, UpdatedConserved
<1>6. Keep(q)
  BY <1>1 DEF p
<1> HIDE DEF q
<1>7. DOMAIN collections \subseteq Keys(q)
  BY <1>3, <1>4 DEF Alike
<1>8. /\ descriptor' \in [Colours -> {"none", "shown", "hidden"}]
      /\ connected' \in BOOLEAN
  BY <1>1 DEF IInv, TypeOK
<1> QED
  BY <1>1, <1>2, <1>4, <1>5, <1>6, <1>7, <1>8, LoopOK

\* What NewPacket and TestData have in common.
LEMMA AddOK ==
    ASSUME IInv, phase = "network", mFree # NoneFree,
           NEW col \in Colours, NEW size \in Int, NEW lasts \in Int,
           Keep(Added(pool, col, size, lasts)),
           UNCHANGED <<phase, kind, connected, current, descriptor>>,
           colour' \in [Particle -> Colours]
    PROVE  IInv'
<1>1. /\ Running
      /\ IsPool(pool) /\ Separate(pool) /\ Conserved(pool) /\ Keys(pool) = DOMAIN collections
      /\ pool.mFree = mFree
  BY PoolFacts DEF IInv, Running, pool
<1>2. \E x \in Particle : mFree[x] > 0
  <2>1. mFree \in [Particle -> Int] /\ NoneFree = [x \in Particle |-> 0]
    BY DEF IInv, TypeOK, NoneFree
  <2>2. PICK x \in Particle : mFree[x] # 0
    BY <2>1
  <2>3. mFree[x] = 1
    BY <1>1, <2>2 DEF Conserved
  <2> QED
    BY <2>3
<1> DEFINE p == pool
           q == Added(p, col, size, lasts)
<1> HIDE DEF p
<1>3. /\ IsPool(p) /\ Separate(p) /\ Conserved(p) /\ Keys(p) = DOMAIN collections
      /\ \E x \in Particle : p.mFree[x] > 0
  BY <1>1, <1>2 DEF p
<1>4. IsPool(q) /\ Separate(q) /\ Conserved(q) /\ Keys(p) \subseteq Keys(q)
  BY <1>3, AddedFacts
<1>5. Keep(q)
  BY DEF p
<1> HIDE DEF q
<1>6. /\ descriptor' \in [Colours -> {"none", "shown", "hidden"}]
      /\ connected' \in BOOLEAN /\ phase' \in {"events", "network"}
  BY DEF IInv, TypeOK
<1> QED
  BY <1>1, <1>3, <1>4, <1>5, <1>6, LoopOK

\* What every step that leaves the particles alone has in common.
LEMMA StayOK ==
    ASSUME IInv, Running, UNCHANGED <<mFree, life, kind>>,
           DOMAIN collections' = DOMAIN collections,
           collections' \in [DOMAIN collections -> Collection],
           \A k \in DOMAIN collections :
               collections'[k].mParticles = collections[k].mParticles,
           Shaded(kind) => current' \in DOMAIN collections,
           phase' \in {"events", "network"}, connected' \in BOOLEAN,
           colour' \in [Particle -> Colours],
           descriptor' \in [Colours -> {"none", "shown", "hidden"}]
    PROVE  IInv'
<1>1. TypedPool' /\ PoolConserved'
  BY StayFacts DEF IInv
<1>2. Shaded(kind)' => current' \in DOMAIN collections'
  BY DEF Shaded
<1> QED
  BY <1>1, <1>2 DEF IInv, TypeOK, TypedPool

\* What a check box and a new descriptor have in common.
LEMMA ShowOK ==
    ASSUME IInv, Running, NEW col \in Colours, NEW shown \in BOOLEAN,
           collections' = Showing(collections, col, shown),
           UNCHANGED <<phase, kind, connected, mFree, life, current>>,
           colour' \in [Particle -> Colours],
           descriptor' \in [Colours -> {"none", "shown", "hidden"}]
    PROVE  IInv'
<1>1. /\ collections \in [DOMAIN collections -> Collection]
      /\ connected' \in BOOLEAN /\ phase' \in {"events", "network"}
      /\ Shaded(kind) => current' \in DOMAIN collections
  BY DEF IInv, TypeOK, Running
<1>2. /\ DOMAIN collections' = DOMAIN collections
      /\ collections' \in [DOMAIN collections -> Collection]
      /\ \A k \in DOMAIN collections :
             collections'[k].mParticles = collections[k].mParticles
  BY <1>1, ShowingFacts
<1> QED
  BY <1>1, <1>2, StayOK

LEMMA AddFlowDescriptorOK ==
    ASSUME IInv, NEW col \in Colours, AddFlowDescriptor(col), colour' \in [Particle -> Colours]
    PROVE  IInv'
<1>1. /\ phase = "network" /\ collections' = Showing(collections, col, TRUE)
      /\ descriptor' = [descriptor EXCEPT ![col] = "shown"]
      /\ UNCHANGED <<phase, kind, connected, mFree, life, current>>
  BY DEF AddFlowDescriptor, ShownAgain
<1>2. Running /\ descriptor' \in [Colours -> {"none", "shown", "hidden"}]
  BY <1>1 DEF Running, IInv, TypeOK
<1> QED
  BY <1>1, <1>2, ShowOK

LEMMA ProtocolClickedOK ==
    ASSUME IInv, NEW col \in Colours, ProtocolClicked(col), colour' \in [Particle -> Colours]
    PROVE  IInv'
<1> DEFINE on == descriptor[col] = "hidden"
<1>1. /\ phase = "events" /\ collections' = Showing(collections, col, on)
      /\ descriptor' = [descriptor EXCEPT ![col] = IF on THEN "shown" ELSE "hidden"]
      /\ UNCHANGED <<phase, kind, connected, mFree, life, current>>
  BY DEF ProtocolClicked
<1>2. Running /\ descriptor' \in [Colours -> {"none", "shown", "hidden"}]
  BY <1>1 DEF Running, IInv, TypeOK
<1>3. on \in BOOLEAN
  OBVIOUS
<1> HIDE DEF on
<1> QED
  BY <1>1, <1>2, <1>3, ShowOK

LEMMA PeriodicCleanupOK ==
    ASSUME IInv, PeriodicCleanup, colour' \in [Particle -> Colours]
    PROVE  IInv'
<1>1. /\ phase = "events"
      /\ collections' = [k \in DOMAIN collections |->
             [collections[k] EXCEPT !.mList = Outdated(@, Particle)]]
      /\ UNCHANGED <<phase, kind, connected, mFree, life, current, descriptor>>
  BY DEF PeriodicCleanup
<1>2. ASSUME NEW k \in DOMAIN collections
      PROVE  /\ collections'[k] \in Collection
             /\ collections'[k].mParticles = collections[k].mParticles
  <2> DEFINE c == collections[k]
             l == Outdated(c.mList, Particle)
  <2>1. c \in Collection
    BY DEF IInv, TypeOK
  <2>2. l \in SUBSET (Particle \cup {Wrong})
    BY <2>1 DEF Outdated, Collection
  <2>3. collections'[k] = [c EXCEPT !.mList = l]
    BY <1>1
  <2> HIDE DEF c, l
  <2>4. [c EXCEPT !.mList = l] \in Collection /\ [c EXCEPT !.mList = l].mParticles = c.mParticles
    BY <2>1, <2>2 DEF Collection
  <2> QED
    BY <2>3, <2>4 DEF c
<1>3. /\ DOMAIN collections' = DOMAIN collections
      /\ collections' \in [DOMAIN collections -> Collection]
  BY <1>1, <1>2
<1>4. /\ Running /\ phase' \in {"events", "network"}
      /\ connected' \in BOOLEAN
      /\ descriptor' \in [Colours -> {"none", "shown", "hidden"}]
      /\ Shaded(kind) => current' \in DOMAIN collections
  BY <1>1 DEF IInv, TypeOK, Running
<1> QED
  BY <1>1, <1>2, <1>3, <1>4, StayOK

LEMMA RenderOK ==
    ASSUME IInv, Render, colour' \in [Particle -> Colours]
    PROVE  IInv'
<1>1. /\ phase = "events" /\ phase' \in {"events", "network"}
      /\ UNCHANGED <<kind, connected, mFree, life, descriptor>>
  BY DEF Render
<1>2. /\ Running
      /\ connected' \in BOOLEAN
      /\ descriptor' \in [Colours -> {"none", "shown", "hidden"}]
      /\ collections \in [DOMAIN collections -> Collection]
      /\ IsFiniteSet(DOMAIN collections) /\ DOMAIN collections \in SUBSET Int
      /\ Shaded(kind) => current \in DOMAIN collections
  BY <1>1 DEF IInv, TypeOK, Running
<1>3. CASE Shaded(kind)
  <2> DEFINE next == Following(DOMAIN collections, current)
             c    == collections[next]
             l    == Recording(c)
  <2>1. current' = next /\ collections' = [collections EXCEPT ![next].mList = l]
    BY <1>3 DEF Render
  <2>2. next \in DOMAIN collections
    <3>1. DOMAIN collections # {}
      BY <1>2, <1>3
    <3> QED
      BY <1>2, <3>1, FollowingFacts
  <2> HIDE DEF next
  <2>3. c \in Collection
    BY <1>2, <2>2
  <2>4. l \in SUBSET (Particle \cup {Wrong})
    <3>1. c.mParticles \in Seq(Particle)
      BY <2>3 DEF Collection
    <3> QED
      BY <3>1 DEF Recording, ToSet
  <2>5. collections' = [k \in DOMAIN collections |->
                          IF k = next THEN [c EXCEPT !.mList = l] ELSE collections[k]]
    BY <1>2, <2>1, <2>2
  <2> HIDE DEF c, l
  <2>6. [c EXCEPT !.mList = l] \in Collection /\ [c EXCEPT !.mList = l].mParticles = c.mParticles
    BY <2>3, <2>4 DEF Collection
  <2>7. ASSUME NEW k \in DOMAIN collections
        PROVE  /\ collections'[k] \in Collection
               /\ collections'[k].mParticles = collections[k].mParticles
    BY <1>2, <2>5, <2>6 DEF c
  <2>8. /\ DOMAIN collections' = DOMAIN collections
        /\ collections' \in [DOMAIN collections -> Collection]
    BY <2>5, <2>7
  <2> QED
    BY <1>1, <1>2, <2>1, <2>2, <2>7, <2>8, StayOK
<1>4. CASE ~ Shaded(kind)
  <2>1. UNCHANGED <<current, collections>>
    BY <1>4 DEF Render
  <2> QED
    BY <1>1, <1>2, <2>1, StayOK
<1> QED
  BY <1>3, <1>4

LEMMA NextOK == IInv /\ [Next]_vars => IInv'
<1> SUFFICES ASSUME IInv, [Next]_vars
             PROVE  IInv'
  OBVIOUS
<1>0. colour' \in [Particle -> Colours]
  BY ColourTypes DEF IInv
<1>1. CASE Start
  BY <1>0, <1>1, StartOK
<1>2. CASE Shutdown
  BY <1>0, <1>2, ShutdownOK
<1>3. CASE Reconnect
  BY <1>0, <1>3, ReconnectOK
<1>4. CASE PeriodicCleanup
  BY <1>0, <1>4, PeriodicCleanupOK
<1>5. CASE Render
  BY <1>0, <1>5, RenderOK
<1>6. CASE Update
  BY <1>0, <1>6, UpdateOK
<1>7. ASSUME NEW c \in Colours, AddFlowDescriptor(c)
      PROVE  IInv'
  BY <1>0, <1>7, AddFlowDescriptorOK
<1>8. ASSUME NEW c \in Colours, ProtocolClicked(c)
      PROVE  IInv'
  BY <1>0, <1>8, ProtocolClickedOK
<1>9. ASSUME NEW c \in Colours, NEW s \in Sizes, NEW l \in Lives, NEW j \in Jitters,
             NewPacket(c, s, l, j)
      PROVE  IInv'
  <2>1. s \in Int /\ l - j \in Int
    BY NumbersAssumption
  <2>2. /\ phase = "network" /\ mFree # NoneFree /\ Keep(Added(pool, c, s, l - j))
        /\ UNCHANGED <<phase, kind, connected, current, descriptor>>
    BY <1>9 DEF NewPacket
  <2> QED
    BY <1>0, <2>1, <2>2, AddOK
<1>10. ASSUME NEW c \in Colours, NEW l \in Lives, TestData(c, l)
       PROVE  IInv'
  <2> DEFINE size == 10000
  <2>1. size \in Int /\ l \in Int
    BY NumbersAssumption
  <2>2. /\ phase = "network" /\ mFree # NoneFree /\ Keep(Added(pool, c, size, l))
        /\ UNCHANGED <<phase, kind, connected, current, descriptor>>
    BY <1>10 DEF TestData
  <2> HIDE DEF size
  <2> QED
    BY <1>0, <2>1, <2>2, AddOK
<1>11. CASE UNCHANGED vars
  <2>1. UNCHANGED <<phase, kind, connected, mFree, collections, life, current, descriptor>>
    BY <1>11 DEF vars
  <2>2. TypeOK'
    <3>1. (Running /\ Shaded(kind) => current \in DOMAIN collections)'
      BY <2>1 DEF IInv, TypeOK, Running, Shaded
    <3> QED
      BY <1>0, <2>1, <3>1 DEF IInv, TypeOK
  <2>3. PoolConserved'
    <3>1. Running' = Running /\ Live' = Live
      BY <2>1 DEF Running, Live
    <3>2. CASE Running
      BY <2>1, <3>1, <3>2 DEF IInv, PoolConserved
    <3>3. CASE ~ Running
      BY <3>1, <3>3 DEF PoolConserved
    <3> QED
      BY <3>2, <3>3
  <2> QED
    BY <2>2, <2>3 DEF IInv
<1> QED
  BY <1>1, <1>2, <1>3, <1>4, <1>5, <1>6, <1>7, <1>8, <1>9, <1>10, <1>11 DEF Next

\* An update ages what is live by one, and frees exactly what was over.
LEMMA AgedOnceOK == IInv /\ [Next]_vars => [AgedOnce]_vars
<1> SUFFICES ASSUME IInv, [Next]_vars, phase = "network", phase' = "events"
             PROVE  AgedOnce
  BY DEF AgedOnce
<1>1. CASE Update
  <2>1. /\ IsPool(pool) /\ Separate(pool) /\ Conserved(pool) /\ LiveIn(pool) = Live
        /\ pool.life = life /\ pool.mFree = mFree
    BY PoolFacts DEF IInv, Running, pool
  <2> DEFINE p == pool
             q == Updated(p)
  <2>2. mFree' = q.mFree /\ life' = q.life
    BY <1>1 DEF Update, Keep
  <2> HIDE DEF p
  <2>3. /\ IsPool(p) /\ Separate(p) /\ Conserved(p) /\ LiveIn(p) = Live
        /\ p.life = life /\ p.mFree = mFree
    BY <2>1 DEF p
  <2>4. \A x \in Particle :
          /\ q.mFree[x] = IF x \in LiveIn(p) /\ p.life[x] < 0
                          THEN p.mFree[x] + 1 ELSE p.mFree[x]
          /\ x \in LiveIn(p) /\ ~ (p.life[x] < 0) => q.life[x] = p.life[x] - 1
    BY <2>3, UpdatedFacts
  <2> HIDE DEF q
  <2>5. \A x \in Live : x \in Particle
    <3>1. \A k \in DOMAIN collections : collections[k].mParticles \in Seq(Particle)
      BY DEF IInv, TypeOK, Collection
    <3> QED
      BY <3>1 DEF Live, ToSet
  <2>6. \A x \in Live : mFree[x] = 0
    BY <2>3, <2>5 DEF Conserved
  <2> QED
    BY <2>2, <2>3, <2>4, <2>5, <2>6 DEF AgedOnce
<1>2. CASE ~ Update
  <2>1. ~ Start /\ ~ PeriodicCleanup /\ ~ Shutdown /\ ~ Render
    BY DEF Start, PeriodicCleanup, Shutdown, Render
  <2>2. ~ Reconnect /\ ~ UNCHANGED vars
    BY DEF Reconnect, vars
  <2>3. \A c \in Colours : ~ AddFlowDescriptor(c) /\ ~ ProtocolClicked(c)
    BY DEF AddFlowDescriptor, ProtocolClicked
  <2>4. \A c \in Colours, l \in Lives : ~ TestData(c, l)
    BY DEF TestData
  <2>5. \A c \in Colours, s \in Sizes, l \in Lives, j \in Jitters : ~ NewPacket(c, s, l, j)
    BY DEF NewPacket
  <2> QED
    BY <1>2, <2>1, <2>2, <2>3, <2>4, <2>5 DEF Next
<1> QED
  BY <1>1, <1>2
-----------------------------------------------------------------------------
(* What is hidden.                                                         *)

\* A collection of a checked colour is drawn.
CollectionsShown ==
    \A k \in DOMAIN collections :
        descriptor[collections[k].mColor] = "shown" => collections[k].bShown

\* No collection is hidden that was not: those there were keep what they show,
\* a new one is shown.
NoneHidden ==
    \A k \in DOMAIN collections' :
        IF k \in DOMAIN collections
        THEN /\ collections'[k].mColor = collections[k].mColor
             /\ collections[k].bShown => collections'[k].bShown
        ELSE collections'[k].bShown

LEMMA NoneHiddenOK ==
    ASSUME TypeOK, CollectionsShown, NoneHidden,
           \A c \in Colours : descriptor'[c] = "shown" => descriptor[c] = "shown"
    PROVE  CollectionsShown'
<1> SUFFICES ASSUME NEW k \in DOMAIN collections',
                    descriptor'[collections'[k].mColor] = "shown"
             PROVE  collections'[k].bShown
  BY DEF CollectionsShown
<1>1. CASE k \in DOMAIN collections
  <2>1. collections[k].mColor \in Colours
    BY <1>1 DEF TypeOK, Collection
  <2> QED
    BY <1>1, <2>1 DEF NoneHidden, CollectionsShown
<1>2. CASE k \notin DOMAIN collections
  BY <1>2 DEF NoneHidden
<1> QED
  BY <1>1, <1>2

\* A loop that keeps the collections hides none.
LEMMA AlikeHidesNone ==
    ASSUME NEW q, Alike(pool, q), Keep(q)
    PROVE  NoneHidden
<1>1. collections' = q.collections /\ pool.collections = collections
  BY DEF Keep, pool
<1> QED
  BY <1>1 DEF Alike, Keys, NoneHidden

LEMMA AddedHidesNone ==
    ASSUME NEW p, IsPool(p), Separate(p), Conserved(p),
           \E x \in Particle : p.mFree[x] > 0, p.collections = collections,
           NEW col \in Colours, NEW size \in Int, NEW lasts \in Int,
           Keep(Added(p, col, size, lasts))
    PROVE  NoneHidden
<1> DEFINE q == Added(p, col, size, lasts)
<1>1. collections' = q.collections
  BY DEF Keep
<1>2. \A k \in Keys(q) :
         IF k \in Keys(p)
         THEN /\ q.collections[k].mColor = p.collections[k].mColor
              /\ q.collections[k].bShown = p.collections[k].bShown
         ELSE q.collections[k].bShown = TRUE
  BY AddedFacts
<1> HIDE DEF q
<1> QED
  BY <1>1, <1>2 DEF NoneHidden, Keys

\* The colours showColor() compares by their sums differ in them.
SumsDiffer == \A c, d \in Colours : Sum[c] = Sum[d] => c = d

LEMMA StartHidesNone ==
    ASSUME IInv, CollectionsShown, Start
    PROVE  CollectionsShown'
<1>1. descriptor' = descriptor
  BY DEF Start
<1>2. CASE Keep(pool)
  BY <1>1, <1>2 DEF CollectionsShown, Keep, pool
<1> DEFINE size == 10000
<1>3. CASE Keep(Added(FreshPool, Black, size, BlackLife))
  <2> DEFINE q == Added(FreshPool, Black, size, BlackLife)
  <2>1. size \in Int
    OBVIOUS
  <2>2. Keep(q)
    BY <1>3
  <2> HIDE DEF size
  <2>3. \A k \in Keys(q) : q.collections[k].bShown
    <3>1. \A k \in Keys(q) :
             IF k \in Keys(FreshPool)
             THEN /\ q.collections[k].mColor = FreshPool.collections[k].mColor
                  /\ q.collections[k].bShown = FreshPool.collections[k].bShown
             ELSE q.collections[k].bShown = TRUE
      BY <2>1, FreshFacts, AddedFacts, ColourAssumption, NumbersAssumption
    <3> QED
      BY <3>1, FreshFacts
  <2> HIDE DEF q
  <2> QED
    BY <2>2, <2>3 DEF CollectionsShown, Keep, Keys
<1>4. CASE Keep(FreshPool)
  <2>1. DOMAIN collections' = {}
    BY <1>4, FreshFacts DEF Keep, Keys
  <2> QED
    BY <2>1 DEF CollectionsShown
<1> QED
  BY <1>2, <1>3, <1>4 DEF Start

LEMMA ShownOK ==
    ASSUME SumsDiffer, IInv, CollectionsShown, [Next]_vars
    PROVE  CollectionsShown'
<1>1. TypeOK
  BY DEF IInv
<1>2. CASE Start
  BY <1>2, StartHidesNone
<1>3. CASE Shutdown
  <2>1. DOMAIN collections' = {}
    BY <1>3 DEF Shutdown
  <2> QED
    BY <2>1 DEF CollectionsShown
<1>4. CASE Reconnect
  \* nothing is checked
  <2>1. descriptor' = NoDescriptors /\ Keep(DelAll(pool)) /\ Running
    BY <1>4 DEF Reconnect
  <2>2. IsPool(pool) /\ Separate(pool)
    BY <2>1, PoolFacts DEF IInv
  <2> DEFINE p == pool
  <2> HIDE DEF p
  <2>3. Alike(p, DelAll(p))
    BY <2>2, DelAllFacts DEF p
  <2>4. NoneHidden
    BY <2>1, <2>3, AlikeHidesNone DEF p
  <2>5. \A c \in Colours : ~ (descriptor'[c] = "shown")
    BY <2>1 DEF NoDescriptors
  <2> QED
    BY <1>1, <2>4, <2>5, NoneHiddenOK
<1>5. CASE PeriodicCleanup
  <2>1. /\ collections' = [k \in DOMAIN collections |->
               [collections[k] EXCEPT !.mList = Outdated(@, Particle)]]
        /\ descriptor' = descriptor
    BY <1>5 DEF PeriodicCleanup
  <2>2. ASSUME NEW k \in DOMAIN collections, NEW l
        PROVE  /\ [collections[k] EXCEPT !.mList = l].mColor = collections[k].mColor
               /\ [collections[k] EXCEPT !.mList = l].bShown = collections[k].bShown
    BY <1>1 DEF TypeOK, Collection
  <2>3. NoneHidden
    BY <2>1, <2>2 DEF NoneHidden
  <2> QED
    BY <1>1, <2>1, <2>3, NoneHiddenOK
<1>6. CASE Render
  <2>1. descriptor' = descriptor
    BY <1>6 DEF Render
  <2>2. NoneHidden
    <3>1. CASE Shaded(kind)
      <4> DEFINE next == Following(DOMAIN collections, current)
                 l    == Recording(collections[next])
      <4>1. collections' = [collections EXCEPT ![next].mList = l]
        BY <1>6, <3>1 DEF Render
      <4> HIDE DEF next, l
      <4>2. ASSUME NEW k \in DOMAIN collections
            PROVE  /\ [collections[k] EXCEPT !.mList = l].mColor = collections[k].mColor
                   /\ [collections[k] EXCEPT !.mList = l].bShown = collections[k].bShown
        BY <1>1 DEF TypeOK, Collection
      <4>3. collections \in [DOMAIN collections -> Collection]
        BY <1>1 DEF TypeOK
      <4>4. collections' = [k \in DOMAIN collections |->
               IF k = next THEN [collections[k] EXCEPT !.mList = l] ELSE collections[k]]
        BY <4>1, <4>3
      <4> QED
        BY <4>2, <4>4 DEF NoneHidden
    <3>2. CASE ~ Shaded(kind)
      BY <1>6, <3>2 DEF Render, NoneHidden
    <3> QED
      BY <3>1, <3>2
  <2> QED
    BY <1>1, <2>1, <2>2, NoneHiddenOK
<1>7. CASE Update
  <2>1. descriptor' = descriptor /\ Keep(Updated(pool)) /\ Running
    BY <1>7 DEF Update, Running
  <2>2. IsPool(pool) /\ Separate(pool)
    BY <2>1, PoolFacts DEF IInv
  <2> DEFINE p == pool
  <2> HIDE DEF p
  <2>3. Alike(p, Updated(p))
    BY <2>2, UpdatedFacts DEF p
  <2>4. NoneHidden
    BY <2>1, <2>3, AlikeHidesNone DEF p
  <2> QED
    BY <1>1, <2>1, <2>4, NoneHiddenOK
<1>8. ASSUME NEW c \in Colours, AddFlowDescriptor(c)
      PROVE  CollectionsShown'
  \* every collection of this colour is shown; the others stay as they are
  <2> DEFINE on == TRUE
  <2>1. /\ collections' = Showing(collections, c, on)
        /\ descriptor' = [descriptor EXCEPT ![c] = "shown"]
    BY <1>8 DEF AddFlowDescriptor, ShownAgain
  <2>2. on \in BOOLEAN /\ collections \in [DOMAIN collections -> Collection]
    BY <1>1 DEF TypeOK
  <2> HIDE DEF on
  <2>3. /\ DOMAIN collections' = DOMAIN collections
        /\ \A k \in DOMAIN collections :
             /\ collections'[k].mColor = collections[k].mColor
             /\ collections'[k].bShown =
                  IF Sum[collections[k].mColor] = Sum[c] THEN on
                  ELSE collections[k].bShown
    BY <2>1, <2>2, ShowingFacts
  <2> SUFFICES ASSUME NEW k \in DOMAIN collections,
                      descriptor'[collections[k].mColor] = "shown"
               PROVE  collections'[k].bShown
    BY <2>3 DEF CollectionsShown
  <2>4. collections[k].mColor \in Colours
    BY <1>1 DEF TypeOK, Collection
  <2>5. collections[k].mColor # c => descriptor[collections[k].mColor] = "shown"
    BY <1>1, <2>1, <2>4 DEF TypeOK
  <2> QED
    BY <2>3, <2>5 DEF CollectionsShown, on
<1>9. ASSUME NEW c \in Colours, ProtocolClicked(c)
      PROVE  CollectionsShown'
  \* what the box hides has its colour, for no other has its sum
  <2> DEFINE on == descriptor[c] = "hidden"
  <2>1. /\ collections' = Showing(collections, c, on)
        /\ descriptor' = [descriptor EXCEPT ![c] = IF on THEN "shown" ELSE "hidden"]
    BY <1>9 DEF ProtocolClicked
  <2>2. on \in BOOLEAN
    OBVIOUS
  <2> HIDE DEF on
  <2>3. /\ DOMAIN collections' = DOMAIN collections
        /\ \A k \in DOMAIN collections :
             /\ collections'[k].mColor = collections[k].mColor
             /\ collections'[k].bShown =
                  IF Sum[collections[k].mColor] = Sum[c] THEN on
                  ELSE collections[k].bShown
    BY <1>1, <2>1, <2>2, ShowingFacts DEF TypeOK
  <2> SUFFICES ASSUME NEW k \in DOMAIN collections,
                      descriptor'[collections[k].mColor] = "shown"
               PROVE  collections'[k].bShown
    BY <2>3 DEF CollectionsShown
  <2>4. collections[k].mColor \in Colours
    BY <1>1 DEF TypeOK, Collection
  <2>5. CASE collections[k].mColor = c
    <3>1. on
      BY <1>1, <2>1, <2>5 DEF TypeOK
    <3> QED
      BY <2>3, <2>5, <3>1
  <2>6. CASE collections[k].mColor # c
    <3>1. Sum[collections[k].mColor] # Sum[c]
      BY <2>4, <2>6 DEF SumsDiffer
    <3>2. descriptor[collections[k].mColor] = "shown"
      BY <1>1, <2>1, <2>4, <2>6 DEF TypeOK
    <3> QED
      BY <2>3, <3>1, <3>2 DEF CollectionsShown
  <2> QED
    BY <2>5, <2>6
<1>10. ASSUME NEW c \in Colours, NEW size \in Int, NEW lasts \in Int,
              phase = "network", mFree # NoneFree,
              Keep(Added(pool, c, size, lasts)), descriptor' = descriptor
       PROVE  CollectionsShown'
  <2>1. /\ IsPool(pool) /\ Separate(pool) /\ Conserved(pool)
        /\ pool.mFree = mFree /\ pool.collections = collections
    BY <1>10, PoolFacts DEF IInv, Running, pool
  <2>2. \E x \in Particle : mFree[x] > 0
    <3>1. PICK x \in Particle : mFree[x] # 0
      BY <1>1, <1>10 DEF TypeOK, NoneFree
    <3>2. mFree[x] = 1
      BY <2>1, <3>1 DEF Conserved
    <3> QED
      BY <3>2
  <2> DEFINE p == pool
  <2> HIDE DEF p
  <2>3. /\ IsPool(p) /\ Separate(p) /\ Conserved(p) /\ p.collections = collections
        /\ \E x \in Particle : p.mFree[x] > 0
        /\ Keep(Added(p, c, size, lasts))
    BY <1>10, <2>1, <2>2 DEF p
  <2>4. NoneHidden
    BY <2>3, AddedHidesNone
  <2> QED
    BY <1>1, <1>10, <2>4, NoneHiddenOK
<1>11. ASSUME NEW c \in Colours, NEW s \in Sizes, NEW l \in Lives, NEW j \in Jitters,
              NewPacket(c, s, l, j)
       PROVE  CollectionsShown'
  <2>1. s \in Int /\ l - j \in Int
    BY NumbersAssumption
  <2>2. /\ phase = "network" /\ mFree # NoneFree /\ Keep(Added(pool, c, s, l - j))
        /\ descriptor' = descriptor
    BY <1>11 DEF NewPacket
  <2> QED
    BY <1>10, <2>1, <2>2
<1>12. ASSUME NEW c \in Colours, NEW l \in Lives, TestData(c, l)
       PROVE  CollectionsShown'
  <2> DEFINE size == 10000
  <2>1. size \in Int /\ l \in Int
    BY NumbersAssumption
  <2>2. /\ phase = "network" /\ mFree # NoneFree /\ Keep(Added(pool, c, size, l))
        /\ descriptor' = descriptor
    BY <1>12 DEF TestData
  <2> HIDE DEF size
  <2> QED
    BY <1>10, <2>1, <2>2
<1>13. CASE UNCHANGED vars
  BY <1>13 DEF vars, CollectionsShown
<1> QED
  BY <1>2, <1>3, <1>4, <1>5, <1>6, <1>7, <1>8, <1>9, <1>11, <1>12, <1>13 DEF Next
-----------------------------------------------------------------------------
(* Whose particles a collection holds.                                     *)

\* The numbers of the collections of two colours never meet.
NumbersApart ==
    \A c, d \in Colours, s, t \in Sizes \cup {10000}, i, j \in 1..MostCollections :
        Key(c, s, i) = Key(d, t, j) => c = d

LEMMA ApartDiffer ==
    ASSUME NumbersApart
    PROVE  SumsDiffer
<1>1. 1 \in 1..MostCollections
  <2>1. Cardinality(Particle) \in Nat /\ Capacity \in Nat \ {0}
    BY PoolAssumption, FS_CardinalityType
  <2>2. Cardinality(Particle) \div Capacity \in Nat
    BY <2>1
  <2> QED
    BY <2>2 DEF MostCollections
<1> DEFINE size == 10000
<1>2. size \in Sizes \cup {10000}
  OBVIOUS
<1> HIDE DEF size
<1>3. \A c, d \in Colours : Key(c, size, 1) = Key(d, size, 1) => c = d
  BY <1>1, <1>2 DEF NumbersApart
<1> QED
  BY <1>3 DEF SumsDiffer, Key

\* A collection has a number of its colour, and particles of its colour only.
OwnColours ==
    /\ phase = "start" => /\ DOMAIN collections = {}
                          /\ \A x \in Particle : colour[x] = Black
    /\ \A k \in DOMAIN collections :
          \E s \in Sizes \cup {10000}, i \in 1..MostCollections :
              k = Key(collections[k].mColor, s, i)
    /\ \A k \in DOMAIN collections, x \in Particle :
          x \in ToSet(collections[k].mParticles) => colour[x] = collections[k].mColor

\* A step that puts no particle into a collection.
LEMMA OwnKept ==
    ASSUME OwnColours, phase' # "start",
           \A k \in DOMAIN collections' :
               /\ k \in DOMAIN collections
               /\ collections'[k].mColor = collections[k].mColor
               /\ \A x \in Particle : x \in ToSet(collections'[k].mParticles) =>
                     /\ x \in ToSet(collections[k].mParticles)
                     /\ colour'[x] = colour[x]
    PROVE  OwnColours'
<1>1. ASSUME NEW k \in DOMAIN collections'
      PROVE  \E s \in Sizes \cup {10000}, i \in 1..MostCollections :
                k = Key(collections'[k].mColor, s, i)
  <2>1. k \in DOMAIN collections /\ collections'[k].mColor = collections[k].mColor
    OBVIOUS
  <2> QED
    BY <2>1 DEF OwnColours
<1>2. ASSUME NEW k \in DOMAIN collections', NEW x \in Particle,
             x \in ToSet(collections'[k].mParticles)
      PROVE  colour'[x] = collections'[k].mColor
  BY <1>2 DEF OwnColours
<1> QED
  BY <1>1, <1>2 DEF OwnColours

\* A particle in a collection before and after a step keeps its colour.
LEMMA ColourKept ==
    ASSUME PoolConserved, PoolConserved', Running, Running',
           NEW col, Painted(col), NEW x \in Particle,
           x \in Live, x \in Live'
    PROVE  colour'[x] = colour[x]
<1>1. mFree[x] = 0 /\ mFree'[x] = 0
  BY DEF PoolConserved
<1> QED
  BY <1>1 DEF Painted

LEMMA OwnLoop ==
    ASSUME IInv, IInv', Running, Running', OwnColours, NEW q, Alike(pool, q), Keep(q),
           \A k \in Keys(pool) : In(q, k) \subseteq In(pool, k),
           NEW col, Painted(col)
    PROVE  OwnColours'
<1>1. /\ collections' = q.collections /\ pool.collections = collections
      /\ Keys(q) = DOMAIN collections' /\ Keys(pool) = DOMAIN collections
  BY DEF Keep, pool, Keys
<1>2. DOMAIN collections' = DOMAIN collections
  BY <1>1 DEF Alike
<1> SUFFICES ASSUME NEW k \in DOMAIN collections'
             PROVE  /\ collections'[k].mColor = collections[k].mColor
                    /\ \A x \in Particle : x \in ToSet(collections'[k].mParticles) =>
                          /\ x \in ToSet(collections[k].mParticles)
                          /\ colour'[x] = colour[x]
  <2>1. phase' # "start"
    BY DEF Running
  <2> QED
    BY <1>2, <2>1, OwnKept
<1>3. collections'[k].mColor = collections[k].mColor
  BY <1>1, <1>2 DEF Alike
<1>4. ASSUME NEW x \in Particle, x \in ToSet(collections'[k].mParticles)
      PROVE  x \in ToSet(collections[k].mParticles) /\ colour'[x] = colour[x]
  <2>1. x \in In(q, k)
    BY <1>1, <1>4 DEF In
  <2>2. x \in In(pool, k)
    BY <1>1, <1>2, <2>1
  <2>3. x \in ToSet(collections[k].mParticles)
    BY <1>1, <2>2 DEF In
  <2>4. x \in Live
    BY <1>2, <2>3 DEF Live
  <2>5. x \in Live'
    BY <1>4 DEF Live
  <2> QED
    BY <2>3, <2>4, <2>5, ColourKept DEF IInv
<1> QED
  BY <1>3, <1>4

\* What is added goes to a collection of its colour: no other has that number.
LEMMA OwnAdded ==
    ASSUME NumbersApart, TypeOK, IInv', Running', OwnColours,
           NEW p, IsPool(p), Separate(p), Conserved(p),
           \E x \in Particle : p.mFree[x] > 0,
           Keys(p) \subseteq DOMAIN collections,
           \A k \in Keys(p) : /\ p.collections[k].mColor = collections[k].mColor
                              /\ In(p, k) = ToSet(collections[k].mParticles)
                              /\ \A x \in Particle : x \in In(p, k) => mFree[x] = 0,
           NEW col \in Colours, NEW size \in Sizes \cup {10000}, size \in Int,
           NEW lasts \in Int,
           Keep(Added(p, col, size, lasts)), Painted(col),
           \A x \in Particle : p.mFree[x] = 1 => mFree[x] > 0 \/ colour[x] = col
    PROVE  OwnColours'
<1> DEFINE q == Added(p, col, size, lasts)
           key == KeyFor(p, col, size)
<1>1. PICK new \in Particle : AddedTo(p, q, key, col, new)
  BY AddedPlace
<1>2. \A k \in Keys(q) : k \in Keys(p) =>
          q.collections[k].mColor = p.collections[k].mColor
  BY AddedPlace
<1>3. PICK i \in 1..MostCollections : key = Key(col, size, i)
  BY KeyForFacts
<1>4. Keep(q)
  OBVIOUS
<1> HIDE DEF q, key
<1>5. collections' = q.collections /\ Keys(q) = DOMAIN collections'
  BY <1>4 DEF Keep, Keys
<1>6. /\ p.mFree[new] = 1 /\ Keys(q) = Keys(p) \cup {key}
      /\ key \notin Keys(p) => q.collections[key].mColor = col
      /\ \A k \in Keys(q) : \A x \in In(q, k) :
               \/ k \in Keys(p) /\ x \in In(p, k)
               \/ k = key /\ x = new
  BY <1>1 DEF AddedTo
<1>7. \A k \in Keys(p) : collections[k].mColor \in Colours
  BY DEF TypeOK, Collection
<1>8. q.collections[key].mColor = col
  <2>1. CASE key \in Keys(p)
    <3>1. PICK s \in Sizes \cup {10000}, j \in 1..MostCollections :
             key = Key(collections[key].mColor, s, j)
      BY <2>1 DEF OwnColours
    <3>2. collections[key].mColor = col
      BY <1>3, <1>7, <2>1, <3>1 DEF NumbersApart
    <3> QED
      BY <1>2, <1>6, <2>1, <3>2
  <2> QED
    BY <1>6, <2>1
<1>9. ASSUME NEW k \in Keys(q)
      PROVE  \E s \in Sizes \cup {10000}, j \in 1..MostCollections :
                k = Key(q.collections[k].mColor, s, j)
  <2>1. CASE k = key
    BY <1>3, <1>8, <2>1
  <2>2. CASE k # key
    <3>1. k \in Keys(p) /\ q.collections[k].mColor = collections[k].mColor
      BY <1>2, <1>6, <1>9, <2>2
    <3> QED
      BY <3>1 DEF OwnColours
  <2> QED
    BY <2>1, <2>2
<1>10. ASSUME NEW k \in Keys(q), NEW x \in Particle, x \in In(q, k)
       PROVE  colour'[x] = q.collections[k].mColor
  <2>1. mFree'[x] = 0
    <3>1. x \in Live'
      BY <1>5, <1>10 DEF Live, In
    <3> QED
      BY <3>1 DEF IInv, PoolConserved
  <2>2. CASE k \in Keys(p) /\ x \in In(p, k)
    <3>1. mFree[x] = 0 /\ x \in ToSet(collections[k].mParticles)
      BY <2>2
    <3>2. colour'[x] = colour[x]
      BY <2>1, <3>1 DEF Painted
    <3>3. colour[x] = collections[k].mColor
      BY <2>2, <3>1 DEF OwnColours
    <3> QED
      BY <1>2, <1>10, <2>2, <3>2, <3>3
  <2>3. CASE k = key /\ x = new
    <3>1. mFree[x] > 0 \/ colour[x] = col
      BY <1>6, <2>3
    <3>2. colour'[x] = col
      BY <2>1, <3>1 DEF Painted
    <3> QED
      BY <1>8, <2>3, <3>2
  <2> QED
    BY <1>6, <1>10, <2>2, <2>3
<1>11. phase' # "start"
  BY DEF Running
<1>12. \A k : In(q, k) = ToSet(collections'[k].mParticles)
  BY <1>5 DEF In
<1> QED
  BY <1>5, <1>9, <1>10, <1>11, <1>12 DEF OwnColours

LEMMA StartOwn ==
    ASSUME NumbersApart, IInv, IInv', OwnColours, Start
    PROVE  OwnColours'
<1>0. phase = "start" /\ Painted(Black)
  BY DEF Start
<1>1. DOMAIN collections = {} /\ \A x \in Particle : colour[x] = Black
  BY <1>0 DEF OwnColours
<1> DEFINE size == 10000
<1>2. CASE phase' = "stopped" /\ Keep(pool)
  <2>1. DOMAIN collections' = {}
    BY <1>1, <1>2 DEF Keep, pool
  <2> QED
    BY <1>2, <2>1 DEF OwnColours
<1>3. CASE phase' = "events" /\ Keep(FreshPool)
  <2>1. DOMAIN collections' = {}
    BY <1>3, FreshFacts DEF Keep, Keys
  <2> QED
    BY <1>3, <2>1 DEF OwnColours
<1>4. CASE phase' = "events" /\ Keep(Added(FreshPool, Black, size, BlackLife))
  <2>1. /\ size \in Int /\ size \in Sizes \cup {10000} /\ BlackLife \in Int
        /\ Black \in Colours
    BY ColourAssumption, NumbersAssumption
  <2> HIDE DEF size
  <2>2. Running'
    BY <1>4 DEF Running
  <2>3. TypeOK
    BY DEF IInv
  <2>4. \A x \in Particle : mFree[x] > 0 \/ colour[x] = Black
    BY <1>1
  <2> DEFINE p == FreshPool
  <2>5. /\ IsPool(p) /\ Separate(p) /\ Conserved(p) /\ Keys(p) = {}
        /\ \E x \in Particle : p.mFree[x] > 0
    BY FreshFacts
  <2>6. Keep(Added(p, Black, size, BlackLife))
    BY <1>4
  <2> HIDE DEF p
  <2> QED
    BY <1>0, <2>1, <2>2, <2>3, <2>4, <2>5, <2>6, OwnAdded
<1> QED
  BY <1>2, <1>3, <1>4 DEF Start

\* What NewPacket and TestData have in common.
LEMMA AddOwn ==
    ASSUME NumbersApart, IInv, IInv', OwnColours,
           phase = "network", phase' = "network", mFree # NoneFree,
           NEW col \in Colours, NEW size \in Sizes \cup {10000}, size \in Int,
           NEW lasts \in Int,
           Keep(Added(pool, col, size, lasts)), Painted(col)
    PROVE  OwnColours'
<1>1. /\ IsPool(pool) /\ Separate(pool) /\ Conserved(pool)
      /\ Keys(pool) = DOMAIN collections /\ LiveIn(pool) = Live
      /\ pool.mFree = mFree /\ pool.collections = collections
  BY PoolFacts DEF IInv, Running, pool
<1>2. TypeOK /\ Running'
  BY DEF IInv, Running
<1> DEFINE p == pool
<1>3. Keep(Added(p, col, size, lasts))
  OBVIOUS
<1> HIDE DEF p
<1>4. /\ IsPool(p) /\ Separate(p) /\ Conserved(p)
      /\ Keys(p) = DOMAIN collections
      /\ p.mFree = mFree /\ p.collections = collections
  BY <1>1 DEF p
<1>5. \E x \in Particle : p.mFree[x] > 0
  <2>1. PICK x \in Particle : mFree[x] # 0
    BY <1>2 DEF TypeOK, NoneFree
  <2>2. mFree[x] = 1
    BY <1>4, <2>1 DEF Conserved
  <2> QED
    BY <1>4, <2>2
<1>6. ASSUME NEW k \in Keys(p)
      PROVE  /\ p.collections[k].mColor = collections[k].mColor
             /\ In(p, k) = ToSet(collections[k].mParticles)
             /\ \A x \in Particle : x \in In(p, k) => mFree[x] = 0
  BY <1>4, <1>6 DEF In, Conserved, LiveIn
<1>7. \A x \in Particle : p.mFree[x] = 1 => mFree[x] > 0 \/ colour[x] = col
  BY <1>4
<1> QED
  BY <1>2, <1>3, <1>4, <1>5, <1>6, <1>7, OwnAdded

LEMMA OwnOK ==
    ASSUME NumbersApart, IInv, IInv', OwnColours, [Next]_vars
    PROVE  OwnColours'
<1>1. TypeOK
  BY DEF IInv
<1>2. CASE Start
  BY <1>2, StartOwn
<1>3. CASE Shutdown
  <2>1. DOMAIN collections' = {} /\ phase' # "start"
    BY <1>3 DEF Shutdown
  <2> QED
    BY <2>1 DEF OwnColours
<1>4. CASE Reconnect
  <2>1. /\ Keep(DelAll(pool)) /\ Painted(Black) /\ Running
        /\ UNCHANGED phase
    BY <1>4 DEF Reconnect
  <2>2. IsPool(pool) /\ Separate(pool)
    BY <2>1, PoolFacts DEF IInv
  <2> DEFINE p == pool
             q == DelAll(p)
  <2> HIDE DEF p
  <2>3. Alike(p, q) /\ \A k \in Keys(p) : In(q, k) = {}
    BY <2>2, DelAllFacts DEF p
  <2>4. Keep(q)
    BY <2>1 DEF p
  <2> HIDE DEF q
  <2>5. Running'
    BY <2>1 DEF Running
  <2> QED
    BY <2>1, <2>3, <2>4, <2>5, OwnLoop DEF p
<1>5. CASE Update
  <2>1. /\ Keep(Updated(pool)) /\ Painted(Black) /\ Running /\ Running'
    BY <1>5 DEF Update, Running
  <2>2. IsPool(pool) /\ Separate(pool)
    BY <2>1, PoolFacts DEF IInv
  <2> DEFINE p == pool
             q == Updated(p)
  <2> HIDE DEF p
  <2>3. /\ Alike(p, q)
        /\ \A k \in Keys(p) : In(q, k) = {x \in In(p, k) : ~ (p.life[x] < 0)}
    BY <2>2, UpdatedFacts DEF p
  <2>4. Keep(q)
    BY <2>1 DEF p
  <2> HIDE DEF q
  <2>5. \A k \in Keys(p) : In(q, k) \subseteq In(p, k)
    BY <2>3
  <2> QED
    BY <2>1, <2>3, <2>4, <2>5, OwnLoop DEF p
<1>6. CASE PeriodicCleanup
  <2>1. /\ collections' = [k \in DOMAIN collections |->
               [collections[k] EXCEPT !.mList = Outdated(@, Particle)]]
        /\ colour' = colour /\ phase' # "start"
    BY <1>6 DEF PeriodicCleanup
  <2>2. ASSUME NEW k \in DOMAIN collections, NEW l
        PROVE  /\ [collections[k] EXCEPT !.mList = l].mColor = collections[k].mColor
               /\ [collections[k] EXCEPT !.mList = l].mParticles
                    = collections[k].mParticles
    BY <1>1 DEF TypeOK, Collection
  <2> QED
    BY <2>1, <2>2, OwnKept
<1>7. CASE Render
  <2>1. colour' = colour /\ phase' # "start"
    BY <1>7 DEF Render
  <2>2. CASE Shaded(kind)
    <3> DEFINE next == Following(DOMAIN collections, current)
               l    == Recording(collections[next])
    <3>1. collections' = [collections EXCEPT ![next].mList = l]
      BY <1>7, <2>2 DEF Render
    <3> HIDE DEF next, l
    <3>2. ASSUME NEW k \in DOMAIN collections
          PROVE  /\ [collections[k] EXCEPT !.mList = l].mColor = collections[k].mColor
                 /\ [collections[k] EXCEPT !.mList = l].mParticles
                      = collections[k].mParticles
      BY <1>1 DEF TypeOK, Collection
    <3>3. collections \in [DOMAIN collections -> Collection]
      BY <1>1 DEF TypeOK
    <3>4. collections' = [k \in DOMAIN collections |->
             IF k = next THEN [collections[k] EXCEPT !.mList = l] ELSE collections[k]]
      BY <3>1, <3>3
    <3> QED
      BY <2>1, <3>2, <3>4, OwnKept
  <2>3. CASE ~ Shaded(kind)
    <3>1. collections' = collections
      BY <1>7, <2>3 DEF Render
    <3> QED
      BY <2>1, <3>1, OwnKept
  <2> QED
    BY <2>2, <2>3
<1>8. ASSUME NEW c \in Colours, AddFlowDescriptor(c) \/ ProtocolClicked(c)
      PROVE  OwnColours'
  <2>1. PICK on \in BOOLEAN : collections' = Showing(collections, c, on)
    BY <1>8 DEF AddFlowDescriptor, ShownAgain, ProtocolClicked
  <2>2. colour' = colour /\ phase' # "start"
    BY <1>8 DEF AddFlowDescriptor, ProtocolClicked
  <2>3. collections \in [DOMAIN collections -> Collection]
    BY <1>1 DEF TypeOK
  <2>4. /\ DOMAIN collections' = DOMAIN collections
        /\ \A k \in DOMAIN collections :
             /\ collections'[k].mParticles = collections[k].mParticles
             /\ collections'[k].mColor = collections[k].mColor
    BY <2>1, <2>3, ShowingFacts
  <2> QED
    BY <2>2, <2>4, OwnKept
<1>9. ASSUME NEW c \in Colours, NEW s \in Sizes, NEW l \in Lives, NEW j \in Jitters,
             NewPacket(c, s, l, j)
      PROVE  OwnColours'
  <2>1. s \in Int /\ l - j \in Int /\ s \in Sizes \cup {10000}
    BY NumbersAssumption
  <2>2. /\ phase = "network" /\ phase' = "network" /\ mFree # NoneFree
        /\ Keep(Added(pool, c, s, l - j)) /\ Painted(c)
    BY <1>9 DEF NewPacket
  <2> QED
    BY <2>1, <2>2, AddOwn
<1>10. ASSUME NEW c \in Colours, NEW l \in Lives, TestData(c, l)
       PROVE  OwnColours'
  <2> DEFINE size == 10000
  <2>1. size \in Int /\ l \in Int /\ size \in Sizes \cup {10000}
    BY NumbersAssumption
  <2>2. /\ phase = "network" /\ phase' = "network" /\ mFree # NoneFree
        /\ Keep(Added(pool, c, size, l)) /\ Painted(c)
    BY <1>10 DEF TestData
  <2> HIDE DEF size
  <2> QED
    BY <2>1, <2>2, AddOwn
<1>11. CASE UNCHANGED vars
  BY <1>11 DEF vars, OwnColours
<1> QED
  BY <1>2, <1>3, <1>4, <1>5, <1>6, <1>7, <1>8, <1>9, <1>10, <1>11 DEF Next
-----------------------------------------------------------------------------
\* The inductive invariant of the client's particles.
THEOREM ParticleInvariant == Spec => []IInv
BY InitOK, NextOK, PTL DEF Spec

\* Type correctness; the collection render() advances from is one there is.
THEOREM ParticleTypes == Spec => []TypeOK
<1>1. IInv => TypeOK
  BY DEF IInv
<1> QED
  BY ParticleInvariant, <1>1, PTL

\* No particle is lost or doubled, for a pool of any size and collections of
\* any capacity, whatever dies while update() walks over it.
THEOREM PoolIsConserved == Spec => []PoolConserved
<1>1. IInv => PoolConserved
  BY DEF IInv
<1> QED
  BY ParticleInvariant, <1>1, PTL

\* An update ages every live particle by one and frees exactly the dead ones.
THEOREM UpdateAges == Spec => UpdateAgesOnce
<1>1. IInv /\ [Next]_vars => [AgedOnce]_vars
  BY AgedOnceOK
<1> QED
  BY ParticleInvariant, <1>1, PTL DEF Spec, UpdateAgesOnce

\* A particle of a checked colour is in a collection that is drawn, if the
\* numbers of the collections of two colours never meet: through overflows into
\* further collections, deletions, check boxes and reconnections.
THEOREM CheckedColoursShown ==
    ASSUME NumbersApart
    PROVE  Spec => []CheckedIsShown
<1>1. Init => OwnColours /\ CollectionsShown
  <2> SUFFICES ASSUME Init
               PROVE  OwnColours /\ CollectionsShown
    OBVIOUS
  <2>1. DOMAIN collections = {} /\ \A x \in Particle : colour[x] = Black
    BY DEF Init
  <2> QED
    BY <2>1 DEF OwnColours, CollectionsShown
<1>2. /\ IInv /\ IInv' /\ OwnColours /\ CollectionsShown /\ [Next]_vars
      => OwnColours' /\ CollectionsShown'
  BY ApartDiffer, OwnOK, ShownOK
<1>3. OwnColours /\ CollectionsShown => CheckedIsShown
  BY DEF OwnColours, CollectionsShown, CheckedIsShown
<1> QED
  BY ParticleInvariant, <1>1, <1>2, <1>3, PTL DEF Spec
=============================================================================
