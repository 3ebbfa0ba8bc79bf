---------------------------- MODULE MutateProofs ----------------------------
(***************************************************************************)
(* What every sequence of edits keeps, whatever the document, the way it   *)
(* was parsed, the texts and the failures: spans, lengths and keys of the  *)
(* arena, room for it and its text, marks that tell which text needs       *)
(* escaping, storage that is only lent, and the cached write bound.        *)
(***************************************************************************)
EXTENDS Mutate, ArenaLemmas

(* Owned storage has room, and a pool that is only lent too.               *)
Rooms(v, n, st) ==
  /\ ~st.borrowed => Len(v) <= st.vcap
  /\ st.hasPool => /\ n <= st.pcap
                   /\ \A i \in DOMAIN v : IsText(v[i]) => v[i].ofs + v[i].len <= st.pcap

StoreType == [borrowed : BOOLEAN, hasPool : BOOLEAN, vcap : Nat, pcap : Nat]

(* What is kept, of any arena, pool and store.                             *)
Sound(v, p, st) ==
  /\ WellFormedArena(v)
  /\ p \in Seq(Chars)
  /\ TextsApart(v, p)
  /\ st \in StoreType
  /\ Rooms(v, Len(p), st)
  /\ ~Aliased => Marked(v, p)

IInv == Sound(vs, pool, store)

(* And what no step may do to storage that is lent.                        *)
LentKept(w, q, r) ==
  /\ (store.borrowed \/ ~store.hasPool) => IsPrefix(pool, q)
  /\ r.borrowed => store.borrowed /\ Len(w) = Len(vs) /\ Len(q) = Len(pool)

Kept(w, q, r) == Sound(w, q, r) /\ LentKept(w, q, r)
-----------------------------------------------------------------------------
(* The greatest of two and of three.                                       *)
LEMMA MaxOf ==
  /\ \A a, b \in Int : Max({a, b}) \in {a, b} /\ Max({a, b}) >= a /\ Max({a, b}) >= b
  /\ \A a, b, c \in Int : /\ Max({a, b, c}) \in {a, b, c}
                          /\ Max({a, b, c}) >= a /\ Max({a, b, c}) >= b
                          /\ Max({a, b, c}) >= c
  <1>1. ASSUME NEW a \in Int, NEW b \in Int
        PROVE  Max({a, b}) \in {a, b} /\ Max({a, b}) >= a /\ Max({a, b}) >= b
    <2>1. \E x \in {a, b} : \A y \in {a, b} : x >= y
      OBVIOUS
    <2> QED
      BY <2>1 DEF Max
  <1>2. ASSUME NEW a \in Int, NEW b \in Int, NEW c \in Int
        PROVE  /\ Max({a, b, c}) \in {a, b, c}
               /\ Max({a, b, c}) >= a /\ Max({a, b, c}) >= b /\ Max({a, b, c}) >= c
    <2>1. \E x \in {a, b, c} : \A y \in {a, b, c} : x >= y
      OBVIOUS
    <2> QED
      BY <2>1 DEF Max
  <1> QED
    BY <1>1, <1>2

LEMMA GrownIs ==
  ASSUME NEW cap \in Nat, NEW need \in Nat, NEW floor \in Nat
  PROVE  Grown(cap, need, floor) \in Nat /\ Grown(cap, need, floor) >= cap
         /\ Grown(cap, need, floor) >= need
  <1>1. cap + cap \div 2 \in Nat /\ cap + cap \div 2 >= cap
    OBVIOUS
  <1> DEFINE c2 == cap + cap \div 2
  <1> HIDE DEF c2
  <1>2. c2 \in Nat /\ c2 >= cap
    BY <1>1 DEF c2
  <1>3. /\ Max({c2, need, floor}) \in {c2, need, floor}
        /\ Max({c2, need, floor}) >= c2 /\ Max({c2, need, floor}) >= need
    BY <1>2, MaxOf
  <1>4. Grown(cap, need, floor) = Max({c2, need, floor})
    BY DEF Grown, c2
  <1> QED
    BY <1>2, <1>3, <1>4

-----------------------------------------------------------------------------
(* What the model reads in the arena.                                      *)
LEMMA AboveIs ==
  ASSUME WellNested(vs), NEW i \in DOMAIN vs
  PROVE  /\ Above(i) \cup {i} = Around(vs, i)
         /\ \A c \in DOMAIN vs : c \in Above(i) <=> Encloses(vs, c, i)
         /\ Above(i) \subseteq DOMAIN vs
  <1>1. i \in Nat /\ i >= 1 /\ i <= Len(vs) /\ DOMAIN vs = 1..Len(vs) /\ Len(vs) \in Nat
    BY SlotIs
  <1>2. Above(i) \subseteq DOMAIN vs
    BY <1>1 DEF Above
  <1>3. \A c \in DOMAIN vs : c \in Above(i) <=> Encloses(vs, c, i)
    BY <1>1 DEF Above, Encloses
  <1> QED
    BY <1>2, <1>3 DEF Around

LEMMA ParentIs ==
  ASSUME WellNested(vs), NEW j \in DOMAIN vs
  PROVE  /\ \A c \in DOMAIN vs : Parent(j) = c <=> j \in ChildrenOf(vs, c)
         /\ j # 1 => Parent(j) \in DOMAIN vs
  <1> DEFINE S == Above(j) \cup {0}
  <1>1. /\ j \in Nat /\ j >= 1 /\ j <= Len(vs) /\ DOMAIN vs = 1..Len(vs) /\ Len(vs) \in Nat
        /\ \A c \in DOMAIN vs : c \in Above(j) <=> Encloses(vs, c, j)
        /\ Above(j) \subseteq DOMAIN vs
    BY SlotIs, AboveIs
  <1>2. S \in SUBSET (0..Len(vs)) /\ S # {}
    BY <1>1
  <1>3. Max(S) \in S /\ \A y \in S : Max(S) >= y
    <2> HIDE DEF S
    <2> QED
      BY <1>1, <1>2, GreatestOf
  <1>4. Parent(j) = Max(S)
    BY DEF Parent
  <1>5. ASSUME NEW c \in DOMAIN vs, Parent(j) = c PROVE j \in ChildrenOf(vs, c)
    <2>1. c \in S /\ c >= 1 /\ \A y \in S : c >= y
      <3>1. c = Max(S) /\ c \in 1..Len(vs)
        BY <1>1, <1>4, <1>5
      <3> HIDE DEF S
      <3> QED
        BY <1>3, <3>1
    <2>2. Encloses(vs, c, j)
      BY <1>1, <2>1
    <2>3. \A d \in DOMAIN vs : ~(Encloses(vs, c, d) /\ Encloses(vs, d, j))
      <3> SUFFICES ASSUME NEW d \in DOMAIN vs, Encloses(vs, c, d), Encloses(vs, d, j)
                   PROVE  FALSE
        OBVIOUS
      <3>1. c >= d /\ c < d
        BY <1>1, <2>1 DEF Encloses
      <3> QED
        BY <1>1, <3>1
    <2> QED
      BY <2>2, <2>3 DEF ChildrenOf
  <1>6. ASSUME NEW c \in DOMAIN vs, j \in ChildrenOf(vs, c) PROVE Parent(j) = c
    <2>1. /\ Encloses(vs, c, j)
          /\ \A d \in DOMAIN vs : ~(Encloses(vs, c, d) /\ Encloses(vs, d, j))
      BY <1>6 DEF ChildrenOf
    <2>2. \A d \in Above(j) : ~(c < d)
      BY <1>1, <2>1, EnclosersNest
    <2>3. \A y \in S : c >= y
      BY <1>1, <2>2
    <2>4. c \in S
      BY <1>1, <2>1
    <2>5. Max(S) \in 0..Len(vs)
      BY <1>2, <1>3
    <2>6. Max(S) >= c /\ c >= Max(S) /\ c \in 1..Len(vs)
      <3> HIDE DEF S
      <3> QED
        BY <1>1, <1>3, <2>3, <2>4
    <2> HIDE DEF S
    <2>7. Max(S) = c
      BY <1>1, <2>5, <2>6
    <2> QED
      BY <1>4, <2>7
  <1>7. ASSUME j # 1 PROVE Parent(j) \in DOMAIN vs
    <2>1. 1 \in DOMAIN vs /\ Encloses(vs, 1, j)
      BY <1>7, RootEncloses
    <2>2. 1 \in S
      BY <1>1, <2>1
    <2>3. Max(S) >= 1 /\ Max(S) \in 0..Len(vs)
      BY <1>2, <1>3, <2>2
    <2> QED
      BY <1>1, <1>4, <2>3
  <1> QED
    BY <1>5, <1>6, <1>7

LEMMA KidsAre ==
  ASSUME WellNested(vs), NEW c \in DOMAIN vs, IsCtn(vs[c])
  PROVE  Kids(c) = ChildrenOf(vs, c)
  <1>1. c \in Nat /\ DOMAIN vs = 1..Len(vs) /\ Len(vs) \in Nat
        /\ GetNext(vs, c) \in Nat /\ GetNext(vs, c) <= Len(vs) + 1 /\ c >= 1
    BY SlotIs
  <1>2. ASSUME NEW j \in ChildrenOf(vs, c) PROVE j \in Kids(c)
    <2>1. j \in DOMAIN vs /\ c < j /\ j < GetNext(vs, c)
      BY DEF ChildrenOf, Encloses
    <2>2. Parent(j) = c
      BY <2>1, ParentIs
    <2> QED
      BY <1>1, <2>1, <2>2 DEF Kids
  <1>3. ASSUME NEW j \in Kids(c) PROVE j \in ChildrenOf(vs, c)
    <2>1. j \in (c + 1)..(GetNext(vs, c) - 1) /\ Parent(j) = c
      BY DEF Kids
    <2>2. j \in DOMAIN vs
      BY <1>1, <2>1
    <2> QED
      BY <2>1, <2>2, ParentIs
  <1> QED
    BY <1>2, <1>3

(* A handle never refers to a key.                                         *)
LEMMA HandleIsNoKey ==
  ASSUME WellNested(vs), NEW i \in Handles, NEW c \in DOMAIN vs, vs[c].kind = "object",
         i \in ChildrenOf(vs, c)
  PROVE  i \in DOMAIN vs /\ Rank(ChildrenOf(vs, c), i) % 2 # 1
  <1>1. i \in DOMAIN vs /\ (i > 1 => ~IsKey(i))
    BY DEF Handles
  <1>2. Parent(i) = c
    BY <1>1, ParentIs
  <1>3. i > 1
    <2>1. c < i /\ c \in Nat /\ c >= 1 /\ i \in Nat
      BY <1>1, SlotIs DEF ChildrenOf, Encloses
    <2> QED
      BY <2>1
  <1>4. Kids(c) = ChildrenOf(vs, c)
    BY KidsAre DEF IsCtn
  <1> QED
    BY <1>1, <1>2, <1>3, <1>4 DEF IsKey

-----------------------------------------------------------------------------
(* Storage after __detach, __own_pool and __own_vals: the document's own,  *)
(* large enough, and no smaller than it was.                               *)
Roomy(st, r, slots, bytes) ==
  /\ r \in StoreType /\ ~r.borrowed
  /\ st.hasPool => r.hasPool /\ r.pcap >= st.pcap
  /\ slots <= r.vcap
  /\ r.hasPool => bytes <= r.pcap \/ r.pcap = st.pcap

LEMMA DetachedIs ==
  ASSUME NVals \in Nat, Len(pool) \in Nat, NEW st \in StoreType, NEW need \in Nat,
         NEW extra \in Nat
  PROVE  /\ Roomy(st, Detached(st, need, extra), NVals + extra, Len(pool) + need)
         /\ Detached(st, need, extra).hasPool <=> (st.hasPool \/ need # 0)
         /\ Detached(st, need, extra).hasPool =>
              Detached(st, need, extra).pcap >= Len(pool) + need
  <1> DEFINE r == Detached(st, need, extra)
             want == st.hasPool \/ need # 0
             v == Grown(st.vcap, NVals + extra, SlotFloor)
             p == Grown(st.pcap, Len(pool) + need, PoolFloor)
  <1>1. /\ st.vcap \in Nat /\ st.pcap \in Nat
        /\ st.hasPool \in BOOLEAN /\ st.borrowed \in BOOLEAN
    BY DEF StoreType
  <1>2. SlotFloor \in Nat /\ PoolFloor \in Nat
    BY BoundsAssumption
  <1> DEFINE a == NVals + extra
             b == Len(pool) + need
  <1>30. a \in Nat /\ b \in Nat
    OBVIOUS
  <1>3. v \in Nat /\ v >= NVals + extra
    <2>1. v = Grown(st.vcap, a, SlotFloor)
      OBVIOUS
    <2> HIDE DEF a, v
    <2>2. v \in Nat /\ v >= a
      BY <1>1, <1>2, <1>30, <2>1, GrownIs
    <2> QED
      BY <2>2 DEF a
  <1>4. p \in Nat /\ p >= st.pcap /\ p >= Len(pool) + need
    <2>1. p = Grown(st.pcap, b, PoolFloor)
      OBVIOUS
    <2> HIDE DEF b, p
    <2>2. p \in Nat /\ p >= st.pcap /\ p >= b
      BY <1>1, <1>2, <1>30, <2>1, GrownIs
    <2> QED
      BY <2>2 DEF b
  <1>5. r = [borrowed |-> FALSE, hasPool |-> want, vcap |-> v,
             pcap |-> IF want THEN p ELSE st.pcap]
    BY DEF Detached
  <1> HIDE DEF r, v, p
  <1>6. /\ r.borrowed = FALSE /\ r.hasPool = want /\ r.vcap = v
        /\ r.pcap = (IF want THEN p ELSE st.pcap)
    BY <1>5
  <1>7. want \in BOOLEAN
    BY <1>1
  <1>8. r \in StoreType
    BY <1>1, <1>3, <1>4, <1>5, <1>7 DEF StoreType
  <1>9. /\ ~r.borrowed
        /\ r.hasPool <=> want
        /\ st.hasPool => r.hasPool /\ r.pcap >= st.pcap
        /\ NVals + extra <= r.vcap
        /\ r.hasPool => r.pcap >= Len(pool) + need
    BY <1>1, <1>3, <1>4, <1>6
  <1>10. r.pcap \in Nat
    BY <1>1, <1>4, <1>6
  <1> HIDE DEF want
  <1>11. Roomy(st, r, NVals + extra, Len(pool) + need)
    BY <1>8, <1>9, <1>10 DEF Roomy
  <1> QED
    BY <1>9, <1>11 DEF r, want

LEMMA OwnPoolIs ==
  ASSUME NVals \in Nat, Len(pool) \in Nat, NEW st \in StoreType,
         ~st.borrowed => NVals <= st.vcap, NEW need \in Nat, need # 0
  PROVE  /\ Roomy(st, OwnPool(st, need), NVals, Len(pool) + need)
         /\ OwnPool(st, need).hasPool
         /\ OwnPool(st, need).pcap >= Len(pool) + need
  <1> DEFINE r == OwnPool(st, need)
             p == Grown(st.pcap, Len(pool) + need, PoolFloor)
  <1>1. /\ st.vcap \in Nat /\ st.pcap \in Nat
        /\ st.hasPool \in BOOLEAN /\ st.borrowed \in BOOLEAN
    BY DEF StoreType
  <1>2. p \in Nat /\ p >= st.pcap /\ p >= Len(pool) + need
    <2> DEFINE b == Len(pool) + need
    <2>1. p = Grown(st.pcap, b, PoolFloor)
      OBVIOUS
    <2>2. b \in Nat
      OBVIOUS
    <2> HIDE DEF b, p
    <2>3. p \in Nat /\ p >= st.pcap /\ p >= b
      BY <1>1, <2>1, <2>2, BoundsAssumption, GrownIs
    <2> QED
      BY <2>3 DEF b
  <1>3. CASE st.borrowed
    <2>1. r = Detached(st, need, 0)
      BY <1>3 DEF OwnPool
    <2>2. /\ Roomy(st, r, NVals + 0, Len(pool) + need)
          /\ r.hasPool /\ r.pcap >= Len(pool) + need
      BY <2>1, DetachedIs
    <2> QED
      BY <2>2
  <1>4. CASE ~st.borrowed /\ PoolFits(st, need)
    <2>1. r = st
      BY <1>4 DEF OwnPool
    <2>2. st.hasPool /\ Len(pool) + need <= st.pcap
      BY <1>4 DEF PoolFits
    <2> QED
      BY <1>1, <1>4, <2>1, <2>2 DEF Roomy
  <1>5. CASE ~st.borrowed /\ ~PoolFits(st, need)
    <2>1. r = [st EXCEPT !.hasPool = TRUE, !.pcap = p]
      BY <1>5 DEF OwnPool
    <2> HIDE DEF r, p
    <2>2. /\ r.borrowed = st.borrowed /\ r.hasPool = TRUE /\ r.vcap = st.vcap /\ r.pcap = p
          /\ r \in StoreType
      BY <1>2, <2>1 DEF StoreType
    <2> QED
      BY <1>1, <1>2, <1>5, <2>2 DEF Roomy, r
  <1> QED
    BY <1>3, <1>4, <1>5

LEMMA OwnValsIs ==
  ASSUME NVals \in Nat, Len(pool) \in Nat, NEW st \in StoreType, NEW extra \in Nat
  PROVE  /\ Roomy(st, OwnVals(st, extra), NVals + extra, Len(pool))
         /\ OwnVals(st, extra).hasPool <=> st.hasPool
  <1> DEFINE r == OwnVals(st, extra)
             v == Grown(st.vcap, NVals + extra, SlotFloor)
  <1>1. /\ st.vcap \in Nat /\ st.pcap \in Nat
        /\ st.hasPool \in BOOLEAN /\ st.borrowed \in BOOLEAN
    BY DEF StoreType
  <1>2. v \in Nat /\ v >= NVals + extra
    <2> DEFINE a == NVals + extra
    <2>1. v = Grown(st.vcap, a, SlotFloor)
      OBVIOUS
    <2>2. a \in Nat
      OBVIOUS
    <2> HIDE DEF a, v
    <2>3. v \in Nat /\ v >= a
      BY <1>1, <2>1, <2>2, BoundsAssumption, GrownIs
    <2> QED
      BY <2>3 DEF a
  <1>3. CASE st.borrowed
    <2>1. r = Detached(st, 0, extra)
      BY <1>3 DEF OwnVals
    <2>2. /\ Roomy(st, r, NVals + extra, Len(pool) + 0)
          /\ r.hasPool <=> st.hasPool
      BY <2>1, DetachedIs
    <2> QED
      BY <2>2
  <1>4. CASE ~st.borrowed /\ SlotsFit(st, extra)
    <2>1. r = st
      BY <1>4 DEF OwnVals
    <2>2. NVals + extra <= st.vcap
      BY <1>4 DEF SlotsFit
    <2> QED
      BY <1>1, <1>4, <2>1, <2>2 DEF Roomy
  <1>5. CASE ~st.borrowed /\ ~SlotsFit(st, extra)
    <2>1. r = [st EXCEPT !.vcap = v]
      BY <1>5 DEF OwnVals
    <2> HIDE DEF r, v
    <2>2. /\ r.borrowed = st.borrowed /\ r.hasPool = st.hasPool /\ r.vcap = v
          /\ r.pcap = st.pcap /\ r \in StoreType
      BY <1>2, <2>1 DEF StoreType
    <2> QED
      BY <1>1, <1>2, <1>5, <2>2 DEF Roomy, r
  <1> QED
    BY <1>3, <1>4, <1>5

-----------------------------------------------------------------------------
(* The walks.  How ranks go up in a set.                                   *)
LEMMA RanksGoUp ==
  ASSUME NEW K \in SUBSET Nat, IsFiniteSet(K)
  PROVE  /\ \A x \in K : Rank(K, x) \in 1..Cardinality(K)
         /\ \A x, y \in K : x < y => Rank(K, x) < Rank(K, y)
         /\ \A x, y \in K : (x < y /\ \A z \in K : ~(x < z /\ z < y)) =>
              Rank(K, y) = Rank(K, x) + 1
         /\ \A x \in K : (\A z \in K : z <= x) => Rank(K, x) = Cardinality(K)
         /\ \A x \in K : (\A z \in K : x <= z) => Rank(K, x) = 1
  <1> DEFINE U(x) == {m \in K : m <= x}
  <1>1. \A x : IsFiniteSet(U(x)) /\ Cardinality(U(x)) \in Nat
               /\ Cardinality(U(x)) <= Cardinality(K) /\ Rank(K, x) = Cardinality(U(x))
    <2> TAKE x
    <2>1. U(x) \in SUBSET K
      OBVIOUS
    <2> QED
      BY <2>1, FS_Subset, FS_CardinalityType DEF Rank
  <1>2. Cardinality(K) \in Nat
    BY FS_CardinalityType
  <1>3. ASSUME NEW x \in K PROVE Rank(K, x) >= 1
    <2>1. x \in U(x)
      OBVIOUS
    <2> HIDE DEF U
    <2>2. U(x) # {} /\ Cardinality(U(x)) # 0
      BY <1>1, <2>1, FS_EmptySet
    <2> QED
      BY <1>1, <2>2
  <1>4. ASSUME NEW x \in K, NEW y \in K, x < y
        PROVE  /\ Rank(K, x) < Rank(K, y)
               /\ (\A z \in K : ~(x < z /\ z < y)) => Rank(K, y) = Rank(K, x) + 1
    <2>0. x \in Nat /\ y \in Nat /\ \A m \in K : m \in Nat
      OBVIOUS
    <2>1. y \notin U(x) /\ U(x) \cup {y} \in SUBSET U(y)
      <3>1. ~(y <= x) /\ y <= y /\ \A m \in K : m <= x => m <= y
        BY <1>4, <2>0
      <3> QED
        BY <3>1
    <2>2. (\A z \in K : ~(x < z /\ z < y)) => U(x) \cup {y} = U(y)
      <3> SUFFICES ASSUME \A z \in K : ~(x < z /\ z < y) PROVE U(y) \subseteq U(x) \cup {y}
        BY <2>1
      <3>1. \A m \in K : m <= y => m <= x \/ m = y
        BY <2>0
      <3> QED
        BY <3>1
    <2> HIDE DEF U
    <2>3. Cardinality(U(x) \cup {y}) = Cardinality(U(x)) + 1 /\ IsFiniteSet(U(x) \cup {y})
      BY <1>1, <2>1, FS_AddElement
    <2>4. Cardinality(U(x) \cup {y}) <= Cardinality(U(y))
      BY <1>1, <2>1, FS_Subset
    <2> QED
      BY <1>1, <2>2, <2>3, <2>4
  <1>5. ASSUME NEW x \in K, \A z \in K : z <= x PROVE Rank(K, x) = Cardinality(K)
    <2>1. U(x) = K
      BY <1>5
    <2> QED
      BY <1>1, <2>1
  <1>6. ASSUME NEW x \in K, \A z \in K : x <= z PROVE Rank(K, x) = 1
    <2>1. \A m \in K : m <= x <=> m = x
      <3>1. x \in Nat /\ \A m \in K : m \in Nat
        OBVIOUS
      <3> QED
        BY <1>6, <3>1
    <2>2. U(x) = {x}
      BY <2>1
    <2> QED
      BY <1>1, <2>2, FS_Singleton
  <1> HIDE DEF U
  <1>7. \A x \in K : Rank(K, x) \in 1..Cardinality(K)
    BY <1>1, <1>2, <1>3
  <1> QED
    BY <1>4, <1>5, <1>6, <1>7

(* A step stays in the container.                                          *)
LEMMA StepIn ==
  ASSUME WellNested(vs), NEW c \in DOMAIN vs, IsCtn(vs[c])
  PROVE  /\ NVals \in Nat /\ DOMAIN vs = 1..NVals /\ c \in Nat /\ c >= 1
         /\ GetNext(vs, c) \in Nat /\ c + 1 <= GetNext(vs, c) /\ GetNext(vs, c) <= NVals + 1
         /\ \A x \in (c + 1)..GetNext(vs, c) : Step(c, x) \in (c + 1)..GetNext(vs, c)
  <1>1. /\ NVals \in Nat /\ DOMAIN vs = 1..NVals /\ c \in Nat /\ c >= 1
        /\ GetNext(vs, c) \in Nat /\ c + 1 <= GetNext(vs, c) /\ GetNext(vs, c) <= NVals + 1
    BY SlotIs DEF NVals
  <1>2. ASSUME NEW x \in (c + 1)..GetNext(vs, c)
        PROVE  Step(c, x) \in (c + 1)..GetNext(vs, c)
    <2>1. CASE x < GetNext(vs, c)
      <3>1. x \in DOMAIN vs /\ Encloses(vs, c, x)
        BY <1>1, <2>1 DEF Encloses
      <3>2. GetNext(vs, x) \in Nat /\ x < GetNext(vs, x) /\ GetNext(vs, x) <= GetNext(vs, c)
        BY <3>1, SlotIs, EnclosesAll
      <3> QED
        BY <1>1, <2>1, <3>2 DEF Step
    <2>2. CASE ~(x < GetNext(vs, c))
      BY <2>2 DEF Step
    <2> QED
      BY <2>1, <2>2
  <1> QED
    BY <1>1, <1>2

LEMMA StepsAre ==
  ASSUME WellNested(vs), NEW c \in DOMAIN vs, IsCtn(vs[c])
  PROVE  /\ Steps(c) \in [0..NVals -> (c + 1)..GetNext(vs, c)]
         /\ Steps(c)[0] = c + 1
         /\ \A n \in 0..(NVals - 1) : Steps(c)[n + 1] = Step(c, Steps(c)[n])
  <1> DEFINE V    == (c + 1)..GetNext(vs, c)
             step == [p \in 0..NVals |-> [x \in V |-> Step(c, x)]]
  <1>1. /\ NVals \in Nat /\ c + 1 \in V /\ \A x \in V : Step(c, x) \in V
    BY StepIn
  <1> HIDE DEF V
  <1>2. PICK f : Stepwise(f, NVals, V, c + 1, step)
    <2>1. step \in [0..NVals -> [V -> V]]
      BY <1>1
    <2> HIDE DEF step
    <2> QED
      BY <1>1, <2>1, StepwiseFcn
  <1>3. f \in [0..NVals -> V] /\ f[0] = c + 1 /\ \A n \in 1..NVals : f[n] = Step(c, f[n - 1])
    <2>1. f \in [0..NVals -> V] /\ f[0] = c + 1
          /\ \A n \in 1..NVals : f[n] = step[n - 1][f[n - 1]]
      BY <1>2 DEF Stepwise
    <2>2. \A n \in 1..NVals : n - 1 \in 0..NVals /\ f[n - 1] \in V
      BY <1>1, <2>1
    <2> QED
      BY <2>1, <2>2
  <1>4. f = [n \in 0..NVals |-> IF n = 0 THEN c + 1 ELSE Step(c, f[n - 1])]
    BY <1>1, <1>3
  <1>5. Steps(c) = [n \in 0..NVals |-> IF n = 0 THEN c + 1 ELSE Step(c, Steps(c)[n - 1])]
    BY <1>4 DEF Steps
  <1> DEFINE at == Steps(c)
  <1>6. at = [n \in 0..NVals |-> IF n = 0 THEN c + 1 ELSE Step(c, at[n - 1])]
    BY <1>5
  <1> HIDE DEF at
  <1>7. at[0] = c + 1 /\ \A n \in 0..(NVals - 1) : at[n + 1] = Step(c, at[n])
    <2>1. 0 \in 0..NVals /\ \A n \in 0..(NVals - 1) : n + 1 \in 0..NVals /\ n + 1 # 0
                                                      /\ (n + 1) - 1 = n
      BY <1>1
    <2> QED
      BY <1>6, <2>1
  <1> DEFINE S == {n \in 0..NVals : at[n] \in V}
  <1>8. \A n \in 0..NVals : n \in S
    <2>1. 0 \in S /\ \A n \in 0..(NVals - 1) : n \in S => n + 1 \in S
      BY <1>1, <1>7
    <2> HIDE DEF S
    <2> QED
      BY <1>1, <2>1, UpTo
  <1>9. at \in [0..NVals -> V]
    <2>1. \A n \in 0..NVals : at[n] \in V
      BY <1>8
    <2>2. DOMAIN at = 0..NVals /\ at = [n \in DOMAIN at |-> at[n]]
      BY <1>6
    <2> QED
      BY <2>1, <2>2
  <1> QED
    BY <1>7, <1>9 DEF at, V

(* A step leads from a child to the next one, or to the end: n steps lead  *)
(* to child n + 1, counted from 1, as long as there is one.                *)
StepsTo(c, n) ==
  LET K == ChildrenOf(vs, c) IN
  IF n < Cardinality(K) THEN Steps(c)[n] \in K /\ Rank(K, Steps(c)[n]) = n + 1
                        ELSE Steps(c)[n] = GetNext(vs, c)

LEMMA FirstChild ==
  ASSUME WellNested(vs), NEW c \in DOMAIN vs, IsCtn(vs[c])
  PROVE  StepsTo(c, 0)
  <1> DEFINE K == ChildrenOf(vs, c)
             E == GetNext(vs, c)
  <1>1. /\ NVals \in Nat /\ DOMAIN vs = 1..NVals /\ c \in Nat /\ c >= 1
        /\ E \in Nat /\ c + 1 <= E /\ E <= NVals + 1 /\ Steps(c)[0] = c + 1
    BY StepIn, StepsAre
  <1>2. K \in SUBSET Nat /\ IsFiniteSet(K) /\ \A j \in K : c < j /\ j < E
    BY SlotIs, ChildrenFinite DEF ChildrenOf, Encloses
  <1>3. CASE c + 1 = E
    <2>1. K = {}
      BY <1>1, <1>2, <1>3
    <2>2. Cardinality(K) = 0
      BY <2>1, FS_EmptySet
    <2> HIDE DEF K
    <2>3. ~(0 < Cardinality(K))
      BY <2>2
    <2> QED
      BY <1>1, <1>3, <2>3 DEF StepsTo, K
  <1>4. CASE c + 1 < E
    <2>1. c + 1 \in K
      <3>1. c + 1 \in DOMAIN vs /\ Encloses(vs, c, c + 1)
        BY <1>1, <1>4 DEF Encloses
      <3>2. ASSUME NEW d \in DOMAIN vs, Encloses(vs, c, d), Encloses(vs, d, c + 1) PROVE FALSE
        BY <1>1, <3>2 DEF Encloses
      <3> QED
        BY <3>1, <3>2 DEF ChildrenOf
    <2>2. \A z \in K : c + 1 <= z
      BY <1>1, <1>2
    <2> HIDE DEF K
    <2>3. Rank(K, c + 1) = 1 /\ Rank(K, c + 1) \in 1..Cardinality(K)
      BY <1>2, <2>1, <2>2, RanksGoUp
    <2>4. 0 < Cardinality(K)
      BY <1>2, <2>3, FS_CardinalityType
    <2> QED
      BY <1>1, <2>1, <2>3, <2>4 DEF StepsTo, K
  <1> QED
    BY <1>1, <1>3, <1>4

LEMMA NextChild ==
  ASSUME WellNested(vs), NEW c \in DOMAIN vs, IsCtn(vs[c]),
         NEW n \in 0..(NVals - 1), StepsTo(c, n)
  PROVE  StepsTo(c, n + 1)
  <1> DEFINE K == ChildrenOf(vs, c)
             E == GetNext(vs, c)
             x == Steps(c)[n]
             y == Steps(c)[n + 1]
             k == Cardinality(K)
  <1>1. /\ NVals \in Nat /\ n \in Nat /\ E \in Nat /\ y = Step(c, x)
    BY StepIn, StepsAre
  <1>2. K \in SUBSET Nat /\ IsFiniteSet(K) /\ k \in Nat /\ \A j \in K : j < E
    <2>1. K \in SUBSET Nat /\ IsFiniteSet(K) /\ k \in Nat
      BY SlotIs, ChildrenFinite
    <2>2. \A j \in K : j < E
      BY DEF ChildrenOf, Encloses
    <2> QED
      BY <2>1, <2>2
  <1>3. IF n < k THEN x \in K /\ Rank(K, x) = n + 1 ELSE x = E
    BY DEF StepsTo
  <1>4. CASE n < k
    <2>1. x \in K /\ Rank(K, x) = n + 1 /\ x \in Nat /\ x < E
      BY <1>2, <1>3, <1>4
    <2>2. /\ y = GetNext(vs, x)
          /\ y \in Nat /\ x < y /\ y <= E
          /\ \A i \in DOMAIN vs : x < i /\ i < y => i \notin K
          /\ y < E => y \in K
      BY <1>1, <2>1, ChildIs DEF Step
    <2>3. \A z \in K : z \in DOMAIN vs /\ z \in Nat
      BY SlotIs, ChildrenFinite
    <2>4. \A z \in K : ~(x < z /\ z < y)
      BY <2>2, <2>3
    <2> HIDE DEF K, x, y, k
    <2>5. CASE y < E
      <3>1. y \in K /\ Rank(K, y) = n + 2 /\ Rank(K, y) \in 1..k
        BY <1>1, <1>2, <2>1, <2>2, <2>4, <2>5, RanksGoUp DEF k
      <3>2. n + 1 < k
        BY <1>1, <1>2, <3>1
      <3> QED
        BY <1>1, <3>1, <3>2 DEF StepsTo, K, k, y
    <2>6. CASE y = E
      <3>1. \A z \in K : z <= x
        BY <1>2, <2>1, <2>3, <2>4, <2>6
      <3>2. Rank(K, x) = k
        BY <1>2, <2>1, <3>1, RanksGoUp DEF k
      <3>3. ~(n + 1 < k)
        BY <1>1, <1>2, <2>1, <3>2
      <3> QED
        BY <2>6, <3>3 DEF StepsTo, K, k, y
    <2> QED
      BY <1>1, <2>2, <2>5, <2>6
  <1>5. CASE ~(n < k)
    <2>1. x = E /\ y = E
      BY <1>1, <1>3, <1>5 DEF Step
    <2> HIDE DEF K, x, y, k
    <2>2. ~(n + 1 < k)
      BY <1>1, <1>2, <1>5
    <2> QED
      BY <2>1, <2>2 DEF StepsTo, K, k, y
  <1> QED
    BY <1>4, <1>5

LEMMA StepsMeetChildren ==
  ASSUME WellNested(vs), NEW c \in DOMAIN vs, IsCtn(vs[c])
  PROVE  /\ Cardinality(ChildrenOf(vs, c)) \in 0..NVals
         /\ \A n \in 0..NVals : StepsTo(c, n)
  <1> DEFINE K == ChildrenOf(vs, c)
             S == {n \in 0..NVals : StepsTo(c, n)}
  <1>1. NVals \in Nat /\ DOMAIN vs = 1..NVals
    BY StepIn
  <1>2. K \in SUBSET (1..NVals)
    BY <1>1 DEF ChildrenOf
  <1> HIDE DEF K
  <1>3. Cardinality(K) \in Nat /\ Cardinality(K) <= NVals
    <2>1. IsFiniteSet(1..NVals) /\ Cardinality(1..NVals) = NVals
      <3>1. /\ IsFiniteSet(1..NVals)
            /\ Cardinality(1..NVals) = IF 1 > NVals THEN 0 ELSE NVals - 1 + 1
        BY <1>1, FS_Interval
      <3> QED
        BY <1>1, <3>1
    <2> QED
      BY <1>2, <2>1, FS_Subset, FS_CardinalityType
  <1>4. \A n \in 0..NVals : n \in S
    <2>1. 0 \in S /\ \A n \in 0..(NVals - 1) : n \in S => n + 1 \in S
      BY <1>1, FirstChild, NextChild
    <2> HIDE DEF S
    <2> QED
      BY <1>1, <2>1, UpTo
  <1> QED
    BY <1>1, <1>3, <1>4 DEF K

(* So a walk meets the children and nothing else.                          *)
LEMMA MetAreChildren ==
  ASSUME WellNested(vs), NEW c \in DOMAIN vs, IsCtn(vs[c])
  PROVE  Met(c) = ChildrenOf(vs, c)
  <1> DEFINE K == ChildrenOf(vs, c)
             at == Steps(c)
  <1>1. /\ NVals \in Nat /\ GetNext(vs, c) \in Nat
        /\ Cardinality(K) \in 0..NVals
        /\ \A n \in 0..NVals :
             IF n < Cardinality(K) THEN at[n] \in K /\ Rank(K, at[n]) = n + 1
                                   ELSE at[n] = GetNext(vs, c)
    BY StepIn, StepsMeetChildren DEF StepsTo
  <1>2. K \in SUBSET Nat /\ IsFiniteSet(K) /\ \A j \in K : j < GetNext(vs, c)
    BY SlotIs, ChildrenFinite DEF ChildrenOf, Encloses
  <1>3. Met(c) = {j \in {at[n] : n \in 0..NVals} : j < GetNext(vs, c)}
    BY DEF Met
  <1> HIDE DEF K, at
  <1>4. ASSUME NEW n \in 0..NVals, at[n] < GetNext(vs, c) PROVE at[n] \in K
    BY <1>1, <1>4
  <1>5. ASSUME NEW j \in K PROVE \E n \in 0..NVals : at[n] = j
    <2> DEFINE n == Rank(K, j) - 1
    <2>1. Rank(K, j) \in 1..Cardinality(K)
      BY <1>2, RanksGoUp
    <2>2. n \in 0..NVals /\ n < Cardinality(K) /\ n + 1 = Rank(K, j)
      BY <1>1, <2>1
    <2>3. at[n] \in K /\ Rank(K, at[n]) = Rank(K, j)
      BY <1>1, <2>2
    <2>4. at[n] \in Nat /\ j \in Nat /\ ~(at[n] < j) /\ ~(j < at[n])
      <3> HIDE DEF n
      <3>1. at[n] \in Nat /\ j \in Nat
        BY <1>2, <2>3
      <3>2. /\ at[n] < j => Rank(K, at[n]) < Rank(K, j)
            /\ j < at[n] => Rank(K, j) < Rank(K, at[n])
        BY <1>2, <2>3, RanksGoUp
      <3> QED
        BY <2>1, <2>3, <3>1, <3>2
    <2> HIDE DEF n
    <2> QED
      BY <2>2, <2>4
  <1>6. Met(c) \subseteq K
    BY <1>3, <1>4
  <1>7. K \subseteq Met(c)
    BY <1>2, <1>3, <1>5
  <1> QED
    BY <1>6, <1>7 DEF K

(* From a container around pi the walk goes to the next one, and from pi   *)
(* nowhere.                                                                *)
LEMMA DescendIs ==
  ASSUME WellNested(vs), NEW pi \in DOMAIN vs, IsCtn(vs[pi]), NEW c \in Around(vs, pi)
  PROVE  /\ c = pi => Descend(c, pi) = c
         /\ c # pi => LET d == Descend(c, pi) IN
              /\ d \in Around(vs, pi) /\ c < d
              /\ \A a \in Around(vs, pi) : c < a => d <= a
  <1> DEFINE A == Around(vs, pi)
             L == {a \in A : c < a}
  <1>1. /\ pi \in Nat /\ A \in SUBSET (1..pi) /\ pi \in A
        /\ \A a \in A : a \in DOMAIN vs /\ IsCtn(vs[a]) /\ a \in Nat /\ a <= pi
        /\ \A a \in A : a # pi => Encloses(vs, a, pi)
    <2>1. pi \in Nat /\ A \subseteq 1..pi /\ pi \in A /\ \A a \in A : IsCtn(vs[a])
      BY AroundIs, SlotIs
    <2>2. \A a \in A : a \in DOMAIN vs /\ (a # pi => Encloses(vs, a, pi))
      BY DEF Around
    <2> HIDE DEF A
    <2> QED
      BY <2>1, <2>2
  <1>2. CASE c = pi
    BY <1>2 DEF Descend
  <1>3. CASE c # pi
    <2>1. c \in DOMAIN vs /\ IsCtn(vs[c]) /\ c \in Nat /\ c < pi /\ Encloses(vs, c, pi)
      BY <1>1, <1>3
    <2>2. L \in SUBSET Nat /\ L # {}
      BY <1>1, <2>1
    <2> DEFINE d == Min(L)
    <2>3. d \in L /\ \A a \in L : d <= a
      <3> HIDE DEF L
      <3> QED
        BY <2>2, LeastOf
    <2> HIDE DEF d
    <2>4. d \in A /\ c < d /\ \A a \in A : c < a => d <= a
      BY <2>3
    <2> HIDE DEF A, L
    <2>5. d \in DOMAIN vs /\ IsCtn(vs[d]) /\ d \in Nat /\ d <= pi
          /\ (d # pi => Encloses(vs, d, pi))
      BY <1>1, <2>4
    <2>6. \A e \in DOMAIN vs : /\ e \in Nat /\ GetNext(vs, e) \in Nat /\ e < GetNext(vs, e)
                               /\ ~IsCtn(vs[e]) => GetNext(vs, e) = e + 1
      BY SlotIs
    <2>7. pi < GetNext(vs, d)
      BY <2>5, <2>6 DEF Encloses
    <2>8. Encloses(vs, c, d)
      BY <2>1, <2>4, <2>5, EnclosersNest
    <2>9. ASSUME NEW e \in DOMAIN vs, Encloses(vs, c, e), Encloses(vs, e, d) PROVE FALSE
      <3>1. Encloses(vs, e, pi)
        BY <2>5, <2>9, EnclosesAll
      <3>2. e \in A /\ c < e /\ e < d
        BY <2>9, <3>1 DEF A, Around, Encloses
      <3> QED
        BY <2>4, <2>5, <2>6, <3>2
    <2>10. d \in ChildrenOf(vs, c)
      BY <2>5, <2>8, <2>9 DEF ChildrenOf
    <2>11. ASSUME NEW e \in ChildrenOf(vs, c), e <= pi, pi < GetNext(vs, e) PROVE e = d
      <3>1. /\ e \in DOMAIN vs /\ Encloses(vs, c, e) /\ ~Encloses(vs, d, e)
            /\ e \in Nat
        BY <2>5, <2>6, <2>8, <2>11 DEF ChildrenOf
      <3>2. e # pi => IsCtn(vs[e])
        BY <1>1, <2>6, <2>11, <3>1
      <3>3. e \in A /\ c < e
        <4>1. e # pi => Encloses(vs, e, pi)
          BY <1>1, <2>11, <3>1, <3>2 DEF Encloses
        <4> QED
          BY <3>1, <4>1 DEF A, Around, Encloses
      <3>4. d <= e
        BY <2>4, <3>3
      <3>5. ~(d < e)
        BY <1>1, <2>5, <2>6, <2>7, <2>11, <3>1 DEF Encloses
      <3> QED
        BY <2>5, <3>1, <3>4, <3>5
    <2>12. Toward(c, pi) = {d}
      <3>1. Met(c) = ChildrenOf(vs, c)
        BY <2>1, MetAreChildren
      <3> QED
        BY <2>5, <2>7, <2>10, <2>11, <3>1 DEF Toward
    <2>13. Min({d}) = d
      BY <2>5 DEF Min
    <2>14. Descend(c, pi) = d
      BY <1>3, <2>12, <2>13 DEF Descend
    <2> QED
      BY <1>3, <2>4, <2>14 DEF A
  <1> QED
    BY <1>2, <1>3

(* The walk of __patch_spans comes to every container around pi.           *)
LEMMA PatchWalkIs ==
  ASSUME WellNested(vs), NEW pi \in DOMAIN vs, IsCtn(vs[pi])
  PROVE  PatchWalk(pi) = Around(vs, pi)
  <1> DEFINE A    == Around(vs, pi)
             step == [p \in 0..NVals |-> [x \in A |-> Descend(x, pi)]]
  <1>1. /\ NVals \in Nat /\ pi \in 1..NVals /\ 1 \in A /\ pi \in A
        /\ \A a \in A : a \in Nat /\ 1 <= a /\ a <= pi
    <2>1. NVals \in Nat /\ pi \in 1..NVals
      BY SlotIs DEF NVals
    <2>2. A \subseteq 1..pi /\ 1 \in A /\ pi \in A
      BY AroundIs
    <2> HIDE DEF A
    <2> QED
      BY <2>1, <2>2
  <1>2. \A a \in A : /\ a = pi => Descend(a, pi) = a
                     /\ a # pi => /\ Descend(a, pi) \in A /\ a < Descend(a, pi)
                                  /\ \A b \in A : a < b => Descend(a, pi) <= b
    BY DescendIs
  <1> HIDE DEF A
  <1>3. \A a \in A : Descend(a, pi) \in A
    BY <1>2
  <1>4. PICK f : Stepwise(f, NVals, A, 1, step)
    <2>1. step \in [0..NVals -> [A -> A]]
      BY <1>3
    <2> HIDE DEF step
    <2> QED
      BY <1>1, <2>1, StepwiseFcn
  <1>5. f \in [0..NVals -> A] /\ f[0] = 1
        /\ \A n \in 1..NVals : f[n] = Descend(f[n - 1], pi)
    <2>1. f \in [0..NVals -> A] /\ f[0] = 1
          /\ \A n \in 1..NVals : f[n] = step[n - 1][f[n - 1]]
      BY <1>4 DEF Stepwise
    <2>2. \A n \in 1..NVals : n - 1 \in 0..NVals /\ f[n - 1] \in A
      BY <1>1, <2>1
    <2> QED
      BY <2>1, <2>2
  <1>6. f = [n \in 0..NVals |-> IF n = 0 THEN 1 ELSE Descend(f[n - 1], pi)]
    BY <1>1, <1>5
  <1> DEFINE at == CHOOSE g : g = [n \in 0..NVals |-> IF n = 0 THEN 1 ELSE Descend(g[n - 1], pi)]
  <1>7. at = [n \in 0..NVals |-> IF n = 0 THEN 1 ELSE Descend(at[n - 1], pi)]
    BY <1>6
  <1>8. PatchWalk(pi) = {at[n] : n \in 0..NVals}
    BY DEF PatchWalk
  <1> HIDE DEF at
  <1>9. at[0] = 1 /\ \A n \in 0..(NVals - 1) : at[n + 1] = Descend(at[n], pi)
    <2>1. 0 \in 0..NVals /\ \A n \in 0..(NVals - 1) : n + 1 \in 0..NVals /\ n + 1 # 0
                                                      /\ (n + 1) - 1 = n
      BY <1>1
    <2> QED
      BY <1>7, <2>1
  <1> DEFINE Behind(n) == \A a \in A : a <= at[n] => \E m \in 0..n : at[m] = a
             S == {n \in 0..NVals : /\ at[n] \in A
                                    /\ at[n] = pi \/ n < at[n]
                                    /\ Behind(n)}
  <1>10. 0 \in S
    <2>1. Behind(0)
      BY <1>1, <1>9
    <2> HIDE DEF Behind
    <2> QED
      BY <1>1, <1>9, <2>1
  <1>11. ASSUME NEW n \in 0..(NVals - 1), n \in S PROVE n + 1 \in S
    <2>1. at[n] \in A /\ (at[n] = pi \/ n < at[n]) /\ Behind(n)
      BY <1>11
    <2>2. at[n + 1] = Descend(at[n], pi) /\ n + 1 \in 0..NVals /\ n \in Nat
      BY <1>1, <1>9
    <2>3. CASE at[n] = pi
      <3>1. at[n + 1] = pi
        BY <1>2, <2>1, <2>2, <2>3
      <3>2. Behind(n + 1)
        BY <2>1, <2>2, <2>3, <3>1
      <3> HIDE DEF Behind
      <3> QED
        BY <1>1, <2>2, <3>1, <3>2
    <2>4. CASE at[n] # pi
      <3>1. /\ at[n + 1] \in A /\ at[n] < at[n + 1]
            /\ \A b \in A : at[n] < b => at[n + 1] <= b
        BY <1>2, <2>1, <2>2, <2>4
      <3>2. Behind(n + 1)
        <4> SUFFICES ASSUME NEW a \in A, a <= at[n + 1] PROVE \E m \in 0..(n + 1) : at[m] = a
          OBVIOUS
        <4>1. a \in Nat /\ at[n] \in Nat /\ at[n + 1] \in Nat
          BY <1>1, <2>1, <3>1
        <4>2. CASE a <= at[n]
          <5>1. PICK m \in 0..n : at[m] = a
            BY <2>1, <4>2
          <5>2. m \in 0..(n + 1)
            BY <2>2
          <5> QED
            BY <5>1, <5>2
        <4>3. CASE ~(a <= at[n])
          <5>1. a = at[n + 1]
            BY <3>1, <4>1, <4>3
          <5>2. n + 1 \in 0..(n + 1)
            BY <2>2
          <5> QED
            BY <5>1, <5>2
        <4> QED
          BY <4>2, <4>3
      <3>3. n + 1 < at[n + 1]
        BY <1>1, <2>1, <2>2, <2>4, <3>1
      <3> HIDE DEF Behind
      <3> QED
        BY <2>2, <3>1, <3>2, <3>3
    <2> QED
      BY <2>3, <2>4
  <1>12. \A n \in 0..NVals : n \in S
    <2> HIDE DEF S
    <2> QED
      BY <1>1, <1>10, <1>11, UpTo
  <1>13. \A n \in 0..NVals : at[n] \in A
    BY <1>12
  <1>14. \A a \in A : \E m \in 0..NVals : at[m] = a
    <2>1. NVals \in 0..NVals
      BY <1>1
    <2>2. at[NVals] \in A /\ (at[NVals] = pi \/ NVals < at[NVals]) /\ Behind(NVals)
      BY <1>12, <2>1
    <2>3. at[NVals] = pi
      <3> HIDE DEF Behind
      <3> QED
        BY <1>1, <2>2
    <2> QED
      BY <1>1, <2>2, <2>3
  <1> QED
    BY <1>8, <1>13, <1>14 DEF A

-----------------------------------------------------------------------------
(* The structural edits of the model are the edits of ArenaLemmas.         *)
LEMMA PatchedIs ==
  ASSUME WellNested(vs), NEW i \in DOMAIN vs, IsCtn(vs[i]), NEW n \in Int,
         \A j \in Around(vs, i) : vs[j].ofs + n \in Nat
  PROVE  /\ Patched(i, n) \in Seq(Slot) /\ Len(Patched(i, n)) = Len(vs)
         /\ DOMAIN Patched(i, n) = DOMAIN vs
         /\ \A j \in DOMAIN vs \ Around(vs, i) : Patched(i, n)[j] = vs[j]
         /\ \A j \in Around(vs, i) : /\ Patched(i, n)[j].kind = vs[j].kind
                                     /\ Patched(i, n)[j].len = vs[j].len
                                     /\ Patched(i, n)[j].ofs = vs[j].ofs + n
  <1> DEFINE P == Patched(i, n)
             A == Around(vs, i)
  <1>1. /\ vs \in Seq(Slot) /\ Len(vs) \in Nat /\ DOMAIN vs = 1..Len(vs)
        /\ PatchWalk(i) = A /\ A \subseteq DOMAIN vs
    <2>1. A \subseteq 1..i
      BY AroundIs
    <2> QED
      BY <2>1, SlotIs, PatchWalkIs
  <1>2. P = [j \in DOMAIN vs |-> IF j \in A THEN [vs[j] EXCEPT !.ofs = @ + n] ELSE vs[j]]
    BY <1>1 DEF Patched
  <1> HIDE DEF P, A
  <1>3. \A j \in DOMAIN vs : vs[j] \in Slot
    BY <1>1
  <1>4. \A j \in A : /\ P[j] = [vs[j] EXCEPT !.ofs = @ + n]
                     /\ P[j] \in Slot
                     /\ P[j].kind = vs[j].kind /\ P[j].len = vs[j].len
                     /\ P[j].ofs = vs[j].ofs + n
    <2> TAKE j \in A
    <2>1. P[j] = [vs[j] EXCEPT !.ofs = @ + n] /\ vs[j] \in Slot
      BY <1>1, <1>2, <1>3
    <2>2. vs[j].ofs + n \in Nat
      BY DEF A
    <2> QED
      BY <2>1, <2>2 DEF Slot
  <1>5. \A j \in DOMAIN vs \ A : P[j] = vs[j] /\ P[j] \in Slot
    BY <1>1, <1>2, <1>3
  <1>6. P \in Seq(Slot) /\ Len(P) = Len(vs) /\ DOMAIN P = DOMAIN vs
    <2>1. P \in [1..Len(vs) -> Slot]
      BY <1>1, <1>2, <1>4, <1>5
    <2> QED
      BY <1>1, <2>1
  <1> QED
    BY <1>4, <1>5, <1>6 DEF A, P

Relabelled(w, v, c, ofs, len) ==
  /\ w \in Seq(Slot) /\ Len(w) = Len(v) /\ DOMAIN w = DOMAIN v
  /\ \A j \in DOMAIN v : j # c => w[j] = v[j]
  /\ w[c].kind = v[c].kind /\ w[c].ofs = ofs /\ w[c].len = len

LEMMA BumpLenIs ==
  ASSUME NEW v, v \in Seq(Slot), NEW c \in DOMAIN v, NEW d \in Int, v[c].len + d >= 0
  PROVE  Relabelled(BumpLen(v, c, d), v, c, v[c].ofs, v[c].len + d)
  <1> DEFINE m == Max({0, v[c].len + d})
             w == BumpLen(v, c, d)
  <1>1. v[c] \in Slot /\ v[c].len \in Nat
    BY SlotTyped
  <1>2. m \in {0, v[c].len + d} /\ m >= 0 /\ m >= v[c].len + d
    <2> DEFINE e == v[c].len + d
    <2>1. e \in Int
      BY <1>1
    <2>2. m = Max({0, e})
      OBVIOUS
    <2> HIDE DEF e, m
    <2>3. 0 \in Int
      OBVIOUS
    <2>4. m \in {0, e} /\ m >= 0 /\ m >= e
      BY <2>1, <2>2, <2>3, MaxOf
    <2> QED
      BY <2>4 DEF e
  <1>3. w = [v EXCEPT ![c] = [v[c] EXCEPT !.len = m]]
    BY <1>1 DEF BumpLen, Slot
  <1> HIDE DEF m, w
  <1>4. m \in Nat /\ m = v[c].len + d
    BY <1>1, <1>2
  <1> DEFINE s == [v[c] EXCEPT !.len = m]
  <1>5. s \in Slot /\ s.kind = v[c].kind /\ s.ofs = v[c].ofs /\ s.len = m
    BY <1>1, <1>4 DEF Slot
  <1>6. w = [v EXCEPT ![c] = s]
    BY <1>3
  <1> HIDE DEF s
  <1>7. /\ w \in Seq(Slot) /\ Len(w) = Len(v) /\ DOMAIN w = DOMAIN v
        /\ \A j \in DOMAIN v : j # c => w[j] = v[j]
        /\ w[c] = s
    BY <1>5, <1>6
  <1> QED
    BY <1>4, <1>5, <1>7 DEF w, Relabelled

LEMMA AppendedPutsIn ==
  ASSUME WellNested(vs), NEW i \in DOMAIN vs, IsCtn(vs[i]), NEW new \in Seq(Slot),
         \A m \in DOMAIN new : HoldsNothing(new[m]),
         IF vs[i].kind = "object" THEN Len(new) = 2 /\ new[1].kind = "string"
                                  ELSE Len(new) = 1
  PROVE  LET w == BumpLen(Appended(i, new), i, 1) IN
         /\ PutIn(vs, w, i, Len(new))
         /\ \A m \in 1..Len(new) : w[GetNext(vs, i) + m - 1] = new[m]
  <1> DEFINE n  == Len(new)
             at == GetNext(vs, i)
             P  == Patched(i, n)
             q  == Appended(i, new)
             w  == BumpLen(q, i, 1)
             A  == Around(vs, i)
  <1>1. /\ vs \in Seq(Slot) /\ Len(vs) \in Nat /\ DOMAIN vs = 1..Len(vs)
        /\ i \in Nat /\ i >= 1 /\ i <= Len(vs)
        /\ at \in Nat /\ i < at /\ at <= Len(vs) + 1 /\ vs[i].len \in Nat
    BY SlotIs
  <1>2. n \in Nat /\ (n = 1 \/ n = 2)
    OBVIOUS
  <1>3. /\ \A j \in A : IsCtn(vs[j]) /\ GetNext(vs, j) >= at
        /\ A \subseteq 1..i /\ i \in A
    BY AroundIs
  <1>4. \A j \in A : j \in DOMAIN vs /\ j < at /\ vs[j].ofs + n \in Nat
    <2> TAKE j \in A
    <2>1. j \in DOMAIN vs /\ j < at
      BY <1>1, <1>3
    <2>2. vs[j].ofs \in Nat
      BY <2>1, SlotIs
    <2> QED
      BY <1>2, <2>1, <2>2
  <1>5. /\ P \in Seq(Slot) /\ Len(P) = Len(vs) /\ DOMAIN P = DOMAIN vs
        /\ \A j \in DOMAIN vs \ A : P[j] = vs[j]
        /\ \A j \in A : P[j].kind = vs[j].kind /\ P[j].len = vs[j].len
                        /\ P[j].ofs = vs[j].ofs + n
    <2>1. n \in Int /\ \A j \in Around(vs, i) : vs[j].ofs + n \in Nat
      BY <1>2, <1>4
    <2> HIDE DEF n
    <2> QED
      BY <2>1, PatchedIs
  <1>6. q = SubSeq(P, 1, at - 1) \o new \o SubSeq(P, at, Len(P))
    BY <1>5 DEF Appended, NVals
  <1> HIDE DEF n, at, P, q, w, A
  <1>7. /\ q \in Seq(Slot) /\ Len(q) = Len(P) + n
        /\ \A j \in DOMAIN P : q[Moved(at, n, j)] = P[j]
        /\ \A m \in 1..n : q[at + m - 1] = new[m]
    <2>1. at \in 1..(Len(P) + 1)
      BY <1>1, <1>5
    <2> QED
      BY <1>5, <1>6, <2>1, PieceIn DEF n
  <1>8. DOMAIN q = 1..(Len(vs) + n) /\ i \in DOMAIN q /\ Moved(at, n, i) = i
    BY <1>1, <1>2, <1>5, <1>7 DEF Moved
  <1>9. q[i].kind = vs[i].kind /\ q[i].ofs = vs[i].ofs + n /\ q[i].len = vs[i].len
    BY <1>1, <1>3, <1>5, <1>7, <1>8
  <1>10. /\ w \in Seq(Slot) /\ Len(w) = Len(q)
         /\ \A j \in DOMAIN q : j # i => w[j] = q[j]
         /\ w[i].kind = q[i].kind /\ w[i].ofs = q[i].ofs
         /\ w[i].len = vs[i].len + 1
    <2>1. q[i].len + 1 >= 0 /\ 1 \in Int
      BY <1>1, <1>9
    <2>2. Relabelled(w, q, i, q[i].ofs, q[i].len + 1)
      BY <1>7, <1>8, <2>1, BumpLenIs DEF w
    <2> QED
      BY <1>9, <2>2 DEF Relabelled
  <1>11. \A j \in DOMAIN vs : Moved(at, n, j) \in DOMAIN q /\ (j # i => Moved(at, n, j) # i)
    <2> TAKE j \in DOMAIN vs
    <2>1. j \in Nat /\ j >= 1 /\ j <= Len(vs)
      BY <1>1
    <2>2. Moved(at, n, j) \in 1..(Len(vs) + n)
      <3>1. n \in Nat /\ j \in Nat /\ j >= 1
        BY <1>2, <2>1
      <3>2. \A L \in Nat : j <= L => j \in 1..(L + n) /\ j + n \in 1..(L + n)
        BY ONLY <3>1
      <3> QED
        BY <1>1, <2>1, <3>2 DEF Moved
    <2>3. Moved(at, n, j) = i => j = i
      BY <1>1, <1>2, <2>1 DEF Moved
    <2> QED
      BY <1>8, <2>2, <2>3
  <1>12. \A j \in DOMAIN vs \ A : w[Moved(at, n, j)] = vs[j]
    BY <1>3, <1>5, <1>7, <1>10, <1>11
  <1>13. \A j \in A : /\ j < at
                      /\ w[j].kind = vs[j].kind /\ w[j].ofs = vs[j].ofs + n
                      /\ j # i => w[j].len = vs[j].len
    <2> TAKE j \in A
    <2>1. j \in DOMAIN vs /\ j < at /\ Moved(at, n, j) = j
      BY <1>4 DEF Moved
    <2>2. q[j] = P[j] /\ P[j].kind = vs[j].kind /\ P[j].len = vs[j].len
          /\ P[j].ofs = vs[j].ofs + n
      BY <1>5, <1>7, <2>1
    <2>3. CASE j = i
      BY <1>9, <1>10, <2>1, <2>3
    <2>4. CASE j # i
      BY <1>10, <1>11, <2>1, <2>2, <2>4
    <2> QED
      BY <2>3, <2>4
  <1>14. \A m \in 1..n : w[at + m - 1] = new[m]
    <2> TAKE m \in 1..n
    <2>1. at + m - 1 \in DOMAIN q /\ at + m - 1 # i
      BY <1>1, <1>2, <1>8
    <2> QED
      BY <1>7, <1>10, <2>1
  <1>15. Edited(vs, w, A, i, at, n)
    <2>1. at \in 2..(Len(vs) + 1) /\ i \in 1..(at - 1) /\ Len(w) = Len(vs) + n
      BY <1>1, <1>5, <1>7, <1>10
    <2> QED
      BY <1>1, <1>2, <1>10, <1>12, <1>13, <2>1 DEF Edited
  <1>16. \A k \in at..(at + n - 1) : HoldsNothing(w[k])
    <2> TAKE k \in at..(at + n - 1)
    <2>1. k - at + 1 \in 1..n /\ at + (k - at + 1) - 1 = k
      BY <1>1, <1>2
    <2>2. w[k] = new[k - at + 1]
      BY <1>14, <2>1
    <2> QED
      BY <2>1, <2>2 DEF n
  <1>17. IF vs[i].kind = "object" THEN n = 2 /\ w[at].kind = "string" ELSE n = 1
    <2>1. w[at] = new[1]
      <3>1. 1 \in 1..n /\ at + 1 - 1 = at
        BY <1>1, <1>2
      <3> QED
        BY <1>14, <3>1
    <2> QED
      BY <2>1 DEF n
  <1>18. PutIn(vs, w, i, n)
    BY <1>10, <1>15, <1>16, <1>17 DEF PutIn, at, A
  <1> QED
    BY <1>14, <1>18 DEF w, q, at, n

LEMMA DroppedIs ==
  ASSUME WellNested(vs), NEW i \in DOMAIN vs, IsCtn(vs[i]), NEW at, NEW n,
         Takeable(vs, i, at, n)
  PROVE  /\ Edited(Dropped(i, at, n), vs, Around(vs, i), i, at, n)
         /\ i \in DOMAIN Dropped(i, at, n) /\ Dropped(i, at, n)[i].len = vs[i].len
         /\ Dropped(i, at, n)[i].ofs = vs[i].ofs - n
         /\ Around(vs, i) \subseteq DOMAIN Dropped(i, at, n)
  <1> DEFINE P  == Patched(i, -n)
             u  == Dropped(i, at, n)
             A  == Around(vs, i)
  <1>1. /\ vs \in Seq(Slot) /\ Len(vs) \in Nat /\ DOMAIN vs = 1..Len(vs)
        /\ i \in Nat /\ i >= 1 /\ i <= Len(vs)
        /\ GetNext(vs, i) \in Nat /\ GetNext(vs, i) <= Len(vs) + 1
    BY SlotIs
  <1>2. /\ at \in Nat /\ n \in Nat /\ i < at /\ at + n <= GetNext(vs, i)
    BY DEF Takeable
  <1>3. /\ \A j \in A : IsCtn(vs[j]) /\ GetNext(vs, j) >= GetNext(vs, i)
        /\ A \subseteq 1..i /\ i \in A
    BY AroundIs
  <1>4. \A j \in A : /\ j \in DOMAIN vs /\ j < at /\ vs[j].ofs - n \in Nat
                     /\ vs[j].ofs \in Nat
    <2> TAKE j \in A
    <2>1. j \in DOMAIN vs /\ j < at /\ j \in Nat
      BY <1>1, <1>2, <1>3
    <2>2. vs[j].ofs \in Nat /\ GetNext(vs, j) = j + vs[j].ofs
      BY <1>3, <2>1, SlotIs
    <2>3. j + vs[j].ofs >= GetNext(vs, i)
      BY <1>3, <2>2
    <2> HIDE DEF A
    <2>4. \A o \in Nat : j + o >= GetNext(vs, i) => o - n \in Nat
      BY ONLY <1>1, <1>2, <2>1
    <2> QED
      BY <2>1, <2>2, <2>3, <2>4
  <1>5. /\ P \in Seq(Slot) /\ Len(P) = Len(vs) /\ DOMAIN P = DOMAIN vs
        /\ \A j \in DOMAIN vs \ A : P[j] = vs[j]
        /\ \A j \in A : P[j].kind = vs[j].kind /\ P[j].len = vs[j].len
                        /\ P[j].ofs = vs[j].ofs - n
    <2> DEFINE m == -n
    <2>1. m \in Int /\ \A j \in Around(vs, i) : vs[j].ofs + m \in Nat
      BY <1>2, <1>4
    <2>2. P = Patched(i, m)
      OBVIOUS
    <2>3. \A j \in A : vs[j].ofs + m = vs[j].ofs - n
      BY <1>2, <1>4
    <2> HIDE DEF m, P
    <2>4. /\ P \in Seq(Slot) /\ Len(P) = Len(vs) /\ DOMAIN P = DOMAIN vs
          /\ \A j \in DOMAIN vs \ A : P[j] = vs[j]
          /\ \A j \in A : P[j].kind = vs[j].kind /\ P[j].len = vs[j].len
                          /\ P[j].ofs = vs[j].ofs + m
      BY <2>1, <2>2, PatchedIs
    <2> QED
      BY <2>3, <2>4
  <1>6. u = SubSeq(P, 1, at - 1) \o SubSeq(P, at + n, Len(P))
    <2>1. Len(P) = NVals
      BY <1>5 DEF NVals
    <2>2. u = SubSeq(P, 1, at - 1) \o SubSeq(P, at + n, NVals)
      BY DEF Dropped
    <2> HIDE DEF P, u
    <2> QED
      BY <2>1, <2>2
  <1> HIDE DEF P, u, A
  <1>7. /\ u \in Seq(Slot) /\ Len(u) = Len(P) - n
        /\ \A j \in DOMAIN u : u[j] = P[Moved(at, n, j)]
    <2>1. at \in Nat /\ n \in Nat /\ at >= 1 /\ at + n - 1 <= Len(P) /\ P \in Seq(Slot)
      BY <1>1, <1>2, <1>5
    <2>2. LET q == SubSeq(P, 1, at - 1) \o SubSeq(P, at + n, Len(P)) IN
          /\ q \in Seq(Slot) /\ Len(q) = Len(P) - n
          /\ \A j \in DOMAIN q : q[j] = P[Moved(at, n, j)]
      BY <2>1, PieceOut
    <2> QED
      BY <1>6, <2>2
  <1>8. /\ Len(vs) = Len(u) + n /\ Len(u) \in Nat /\ DOMAIN u = 1..Len(u)
        /\ at \in 2..(Len(u) + 1) /\ i \in 1..(at - 1)
    BY <1>1, <1>2, <1>5, <1>7
  <1>9. \A j \in DOMAIN u \ A : vs[Moved(at, n, j)] = u[j]
    <2> TAKE j \in DOMAIN u \ A
    <2>0. j \in 1..Len(u)
      BY <1>8
    <2>1. Moved(at, n, j) \in 1..(Len(u) + n)
      BY <1>2, <1>8, <2>0, MovedInto
    <2>2. Moved(at, n, j) \notin A
      <3> SUFFICES ASSUME Moved(at, n, j) \in A PROVE FALSE
        OBVIOUS
      <3>1. Moved(at, n, j) < at
        BY <1>4
      <3>2. Moved(at, n, j) = j
        BY <1>2, <1>8, <2>0, <3>1, MovedInto
      <3> QED
        BY <3>2
    <2>3. Moved(at, n, j) \in DOMAIN vs \ A
      BY <1>1, <1>8, <2>1, <2>2
    <2> QED
      BY <1>5, <1>7, <2>3
  <1>10. \A j \in A : /\ j < at /\ j \in DOMAIN u
                      /\ vs[j].kind = u[j].kind /\ vs[j].ofs = u[j].ofs + n
                      /\ vs[j].len = u[j].len /\ u[j].ofs = vs[j].ofs - n
    <2> TAKE j \in A
    <2>1. j \in DOMAIN vs /\ j < at /\ vs[j].ofs - n \in Nat /\ vs[j].ofs \in Nat
      BY <1>4
    <2>2. j \in DOMAIN u /\ Moved(at, n, j) = j
      BY <1>1, <1>2, <1>8, <2>1 DEF Moved
    <2>3. u[j] = P[j]
      BY <1>7, <2>2
    <2>4. u[j].kind = vs[j].kind /\ u[j].len = vs[j].len /\ u[j].ofs = vs[j].ofs - n
      BY <1>5, <2>3
    <2>5. \A o \in Nat : o = (o - n) + n
      BY <1>2
    <2>6. vs[j].ofs = u[j].ofs + n
      BY ONLY <2>1, <2>4, <2>5
    <2> QED
      BY <2>1, <2>2, <2>4, <2>6
  <1>11. Edited(u, vs, A, i, at, n)
    BY <1>1, <1>2, <1>7, <1>8, <1>9, <1>10 DEF Edited
  <1> QED
    BY <1>3, <1>10, <1>11 DEF u, A

(* The length of the container is then set.                                *)
LEMMA RelabelledEdited ==
  ASSUME NEW u, NEW v, NEW w, NEW A, NEW p, NEW at, NEW n, NEW len,
         Edited(v, w, A, p, at, n), p \in A, A \subseteq DOMAIN v,
         Relabelled(u, v, p, v[p].ofs, len)
  PROVE  Edited(u, w, A, p, at, n) /\ u[p].len = len
  <1>1. /\ v \in Seq(Slot) /\ w \in Seq(Slot)
        /\ n \in Nat /\ at \in 2..(Len(v) + 1) /\ Len(w) = Len(v) + n
        /\ p \in 1..(at - 1)
        /\ \A j \in DOMAIN v \ A : w[Moved(at, n, j)] = v[j]
        /\ \A j \in A :
             /\ j < at
             /\ w[j].kind = v[j].kind /\ w[j].ofs = v[j].ofs + n
             /\ j # p => w[j].len = v[j].len
    BY DEF Edited
  <1>2. /\ u \in Seq(Slot) /\ Len(u) = Len(v) /\ DOMAIN u = DOMAIN v
        /\ \A j \in DOMAIN v : j # p => u[j] = v[j]
        /\ u[p].kind = v[p].kind /\ u[p].ofs = v[p].ofs /\ u[p].len = len
    BY DEF Relabelled
  <1>3. \A j \in DOMAIN u \ A : w[Moved(at, n, j)] = u[j]
    BY <1>1, <1>2
  <1>4. Len(v) \in Nat /\ DOMAIN v = 1..Len(v)
    BY <1>1
  <1>5. \A j \in A :
          /\ j < at
          /\ w[j].kind = u[j].kind /\ w[j].ofs = u[j].ofs + n
          /\ j # p => w[j].len = u[j].len
    <2> TAKE j \in A
    <2>1. /\ j < at
          /\ w[j].kind = v[j].kind /\ w[j].ofs = v[j].ofs + n
          /\ j # p => w[j].len = v[j].len
      BY <1>1
    <2>2. CASE j = p
      BY <1>2, <2>1, <2>2
    <2>3. CASE j # p
      <3>1. u[j] = v[j]
        BY <1>2, <2>3
      <3> QED
        BY <2>1, <2>3, <3>1
    <2> QED
      BY <2>2, <2>3
  <1>6. /\ u \in Seq(Slot) /\ w \in Seq(Slot)
        /\ n \in Nat /\ at \in 2..(Len(u) + 1) /\ Len(w) = Len(u) + n
        /\ p \in 1..(at - 1) /\ u[p].len = len
    BY ONLY <1>1, <1>2
  <1> QED
    BY <1>3, <1>5, <1>6 DEF Edited

LEMMA ErasedTakesOut ==
  ASSUME WellFormedArena(vs), NEW i \in DOMAIN vs, IsCtn(vs[i]), NEW at, NEW n,
         Takeable(vs, i, at, n),
         Cardinality(Added(vs, i, at, n)) = (IF vs[i].kind = "object" THEN 2 ELSE 1)
  PROVE  TakenOut(vs, BumpLen(Dropped(i, at, n), i, -1), i, at, n)
  <1> DEFINE u == Dropped(i, at, n)
             w == BumpLen(u, i, -1)
             K == Added(vs, i, at, n)
             S == ChildrenOf(vs, i)
  <1>1. WellNested(vs) /\ CountsChildren(vs, i)
    BY DEF WellFormedArena
  <1>2. /\ Edited(u, vs, Around(vs, i), i, at, n)
        /\ i \in DOMAIN u /\ u[i].len = vs[i].len
        /\ Around(vs, i) \subseteq DOMAIN u
    BY <1>1, DroppedIs
  <1>3. vs \in Seq(Slot) /\ vs[i].len \in Nat /\ u \in Seq(Slot)
    BY <1>1, <1>2, SlotIs DEF Edited
  <1>4. vs[i].len >= 1
    <2>1. IsFiniteSet(S) /\ Cardinality(S) \in Nat
      BY <1>3, ChildrenFinite
    <2>2. K \in SUBSET S
      BY DEF Added
    <2>3. Cardinality(K) <= Cardinality(S)
      BY <2>1, <2>2, FS_Subset
    <2>4. Cardinality(S) = IF vs[i].kind = "object" THEN 2 * vs[i].len ELSE vs[i].len
      BY <1>1 DEF CountsChildren
    <2> HIDE DEF S, K
    <2>5. Cardinality(K) = (IF vs[i].kind = "object" THEN 2 ELSE 1)
      BY DEF K
    <2> QED
      BY <1>3, <2>3, <2>4, <2>5
  <1> DEFINE m == vs[i].len - 1
  <1>5. Relabelled(w, u, i, u[i].ofs, m)
    <2> DEFINE d == -1
    <2>1. d \in Int /\ u[i].len + d = m /\ u[i].len + d >= 0
      BY <1>2, <1>3, <1>4
    <2>2. w = BumpLen(u, i, d)
      OBVIOUS
    <2> HIDE DEF d, w, u, m
    <2>3. Relabelled(w, u, i, u[i].ofs, u[i].len + d)
      BY <1>2, <1>3, <2>1, <2>2, BumpLenIs
    <2> QED
      BY <2>1, <2>3
  <1>6. i \in Around(vs, i)
    BY DEF Around
  <1> HIDE DEF u, w, m
  <1>7. Edited(w, vs, Around(vs, i), i, at, n) /\ w[i].len = m
    BY <1>2, <1>5, <1>6, RelabelledEdited
  <1>8. TakenOut(vs, w, i, at, n)
    BY <1>7 DEF TakenOut, Takeable, m
  <1> QED
    BY <1>8 DEF w, u

LEMMA EmptiedTakesOut ==
  ASSUME WellFormedArena(vs), NEW i \in DOMAIN vs, IsCtn(vs[i])
  PROVE  TakenOut(vs, Emptied(i), i, i + 1, vs[i].ofs - 1)
  <1> DEFINE at == i + 1
             n  == vs[i].ofs - 1
             u  == Dropped(i, at, n)
             w  == Emptied(i)
             A  == Around(vs, i)
  <1>1. WellNested(vs)
    BY DEF WellFormedArena
  <1>2. Takeable(vs, i, at, n) /\ Added(vs, i, at, n) = ChildrenOf(vs, i)
    BY <1>1, AllTakeable
  <1>3. /\ Edited(u, vs, A, i, at, n)
        /\ i \in DOMAIN u /\ u[i].ofs = vs[i].ofs - n /\ A \subseteq DOMAIN u
    <2> HIDE DEF at, n
    <2> QED
      BY <1>1, <1>2, DroppedIs
  <1>4. vs[i].ofs \in Nat /\ u \in Seq(Slot)
    BY <1>1, <1>3, SlotIs DEF Edited
  <1>5. u[i].ofs = 1
    <2>1. \A o \in Nat : o - (o - 1) = 1
      OBVIOUS
    <2> HIDE DEF u
    <2> QED
      BY <1>3, <1>4, <2>1
  <1>6. w = [u EXCEPT ![i].len = 0, ![i].ofs = 1]
    BY DEF Emptied
  <1> HIDE DEF at, n, u, w, A
  <1>7. Relabelled(w, u, i, u[i].ofs, 0)
    <2> DEFINE s == [u[i] EXCEPT !.len = 0, !.ofs = 1]
    <2>1. u[i] \in Slot
      BY <1>3, <1>4
    <2>2. s \in Slot /\ s.kind = u[i].kind /\ s.ofs = 1 /\ s.len = 0
      BY <2>1 DEF Slot
    <2>3. w = [u EXCEPT ![i] = s]
      BY <1>3, <1>4, <1>6, <2>1 DEF Slot
    <2> HIDE DEF s
    <2> QED
      BY <1>3, <1>4, <1>5, <2>2, <2>3 DEF Relabelled
  <1>8. i \in A
    BY DEF Around, A
  <1>9. Edited(w, vs, A, i, at, n) /\ w[i].len = 0
    BY <1>3, <1>7, <1>8, RelabelledEdited
  <1>10. TakenOut(vs, w, i, at, n)
    BY <1>2, <1>9 DEF TakenOut, Takeable, A
  <1> QED
    BY <1>10 DEF at, n, w

-----------------------------------------------------------------------------
(* What the calls that erase take out.                                     *)
LEMMA FoundKey ==
  ASSUME WellFormedArena(vs), NEW i \in DOMAIN vs, vs[i].kind = "object", NEW key,
         FindKey(i, key) # 0
  PROVE  LET k == FindKey(i, key) IN
         /\ k \in ChildrenOf(vs, i) /\ Rank(ChildrenOf(vs, i), k) % 2 = 1
         /\ k \in DOMAIN vs /\ vs[k].kind = "string"
  <1> DEFINE hits == {j \in Keys(i) : TextOf(j) = key}
             k == FindKey(i, key)
  <1>1. WellNested(vs) /\ IsCtn(vs[i]) /\ Keyed(vs, i)
    BY DEF WellFormedArena, IsCtn
  <1>2. Kids(i) = ChildrenOf(vs, i)
    BY <1>1, KidsAre
  <1>3. hits \in SUBSET Nat
    <2>1. vs \in Seq(Slot)
      BY <1>1 DEF WellNested
    <2>2. ChildrenOf(vs, i) \in SUBSET Nat
      BY <2>1, ChildrenFinite
    <2> QED
      BY <1>2, <2>2 DEF Keys
  <1>4. hits # {} /\ k = Min(hits)
    BY DEF FindKey
  <1>5. k \in hits
    <2> HIDE DEF hits, k
    <2> QED
      BY <1>3, <1>4, LeastOf
  <1>6. k \in ChildrenOf(vs, i) /\ Rank(ChildrenOf(vs, i), k) % 2 = 1
    BY <1>2, <1>5 DEF Keys
  <1> HIDE DEF k
  <1>7. k \in DOMAIN vs /\ vs[k].kind = "string"
    BY <1>1, <1>6 DEF Keyed, ChildrenOf
  <1> QED
    BY <1>6, <1>7 DEF k

LEMMA ElementIs ==
  ASSUME WellFormedArena(vs), NEW i \in DOMAIN vs, vs[i].kind = "array", NEW n \in Nat,
         n < vs[i].len
  PROVE  Element(i, n) \in ChildrenOf(vs, i)
  <1> DEFINE S == ChildrenOf(vs, i)
  <1>1. WellNested(vs) /\ IsCtn(vs[i]) /\ CountsChildren(vs, i)
    BY DEF WellFormedArena, IsCtn
  <1>2. Kids(i) = S
    BY <1>1, KidsAre
  <1>3. Cardinality(S) = vs[i].len /\ vs[i].len \in Nat
    BY <1>1, SlotIs DEF CountsChildren
  <1>4. n + 1 \in 1..Cardinality(S)
    BY <1>3
  <1>5. S \in SUBSET (0..Len(vs)) /\ Len(vs) \in Nat
    <2>1. DOMAIN vs = 1..Len(vs) /\ Len(vs) \in Nat
      BY <1>1, SlotIs
    <2> QED
      BY <2>1 DEF ChildrenOf
  <1> DEFINE m == n + 1
  <1> HIDE DEF S, m
  <1>6. \E j \in S : Rank(S, j) = m
    BY <1>4, <1>5, RankOnto DEF m
  <1>7. Element(i, n) = CHOOSE j \in S : Rank(S, j) = m
    BY <1>2, <1>4 DEF Element, Sorted, m
  <1> QED
    BY <1>6, <1>7 DEF S

-----------------------------------------------------------------------------
(* One slot's mark.                                                        *)
MarkedAt(s, p) ==
  (s.kind = "string" /\ s.sub = "noesc") =>
    ~NeedsEscape(SubSeq(p, s.ofs, s.ofs + s.len - 1))

LEMMA SubNeeds ==
  ASSUME NEW p \in Seq(Chars), NEW a \in Nat, NEW l \in Nat, a >= 1, a + l <= Len(p) + 1
  PROVE  NeedsEscape(SubSeq(p, a, a + l - 1)) <=> \E m \in a..(a + l - 1) : p[m] \in Escaped
  <1> DEFINE t == SubSeq(p, a, a + l - 1)
  <1>1. DOMAIN t = 1..l /\ \A n \in 1..l : t[n] = p[a + n - 1]
    <2>1. /\ t \in Seq(Chars)
          /\ Len(t) = IF a <= a + l - 1 THEN (a + l - 1) - a + 1 ELSE 0
          /\ \A n \in 1..Len(t) : t[n] = p[a + n - 1]
      <3>1. a + l - 1 \in Int /\ (a <= a + l - 1 => a + l - 1 <= Len(p))
        OBVIOUS
      <3> DEFINE b == a + l - 1
      <3> HIDE DEF b
      <3>2. b \in Int /\ (a <= b => b <= Len(p))
        BY <3>1 DEF b
      <3>3. /\ SubSeq(p, a, b) \in Seq(Chars)
            /\ Len(SubSeq(p, a, b)) = IF a <= b THEN b - a + 1 ELSE 0
            /\ \A n \in 1..Len(SubSeq(p, a, b)) : SubSeq(p, a, b)[n] = p[a + n - 1]
        BY <3>2
      <3> QED
        BY <3>3 DEF b
    <2> QED
      BY <2>1
  <1> HIDE DEF t
  <1>2. ASSUME NEW m \in a..(a + l - 1)
        PROVE  m - a + 1 \in DOMAIN t /\ t[m - a + 1] = p[m]
    <2>1. m - a + 1 \in 1..l /\ a + (m - a + 1) - 1 = m
      OBVIOUS
    <2> QED
      BY <1>1, <2>1
  <1>3. ASSUME NEW n \in DOMAIN t PROVE a + n - 1 \in a..(a + l - 1) /\ t[n] = p[a + n - 1]
    BY <1>1
  <1>4. NeedsEscape(t) <=> \E m \in a..(a + l - 1) : p[m] \in Escaped
    BY <1>2, <1>3 DEF NeedsEscape
  <1> QED
    BY <1>4 DEF t

(* A mark stays right where the text stays.                                *)
LEMMA MarkCarries ==
  ASSUME NEW p \in Seq(Chars), NEW q \in Seq(Chars), Len(p) <= Len(q), NEW s \in Slot,
         s.kind = "string" => s.ofs >= 1 /\ s.ofs + s.len <= Len(p) + 1,
         \A m \in s.ofs..(s.ofs + s.len - 1) : q[m] = p[m],
         MarkedAt(s, p)
  PROVE  MarkedAt(s, q)
  <1> SUFFICES ASSUME s.kind = "string", s.sub = "noesc"
               PROVE  ~NeedsEscape(SubSeq(q, s.ofs, s.ofs + s.len - 1))
    BY DEF MarkedAt
  <1>1. s.ofs \in Nat /\ s.len \in Nat /\ s.ofs >= 1 /\ s.ofs + s.len <= Len(p) + 1
    BY DEF Slot
  <1>2. s.ofs + s.len <= Len(q) + 1
    <2>1. Len(p) \in Nat /\ Len(q) \in Nat
      OBVIOUS
    <2> QED
      BY <1>1, <2>1
  <1>3. ~NeedsEscape(SubSeq(p, s.ofs, s.ofs + s.len - 1))
    BY DEF MarkedAt
  <1> DEFINE a == s.ofs
             l == s.len
  <1> HIDE DEF a, l
  <1>4. /\ a \in Nat /\ l \in Nat /\ a >= 1 /\ a + l <= Len(p) + 1 /\ a + l <= Len(q) + 1
        /\ ~NeedsEscape(SubSeq(p, a, a + l - 1))
        /\ \A m \in a..(a + l - 1) : q[m] = p[m]
    BY <1>1, <1>2, <1>3 DEF a, l
  <1>5. ~\E m \in a..(a + l - 1) : p[m] \in Escaped
    BY <1>4, SubNeeds
  <1>6. ~\E m \in a..(a + l - 1) : q[m] \in Escaped
    BY <1>4, <1>5
  <1>7. NeedsEscape(SubSeq(q, a, a + l - 1)) <=> \E m \in a..(a + l - 1) : q[m] \in Escaped
    BY <1>4, SubNeeds
  <1> QED
    BY <1>6, <1>7 DEF a, l

(* A pool q carries on a pool p for arena w: it is as long or longer, and  *)
(* every text but those of the slots in new reads as before.               *)
CarriedOn(w, p, q, new) ==
  /\ Len(p) <= Len(q)
  /\ \A i \in DOMAIN w : (IsText(w[i]) /\ i \notin new) =>
       \A m \in w[i].ofs..(w[i].ofs + w[i].len - 1) : q[m] = p[m]

(* Storage r has room for the texts of arena v, and for an arena of n      *)
(* slots over a pool of m bytes.                                           *)
RoomFor(r, v, n, m) ==
  /\ r \in StoreType
  /\ ~r.borrowed => n <= r.vcap
  /\ r.hasPool => /\ m <= r.pcap
                  /\ \A i \in DOMAIN v : IsText(v[i]) => v[i].ofs + v[i].len <= r.pcap

(* An edit keeps a document sound when its new texts do.                   *)
LEMMA EditSound ==
  ASSUME NEW v, NEW p, NEW st, Sound(v, p, st),
         NEW w, WellFormedArena(w), NEW q \in Seq(Chars), TextsApart(w, q),
         NEW f, NEW new, From(v, w, f, new), CarriedOn(w, p, q, new),
         NEW r, RoomFor(r, v, Len(w), Len(q)),
         \A i \in DOMAIN w : (IsText(w[i]) /\ i \in new) =>
           /\ r.hasPool => w[i].ofs + w[i].len <= r.pcap
           /\ ~Aliased => MarkedAt(w[i], q)
  PROVE  Sound(w, q, r)
  <1>1. /\ v \in Seq(Slot) /\ w \in Seq(Slot) /\ p \in Seq(Chars) /\ Len(p) \in Nat
        /\ TextsApart(v, p) /\ (~Aliased => Marked(v, p))
    BY DEF Sound, WellFormedArena, WellNested
  <1>2. \A i \in DOMAIN w : (IsText(w[i]) /\ i \notin new) => f[i] \in DOMAIN v /\ w[i] = v[f[i]]
    BY DEF From
  <1>3. Rooms(w, Len(q), r)
    <2>1. ASSUME r.hasPool, NEW i \in DOMAIN w, IsText(w[i])
          PROVE  w[i].ofs + w[i].len <= r.pcap
      <3>1. CASE i \in new
        BY <2>1, <3>1
      <3>2. CASE i \notin new
        <4>1. f[i] \in DOMAIN v /\ w[i] = v[f[i]] /\ IsText(v[f[i]])
          BY <1>2, <2>1, <3>2
        <4>2. v[f[i]].ofs + v[f[i]].len <= r.pcap
          BY <2>1, <4>1 DEF RoomFor
        <4> QED
          BY ONLY <4>1, <4>2
      <3> QED
        BY <3>1, <3>2
    <2> QED
      BY <2>1 DEF Rooms, RoomFor
  <1>4. ASSUME ~Aliased PROVE Marked(w, q)
    <2>1. ASSUME NEW i \in DOMAIN w, IsText(w[i]) PROVE MarkedAt(w[i], q)
      <3>1. CASE i \in new
        BY <1>4, <2>1, <3>1
      <3>2. CASE i \notin new
        <4>1. f[i] \in DOMAIN v /\ w[i] = v[f[i]] /\ IsText(v[f[i]])
          BY <1>2, <2>1, <3>2
        <4>2. v[f[i]].ofs >= 1 /\ v[f[i]].ofs + v[f[i]].len <= Len(p) + 1
          BY <1>1, <4>1, TextsAre
        <4>3. MarkedAt(v[f[i]], p)
          BY <1>1, <1>4, <4>1 DEF Marked, MarkedAt
        <4>4. /\ w[i].ofs >= 1 /\ w[i].ofs + w[i].len <= Len(p) + 1 /\ MarkedAt(w[i], p)
          BY ONLY <4>1, <4>2, <4>3
        <4>5. /\ w[i] \in Slot /\ Len(p) <= Len(q)
              /\ \A m \in w[i].ofs..(w[i].ofs + w[i].len - 1) : q[m] = p[m]
          <5>1. w[i] \in Slot
            BY <1>1, SlotTyped
          <5> QED
            BY <2>1, <3>2, <5>1 DEF CarriedOn
        <4> QED
          BY <1>1, <4>4, <4>5, MarkCarries
      <3> QED
        BY <3>1, <3>2
    <2> QED
      BY <2>1 DEF Marked, MarkedAt, IsText
  <1> QED
    BY <1>3, <1>4 DEF Sound, RoomFor

-----------------------------------------------------------------------------
(* The pool after a text is put at its end, or over another one.           *)
LEMMA CharCat ==
  ASSUME NEW s \in Seq(Chars), NEW t \in Seq(Chars)
  PROVE  /\ s \o t \in Seq(Chars) /\ Len(s \o t) = Len(s) + Len(t)
         /\ \A m \in 1..Len(s) : (s \o t)[m] = s[m]
         /\ \A m \in 1..Len(t) : (s \o t)[Len(s) + m] = t[m]
  OBVIOUS

LEMMA PutIs ==
  ASSUME pool \in Seq(Chars), NEW t \in Seq(Chars)
  PROVE  /\ PoolPut(t) \in Seq(Chars)
         /\ Len(PoolPut(t)) = Len(pool) + Len(t) + 1 /\ PutAt = Len(pool) + 1
         /\ \A m \in 1..Len(pool) : PoolPut(t)[m] = pool[m]
         /\ \A m \in 1..Len(t) : PoolPut(t)[PutAt + m - 1] = t[m]
         /\ IsPrefix(pool, PoolPut(t))
  <1> DEFINE e == Append(t, Nul)
             q == pool \o e
  <1>1. Nul \in Chars
    BY TextsAssumption
  <1>2. e \in Seq(Chars) /\ Len(e) = Len(t) + 1 /\ \A m \in 1..Len(t) : e[m] = t[m]
    BY <1>1
  <1> HIDE DEF e
  <1>3. /\ q \in Seq(Chars) /\ Len(q) = Len(pool) + Len(e)
        /\ \A m \in 1..Len(pool) : q[m] = pool[m]
        /\ \A m \in 1..Len(e) : q[Len(pool) + m] = e[m]
    BY <1>2, CharCat
  <1> HIDE DEF q
  <1>4. PoolPut(t) = q
    BY DEF PoolPut, q, e
  <1>5. Len(t) \in Nat /\ Len(pool) \in Nat
    OBVIOUS
  <1>6. \A m \in 1..Len(t) : q[PutAt + m - 1] = t[m]
    <2> TAKE m \in 1..Len(t)
    <2>1. PutAt + m - 1 = Len(pool) + m /\ m \in 1..Len(e)
      BY <1>2, <1>5 DEF PutAt
    <2> QED
      BY <1>2, <1>3, <2>1
  <1>7. IsPrefix(pool, q)
    <2>1. Len(pool) <= Len(q)
      BY <1>2, <1>3, <1>5
    <2>2. SubSeq(pool, 1, Len(pool)) = SubSeq(q, 1, Len(pool))
      BY <1>3, <1>5, <2>1
    <2> QED
      BY <1>5, <2>1, <2>2 DEF IsPrefix
  <1> QED
    BY <1>2, <1>3, <1>4, <1>5, <1>6, <1>7 DEF PutAt

LEMMA OverwrittenIs ==
  ASSUME pool \in Seq(Chars), NEW t \in Seq(Chars), NEW o \in Nat, o >= 1,
         o + Len(t) <= Len(pool) + 1
  PROVE  /\ Overwritten(o, t) \in Seq(Chars) /\ Len(Overwritten(o, t)) = Len(pool)
         /\ \A m \in DOMAIN pool : (m < o \/ m > o + Len(t)) => Overwritten(o, t)[m] = pool[m]
         /\ \A m \in 1..Len(t) : Overwritten(o, t)[o + m - 1] = t[m]
  <1> DEFINE q == Overwritten(o, t)
  <1>1. Len(pool) \in Nat /\ Len(t) \in Nat /\ DOMAIN pool = 1..Len(pool)
    OBVIOUS
  <1>2. q = [n \in DOMAIN pool |->
               IF n \in o..(o + Len(t) - 1) THEN t[n - o + 1]
               ELSE IF n = o + Len(t) THEN Nul ELSE pool[n]]
    BY DEF Overwritten
  <1> HIDE DEF q
  <1>3. \A n \in 1..Len(pool) : q[n] \in Chars
    <2> TAKE n \in 1..Len(pool)
    <2>1. n \in o..(o + Len(t) - 1) => t[n - o + 1] \in Chars
      <3>1. n \in o..(o + Len(t) - 1) => n - o + 1 \in 1..Len(t)
        BY <1>1
      <3> QED
        BY <3>1
    <2>2. Nul \in Chars /\ pool[n] \in Chars
      BY TextsAssumption
    <2> QED
      BY <1>1, <1>2, <2>1, <2>2
  <1>4. q \in Seq(Chars) /\ Len(q) = Len(pool)
    <2>1. DOMAIN q = 1..Len(pool) /\ q = [n \in 1..Len(pool) |-> q[n]]
      BY <1>1, <1>2
    <2>2. q \in [1..Len(pool) -> Chars]
      BY <1>3, <2>1
    <2>3. Len(pool) \in Nat
      BY <1>1
    <2> QED
      BY ONLY <2>2, <2>3
  <1>5. \A m \in DOMAIN pool : (m < o \/ m > o + Len(t)) => q[m] = pool[m]
    <2> SUFFICES ASSUME NEW m \in DOMAIN pool, m < o \/ m > o + Len(t)
                 PROVE  q[m] = pool[m]
      OBVIOUS
    <2>1. m \notin o..(o + Len(t) - 1) /\ m # o + Len(t)
      BY <1>1
    <2> QED
      BY <1>2, <2>1
  <1>6. \A m \in 1..Len(t) : q[o + m - 1] = t[m]
    <2> TAKE m \in 1..Len(t)
    <2>1. /\ o + m - 1 \in 1..Len(pool) /\ o + m - 1 \in o..(o + Len(t) - 1)
          /\ (o + m - 1) - o + 1 = m
      BY <1>1
    <2> QED
      BY <1>1, <1>2, <2>1
  <1> QED
    BY <1>4, <1>5, <1>6 DEF q

(* The mark a text is given is right.                                      *)
LEMMA NewMark ==
  ASSUME NEW t \in Seq(Chars), NEW q \in Seq(Chars), NEW o \in Nat, o >= 1,
         o + Len(t) <= Len(q) + 1, \A m \in 1..Len(t) : q[o + m - 1] = t[m]
  PROVE  MarkedAt(StringSlot(t, StringSub(t), o), q)
  <1> DEFINE l == Len(t)
  <1>1. l \in Nat
    OBVIOUS
  <1>2. SUFFICES ASSUME ~NeedsEscape(t) PROVE ~NeedsEscape(SubSeq(q, o, o + l - 1))
    BY DEF MarkedAt, StringSlot, StringSub
  <1>3. NeedsEscape(SubSeq(q, o, o + l - 1)) <=> \E m \in o..(o + l - 1) : q[m] \in Escaped
    <2> HIDE DEF l
    <2>1. o + l <= Len(q) + 1
      BY DEF l
    <2> QED
      BY <1>1, <2>1, SubNeeds
  <1>4. ASSUME NEW m \in o..(o + l - 1), q[m] \in Escaped PROVE FALSE
    <2>1. m - o + 1 \in 1..l /\ o + (m - o + 1) - 1 = m
      BY <1>1
    <2>2. q[m] = t[m - o + 1]
      BY <2>1
    <2> QED
      BY <1>2, <1>4, <2>1, <2>2 DEF NeedsEscape
  <1> QED
    BY <1>3, <1>4

-----------------------------------------------------------------------------
(* One slot is rewritten, with the pool as it was, with a new text behind  *)
(* all others, or with one over the text that stood there.                 *)
LEMMA IInvTypes ==
  ASSUME IInv
  PROVE  /\ WellNested(vs) /\ WellFormedArena(vs) /\ vs \in Seq(Slot) /\ Len(vs) \in Nat
         /\ DOMAIN vs = 1..Len(vs) /\ NVals = Len(vs)
         /\ pool \in Seq(Chars) /\ Len(pool) \in Nat
         /\ TextsApart(vs, pool) /\ (~Aliased => Marked(vs, pool))
         /\ store \in StoreType /\ store.vcap \in Nat /\ store.pcap \in Nat
         /\ store.borrowed \in BOOLEAN /\ store.hasPool \in BOOLEAN
         /\ ~store.borrowed => Len(vs) <= store.vcap
         /\ store.hasPool =>
              /\ Len(pool) <= store.pcap
              /\ \A i \in DOMAIN vs : IsText(vs[i]) => vs[i].ofs + vs[i].len <= store.pcap
  <1>1. WellNested(vs) /\ WellFormedArena(vs) /\ vs \in Seq(Slot)
    BY DEF IInv, Sound, WellFormedArena, WellNested
  <1>2. Len(vs) \in Nat /\ DOMAIN vs = 1..Len(vs) /\ NVals = Len(vs)
    BY <1>1 DEF NVals
  <1>3. pool \in Seq(Chars) /\ Len(pool) \in Nat
    BY DEF IInv, Sound
  <1>4. store \in StoreType /\ Rooms(vs, Len(pool), store)
    BY DEF IInv, Sound
  <1>5. /\ store.vcap \in Nat /\ store.pcap \in Nat
        /\ store.borrowed \in BOOLEAN /\ store.hasPool \in BOOLEAN
    BY <1>4 DEF StoreType
  <1> QED
    BY <1>1, <1>2, <1>3, <1>4, <1>5 DEF IInv, Sound, Rooms

Over(s, t) == IsText(t) /\ s.ofs = t.ofs /\ s.len <= t.len
Behind(s, n, m) == s.ofs > n /\ s.ofs + s.len <= m

LEMMA RewriteApart ==
  ASSUME IInv, NEW i \in DOMAIN vs, NEW s \in Slot, NEW q \in Seq(Chars),
         Len(pool) <= Len(q),
         IsText(s) => Over(s, vs[i]) \/ Behind(s, Len(pool), Len(q))
  PROVE  TextsApart([vs EXCEPT ![i] = s], q)
  <1> DEFINE w == [vs EXCEPT ![i] = s]
  <1>1. /\ vs \in Seq(Slot) /\ Len(vs) \in Nat /\ DOMAIN vs = 1..Len(vs)
        /\ Len(pool) \in Nat /\ TextsApart(vs, pool)
    BY IInvTypes
  <1>2. /\ \A j \in DOMAIN vs : IsText(vs[j]) =>
              /\ vs[j].ofs \in Nat /\ vs[j].ofs >= 1 /\ vs[j].len \in Nat
              /\ vs[j].ofs + vs[j].len <= Len(pool) + 1
              /\ Len(vs) # 1 => vs[j].ofs + vs[j].len <= Len(pool)
        /\ \A j, k \in DOMAIN vs : (IsText(vs[j]) /\ IsText(vs[k]) /\ j # k) =>
              Apart(vs[j], vs[k])
    BY <1>1, TextsAre
  <1>3. /\ Len(w) = Len(vs) /\ DOMAIN w = DOMAIN vs /\ w[i] = s
        /\ \A j \in DOMAIN vs : j # i => w[j] = vs[j]
    BY <1>1
  <1>4. Len(q) \in Nat /\ s.ofs \in Nat /\ s.len \in Nat
    BY DEF Slot
  <1> DEFINE P == Len(pool)
             Q == Len(q)
             single == Len(vs) = 1
  <1>5. \A a, l \in Nat :
          (a + l <= P + 1 /\ (~single => a + l <= P)) =>
             a + l <= (IF single THEN Q + 1 ELSE Q)
    <2>1. P \in Nat /\ Q \in Nat /\ P <= Q
      BY <1>1, <1>4
    <2> HIDE DEF P, Q, single
    <2> QED
      BY ONLY <2>1
  <1> HIDE DEF w
  <1>6. ASSUME NEW j \in DOMAIN vs, IsText(w[j])
        PROVE  w[j].ofs >= 1 /\ w[j].ofs + w[j].len <= (IF single THEN Q + 1 ELSE Q)
    <2>1. CASE j # i
      <3>1. /\ w[j] = vs[j] /\ vs[j].ofs \in Nat /\ vs[j].ofs >= 1 /\ vs[j].len \in Nat
            /\ vs[j].ofs + vs[j].len <= P + 1
            /\ ~single => vs[j].ofs + vs[j].len <= P
        BY <1>2, <1>3, <1>6, <2>1
      <3> QED
        BY ONLY <1>5, <3>1
    <2>2. CASE j = i /\ Over(s, vs[i])
      <3>1. /\ w[j] = s /\ vs[i].ofs \in Nat /\ vs[i].ofs >= 1 /\ vs[i].len \in Nat
            /\ vs[i].ofs + vs[i].len <= P + 1
            /\ ~single => vs[i].ofs + vs[i].len <= P
            /\ s.ofs = vs[i].ofs /\ s.len <= vs[i].len /\ s.len \in Nat /\ s.ofs \in Nat
        BY <1>2, <1>3, <1>4, <2>2 DEF Over
      <3>2. s.ofs + s.len <= vs[i].ofs + vs[i].len
        BY ONLY <3>1
      <3>3. s.ofs + s.len <= P + 1 /\ (~single => s.ofs + s.len <= P)
        <4>1. P \in Nat
          BY <1>1
        <4> HIDE DEF P, single
        <4> QED
          BY ONLY <3>1, <3>2, <4>1
      <3> QED
        BY ONLY <1>5, <3>1, <3>3
    <2>3. CASE j = i /\ Behind(s, Len(pool), Len(q))
      <3>1. w[j] = s /\ s.ofs > P /\ s.ofs + s.len <= Q
        BY <1>3, <2>3 DEF Behind
      <3>2. P \in Nat /\ Q \in Nat /\ s.ofs \in Nat /\ s.len \in Nat
        BY <1>1, <1>4
      <3> HIDE DEF P, Q, single
      <3> QED
        BY ONLY <3>1, <3>2
    <2> QED
      BY <1>3, <1>6, <2>1, <2>2, <2>3
  <1>7. ASSUME NEW j \in DOMAIN vs, j # i, IsText(vs[j]), IsText(s)
        PROVE  Apart(s, vs[j]) /\ Apart(vs[j], s)
    <2>1. vs[j].ofs \in Nat /\ vs[j].len \in Nat /\ vs[j].ofs + vs[j].len <= P
      <3>1. Len(vs) # 1
        BY <1>1, <1>7
      <3> QED
        BY <1>2, <1>7, <3>1
    <2>2. CASE Over(s, vs[i])
      <3>1. /\ Apart(vs[i], vs[j]) /\ s.ofs = vs[i].ofs /\ s.len <= vs[i].len
            /\ s.len \in Nat /\ vs[i].len \in Nat /\ vs[i].ofs \in Nat
        BY <1>2, <1>4, <1>7, <2>2 DEF Over
      <3>2. \A a, l, m, b, k \in Nat :
              ((a + l < b \/ b + k < a) /\ m <= l) => (a + m < b \/ b + k < a)
        OBVIOUS
      <3>3. s.ofs + s.len < vs[j].ofs \/ vs[j].ofs + vs[j].len < s.ofs
        BY ONLY <2>1, <3>1, <3>2 DEF Apart
      <3> QED
        BY ONLY <3>3 DEF Apart
    <2>3. CASE Behind(s, Len(pool), Len(q))
      <3>1. s.ofs > P /\ P \in Nat
        BY <1>1, <2>3 DEF Behind
      <3> HIDE DEF P
      <3> QED
        BY ONLY <1>4, <2>1, <3>1 DEF Apart
    <2> QED
      BY <1>7, <2>2, <2>3
  <1>8. ASSUME NEW j \in DOMAIN vs, NEW k \in DOMAIN vs, IsText(w[j]), IsText(w[k]), k # j
        PROVE  Apart(w[j], w[k])
    <2>1. CASE j # i /\ k # i
      BY <1>2, <1>3, <1>8, <2>1
    <2>2. CASE j = i
      BY <1>3, <1>7, <1>8, <2>2
    <2>3. CASE k = i
      BY <1>3, <1>7, <1>8, <2>3
    <2> QED
      BY <2>1, <2>2, <2>3
  <1> HIDE DEF single
  <1>9. TextsApart(w, q)
    BY <1>3, <1>6, <1>8 DEF TextsApart, Apart, single
  <1> QED
    BY <1>9 DEF w

(* Where a character of a text stands.                                     *)
LEMMA CharIn ==
  ASSUME NEW a \in Nat, NEW l \in Nat, NEW n \in Nat, NEW m \in a..(a + l - 1),
         a >= 1, a + l <= n + 1
  PROVE  m \in Nat /\ m \in 1..n
  OBVIOUS

LEMMA CharApart ==
  ASSUME NEW a \in Nat, NEW l \in Nat, NEW o \in Nat, NEW k \in Nat, NEW h \in Nat,
         NEW m \in a..(a + l - 1), h <= k, o + k < a \/ a + l < o
  PROVE  m < o \/ m > o + h
  OBVIOUS

LEMMA SamePrefix ==
  ASSUME pool \in Seq(Chars)
  PROVE  IsPrefix(pool, pool)
  BY DEF IsPrefix

LEMMA RewrittenSound ==
  ASSUME IInv, NEW i \in DOMAIN vs, ~IsCtn(vs[i]), NEW s \in Slot, ~IsCtn(s),
         \/ s.kind = "string"
         \/ \A c \in DOMAIN vs : (vs[c].kind = "object" /\ i \in ChildrenOf(vs, c)) =>
              Rank(ChildrenOf(vs, c), i) % 2 # 1,
         NEW q \in Seq(Chars), Len(pool) <= Len(q),
         IsText(s) => Over(s, vs[i]) \/ Behind(s, Len(pool), Len(q)),
         \A j \in DOMAIN vs : (IsText(vs[j]) /\ j # i) =>
           \A m \in vs[j].ofs..(vs[j].ofs + vs[j].len - 1) : q[m] = pool[m],
         NEW r, RoomFor(r, vs, Len(vs), Len(q)),
         IsText(s) => (r.hasPool => s.ofs + s.len <= r.pcap) /\ MarkedAt(s, q)
  PROVE  Sound([vs EXCEPT ![i] = s], q, r)
  <1> DEFINE w == [vs EXCEPT ![i] = s]
             f == [j \in DOMAIN vs |-> j]
  <1>1. WellFormedArena(vs) /\ vs \in Seq(Slot)
    BY IInvTypes
  <1>2. Sound(vs, pool, store)
    BY DEF IInv
  <1>3. WellFormedArena(w)
    BY <1>1, RewriteKeeps
  <1>4. TextsApart(w, q)
    BY RewriteApart
  <1>5. From(vs, w, f, {i})
    BY <1>1, RewrittenFrom
  <1>6. /\ Len(w) = Len(vs) /\ DOMAIN w = DOMAIN vs /\ w[i] = s
        /\ \A j \in DOMAIN vs : j # i => w[j] = vs[j]
    BY <1>1
  <1> HIDE DEF w, f
  <1>7. CarriedOn(w, pool, q, {i})
    BY <1>6 DEF CarriedOn
  <1>8. RoomFor(r, vs, Len(w), Len(q))
    BY <1>6
  <1>9. \A j \in DOMAIN w : (IsText(w[j]) /\ j \in {i}) =>
          /\ r.hasPool => w[j].ofs + w[j].len <= r.pcap
          /\ ~Aliased => MarkedAt(w[j], q)
    BY <1>6
  <1>10. Sound(w, q, r)
    BY <1>2, <1>3, <1>4, <1>5, <1>7, <1>8, <1>9, EditSound
  <1> QED
    BY <1>10 DEF w

LEMMA ScalarKeeps ==
  ASSUME IInv, NEW i \in Handles, ~IsCtn(vs[i]), NEW s \in Slot,
         s.kind \in {"literal", "number"}
  PROVE  Kept([vs EXCEPT ![i] = s], pool, store)
  <1>1. i \in DOMAIN vs /\ WellNested(vs) /\ pool \in Seq(Chars) /\ Len(pool) \in Nat
    BY IInvTypes DEF Handles
  <1>2. ~IsCtn(s) /\ ~IsText(s)
    BY DEF IsCtn, IsText
  <1>3. \A c \in DOMAIN vs : (vs[c].kind = "object" /\ i \in ChildrenOf(vs, c)) =>
          Rank(ChildrenOf(vs, c), i) % 2 # 1
    BY <1>1, HandleIsNoKey
  <1>4. RoomFor(store, vs, Len(vs), Len(pool))
    BY IInvTypes DEF RoomFor
  <1>5. Len(pool) <= Len(pool)
    BY <1>1
  <1>6. Sound([vs EXCEPT ![i] = s], pool, store)
    BY <1>1, <1>2, <1>3, <1>4, <1>5, RewrittenSound
  <1>7. Len([vs EXCEPT ![i] = s]) = Len(vs)
    BY IInvTypes
  <1> QED
    BY <1>1, <1>6, <1>7, SamePrefix DEF Kept, LentKept

(* Storage that __own_pool made has room for all there is.                 *)
LEMMA OwnPoolRoom ==
  ASSUME IInv, NEW need \in Nat, need # 0
  PROVE  LET r == OwnPool(store, need) IN
         /\ r \in StoreType /\ ~r.borrowed /\ r.hasPool
         /\ Len(vs) <= r.vcap /\ Len(pool) + need <= r.pcap
         /\ RoomFor(r, vs, Len(vs), Len(pool) + need)
  <1> DEFINE r == OwnPool(store, need)
  <1>1. /\ vs \in Seq(Slot) /\ Len(vs) \in Nat /\ NVals = Len(vs) /\ DOMAIN vs = 1..Len(vs)
        /\ pool \in Seq(Chars) /\ Len(pool) \in Nat
        /\ store \in StoreType /\ (~store.borrowed => Len(vs) <= store.vcap)
        /\ TextsApart(vs, pool)
    BY IInvTypes
  <1>2. /\ Roomy(store, r, NVals, Len(pool) + need)
        /\ r.hasPool /\ r.pcap >= Len(pool) + need
    <2>1. NVals \in Nat /\ (~store.borrowed => NVals <= store.vcap)
      BY <1>1
    <2> QED
      BY <1>1, <2>1, OwnPoolIs
  <1> HIDE DEF r
  <1>3. r \in StoreType /\ ~r.borrowed /\ Len(vs) <= r.vcap
    BY <1>1, <1>2 DEF Roomy
  <1>4. r.pcap \in Nat
    BY <1>3 DEF StoreType
  <1>5. Len(pool) + need <= r.pcap
    <2>1. Len(pool) + need \in Nat
      BY <1>1
    <2> QED
      BY <1>2, <1>4, <2>1
  <1>6. ASSUME NEW j \in DOMAIN vs, IsText(vs[j]) PROVE vs[j].ofs + vs[j].len <= r.pcap
    <2>1. /\ vs[j].ofs \in Nat /\ vs[j].len \in Nat
          /\ vs[j].ofs + vs[j].len <= Len(pool) + 1
      BY <1>1, <1>6, TextsAre
    <2>2. \A a, l, b \in Nat : (a + l <= b + 1 /\ b + need <= r.pcap) => a + l <= r.pcap
      BY <1>4
    <2> QED
      BY ONLY <1>1, <1>5, <2>1, <2>2
  <1>7. RoomFor(r, vs, Len(vs), Len(pool) + need)
    BY <1>2, <1>3, <1>5, <1>6 DEF RoomFor
  <1> QED
    BY <1>2, <1>3, <1>5, <1>7 DEF r

LEMMA TextPutKeeps ==
  ASSUME IInv, NEW i \in DOMAIN vs, ~IsCtn(vs[i]), NEW t \in Seq(Chars)
  PROVE  Kept([vs EXCEPT ![i] = StringSlot(t, StringSub(t), PutAt)], PoolPut(t),
              OwnPool(store, Len(t) + 1))
  <1> DEFINE s == StringSlot(t, StringSub(t), PutAt)
             q == PoolPut(t)
             need == Len(t) + 1
             r == OwnPool(store, need)
  <1>1. /\ vs \in Seq(Slot) /\ pool \in Seq(Chars) /\ Len(pool) \in Nat
        /\ TextsApart(vs, pool)
    BY IInvTypes
  <1>2. /\ q \in Seq(Chars)
        /\ Len(q) = Len(pool) + Len(t) + 1 /\ PutAt = Len(pool) + 1
        /\ \A m \in 1..Len(pool) : q[m] = pool[m]
        /\ \A m \in 1..Len(t) : q[PutAt + m - 1] = t[m]
        /\ IsPrefix(pool, q)
    BY <1>1, PutIs
  <1>3. Len(t) \in Nat /\ need \in Nat /\ need # 0 /\ PutAt \in Nat /\ PutAt >= 1
    BY <1>1, <1>2
  <1>4. /\ r \in StoreType /\ ~r.borrowed /\ r.hasPool
        /\ Len(vs) <= r.vcap /\ Len(pool) + need <= r.pcap
        /\ RoomFor(r, vs, Len(vs), Len(pool) + need)
    <2> HIDE DEF need
    <2> QED
      BY <1>3, OwnPoolRoom
  <1>5. Len(q) = Len(pool) + need /\ Len(pool) <= Len(q) /\ PutAt + Len(t) <= Len(q)
    BY <1>1, <1>2, <1>3
  <1>6. /\ s \in Slot /\ s.kind = "string" /\ ~IsCtn(s) /\ s.ofs = PutAt /\ s.len = Len(t)
    BY <1>3 DEF StringSlot, StringSub, Slot, Kind, Sub, IsCtn
  <1>7. MarkedAt(s, q)
    <2>1. PutAt + Len(t) <= Len(q) + 1
      BY <1>1, <1>2, <1>3
    <2> HIDE DEF q
    <2> QED
      BY <1>2, <1>3, <2>1, NewMark
  <1> HIDE DEF s, q, r, need
  <1>8. Behind(s, Len(pool), Len(q))
    BY <1>1, <1>2, <1>5, <1>6 DEF Behind
  <1>9. \A j \in DOMAIN vs : (IsText(vs[j]) /\ j # i) =>
          \A m \in vs[j].ofs..(vs[j].ofs + vs[j].len - 1) : q[m] = pool[m]
    <2> SUFFICES ASSUME NEW j \in DOMAIN vs, IsText(vs[j]),
                        NEW m \in vs[j].ofs..(vs[j].ofs + vs[j].len - 1)
                 PROVE  q[m] = pool[m]
      OBVIOUS
    <2>1. /\ vs[j].ofs \in Nat /\ vs[j].ofs >= 1 /\ vs[j].len \in Nat
          /\ vs[j].ofs + vs[j].len <= Len(pool) + 1
      BY <1>1, TextsAre
    <2>2. m \in 1..Len(pool)
      BY <1>1, <2>1, CharIn
    <2> QED
      BY <1>2, <2>2
  <1>10. RoomFor(r, vs, Len(vs), Len(q))
    BY <1>4, <1>5
  <1>11. s.ofs + s.len <= r.pcap
    <2>1. r.pcap \in Nat
      BY <1>4 DEF StoreType
    <2> QED
      BY <1>1, <1>2, <1>3, <1>4, <1>6, <2>1 DEF need
  <1>12. Sound([vs EXCEPT ![i] = s], q, r)
    BY <1>2, <1>5, <1>6, <1>7, <1>8, <1>9, <1>10, <1>11, RewrittenSound
  <1>13. LentKept([vs EXCEPT ![i] = s], q, r)
    BY <1>2, <1>4 DEF LentKept
  <1> QED
    BY <1>12, <1>13 DEF Kept, s, q, r, need

LEMMA OverwriteKeeps ==
  ASSUME IInv, NEW i \in DOMAIN vs, NEW t \in Seq(Chars), Writable(i, t)
  PROVE  Kept([vs EXCEPT ![i] = StringSlot(t, StringSub(t), vs[i].ofs)],
              Overwritten(vs[i].ofs, t), store)
  <1> DEFINE o == vs[i].ofs
             s == StringSlot(t, StringSub(t), o)
             q == Overwritten(o, t)
  <1>1. /\ vs \in Seq(Slot) /\ DOMAIN vs = 1..Len(vs) /\ Len(vs) \in Nat
        /\ pool \in Seq(Chars) /\ Len(pool) \in Nat
        /\ TextsApart(vs, pool)
    BY IInvTypes
  <1>2. /\ IsText(vs[i]) /\ ~IsCtn(vs[i]) /\ store.hasPool /\ ~store.borrowed
        /\ vs[i].len >= Len(t) /\ Len(t) \in Nat
    BY DEF Writable, IsText, IsCtn
  <1>3. /\ \A j \in DOMAIN vs : IsText(vs[j]) =>
              /\ vs[j].ofs \in Nat /\ vs[j].ofs >= 1 /\ vs[j].len \in Nat
              /\ vs[j].ofs + vs[j].len <= Len(pool) + 1
              /\ Len(vs) # 1 => vs[j].ofs + vs[j].len <= Len(pool)
        /\ \A j, k \in DOMAIN vs : (IsText(vs[j]) /\ IsText(vs[k]) /\ j # k) =>
              Apart(vs[j], vs[k])
    BY <1>1, TextsAre
  <1>4. /\ o \in Nat /\ o >= 1 /\ vs[i].len \in Nat /\ o + vs[i].len <= Len(pool) + 1
    BY <1>2, <1>3
  <1> HIDE DEF o
  <1>5. o + Len(t) <= Len(pool) + 1
    BY ONLY <1>1, <1>2, <1>4
  <1>6. /\ q \in Seq(Chars) /\ Len(q) = Len(pool)
        /\ \A m \in DOMAIN pool : (m < o \/ m > o + Len(t)) => q[m] = pool[m]
        /\ \A m \in 1..Len(t) : q[o + m - 1] = t[m]
    BY <1>1, <1>4, <1>5, OverwrittenIs
  <1>7. /\ s \in Slot /\ s.kind = "string" /\ ~IsCtn(s) /\ s.ofs = o /\ s.len = Len(t)
    BY <1>2, <1>4 DEF StringSlot, StringSub, Slot, Kind, Sub, IsCtn
  <1> HIDE DEF q
  <1>8. MarkedAt(s, q)
    <2>1. o + Len(t) <= Len(q) + 1
      BY <1>5, <1>6
    <2> QED
      BY <1>4, <1>6, <2>1, NewMark
  <1> HIDE DEF s
  <1>9. Over(s, vs[i])
    BY <1>2, <1>7 DEF Over, o
  <1>10. \A j \in DOMAIN vs : (IsText(vs[j]) /\ j # i) =>
           \A m \in vs[j].ofs..(vs[j].ofs + vs[j].len - 1) : q[m] = pool[m]
    <2> SUFFICES ASSUME NEW j \in DOMAIN vs, IsText(vs[j]), j # i,
                        NEW m \in vs[j].ofs..(vs[j].ofs + vs[j].len - 1)
                 PROVE  q[m] = pool[m]
      OBVIOUS
    <2>1. Len(vs) # 1
      BY <1>1
    <2>2. /\ vs[j].ofs \in Nat /\ vs[j].ofs >= 1 /\ vs[j].len \in Nat
          /\ vs[j].ofs + vs[j].len <= Len(pool) + 1 /\ Apart(vs[i], vs[j])
      BY <1>2, <1>3, <2>1
    <2>3. m \in DOMAIN pool /\ m \in Nat
      <3>1. m \in Nat /\ m \in 1..Len(pool)
        BY <1>1, <2>2, CharIn
      <3> QED
        BY <1>1, <3>1
    <2>4. m < o \/ m > o + Len(t)
      <3>1. o + vs[i].len < vs[j].ofs \/ vs[j].ofs + vs[j].len < o
        BY <2>2 DEF Apart, o
      <3>2. Len(t) <= vs[i].len
        BY ONLY <1>2, <1>4
      <3> QED
        BY SMTT(30), <1>2, <1>4, <2>2, <3>1, <3>2, CharApart
    <2> QED
      BY <1>6, <2>3, <2>4
  <1>11. RoomFor(store, vs, Len(vs), Len(q))
    BY <1>6, IInvTypes DEF RoomFor
  <1>12. s.ofs + s.len <= store.pcap
    <2>1. store.pcap \in Nat /\ o + vs[i].len <= store.pcap
      BY <1>2, IInvTypes DEF o
    <2> QED
      BY ONLY <1>2, <1>4, <1>7, <2>1
  <1>13. Len(pool) <= Len(q)
    BY <1>1, <1>6
  <1>14. Sound([vs EXCEPT ![i] = s], q, store)
    BY <1>2, <1>6, <1>7, <1>8, <1>9, <1>10, <1>11, <1>12, <1>13, RewrittenSound
  <1>15. LentKept([vs EXCEPT ![i] = s], q, store)
    BY <1>2 DEF LentKept
  <1> QED
    BY <1>14, <1>15 DEF Kept, s, q, o

-----------------------------------------------------------------------------
(* Slots are put in or taken out.  Storage that __own_vals made has room   *)
(* for so many more.                                                       *)
LEMMA OwnValsRoom ==
  ASSUME IInv, NEW st, NEW c, NEW b \in Nat, RoomFor(st, vs, c, b), NEW extra \in Nat,
         NEW n \in Nat, n <= Len(vs) + extra
  PROVE  /\ RoomFor(OwnVals(st, extra), vs, n, b)
         /\ ~OwnVals(st, extra).borrowed
  <1> DEFINE r == OwnVals(st, extra)
  <1>1. /\ vs \in Seq(Slot) /\ Len(vs) \in Nat /\ NVals = Len(vs)
        /\ Len(pool) \in Nat /\ TextsApart(vs, pool)
    BY IInvTypes
  <1>2. st \in StoreType /\ st.pcap \in Nat
    BY DEF RoomFor, StoreType
  <1>3. Roomy(st, r, NVals + extra, Len(pool)) /\ (r.hasPool <=> st.hasPool)
    BY <1>1, <1>2, OwnValsIs
  <1> HIDE DEF r
  <1>4. /\ r \in StoreType /\ ~r.borrowed /\ Len(vs) + extra <= r.vcap
        /\ st.hasPool => r.pcap >= st.pcap
    BY <1>1, <1>3 DEF Roomy
  <1>5. r.pcap \in Nat /\ r.vcap \in Nat
    BY <1>4 DEF StoreType
  <1>6. n <= r.vcap
    BY <1>1, <1>4, <1>5
  <1>7. ASSUME r.hasPool PROVE b <= r.pcap
    BY <1>2, <1>3, <1>4, <1>5, <1>7 DEF RoomFor
  <1>8. ASSUME r.hasPool, NEW j \in DOMAIN vs, IsText(vs[j])
        PROVE  vs[j].ofs + vs[j].len <= r.pcap
    <2>1. vs[j].ofs \in Nat /\ vs[j].len \in Nat
      BY <1>1, SlotTyped
    <2>2. vs[j].ofs + vs[j].len <= st.pcap /\ r.pcap >= st.pcap
      BY <1>3, <1>4, <1>8 DEF RoomFor
    <2>3. \A x, y, u, v \in Nat : (x + y <= u /\ v >= u) => x + y <= v
      OBVIOUS
    <2> QED
      BY ONLY <1>2, <1>5, <2>1, <2>2, <2>3
  <1>9. RoomFor(r, vs, n, b)
    BY <1>4, <1>6, <1>7, <1>8 DEF RoomFor
  <1> QED
    BY <1>4, <1>9 DEF r

(* A document with a container in it is no lone text.                      *)
LEMMA NoLoneText ==
  ASSUME IInv, NEW i \in DOMAIN vs, IsCtn(vs[i])
  PROVE  Len(vs) # 1 \/ ~IsText(vs[1])
  <1>1. Len(vs) = 1 => i = 1
    BY IInvTypes
  <1> QED
    BY <1>1 DEF IsText, IsCtn

LEMMA PutInSound ==
  ASSUME IInv, NEW i \in DOMAIN vs, IsCtn(vs[i]), NEW w, NEW n, PutIn(vs, w, i, n),
         NEW q \in Seq(Chars), Len(pool) <= Len(q),
         \A m \in 1..Len(pool) : q[m] = pool[m],
         NEW r, RoomFor(r, vs, Len(w), Len(q)),
         NEW new, new = GetNext(vs, i)..(GetNext(vs, i) + n - 1),
         \A j \in new : IsText(w[j]) => Behind(w[j], Len(pool), Len(q)),
         \A j \in new : IsText(w[j]) /\ ~Aliased => MarkedAt(w[j], q),
         \A j, k \in new : (IsText(w[j]) /\ IsText(w[k])) => j = k
  PROVE  Sound(w, q, r)
  <1> DEFINE f == [k \in DOMAIN w |-> Back(GetNext(vs, i), n, k)]
  <1>1. /\ WellFormedArena(vs) /\ WellNested(vs) /\ vs \in Seq(Slot)
        /\ Len(pool) \in Nat /\ Len(q) \in Nat /\ TextsApart(vs, pool)
        /\ Sound(vs, pool, store)
    BY IInvTypes DEF IInv
  <1>2. WellFormedArena(w)
    BY <1>1, PutInKeeps
  <1>3. w \in Seq(Slot)
    BY <1>2 DEF WellFormedArena, WellNested
  <1>4. From(vs, w, f, new)
    BY <1>1, PutInFrom
  <1> HIDE DEF f
  <1>5. TextsApart(w, q)
    <2>1. Len(vs) # 1 \/ ~IsText(vs[1])
      BY NoLoneText
    <2>2. \A j \in new, k \in DOMAIN w : (IsText(w[j]) /\ IsText(w[k]) /\ k \in new) => k = j
      OBVIOUS
    <2>3. \A j \in new : IsText(w[j]) => w[j].ofs > Len(pool) /\ w[j].ofs + w[j].len <= Len(q)
      BY DEF Behind
    <2> QED
      BY <1>1, <1>3, <1>4, <2>1, <2>2, <2>3, TextsStayApart
  <1>6. CarriedOn(w, pool, q, new)
    <2> SUFFICES ASSUME NEW j \in DOMAIN w, IsText(w[j]), j \notin new,
                        NEW m \in w[j].ofs..(w[j].ofs + w[j].len - 1)
                 PROVE  q[m] = pool[m]
      BY DEF CarriedOn
    <2>1. f[j] \in DOMAIN vs /\ w[j] = vs[f[j]]
      BY <1>4 DEF From
    <2>2. /\ w[j].ofs \in Nat /\ w[j].len \in Nat /\ w[j].ofs >= 1
          /\ w[j].ofs + w[j].len <= Len(pool) + 1
      BY <1>1, <2>1, TextsAre
    <2>3. m \in 1..Len(pool)
      BY <1>1, <2>2, CharIn
    <2> QED
      BY <2>3
  <1>7. \A j \in DOMAIN w : (IsText(w[j]) /\ j \in new) =>
          /\ r.hasPool => w[j].ofs + w[j].len <= r.pcap
          /\ ~Aliased => MarkedAt(w[j], q)
    <2> SUFFICES ASSUME NEW j \in DOMAIN w, IsText(w[j]), j \in new, r.hasPool
                 PROVE  w[j].ofs + w[j].len <= r.pcap
      OBVIOUS
    <2>1. /\ w[j].ofs \in Nat /\ w[j].len \in Nat
          /\ w[j].ofs + w[j].len <= Len(q) /\ Len(q) <= r.pcap
      BY <1>3, SlotTyped DEF Behind, RoomFor
    <2>2. r.pcap \in Nat
      BY DEF RoomFor, StoreType
    <2>3. \A x, y, u, v \in Nat : (x + y <= u /\ u <= v) => x + y <= v
      OBVIOUS
    <2> QED
      BY ONLY <1>1, <2>1, <2>2, <2>3
  <1>8. q \in Seq(Chars) /\ RoomFor(r, vs, Len(w), Len(q))
    OBVIOUS
  <1> QED
    BY ONLY <1>1, <1>2, <1>4, <1>5, <1>6, <1>7, <1>8, EditSound

LEMMA TakenOutSound ==
  ASSUME IInv, NEW i \in DOMAIN vs, IsCtn(vs[i]), NEW u, NEW at, NEW n,
         TakenOut(vs, u, i, at, n),
         NEW r, RoomFor(r, vs, Len(vs), Len(pool))
  PROVE  Sound(u, pool, r)
  <1> DEFINE f == [j \in DOMAIN u |-> Moved(at, n, j)]
             new == {}
  <1>1. /\ WellFormedArena(vs) /\ WellNested(vs) /\ vs \in Seq(Slot) /\ Len(vs) \in Nat
        /\ pool \in Seq(Chars) /\ Len(pool) \in Nat /\ TextsApart(vs, pool)
        /\ Sound(vs, pool, store)
    BY IInvTypes DEF IInv
  <1>2. WellFormedArena(u)
    BY <1>1, TakenOutKeeps
  <1>3. Edited(u, vs, Around(vs, i), i, at, n)
    BY DEF TakenOut
  <1>4. u \in Seq(Slot) /\ Len(u) \in Nat /\ n \in Nat /\ Len(vs) = Len(u) + n
    BY <1>3, EditedSlots
  <1>5. From(vs, u, f, new)
    BY <1>1, <1>3, TakenOutFrom
  <1> HIDE DEF f, new
  <1>50. new = {}
    BY DEF new
  <1>6. Len(pool) <= Len(pool)
    BY <1>1
  <1>7. TextsApart(u, pool)
    <2>1. Len(vs) # 1 \/ ~IsText(vs[1])
      BY NoLoneText
    <2>2. /\ \A j \in new, k \in DOMAIN u : (IsText(u[j]) /\ IsText(u[k]) /\ k \in new) => k = j
          /\ \A j \in new : IsText(u[j]) =>
               u[j].ofs > Len(pool) /\ u[j].ofs + u[j].len <= Len(pool)
      BY <1>50
    <2> QED
      BY ONLY <1>1, <1>4, <1>5, <1>6, <2>1, <2>2, TextsStayApart
  <1>8. CarriedOn(u, pool, pool, new)
    BY <1>6 DEF CarriedOn
  <1>9. RoomFor(r, vs, Len(u), Len(pool))
    <2>1. ASSUME ~r.borrowed PROVE Len(u) <= r.vcap
      <3>1. r.vcap \in Nat /\ Len(vs) <= r.vcap
        BY <2>1 DEF RoomFor, StoreType
      <3> QED
        BY ONLY <1>4, <3>1
    <2> QED
      BY <2>1 DEF RoomFor
  <1>10. \A j \in DOMAIN u : (IsText(u[j]) /\ j \in new) =>
           /\ r.hasPool => u[j].ofs + u[j].len <= r.pcap
           /\ ~Aliased => MarkedAt(u[j], pool)
    BY <1>50
  <1> QED
    BY ONLY <1>1, <1>2, <1>5, <1>7, <1>8, <1>9, <1>10, EditSound

-----------------------------------------------------------------------------
(* Each structural edit.  What is taken out leaves the pool alone.         *)
LEMMA TakenOutKept ==
  ASSUME IInv, NEW i \in DOMAIN vs, IsCtn(vs[i]), NEW u, NEW at, NEW n,
         TakenOut(vs, u, i, at, n)
  PROVE  Kept(u, pool, OwnVals(store, 0))
  <1> DEFINE r == OwnVals(store, 0)
  <1>1. RoomFor(store, vs, Len(vs), Len(pool)) /\ Len(vs) \in Nat /\ Len(pool) \in Nat
        /\ pool \in Seq(Chars) /\ Len(vs) <= Len(vs) + 0
    BY IInvTypes DEF RoomFor
  <1>2. RoomFor(r, vs, Len(vs), Len(pool)) /\ ~r.borrowed
    BY <1>1, OwnValsRoom
  <1> HIDE DEF r
  <1>3. Sound(u, pool, r)
    BY <1>2, TakenOutSound
  <1> QED
    BY <1>1, <1>2, <1>3, SamePrefix DEF Kept, LentKept, r

(* A value that is put in holds nothing.                                   *)
Kinds == {"literal", "array", "object"}

LEMMA FreshIs ==
  ASSUME NEW kd \in Kinds
  PROVE  Fresh(kd) \in Slot /\ HoldsNothing(Fresh(kd)) /\ ~IsText(Fresh(kd))
  BY DEF Kinds, Fresh, NullSlot, EmptyCtn, Slot, Kind, Sub, HoldsNothing, IsCtn, IsText

LEMMA PushKeeps ==
  ASSUME IInv, NEW i \in DOMAIN vs, vs[i].kind = "array", NEW kd \in Kinds
  PROVE  Kept(BumpLen(Appended(i, <<Fresh(kd)>>), i, 1), pool, OwnVals(store, 1))
  <1> DEFINE x == <<Fresh(kd)>>
             w == BumpLen(Appended(i, x), i, 1)
             r == OwnVals(store, 1)
             at == GetNext(vs, i)
             new == at..(at + 1 - 1)
  <1>1. /\ WellNested(vs) /\ IsCtn(vs[i]) /\ vs[i].kind # "object" /\ Len(vs) \in Nat
        /\ pool \in Seq(Chars) /\ Len(pool) \in Nat
    BY IInvTypes DEF IsCtn
  <1>2. /\ x \in Seq(Slot) /\ Len(x) = 1 /\ DOMAIN x = 1..1 /\ x[1] = Fresh(kd)
        /\ \A m \in DOMAIN x : HoldsNothing(x[m])
    BY FreshIs
  <1>3. at \in Nat
    BY <1>1, SlotIs
  <1> HIDE DEF x, at
  <1>4. PutIn(vs, w, i, 1) /\ \A m \in 1..1 : w[at + m - 1] = x[m]
    BY <1>1, <1>2, AppendedPutsIn DEF at
  <1> HIDE DEF w
  <1>5. w[at] = Fresh(kd) /\ new = {at}
    <2>1. at + 1 - 1 = at /\ 1 \in 1..1
      BY <1>3
    <2> QED
      BY <1>2, <1>3, <1>4, <2>1
  <1>6. Len(w) = Len(vs) + 1
    BY <1>4 DEF PutIn, Edited
  <1>7. RoomFor(r, vs, Len(w), Len(pool)) /\ ~r.borrowed
    <2>1. RoomFor(store, vs, Len(vs), Len(pool))
      BY IInvTypes DEF RoomFor
    <2>2. Len(w) \in Nat /\ Len(w) <= Len(vs) + 1
      BY <1>1, <1>6
    <2> QED
      BY <1>1, <2>1, <2>2, OwnValsRoom
  <1> HIDE DEF r, new
  <1>8. new = GetNext(vs, i)..(GetNext(vs, i) + 1 - 1)
    BY DEF new, at
  <1>9. Len(pool) <= Len(pool)
    BY <1>1
  <1>10. \A j \in new : ~IsText(w[j])
    BY <1>5, FreshIs
  <1>11. Sound(w, pool, r)
    BY <1>1, <1>4, <1>7, <1>8, <1>9, <1>10, PutInSound
  <1> QED
    BY <1>1, <1>7, <1>11, SamePrefix DEF Kept, LentKept, w, x, r

(* When the allocation of the slots fails the key stays in the pool.       *)
LEMMA KeyLeftKeeps ==
  ASSUME IInv, NEW i \in DOMAIN vs, IsCtn(vs[i]), NEW t \in Seq(Chars)
  PROVE  Kept(vs, PoolPut(t), OwnPool(store, Len(t) + 1))
  <1> DEFINE q == PoolPut(t)
             need == Len(t) + 1
             r == OwnPool(store, need)
             f == [j \in DOMAIN vs |-> j]
             new == {}
  <1>1. /\ vs \in Seq(Slot) /\ WellFormedArena(vs)
        /\ pool \in Seq(Chars) /\ Len(pool) \in Nat /\ TextsApart(vs, pool)
        /\ Sound(vs, pool, store)
    BY IInvTypes DEF IInv
  <1>2. /\ q \in Seq(Chars) /\ Len(q) = Len(pool) + Len(t) + 1
        /\ \A m \in 1..Len(pool) : q[m] = pool[m]
        /\ IsPrefix(pool, q)
    BY <1>1, PutIs
  <1>3. need \in Nat /\ need # 0 /\ Len(t) \in Nat
    OBVIOUS
  <1>4. Len(q) = Len(pool) + need /\ Len(pool) <= Len(q) /\ Len(q) \in Nat
    BY <1>1, <1>2, <1>3
  <1>5. ~r.borrowed /\ RoomFor(r, vs, Len(vs), Len(q))
    <2>1. /\ ~r.borrowed
          /\ RoomFor(r, vs, Len(vs), Len(pool) + need)
      <3> HIDE DEF need
      <3> QED
        BY <1>3, OwnPoolRoom
    <2> QED
      BY <1>4, <2>1
  <1> HIDE DEF q, r, need
  <1>6. From(vs, vs, f, new)
    BY DEF From
  <1>7. new = {}
    OBVIOUS
  <1> HIDE DEF f, new
  <1>8. TextsApart(vs, q)
    <2>1. Len(vs) # 1 \/ ~IsText(vs[1])
      BY NoLoneText
    <2>2. /\ \A j \in new, k \in DOMAIN vs :
               (IsText(vs[j]) /\ IsText(vs[k]) /\ k \in new) => k = j
          /\ \A j \in new : IsText(vs[j]) =>
               vs[j].ofs > Len(pool) /\ vs[j].ofs + vs[j].len <= Len(q)
      BY <1>7
    <2> QED
      BY ONLY <1>1, <1>4, <1>6, <2>1, <2>2, TextsStayApart
  <1>9. CarriedOn(vs, pool, q, new)
    <2> SUFFICES ASSUME NEW j \in DOMAIN vs, IsText(vs[j]),
                        NEW m \in vs[j].ofs..(vs[j].ofs + vs[j].len - 1)
                 PROVE  q[m] = pool[m]
      BY <1>4 DEF CarriedOn
    <2>1. /\ vs[j].ofs \in Nat /\ vs[j].len \in Nat /\ vs[j].ofs >= 1
          /\ vs[j].ofs + vs[j].len <= Len(pool) + 1
      BY <1>1, TextsAre
    <2>2. m \in 1..Len(pool)
      BY <1>1, <2>1, CharIn
    <2> QED
      BY <1>2, <2>2
  <1>10. \A j \in DOMAIN vs : (IsText(vs[j]) /\ j \in new) =>
           /\ r.hasPool => vs[j].ofs + vs[j].len <= r.pcap
           /\ ~Aliased => MarkedAt(vs[j], q)
    BY <1>7
  <1>11. Sound(vs, q, r)
    BY ONLY <1>1, <1>2, <1>5, <1>6, <1>8, <1>9, <1>10, EditSound
  <1> QED
    BY <1>2, <1>5, <1>11 DEF Kept, LentKept, q, r, need

LEMMA EraseKeyKeeps ==
  ASSUME IInv, NEW i \in DOMAIN vs, vs[i].kind = "object", NEW key, FindKey(i, key) # 0
  PROVE  LET k == FindKey(i, key) IN
         Kept(BumpLen(Dropped(i, k, GetNext(vs, k + 1) - k), i, -1), pool,
              OwnVals(store, 0))
  <1> DEFINE k == FindKey(i, key)
             n == GetNext(vs, k + 1) - k
             u == BumpLen(Dropped(i, k, n), i, -1)
  <1>1. WellFormedArena(vs) /\ IsCtn(vs[i]) /\ pool \in Seq(Chars)
    BY IInvTypes DEF IsCtn
  <1>2. k \in ChildrenOf(vs, i) /\ Rank(ChildrenOf(vs, i), k) % 2 = 1
    BY <1>1, FoundKey
  <1> HIDE DEF k
  <1>3. Takeable(vs, i, k, n) /\ Cardinality(Added(vs, i, k, n)) = 2
    BY <1>1, <1>2, MemberTakeable
  <1> HIDE DEF n
  <1>4. TakenOut(vs, u, i, k, n)
    BY <1>1, <1>3, ErasedTakesOut
  <1> HIDE DEF u
  <1> QED
    BY <1>1, <1>4, TakenOutKept DEF u, n, k

LEMMA EraseAtKeeps ==
  ASSUME IInv, NEW i \in DOMAIN vs, vs[i].kind = "array", NEW n \in Nat, n < vs[i].len
  PROVE  LET e == Element(i, n) IN
         Kept(BumpLen(Dropped(i, e, SpanOf(vs, e)), i, -1), pool, OwnVals(store, 0))
  <1> DEFINE e == Element(i, n)
             l == SpanOf(vs, e)
             u == BumpLen(Dropped(i, e, l), i, -1)
  <1>1. WellFormedArena(vs) /\ WellNested(vs) /\ IsCtn(vs[i]) /\ vs[i].kind # "object"
    BY IInvTypes DEF IsCtn
  <1>2. e \in ChildrenOf(vs, i)
    BY <1>1, ElementIs
  <1> HIDE DEF e
  <1>3. l = GetNext(vs, e) - e
    <2>1. e \in Nat /\ e \in DOMAIN vs /\ SpanOf(vs, e) \in Nat
      <3>1. e \in DOMAIN vs
        BY <1>2 DEF ChildrenOf
      <3>2. vs \in Seq(Slot)
        BY <1>1 DEF WellNested
      <3> QED
        BY <1>1, <3>1, <3>2, SlotIs, SlotTyped DEF SpanOf
    <2> QED
      BY <2>1 DEF GetNext
  <1>4. Takeable(vs, i, e, l) /\ Cardinality(Added(vs, i, e, l)) = 1
    BY <1>1, <1>2, <1>3, ElementTakeable
  <1> HIDE DEF l
  <1>5. TakenOut(vs, u, i, e, l)
    BY <1>1, <1>4, ErasedTakesOut
  <1> HIDE DEF u
  <1> QED
    BY <1>1, <1>5, TakenOutKept DEF u, l, e

LEMMA ClearKeeps ==
  ASSUME IInv, NEW i \in DOMAIN vs, IsCtn(vs[i])
  PROVE  Kept(Emptied(i), pool, OwnVals(store, 0))
  <1> DEFINE at == i + 1
             n == vs[i].ofs - 1
  <1>1. TakenOut(vs, Emptied(i), i, at, n)
    BY IInvTypes, EmptiedTakesOut
  <1> HIDE DEF at, n
  <1> QED
    BY <1>1, TakenOutKept

(* A new member is a key, its text at the end of the pool, and a value.    *)
LEMMA KeyMarkIs ==
  ASSUME NEW t \in Seq(Chars), NEW mark \in KeyMarks(t)
  PROVE  mark \in {"noesc", "plain"} /\ (~Aliased => mark = StringSub(t))
  BY DEF KeyMarks, FromPool, StringSub

LEMMA MemberKeeps ==
  ASSUME IInv, NEW i \in DOMAIN vs, vs[i].kind = "object", NEW kd \in Kinds,
         NEW t \in Seq(Chars), NEW mark \in KeyMarks(t)
  PROVE  Kept(BumpLen(Appended(i, <<StringSlot(t, mark, PutAt), Fresh(kd)>>), i, 1),
              PoolPut(t), OwnVals(OwnPool(store, Len(t) + 1), 2))
  <1> DEFINE key == StringSlot(t, mark, PutAt)
             x == <<key, Fresh(kd)>>
             w == BumpLen(Appended(i, x), i, 1)
             q == PoolPut(t)
             need == Len(t) + 1
             st == OwnPool(store, need)
             r == OwnVals(st, 2)
             at == GetNext(vs, i)
             new == at..(at + 2 - 1)
  <1>1. /\ WellNested(vs) /\ IsCtn(vs[i]) /\ Len(vs) \in Nat
        /\ pool \in Seq(Chars) /\ Len(pool) \in Nat
    BY IInvTypes DEF IsCtn
  <1>2. /\ q \in Seq(Chars)
        /\ Len(q) = Len(pool) + Len(t) + 1 /\ PutAt = Len(pool) + 1
        /\ \A m \in 1..Len(pool) : q[m] = pool[m]
        /\ \A m \in 1..Len(t) : q[PutAt + m - 1] = t[m]
        /\ IsPrefix(pool, q)
    BY <1>1, PutIs
  <1>3. /\ Len(t) \in Nat /\ need \in Nat /\ need # 0 /\ PutAt \in Nat /\ PutAt >= 1
        /\ Len(q) = Len(pool) + need /\ Len(pool) <= Len(q) /\ Len(q) \in Nat
        /\ PutAt + Len(t) <= Len(q) /\ PutAt + Len(t) <= Len(q) + 1
    BY <1>1, <1>2
  <1>4. /\ key \in Slot /\ key.kind = "string" /\ HoldsNothing(key)
        /\ key.ofs = PutAt /\ key.len = Len(t)
    <2>0. mark \in {"noesc", "plain"}
      BY KeyMarkIs
    <2>1. mark \in Sub
      <3>1. CASE mark = "noesc"
        BY ONLY <3>1 DEF Sub
      <3>2. CASE mark = "plain"
        BY ONLY <3>2 DEF Sub
      <3> QED
        BY ONLY <2>0, <3>1, <3>2
    <2> QED
      BY <1>3, <2>1 DEF StringSlot, Slot, Kind, HoldsNothing, IsCtn
  <1>5. ~Aliased => MarkedAt(key, q)
    <2> HAVE ~Aliased
    <2>1. key = StringSlot(t, StringSub(t), PutAt)
      BY KeyMarkIs
    <2> HIDE DEF q, key
    <2> QED
      BY <1>2, <1>3, <2>1, NewMark
  <1> HIDE DEF key
  <1>6. /\ x \in Seq(Slot) /\ Len(x) = 2 /\ x[1] = key /\ x[2] = Fresh(kd)
        /\ \A m \in DOMAIN x : HoldsNothing(x[m])
    <2>1. Fresh(kd) \in Slot /\ HoldsNothing(Fresh(kd))
      BY FreshIs
    <2> DEFINE f == Fresh(kd)
    <2> HIDE DEF f
    <2>2. f \in Slot /\ HoldsNothing(f)
      BY <2>1 DEF f
    <2>3. /\ <<key, f>> \in Seq(Slot) /\ Len(<<key, f>>) = 2 /\ DOMAIN <<key, f>> = 1..2
          /\ <<key, f>>[1] = key /\ <<key, f>>[2] = f
      BY <1>4, <2>2
    <2>4. \A m \in 1..2 : m = 1 \/ m = 2
      OBVIOUS
    <2> QED
      BY <1>4, <2>2, <2>3, <2>4 DEF f
  <1>7. at \in Nat
    BY <1>1, SlotIs
  <1> HIDE DEF x, at
  <1>8. PutIn(vs, w, i, 2) /\ \A m \in 1..2 : w[at + m - 1] = x[m]
    BY <1>1, <1>4, <1>6, AppendedPutsIn DEF at
  <1> HIDE DEF w
  <1>9. w[at] = key /\ w[at + 1] = Fresh(kd) /\ new = {at, at + 1}
    <2>1. at + 1 - 1 = at /\ at + 2 - 1 = at + 1 /\ 1 \in 1..2 /\ 2 \in 1..2
      BY <1>7
    <2>2. at..(at + 1) = {at, at + 1}
      BY <1>7
    <2> QED
      BY <1>6, <1>8, <2>1, <2>2
  <1>10. Len(w) = Len(vs) + 2
    BY <1>8 DEF PutIn, Edited
  <1>11. RoomFor(r, vs, Len(w), Len(q)) /\ ~r.borrowed
    <2>1. RoomFor(st, vs, Len(vs), Len(q))
      <3>1. RoomFor(st, vs, Len(vs), Len(pool) + need)
        <4> HIDE DEF need
        <4> QED
          BY <1>3, OwnPoolRoom
      <3> QED
        BY <1>3, <3>1
    <2>2. Len(w) \in Nat /\ Len(w) <= Len(vs) + 2
      BY <1>1, <1>10
    <2> HIDE DEF st, q
    <2> QED
      BY <1>3, <2>1, <2>2, OwnValsRoom
  <1> HIDE DEF r, st, new, q, need
  <1>12. new = GetNext(vs, i)..(GetNext(vs, i) + 2 - 1)
    BY DEF new, at
  <1>13. \A j \in new : IsText(w[j]) => j = at
    BY <1>9, FreshIs
  <1>14. Behind(w[at], Len(pool), Len(q))
    <2>1. PutAt > Len(pool) /\ PutAt + Len(t) <= Len(q)
      BY ONLY <1>1, <1>2, <1>3
    <2> QED
      BY <1>4, <1>9, <2>1 DEF Behind
  <1>15. /\ \A j \in new : IsText(w[j]) => Behind(w[j], Len(pool), Len(q))
         /\ \A j \in new : IsText(w[j]) /\ ~Aliased => MarkedAt(w[j], q)
         /\ \A j, k \in new : (IsText(w[j]) /\ IsText(w[k])) => j = k
    BY <1>5, <1>9, <1>13, <1>14
  <1>16. Sound(w, q, r)
    BY <1>1, <1>2, <1>3, <1>8, <1>11, <1>12, <1>15, PutInSound
  <1> QED
    BY <1>2, <1>11, <1>16 DEF Kept, LentKept, w, x, key, q, r, st, need

-----------------------------------------------------------------------------
(* Every step keeps what there is to keep.                                 *)
LEMMA SameKept ==
  ASSUME IInv
  PROVE  Kept(vs, pool, store)
  BY IInvTypes, SamePrefix DEF Kept, LentKept, IInv

LEMMA RefusedKeeps ==
  ASSUME IInv, UNCHANGED <<vs, pool, store>>
  PROVE  Kept(vs', pool', store')
  <1>1. vs' = vs /\ pool' = pool /\ store' = store
    OBVIOUS
  <1> QED
    BY <1>1, SameKept

LEMMA WriteTextKeeps ==
  ASSUME IInv, NEW i \in DOMAIN vs, ~IsCtn(vs[i]), NEW t \in Texts, NEW c,
         WriteText(c, i, t)
  PROVE  Kept(vs', pool', store')
  <1>1. t \in Seq(Chars)
    BY TextsAssumption
  <1>2. CASE /\ Writable(i, t)
             /\ pool' = Overwritten(vs[i].ofs, t)
             /\ PutText(i, StringSlot(t, StringSub(t), vs[i].ofs))
             /\ UNCHANGED store
    <2>1. /\ vs' = [vs EXCEPT ![i] = StringSlot(t, StringSub(t), vs[i].ofs)]
          /\ pool' = Overwritten(vs[i].ofs, t) /\ store' = store
      BY <1>2 DEF PutText
    <2> QED
      BY <1>1, <1>2, <2>1, OverwriteKeeps
  <1>3. CASE /\ store' = OwnPool(store, Len(t) + 1)
             /\ pool' = PoolPut(t)
             /\ PutText(i, StringSlot(t, StringSub(t), PutAt))
    <2>1. /\ vs' = [vs EXCEPT ![i] = StringSlot(t, StringSub(t), PutAt)]
          /\ pool' = PoolPut(t) /\ store' = OwnPool(store, Len(t) + 1)
      BY <1>3 DEF PutText
    <2> QED
      BY <1>1, <2>1, TextPutKeeps
  <1>4. CASE UNCHANGED <<vs, pool, store>>
    BY <1>4, RefusedKeeps
  <1>5. \/ /\ Writable(i, t)
           /\ pool' = Overwritten(vs[i].ofs, t)
           /\ PutText(i, StringSlot(t, StringSub(t), vs[i].ofs))
           /\ UNCHANGED store
        \/ /\ store' = OwnPool(store, Len(t) + 1)
           /\ pool' = PoolPut(t)
           /\ PutText(i, StringSlot(t, StringSub(t), PutAt))
        \/ UNCHANGED <<vs, pool, store>>
    BY DEF WriteText, Refuse
  <1> QED
    BY <1>2, <1>3, <1>4, <1>5

(* The values of a document: setting one.                                  *)
LEMMA SetsKeep ==
  ASSUME IInv, NEW i \in Handles,
         \/ \E v \in Scalars : SetScalar(i, v)
         \/ SetBadNumber(i)
         \/ \E t \in Texts : SetText(i, t) \/ SetKey(i, t)
         \/ \E from, to \in Texts : Rename(i, from, to)
  PROVE  Kept(vs', pool', store')
  <1>0. i \in DOMAIN vs /\ WellFormedArena(vs)
    BY IInvTypes DEF Handles
  <1>1. ASSUME NEW v \in Scalars, SetScalar(i, v) PROVE Kept(vs', pool', store')
    <2>1. v \in Slot /\ v.kind \in {"literal", "number"}
      BY ScalarsAssumption
    <2>2. CASE /\ ~IsCtn(vs[i]) /\ vs' = [vs EXCEPT ![i] = v]
               /\ pool' = pool /\ store' = store
      BY <2>1, <2>2, ScalarKeeps
    <2>3. CASE UNCHANGED <<vs, pool, store>>
      BY <2>3, RefusedKeeps
    <2>4. \/ /\ ~IsCtn(vs[i]) /\ vs' = [vs EXCEPT ![i] = v]
             /\ pool' = pool /\ store' = store
          \/ UNCHANGED <<vs, pool, store>>
      BY ONLY <1>1 DEF SetScalar, Refuse
    <2> QED
      BY <2>2, <2>3, <2>4
  <1>2. CASE SetBadNumber(i)
    <2>1. UNCHANGED <<vs, pool, store>>
      BY <1>2 DEF SetBadNumber, Refuse
    <2> QED
      BY <2>1, RefusedKeeps
  <1>3. ASSUME NEW t \in Texts, SetText(i, t) PROVE Kept(vs', pool', store')
    <2> DEFINE c == [Call("set_text", i) EXCEPT !.text = t]
    <2>1. \/ ~IsCtn(vs[i]) /\ WriteText(c, i, t)
          \/ UNCHANGED <<vs, pool, store>>
      BY ONLY <1>3 DEF SetText, Refuse
    <2> HIDE DEF c
    <2> QED
      BY <1>0, <2>1, WriteTextKeeps, RefusedKeeps
  <1>4. ASSUME NEW t \in Texts, SetKey(i, t) PROVE Kept(vs', pool', store')
    <2> DEFINE c == [Call("set_key", i) EXCEPT !.text = t]
    <2>1. \/ ~IsCtn(vs[i]) /\ WriteText(c, i, t)
          \/ UNCHANGED <<vs, pool, store>>
      BY ONLY <1>4 DEF SetKey, Refuse, IsCtn
    <2> HIDE DEF c
    <2> QED
      BY <1>0, <2>1, WriteTextKeeps, RefusedKeeps
  <1>5. ASSUME NEW from \in Texts, NEW to \in Texts, Rename(i, from, to)
        PROVE  Kept(vs', pool', store')
    <2> DEFINE c == [Call("rename", i) EXCEPT !.key = from, !.text = to]
               k == FindKey(i, from)
    <2>1. \/ vs[i].kind = "object" /\ k # 0 /\ WriteText(c, k, to)
          \/ UNCHANGED <<vs, pool, store>>
      BY ONLY <1>5 DEF Rename, Refuse
    <2>2. vs[i].kind = "object" /\ k # 0 => k \in DOMAIN vs /\ vs[k].kind = "string"
      BY <1>0, FoundKey
    <2> HIDE DEF c, k
    <2>3. ASSUME vs[i].kind = "object", k # 0, WriteText(c, k, to)
          PROVE  Kept(vs', pool', store')
      <3>1. k \in DOMAIN vs /\ ~IsCtn(vs[k])
        BY <2>2, <2>3 DEF IsCtn
      <3> QED
        BY <2>3, <3>1, WriteTextKeeps
    <2> QED
      BY <2>1, <2>3, RefusedKeeps
  <1> QED
    BY <1>1, <1>2, <1>3, <1>4, <1>5

(* The members and elements of a document: putting in and taking out.      *)
LEMMA EditsKeep ==
  ASSUME IInv, NEW i \in Handles,
         \/ \E key \in Texts, kd \in Kinds : Insert(i, key, kd)
         \/ \E kd \in Kinds : Push(i, kd)
         \/ \E key \in Texts : EraseKey(i, key)
         \/ \E n \in 0..MaxIndex : EraseAt(i, n)
         \/ Clear(i)
  PROVE  Kept(vs', pool', store')
  <1>0. i \in DOMAIN vs
    BY DEF Handles
  <1>1. ASSUME NEW key \in Texts, NEW kd \in Kinds, Insert(i, key, kd)
        PROVE  Kept(vs', pool', store')
    <2> DEFINE q == PoolPut(key)
               st == OwnPool(store, Len(key) + 1)
    <2>1. key \in Seq(Chars)
      BY TextsAssumption
    <2>2. \/ /\ vs[i].kind = "object"
             /\ \E mark \in KeyMarks(key) :
                  vs' = BumpLen(Appended(i, <<StringSlot(key, mark, PutAt), Fresh(kd)>>), i, 1)
             /\ pool' = q /\ store' = OwnVals(st, 2)
          \/ vs[i].kind = "object" /\ vs' = vs /\ pool' = q /\ store' = st
          \/ UNCHANGED <<vs, pool, store>>
      BY ONLY <1>1 DEF Insert, NewMember, Refuse
    <2>3. CASE /\ vs[i].kind = "object"
               /\ \E mark \in KeyMarks(key) :
                    vs' = BumpLen(Appended(i, <<StringSlot(key, mark, PutAt), Fresh(kd)>>), i, 1)
               /\ pool' = q /\ store' = OwnVals(st, 2)
      <3>1. PICK mark \in KeyMarks(key) :
              vs' = BumpLen(Appended(i, <<StringSlot(key, mark, PutAt), Fresh(kd)>>), i, 1)
        BY <2>3
      <3>2. Kept(BumpLen(Appended(i, <<StringSlot(key, mark, PutAt), Fresh(kd)>>), i, 1),
                 PoolPut(key), OwnVals(OwnPool(store, Len(key) + 1), 2))
        BY <1>0, <2>1, <2>3, MemberKeeps
      <3> QED
        BY ONLY <2>3, <3>1, <3>2
    <2>4. CASE vs[i].kind = "object" /\ vs' = vs /\ pool' = q /\ store' = st
      <3>1. IsCtn(vs[i])
        BY <2>4 DEF IsCtn
      <3>2. Kept(vs, PoolPut(key), OwnPool(store, Len(key) + 1))
        BY <1>0, <2>1, <3>1, KeyLeftKeeps
      <3> QED
        BY ONLY <2>4, <3>2
    <2>5. CASE UNCHANGED <<vs, pool, store>>
      BY <2>5, RefusedKeeps
    <2> QED
      BY <2>2, <2>3, <2>4, <2>5
  <1>2. ASSUME NEW kd \in Kinds, Push(i, kd) PROVE Kept(vs', pool', store')
    <2>1. \/ /\ vs[i].kind = "array"
             /\ vs' = BumpLen(Appended(i, <<Fresh(kd)>>), i, 1)
             /\ pool' = pool /\ store' = OwnVals(store, 1)
          \/ UNCHANGED <<vs, pool, store>>
      BY ONLY <1>2 DEF Push, Refuse
    <2>2. ASSUME vs[i].kind = "array"
          PROVE  Kept(BumpLen(Appended(i, <<Fresh(kd)>>), i, 1), pool, OwnVals(store, 1))
      BY <1>0, <2>2, PushKeeps
    <2> QED
      BY <2>1, <2>2, RefusedKeeps
  <1>3. ASSUME NEW key \in Texts, EraseKey(i, key) PROVE Kept(vs', pool', store')
    <2> DEFINE k == FindKey(i, key)
               u == BumpLen(Dropped(i, k, GetNext(vs, k + 1) - k), i, -1)
    <2>1. \/ /\ vs[i].kind = "object" /\ k # 0
             /\ vs' = u /\ pool' = pool /\ store' = OwnVals(store, 0)
          \/ UNCHANGED <<vs, pool, store>>
      BY ONLY <1>3 DEF EraseKey, TakeOut, Refuse
    <2>2. ASSUME vs[i].kind = "object", k # 0 PROVE Kept(u, pool, OwnVals(store, 0))
      BY <1>0, <2>2, EraseKeyKeeps
    <2> HIDE DEF u, k
    <2> QED
      BY <2>1, <2>2, RefusedKeeps
  <1>4. ASSUME NEW n \in 0..MaxIndex, EraseAt(i, n) PROVE Kept(vs', pool', store')
    <2> DEFINE e == Element(i, n)
               u == BumpLen(Dropped(i, e, SpanOf(vs, e)), i, -1)
    <2>0. n \in Nat
      OBVIOUS
    <2>1. \/ /\ vs[i].kind = "array" /\ n < vs[i].len
             /\ vs' = u /\ pool' = pool /\ store' = OwnVals(store, 0)
          \/ UNCHANGED <<vs, pool, store>>
      BY ONLY <1>4 DEF EraseAt, TakeOut, Refuse
    <2>2. ASSUME vs[i].kind = "array", n < vs[i].len PROVE Kept(u, pool, OwnVals(store, 0))
      BY <1>0, <2>0, <2>2, EraseAtKeeps
    <2> HIDE DEF u, e
    <2> QED
      BY <2>1, <2>2, RefusedKeeps
  <1>5. CASE Clear(i)
    <2>1. \/ /\ IsCtn(vs[i])
             /\ vs' = Emptied(i) /\ pool' = pool /\ store' = OwnVals(store, 0)
          \/ UNCHANGED <<vs, pool, store>>
      BY ONLY <1>5 DEF Clear, Refuse
    <2>2. ASSUME IsCtn(vs[i]) PROVE Kept(Emptied(i), pool, OwnVals(store, 0))
      BY <1>0, <2>2, ClearKeeps
    <2> QED
      BY <2>1, <2>2, RefusedKeeps
  <1> QED
    BY <1>1, <1>2, <1>3, <1>4, <1>5

LEMMA NextKeeps ==
  ASSUME IInv, [Next]_vars
  PROVE  Kept(vs', pool', store')
  <1>1. ASSUME NEW i \in Handles,
               \/ \E v \in Scalars : SetScalar(i, v)
               \/ SetBadNumber(i)
               \/ \E t \in Texts : SetText(i, t) \/ SetKey(i, t)
               \/ \E from, to \in Texts : Rename(i, from, to)
        PROVE  Kept(vs', pool', store')
    BY <1>1, SetsKeep
  <1>2. ASSUME NEW i \in Handles,
               \/ \E key \in Texts, kd \in Kinds : Insert(i, key, kd)
               \/ \E kd \in Kinds : Push(i, kd)
               \/ \E key \in Texts : EraseKey(i, key)
               \/ \E n \in 0..MaxIndex : EraseAt(i, n)
               \/ Clear(i)
        PROVE  Kept(vs', pool', store')
    BY <1>2, EditsKeep
  <1>3. CASE UNCHANGED <<vs, pool, store>>
    BY <1>3, RefusedKeeps
  <1>4. \/ \E i \in Handles :
             \/ \/ \E v \in Scalars : SetScalar(i, v)
                \/ SetBadNumber(i)
                \/ \E t \in Texts : SetText(i, t) \/ SetKey(i, t)
                \/ \E from, to \in Texts : Rename(i, from, to)
             \/ \/ \E key \in Texts, kd \in Kinds : Insert(i, key, kd)
                \/ \E kd \in Kinds : Push(i, kd)
                \/ \E key \in Texts : EraseKey(i, key)
                \/ \E n \in 0..MaxIndex : EraseAt(i, n)
                \/ Clear(i)
        \/ UNCHANGED <<vs, pool, store>>
    BY DEF Next, ClearMutError, vars, Kinds
  <1> QED
    BY <1>1, <1>2, <1>3, <1>4

LEMMA InitSound ==
  ASSUME Init
  PROVE  IInv
  <1>1. PICK d \in Docs, m \in Modes :
          /\ vs = d.vs
          /\ pool = d.pool
          /\ store = [borrowed |-> m.borrowed, hasPool |-> m.hasPool,
                      vcap |-> IF m.borrowed THEN 0 ELSE Len(d.vs) + 2,
                      pcap |-> IF m.hasPool THEN Len(d.pool) + Padding ELSE 0]
    BY DEF Init
  <1>2. /\ WellFormedArena(vs) /\ pool \in Seq(Chars)
        /\ TextsApart(vs, pool) /\ Marked(vs, pool)
    BY <1>1, DocsAssumption
  <1>3. /\ vs \in Seq(Slot) /\ Len(vs) \in Nat /\ Len(pool) \in Nat
        /\ Padding \in Nat /\ Padding # 0
        /\ m.borrowed \in BOOLEAN /\ m.hasPool \in BOOLEAN
    BY <1>2, ModesAssumption, BoundsAssumption DEF WellFormedArena, WellNested
  <1>4. /\ store.borrowed = m.borrowed /\ store.hasPool = m.hasPool
        /\ ~m.borrowed => store.vcap = Len(vs) + 2
        /\ m.hasPool => store.pcap = Len(pool) + Padding
    BY <1>1
  <1>5. store \in StoreType
    <2>1. (IF m.borrowed THEN 0 ELSE Len(vs) + 2) \in Nat
      BY <1>3
    <2>2. (IF m.hasPool THEN Len(pool) + Padding ELSE 0) \in Nat
      BY <1>3
    <2> QED
      BY <1>1, <1>3, <2>1, <2>2 DEF StoreType
  <1>6. ~store.borrowed => Len(vs) <= store.vcap
    BY <1>3, <1>4
  <1>7. ASSUME store.hasPool
        PROVE  Len(pool) + 1 <= store.pcap /\ Len(pool) <= store.pcap /\ store.pcap \in Nat
    BY <1>3, <1>4, <1>7
  <1>8. ASSUME store.hasPool, NEW i \in DOMAIN vs, IsText(vs[i])
        PROVE  vs[i].ofs + vs[i].len <= store.pcap
    <2>1. /\ vs[i].ofs \in Nat /\ vs[i].len \in Nat
          /\ vs[i].ofs + vs[i].len <= Len(pool) + 1
      BY <1>2, <1>3, <1>8, TextsAre
    <2>2. Len(pool) + 1 <= store.pcap /\ store.pcap \in Nat
      BY <1>7, <1>8
    <2>3. \A x, y, u, v \in Nat : (x + y <= u + 1 /\ u + 1 <= v) => x + y <= v
      OBVIOUS
    <2> QED
      BY ONLY <1>3, <2>1, <2>2, <2>3
  <1>9. Rooms(vs, Len(pool), store)
    BY <1>6, <1>7, <1>8 DEF Rooms
  <1> QED
    BY <1>2, <1>5, <1>9 DEF IInv, Sound

-----------------------------------------------------------------------------
(* The write bound.  What a slot adds to the flat bound is what the walk   *)
(* counts for it.                                                          *)
LEMMA SlotBoundIs ==
  ASSUME NEW s, s.len \in Nat
  PROVE  SlotBound(s) \in Nat /\ WbContrib(s) = SlotBound(s)
  <1>1. WbContrib(s) = SlotBound(s)
    BY DEF WbContrib, SlotBound
  <1>2. s.len * 6 \in Nat
    OBVIOUS
  <1>3. SlotBound(s) \in Nat
    BY <1>2 DEF SlotBound
  <1> QED
    BY <1>1, <1>3

LEMMA FlatIs ==
  ASSUME NEW v, NEW n \in Nat, DOMAIN v = 1..n, GetNext(v, 1) = n + 1,
         \A k \in DOMAIN v : v[k].len \in Nat
  PROVE  LET f == [k \in DOMAIN v |-> SlotBound(v[k])] IN
         /\ \A k \in 1..n : f[k] \in Nat /\ f[k] = SlotBound(v[k])
         /\ BoundSlots(v, 1) = 32 + SumOver(f, 1, n)
         /\ BoundSlots(v, 1) \in Nat /\ BoundSlots(v, 1) >= 32
  <1> DEFINE f == [k \in DOMAIN v |-> SlotBound(v[k])]
  <1>1. \A k \in 1..n : f[k] \in Nat /\ f[k] = SlotBound(v[k])
    BY SlotBoundIs
  <1>2. n + 1 - 1 = n /\ n >= 1 - 1 /\ 1 \in Nat /\ 0 \in Nat /\ 1 >= 1
    OBVIOUS
  <1>3. BoundSlots(v, 1) = 32 + SumOver(f, 1, n)
    BY <1>2 DEF BoundSlots
  <1> HIDE DEF f
  <1>4. Adds(f, f, f, 1, n, 0)
    BY <1>1 DEF Adds
  <1>5. SumOver(f, 1, n) \in Nat
    BY <1>2, <1>4, SumsAdd
  <1>6. BoundSlots(v, 1) \in Nat /\ BoundSlots(v, 1) >= 32
    BY <1>3, <1>5
  <1> QED
    BY <1>1, <1>3, <1>6 DEF f

(* One slot that is no container takes the place of another: the flat      *)
(* bound changes by what the two count, the pretty part does not.          *)
Rewritten(v, i, s) == [v EXCEPT ![i] = s]

LEMMA RewrittenBounds ==
  ASSUME NEW v, v \in Seq(Slot), GetNext(v, 1) = Len(v) + 1, NEW i \in DOMAIN v,
         NEW s, s.len \in Nat, ~IsCtn(v[i]), ~IsCtn(s)
  PROVE  LET u == Rewritten(v, i, s) IN
         /\ BoundSlots(v, 1) \in Nat /\ BoundSlots(u, 1) \in Nat
         /\ BoundSlots(u, 1) >= 32
         /\ BoundSlots(u, 1) = BoundSlots(v, 1) - WbContrib(v[i]) + WbContrib(s)
         /\ \A ind : PrettyExtra(u, 1, ind) = PrettyExtra(v, 1, ind)
  <1> DEFINE n == Len(v)
             u == Rewritten(v, i, s)
             f == [k \in DOMAIN v |-> SlotBound(v[k])]
             g == [k \in DOMAIN u |-> SlotBound(u[k])]
             d == SlotBound(s) - SlotBound(v[i])
  <1>1. /\ n \in Nat /\ DOMAIN v = 1..n /\ DOMAIN u = 1..n
        /\ u[i] = s /\ \A k \in 1..n : k # i => u[k] = v[k]
    BY DEF Rewritten
  <1>2. \A k \in DOMAIN v : v[k].len \in Nat
    BY SlotTyped
  <1>3. \A k \in DOMAIN u : u[k].len \in Nat
    BY <1>1, <1>2
  <1> HIDE DEF u, n
  <1>4. \A k \in 1..n : /\ IsCtn(u[k]) <=> IsCtn(v[k])
                        /\ NonEmpty(u[k]) <=> NonEmpty(v[k])
                        /\ GetNext(u, k) = GetNext(v, k)
    <2> TAKE k \in 1..n
    <2>1. CASE k = i
      BY <1>1, <2>1 DEF NonEmpty, GetNext, SpanOf
    <2>2. CASE k # i
      BY <1>1, <2>2 DEF GetNext, SpanOf
    <2> QED
      BY <2>1, <2>2
  <1>5. 1 \in 1..n
    BY <1>1
  <1>6. GetNext(u, 1) = n + 1 /\ GetNext(v, 1) = n + 1
    BY <1>4, <1>5 DEF n
  <1>7. /\ \A k \in 1..n : f[k] \in Nat /\ f[k] = SlotBound(v[k])
        /\ BoundSlots(v, 1) = 32 + SumOver(f, 1, n)
        /\ BoundSlots(v, 1) \in Nat
    BY <1>1, <1>2, <1>6, FlatIs
  <1>8. /\ \A k \in 1..n : g[k] \in Nat /\ g[k] = SlotBound(u[k])
        /\ BoundSlots(u, 1) = 32 + SumOver(g, 1, n)
        /\ BoundSlots(u, 1) \in Nat /\ BoundSlots(u, 1) >= 32
    BY <1>1, <1>3, <1>6, FlatIs
  <1> HIDE DEF f, g
  <1>9. /\ SlotBound(v[i]) \in Nat /\ WbContrib(v[i]) = SlotBound(v[i])
        /\ SlotBound(s) \in Nat /\ WbContrib(s) = SlotBound(s)
    BY <1>2, SlotBoundIs
  <1>10. d \in Int /\ SlotBound(s) = SlotBound(v[i]) + d
    BY <1>9
  <1> HIDE DEF d
  <1>11. \A k \in 1..n : g[k] = f[k] + (IF k = i THEN d ELSE 0)
    <2> TAKE k \in 1..n
    <2>1. CASE k = i
      <3>1. g[k] = SlotBound(s) /\ f[k] = SlotBound(v[i])
        BY <1>1, <1>7, <1>8, <2>1
      <3> QED
        BY <1>10, <2>1, <3>1
    <2>2. CASE k # i
      <3>1. g[k] = f[k] /\ f[k] \in Nat
        BY <1>1, <1>7, <1>8, <2>2
      <3> QED
        BY <2>2, <3>1
    <2> QED
      BY <2>1, <2>2
  <1>12. /\ Alike(g, f, 1, n, i, d)
         /\ 1 \in Nat /\ n >= 1 - 1 /\ i \in Int /\ i \in 1..n /\ 1 >= 1
    BY <1>1, <1>7, <1>8, <1>11 DEF Alike
  <1>13. /\ SumOver(f, 1, n) \in Int
         /\ SumOver(g, 1, n) = SumOver(f, 1, n) + (IF i \in 1..n THEN d ELSE 0)
    BY <1>1, <1>10, <1>12, SumsAlike
  <1>14. SumOver(g, 1, n) = SumOver(f, 1, n) + d
    BY <1>12, <1>13
  <1>15. BoundSlots(u, 1) = BoundSlots(v, 1) - WbContrib(v[i]) + WbContrib(s)
    BY ONLY <1>7, <1>8, <1>9, <1>10, <1>13, <1>14
  <1>16. ASSUME NEW ind PROVE PrettyExtra(u, 1, ind) = PrettyExtra(v, 1, ind)
    <2>1. ASSUME NEW k \in 1..n PROVE PrettyCost(u, 1, ind, k) = PrettyCost(v, 1, ind, k)
      <3>1. \A c \in 1..(k - 1) : c \in 1..n
        BY <1>1
      <3>2. Inside(u, 1, k) = Inside(v, 1, k)
        BY <1>4, <3>1 DEF Inside
      <3> QED
        BY <1>4, <3>2 DEF PrettyCost
    <2>2. [k \in DOMAIN u |-> PrettyCost(u, 1, ind, k)]
            = [k \in DOMAIN v |-> PrettyCost(v, 1, ind, k)]
      BY <1>1, <2>1
    <2> QED
      BY <1>6, <2>2 DEF PrettyExtra
  <1> QED
    BY <1>7, <1>8, <1>15, <1>16 DEF u

(* The pretty part is linear in the indent.                                *)
LEMMA PrettyIs ==
  ASSUME NEW v, v \in Seq(Slot), GetNext(v, 1) = Len(v) + 1
  PROVE  \E a, b \in Nat : \A ind \in Nat \ {0} : PrettyExtra(v, 1, ind) = a + ind * b
  <1> DEFINE n == Len(v)
             dd(k) == Cardinality(Inside(v, 1, k))
             f == [k \in 1..n |-> IF NonEmpty(v[k]) THEN 4 ELSE 3]
             g == [k \in 1..n |-> IF NonEmpty(v[k]) THEN 2 * dd(k) + 1 ELSE dd(k)]
  <1>1. n \in Nat /\ DOMAIN v = 1..n /\ n + 1 - 1 = n /\ n >= 1 - 1 /\ 1 \in Nat /\ 1 >= 1
    OBVIOUS
  <1>2. \A k \in 1..n : dd(k) \in Nat
    <2> TAKE k \in 1..n
    <2>1. Inside(v, 1, k) \subseteq 1..(k - 1)
      BY DEF Inside
    <2>2. IsFiniteSet(1..(k - 1))
      BY <1>1, FS_Interval
    <2> QED
      BY <2>1, <2>2, FS_Subset, FS_CardinalityType
  <1>3. \A k \in 1..n : f[k] \in Nat /\ g[k] \in Nat
    BY <1>2
  <1>4. ASSUME NEW ind \in Nat \ {0}, NEW k \in 1..n
        PROVE  PrettyCost(v, 1, ind, k) = f[k] + ind * g[k]
    <2>1. dd(k) \in Nat /\ ind \in Nat
      BY <1>2
    <2>2. CASE NonEmpty(v[k])
      <3>1. \A m, d \in Nat : (1 + (d + 1) * m) + 2 + (1 + d * m) = 4 + m * (2 * d + 1)
        OBVIOUS
      <3>2. f[k] = 4 /\ g[k] = 2 * dd(k) + 1
        BY <2>2
      <3>3. PrettyCost(v, 1, ind, k) = (1 + (dd(k) + 1) * ind) + 2 + (1 + dd(k) * ind)
        BY <2>2 DEF PrettyCost
      <3> HIDE DEF dd, f, g
      <3> QED
        BY ONLY <2>1, <3>1, <3>2, <3>3
    <2>3. CASE ~NonEmpty(v[k])
      <3>1. \A m, d \in Nat : (1 + d * m) + 2 = 3 + m * d
        OBVIOUS
      <3>2. f[k] = 3 /\ g[k] = dd(k)
        BY <2>3
      <3>3. PrettyCost(v, 1, ind, k) = (1 + dd(k) * ind) + 2
        BY <2>3 DEF PrettyCost
      <3> HIDE DEF dd, f, g
      <3> QED
        BY ONLY <2>1, <3>1, <3>2, <3>3
    <2> QED
      BY <2>2, <2>3
  <1> HIDE DEF f, g, n, dd
  <1> DEFINE A == SumOver(f, 1, n)
             B == SumOver(g, 1, n)
  <1>5. ASSUME NEW ind \in Nat \ {0}
        PROVE  A \in Nat /\ B \in Nat /\ PrettyExtra(v, 1, ind) = 8 + A + ind * B
    <2> DEFINE h == [k \in DOMAIN v |-> PrettyCost(v, 1, ind, k)]
    <2>1. \A k \in 1..n : h[k] = f[k] + ind * g[k]
      BY <1>1, <1>4
    <2>2. ind \in Nat /\ ind # 0 /\ GetNext(v, 1) = n + 1
      BY DEF n
    <2>3. PrettyExtra(v, 1, ind) = 8 + SumOver(h, 1, n)
      BY <1>1, <2>2 DEF PrettyExtra
    <2> HIDE DEF h
    <2> HIDE DEF A, B
    <2>4. Adds(h, f, g, 1, n, ind)
      BY <1>3, <2>1 DEF Adds
    <2>5. /\ SumOver(f, 1, n) \in Nat /\ SumOver(g, 1, n) \in Nat
          /\ SumOver(h, 1, n) = SumOver(f, 1, n) + ind * SumOver(g, 1, n)
      BY <1>1, <2>2, <2>4, SumsAdd
    <2>6. \A x, y, z \in Nat : 8 + (x + z * y) = 8 + x + z * y
      OBVIOUS
    <2> QED
      BY ONLY <2>2, <2>3, <2>5, <2>6 DEF A, B
  <1>6. 1 \in Nat \ {0}
    OBVIOUS
  <1>7. A \in Nat /\ B \in Nat
    BY <1>5, <1>6
  <1> HIDE DEF A, B
  <1>8. 8 + A \in Nat
    BY <1>7
  <1> QED
    BY <1>5, <1>7, <1>8

(* What is kept of the bound.                                              *)
BoundKept(b, v) ==
  /\ b \in [flat : Nat, pc : Nat, pk : Nat]
  /\ b.flat # 0 => /\ b.flat = BoundSlots(v, 1)
                   /\ \A ind \in 1..4 : b.pc + ind * b.pk = PrettyExtra(v, 1, ind)

LEMMA NoBoundKept ==
  ASSUME NEW v
  PROVE  BoundKept(NoBound, v)
  BY DEF NoBound, BoundKept

LEMMA ExactKept ==
  ASSUME NEW v, v \in Seq(Slot), GetNext(v, 1) = Len(v) + 1
  PROVE  BoundKept(ExactBound(v), v)
  <1>1. PICK a \in Nat, b \in Nat :
          \A ind \in Nat \ {0} : PrettyExtra(v, 1, ind) = a + ind * b
    BY PrettyIs
  <1> DEFINE p(ind) == PrettyExtra(v, 1, ind)
             e == ExactBound(v)
  <1>2. p(1) = a + 1 * b /\ p(2) = a + 2 * b
    BY <1>1
  <1>3. \A x, y \in Nat : /\ 2 * (x + 1 * y) - (x + 2 * y) = x
                          /\ (x + 2 * y) - (x + 1 * y) = y
    OBVIOUS
  <1>4. 2 * p(1) - p(2) = a /\ p(2) - p(1) = b
    <2> HIDE DEF p
    <2> QED
      BY ONLY <1>2, <1>3, a \in Nat, b \in Nat
  <1>5. BoundSlots(v, 1) \in Nat
    <2>1. Len(v) \in Nat /\ DOMAIN v = 1..Len(v) /\ \A k \in DOMAIN v : v[k].len \in Nat
      BY SlotTyped
    <2> QED
      BY <2>1, FlatIs
  <1>6. e = [flat |-> BoundSlots(v, 1), pc |-> a, pk |-> b]
    BY <1>4 DEF ExactBound
  <1>7. ASSUME NEW ind \in 1..4 PROVE p(ind) = a + ind * b
    <2>1. ind \in Nat \ {0}
      OBVIOUS
    <2> QED
      BY <1>1, <2>1
  <1> HIDE DEF e
  <1>8. \A ind \in 1..4 : e.pc + ind * e.pk = p(ind)
    BY <1>6, <1>7
  <1> QED
    BY <1>5, <1>6, <1>8 DEF BoundKept, e

(* Every step leaves the bound and the arena alone, or one slot that is no *)
(* container takes the place of another and the bound follows, or the      *)
(* bound is dropped.                                                       *)
BoundFollows ==
  \/ UNCHANGED <<vs, wb>>
  \/ wb' = NoBound
  \/ \E i \in DOMAIN vs, s \in [kind : Kind \ {"array", "object"}, sub : Sub, len : Nat,
                                ofs : Int] :
       /\ ~IsCtn(vs[i])
       /\ vs' = [vs EXCEPT ![i] = s]
       /\ wb' = WbSwap(vs[i], s)

LEMMA TextFollows ==
  ASSUME IInv, NEW i \in DOMAIN vs, ~IsCtn(vs[i]), NEW t \in Texts, NEW c,
         WriteText(c, i, t)
  PROVE  BoundFollows
  <1>1. t \in Seq(Chars) /\ Len(t) \in Nat /\ vs \in Seq(Slot) /\ Len(pool) \in Nat
    BY TextsAssumption, IInvTypes
  <1>2. vs[i].ofs \in Int /\ PutAt \in Int
    BY <1>1, SlotTyped DEF PutAt
  <1>3. ASSUME NEW o \in Int, PutText(i, StringSlot(t, StringSub(t), o)) PROVE BoundFollows
    <2> DEFINE s == StringSlot(t, StringSub(t), o)
    <2>1. s \in [kind : Kind \ {"array", "object"}, sub : Sub, len : Nat, ofs : Int]
      <3>1. StringSub(t) \in Sub
        BY DEF StringSub, Sub
      <3>2. "string" \in Kind \ {"array", "object"}
        BY DEF Kind
      <3> QED
        BY <1>1, <3>1, <3>2 DEF StringSlot
    <2>2. vs' = [vs EXCEPT ![i] = s] /\ wb' = WbSwap(vs[i], s)
      BY <1>3 DEF PutText
    <2> HIDE DEF s
    <2> QED
      BY <2>1, <2>2 DEF BoundFollows
  <1>4. \/ PutText(i, StringSlot(t, StringSub(t), vs[i].ofs))
        \/ PutText(i, StringSlot(t, StringSub(t), PutAt))
        \/ UNCHANGED <<vs, wb>>
    BY DEF WriteText, Refuse
  <1>5. CASE UNCHANGED <<vs, wb>>
    BY <1>5 DEF BoundFollows
  <1> QED
    BY <1>2, <1>3, <1>4, <1>5

LEMMA StepFollows ==
  ASSUME IInv, [Next]_vars
  PROVE  BoundFollows
  <1>0. CASE UNCHANGED <<vs, wb>>
    BY <1>0 DEF BoundFollows
  <1>1. CASE wb' = NoBound
    BY <1>1 DEF BoundFollows
  <1>2. ASSUME NEW i \in Handles, NEW v \in Scalars, SetScalar(i, v) PROVE BoundFollows
    <2>1. \/ ~IsCtn(vs[i]) /\ vs' = [vs EXCEPT ![i] = v] /\ wb' = WbSwap(vs[i], v)
          \/ UNCHANGED <<vs, wb>>
      BY ONLY <1>2 DEF SetScalar, Refuse
    <2>2. v \in Slot /\ v.kind \in {"literal", "number"} /\ i \in DOMAIN vs
      BY ScalarsAssumption DEF Handles
    <2>3. v \in [kind : Kind \ {"array", "object"}, sub : Sub, len : Nat, ofs : Int]
      BY <2>2 DEF Slot
    <2> QED
      BY <1>0, <2>1, <2>2, <2>3 DEF BoundFollows
  <1>3. ASSUME NEW i \in Handles, SetBadNumber(i) PROVE BoundFollows
    <2>1. UNCHANGED <<vs, wb>>
      BY ONLY <1>3 DEF SetBadNumber, Refuse
    <2> QED
      BY <1>0, <2>1
  <1>4. ASSUME NEW i \in Handles, NEW t \in Texts, SetText(i, t) \/ SetKey(i, t)
        PROVE  BoundFollows
    <2> DEFINE b == [Call("set_text", i) EXCEPT !.text = t]
               c == [Call("set_key", i) EXCEPT !.text = t]
    <2>1. \/ ~IsCtn(vs[i]) /\ WriteText(b, i, t)
          \/ ~IsCtn(vs[i]) /\ WriteText(c, i, t)
          \/ UNCHANGED <<vs, wb>>
      BY ONLY <1>4 DEF SetText, SetKey, Refuse, IsCtn
    <2> HIDE DEF b, c
    <2>2. i \in DOMAIN vs
      BY DEF Handles
    <2> QED
      BY <1>0, <2>1, <2>2, TextFollows
  <1>5. ASSUME NEW i \in Handles, NEW from \in Texts, NEW to \in Texts, Rename(i, from, to)
        PROVE  BoundFollows
    <2> DEFINE c == [Call("rename", i) EXCEPT !.key = from, !.text = to]
               k == FindKey(i, from)
    <2>1. \/ vs[i].kind = "object" /\ k # 0 /\ WriteText(c, k, to)
          \/ UNCHANGED <<vs, wb>>
      BY ONLY <1>5 DEF Rename, Refuse
    <2>2. i \in DOMAIN vs /\ WellFormedArena(vs)
      BY IInvTypes DEF Handles
    <2>3. vs[i].kind = "object" /\ k # 0 => k \in DOMAIN vs /\ vs[k].kind = "string"
      BY <2>2, FoundKey
    <2> HIDE DEF c, k
    <2>4. ASSUME vs[i].kind = "object", k # 0, WriteText(c, k, to) PROVE BoundFollows
      <3>1. k \in DOMAIN vs /\ ~IsCtn(vs[k])
        BY <2>3, <2>4 DEF IsCtn
      <3> QED
        BY <2>4, <3>1, TextFollows
    <2> QED
      BY <1>0, <2>1, <2>4
  <1>6. ASSUME NEW i \in Handles, NEW key, NEW kd, Insert(i, key, kd)
        PROVE  wb' = NoBound \/ UNCHANGED <<vs, wb>>
    BY ONLY <1>6 DEF Insert, NewMember, Refuse
  <1>7. ASSUME NEW i \in Handles, NEW kd, Push(i, kd)
        PROVE  wb' = NoBound \/ UNCHANGED <<vs, wb>>
    BY ONLY <1>7 DEF Push, Refuse
  <1>8. ASSUME NEW i \in Handles, NEW key, EraseKey(i, key)
        PROVE  wb' = NoBound \/ UNCHANGED <<vs, wb>>
    BY ONLY <1>8 DEF EraseKey, TakeOut, Refuse
  <1>9. ASSUME NEW i \in Handles, NEW n, EraseAt(i, n)
        PROVE  wb' = NoBound \/ UNCHANGED <<vs, wb>>
    BY ONLY <1>9 DEF EraseAt, TakeOut, Refuse
  <1>10. ASSUME NEW i \in Handles, Clear(i) PROVE wb' = NoBound \/ UNCHANGED <<vs, wb>>
    BY ONLY <1>10 DEF Clear, Refuse
  <1>11. CASE ClearMutError \/ UNCHANGED vars
    <2>1. UNCHANGED <<vs, wb>>
      BY ONLY <1>11 DEF ClearMutError, vars
    <2> QED
      BY <1>0, <2>1
  <1> QED
    BY <1>0, <1>1, <1>2, <1>3, <1>4, <1>5, <1>6, <1>7, <1>8, <1>9, <1>10, <1>11 DEF Next

LEMMA FollowsKeeps ==
  ASSUME IInv, BoundKept(wb, vs), BoundFollows
  PROVE  BoundKept(wb', vs')
  <1>1. CASE UNCHANGED <<vs, wb>>
    BY <1>1
  <1>2. CASE wb' = NoBound
    BY <1>2, NoBoundKept
  <1>3. ASSUME NEW i \in DOMAIN vs,
               NEW s \in [kind : Kind \ {"array", "object"}, sub : Sub, len : Nat, ofs : Int],
               ~IsCtn(vs[i]), vs' = [vs EXCEPT ![i] = s], wb' = WbSwap(vs[i], s)
        PROVE  BoundKept(wb', vs')
    <2> DEFINE u == Rewritten(vs, i, s)
    <2>1. vs \in Seq(Slot) /\ GetNext(vs, 1) = Len(vs) + 1
      BY IInvTypes DEF WellNested
    <2>2. s.len \in Nat /\ ~IsCtn(s)
      BY DEF IsCtn
    <2>3. /\ BoundSlots(u, 1) \in Nat /\ BoundSlots(u, 1) >= 32
          /\ BoundSlots(u, 1) = BoundSlots(vs, 1) - WbContrib(vs[i]) + WbContrib(s)
          /\ \A ind : PrettyExtra(u, 1, ind) = PrettyExtra(vs, 1, ind)
      BY <1>3, <2>1, <2>2, RewrittenBounds
    <2> HIDE DEF u
    <2>4. CASE wb.flat = 0
      <3>1. wb' = wb
        BY <1>3, <2>4 DEF WbSwap
      <3> QED
        BY <2>4, <3>1 DEF BoundKept
    <2>5. CASE wb.flat # 0
      <3>1. wb' = [wb EXCEPT !.flat = @ - WbContrib(vs[i]) + WbContrib(s)]
        BY <1>3, <2>5 DEF WbSwap
      <3>2. /\ wb.flat = BoundSlots(vs, 1)
            /\ \A ind \in 1..4 : wb.pc + ind * wb.pk = PrettyExtra(vs, 1, ind)
            /\ wb \in [flat : Nat, pc : Nat, pk : Nat]
        BY <2>5 DEF BoundKept
      <3>3. /\ wb'.flat = BoundSlots(u, 1) /\ wb'.pc = wb.pc /\ wb'.pk = wb.pk
            /\ wb' \in [flat : Nat, pc : Nat, pk : Nat]
        BY ONLY <2>3, <3>1, <3>2
      <3>4. vs' = u
        BY <1>3 DEF u, Rewritten
      <3> QED
        BY <2>3, <3>2, <3>3, <3>4 DEF BoundKept
    <2> QED
      BY <2>4, <2>5
  <1> QED
    BY <1>1, <1>2, <1>3 DEF BoundFollows

-----------------------------------------------------------------------------
(* The invariant holds throughout.                                         *)
THEOREM Invariance == Spec => []IInv
  <1>1. Init => IInv
    BY InitSound
  <1>2. IInv /\ [Next]_vars => IInv'
    <2> SUFFICES ASSUME IInv, [Next]_vars PROVE IInv'
      OBVIOUS
    <2> QED
      BY NextKeeps DEF Kept, IInv
  <1> QED
    BY <1>1, <1>2, PTL DEF Spec

(* Whatever is inserted, pushed, erased, cleared, renamed or set, and      *)
(* whatever fails on the way, spans nest, lengths count children and keys  *)
(* are strings.                                                            *)
THEOREM EditsKeepTheTree == Spec => []ArenaWellFormed
  <1>1. IInv => ArenaWellFormed
    BY DEF IInv, Sound, ArenaWellFormed
  <1> QED
    BY <1>1, Invariance, PTL

(* Memory the document owns has room for what is in it, and for the        *)
(* terminator behind a text that is written over.                          *)
THEOREM RoomIsThere == Spec => []RoomOwned
  <1>1. IInv => RoomOwned
    <2> SUFFICES ASSUME IInv PROVE RoomOwned
      OBVIOUS
    <2> QED
      BY IInvTypes DEF RoomOwned, NVals, IsText
  <1> QED
    BY <1>1, Invariance, PTL

(* A marked string needs no escaping, as long as no inserted key is text   *)
(* of the document that is edited.                                         *)
THEOREM MarksAreRight ==
  ASSUME ~Aliased
  PROVE  Spec => []EscapesMarked
  <1>1. IInv => EscapesMarked
    BY DEF IInv, Sound, EscapesMarked
  <1> QED
    BY <1>1, Invariance, PTL

(* Text that is only lent is never written to, and a document that borrows *)
(* its memory keeps its size.                                              *)
THEOREM LentTextIsKept == Spec => LentStorageKept
  <1> DEFINE A == /\ (store.borrowed \/ ~store.hasPool) => IsPrefix(pool, pool')
                  /\ store'.borrowed =>
                       store.borrowed /\ Len(vs') = Len(vs) /\ Len(pool') = Len(pool)
  <1>1. IInv /\ [Next]_vars => [A]_vars
    BY NextKeeps DEF Kept, LentKept
  <1> QED
    BY <1>1, Invariance, PTL DEF Spec, LentStorageKept

(* The cached write bound, while it is kept, is what the writer's walks    *)
(* over the edited arena compute: a scalar or a text set changes the two   *)
(* alike, and every edit that adds or takes away slots drops the bound.    *)
THEOREM KeptBoundIsExact == Spec => []BoundExact
  <1>1. Init => BoundKept(wb, vs)
    <2> SUFFICES ASSUME Init PROVE BoundKept(wb, vs)
      OBVIOUS
    <2>1. wb = ExactBound(vs) \/ wb = NoBound
      BY DEF Init
    <2>2. vs \in Seq(Slot) /\ GetNext(vs, 1) = Len(vs) + 1
      BY InitSound, IInvTypes DEF WellNested
    <2> QED
      BY <2>1, <2>2, ExactKept, NoBoundKept
  <1>2. IInv /\ BoundKept(wb, vs) /\ [Next]_vars => BoundKept(wb, vs)'
    BY StepFollows, FollowsKeeps
  <1>3. BoundKept(wb, vs) => BoundExact
    BY DEF BoundKept, BoundExact
  <1> QED
    BY <1>1, <1>2, <1>3, Invariance, PTL DEF Spec

(* Wherever edits leave the document, a loop over the children of a        *)
(* container that counts them and one that looks for its end do the same,  *)
(* and the next edit's walk from the root lengthens what it has to.        *)
THEOREM WalksArrive == Spec => []WalkReachesParent
  <1>1. ASSUME IInv, NEW c \in DOMAIN vs, IsCtn(vs[c])
        PROVE  LET at == Steps(c)
                   n  == IF vs[c].kind = "object" THEN 2 * vs[c].len ELSE vs[c].len
               IN /\ n <= NVals /\ at[n] = GetNext(vs, c)
                  /\ \A m \in 0..(n - 1) :
                       /\ at[m] < GetNext(vs, c)
                       /\ (vs[c].kind = "object" /\ m % 2 = 0) => vs[at[m]].kind = "string"
    <2> DEFINE K  == ChildrenOf(vs, c)
               n  == IF vs[c].kind = "object" THEN 2 * vs[c].len ELSE vs[c].len
               at == Steps(c)
    <2>1. WellNested(vs) /\ CountsChildren(vs, c) /\ Keyed(vs, c)
      BY <1>1 DEF IInv, Sound, WellFormedArena
    <2>2. /\ NVals \in Nat /\ Cardinality(K) = n /\ n \in 0..NVals
          /\ \A m \in 0..NVals : IF m < n THEN at[m] \in K /\ Rank(K, at[m]) = m + 1
                                          ELSE at[m] = GetNext(vs, c)
      <3>1. Cardinality(K) = n
        BY <2>1 DEF CountsChildren
      <3> HIDE DEF n
      <3> QED
        BY <1>1, <2>1, <3>1, StepIn, StepsMeetChildren DEF StepsTo
    <2>3. \A j \in K : j < GetNext(vs, c)
      BY DEF ChildrenOf, Encloses
    <2>4. vs[c].kind = "object" => \A j \in K : Rank(K, j) % 2 = 1 => vs[j].kind = "string"
      BY <2>1 DEF Keyed
    <2> HIDE DEF K, at, n
    <2>5. at[n] = GetNext(vs, c) /\ n <= NVals /\ n \in Nat
      BY <2>2
    <2>6. ASSUME NEW m \in 0..(n - 1)
          PROVE  /\ at[m] < GetNext(vs, c)
                 /\ (vs[c].kind = "object" /\ m % 2 = 0) => vs[at[m]].kind = "string"
      <3>1. at[m] \in K /\ Rank(K, at[m]) = m + 1
        BY <2>2, <2>5
      <3>2. m % 2 = 0 => (m + 1) % 2 = 1
        BY <2>5
      <3> QED
        BY <2>3, <2>4, <3>1, <3>2
    <2> QED
      BY <2>5, <2>6 DEF n, at
  <1>2. ASSUME IInv, NEW pi \in DOMAIN vs, IsCtn(vs[pi])
        PROVE  PatchWalk(pi) = Above(pi) \cup {pi}
    BY <1>2, PatchWalkIs, AboveIs DEF IInv, Sound, WellFormedArena
  <1>3. IInv => WalkReachesParent
    BY <1>1, <1>2 DEF WalkReachesParent
  <1> QED
    BY <1>3, Invariance, PTL

(* The shortcut into an array whose span is its length and one: every      *)
(* element then takes one slot, because there are as many elements as      *)
(* slots.                                                                  *)
THEOREM FlatArraysAreFlat == Spec => []FlatIndexIsWalk
  <1>1. ASSUME IInv, NEW i \in DOMAIN vs, vs[i].kind = "array", ArrIsFlat(i)
        PROVE  LET at == Steps(i)
               IN vs[i].len <= NVals /\ \A n \in 0..vs[i].len : at[n] = i + 1 + n
    <2> DEFINE K   == ChildrenOf(vs, i)
               at  == Steps(i)
               len == vs[i].len
    <2>1. WellNested(vs) /\ IsCtn(vs[i]) /\ CountsChildren(vs, i)
      BY <1>1 DEF IInv, Sound, WellFormedArena, IsCtn
    <2>2. /\ NVals \in Nat /\ i \in Nat /\ DOMAIN vs = 1..NVals
          /\ len \in Nat /\ GetNext(vs, i) = i + 1 + len
      <3>1. NVals \in Nat /\ i \in Nat /\ DOMAIN vs = 1..NVals
        BY <2>1, StepIn
      <3>2. len \in Nat /\ vs[i].ofs \in Nat /\ GetNext(vs, i) = i + vs[i].ofs
        BY <2>1, SlotIs
      <3>3. len + 1 = vs[i].ofs
        BY <1>1 DEF ArrIsFlat
      <3> HIDE DEF len
      <3> QED
        BY <3>1, <3>2, <3>3
    <2>3. /\ Cardinality(K) = len /\ len \in 0..NVals
          /\ \A n \in 0..NVals : IF n < len THEN at[n] \in K /\ Rank(K, at[n]) = n + 1
                                            ELSE at[n] = GetNext(vs, i)
      <3>1. Cardinality(K) = len
        BY <1>1, <2>1 DEF CountsChildren
      <3> HIDE DEF len
      <3> QED
        BY <2>1, <3>1, StepsMeetChildren DEF StepsTo
    <2>4. K \in SUBSET ((i + 1)..(i + len))
      <3>1. \A j \in K : j \in DOMAIN vs /\ i < j /\ j < GetNext(vs, i)
        BY DEF ChildrenOf, Encloses
      <3> HIDE DEF K, len
      <3>2. \A j \in K : j \in (i + 1)..(i + len)
        BY <2>2, <3>1
      <3> QED
        BY <3>2
    <2> HIDE DEF K, at, len
    <2>5. K = (i + 1)..(i + len)
      <3>1. /\ IsFiniteSet((i + 1)..(i + len))
            /\ Cardinality((i + 1)..(i + len)) =
                 IF i + 1 > i + len THEN 0 ELSE (i + len) - (i + 1) + 1
        <4>1. i + 1 \in Int /\ i + len \in Int
          BY <2>2
        <4> QED
          BY <4>1, FS_Interval, Zenon
      <3>2. Cardinality((i + 1)..(i + len)) = Cardinality(K)
        BY <2>2, <2>3, <3>1
      <3> QED
        BY <2>4, <3>1, <3>2, FS_Subset
    <2>6. ASSUME NEW j \in K PROVE Rank(K, j) = j - i
      <3>1. j \in Nat /\ i < j /\ j <= i + len
        BY <2>2, <2>5
      <3>2. {m \in K : m <= j} = (i + 1)..j
        BY <2>2, <2>5, <3>1
      <3>3. Cardinality((i + 1)..j) = IF i + 1 > j THEN 0 ELSE j - (i + 1) + 1
        <4>1. i + 1 \in Int /\ j \in Int
          BY <2>2, <3>1
        <4> QED
          BY <4>1, FS_Interval, Zenon
      <3>4. Cardinality((i + 1)..j) = j - i
        BY <2>2, <3>1, <3>3
      <3>5. Rank(K, j) = Cardinality((i + 1)..j)
        BY <3>2 DEF Rank
      <3> QED
        BY <3>4, <3>5
    <2>7. ASSUME NEW n \in 0..len PROVE at[n] = i + 1 + n
      <3>1. CASE n < len
        <4>1. at[n] \in K /\ at[n] - i = n + 1 /\ at[n] \in Nat
          BY <2>2, <2>3, <2>5, <2>6, <3>1
        <4> QED
          BY <2>2, <4>1
      <3>2. CASE n = len
        BY <2>2, <2>3, <3>2
      <3> QED
        BY <2>2, <3>1, <3>2
    <2> QED
      BY <2>3, <2>7 DEF at, len
  <1>2. IInv => FlatIndexIsWalk
    BY <1>1 DEF FlatIndexIsWalk
  <1> QED
    BY <1>2, Invariance, PTL
=============================================================================
