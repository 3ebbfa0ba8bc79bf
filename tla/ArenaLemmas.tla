---------------------------- MODULE ArenaLemmas -----------------------------
(***************************************************************************)
(* How the shape of an arena carries over when a block of slots is put     *)
(* into it or taken out of it, as the structural edits of mutate.hpp do,   *)
(* and how the sums of the write bound follow the slots they are over.     *)
(***************************************************************************)
EXTENDS Arena, WriteBounds, SetLemmas

LEMMA SlotTyped ==
  ASSUME NEW v, v \in Seq(Slot), NEW i \in DOMAIN v
  PROVE  /\ i \in Nat /\ v[i] \in Slot
         /\ v[i].kind \in Kind /\ v[i].len \in Nat /\ v[i].ofs \in Nat
         /\ GetNext(v, i) \in Nat
  <1>1. i \in Nat /\ v[i] \in Slot
    OBVIOUS
  <1>2. v[i].kind \in Kind /\ v[i].len \in Nat /\ v[i].ofs \in Nat
    BY <1>1 DEF Slot
  <1> QED
    BY <1>1, <1>2 DEF GetNext, SpanOf

(* What is known of a slot and of where its span ends.                     *)
LEMMA SlotIs ==
  ASSUME NEW v, WellNested(v), NEW i \in DOMAIN v
  PROVE  /\ v \in Seq(Slot) /\ Len(v) \in Nat /\ Len(v) >= 1
         /\ DOMAIN v = 1..Len(v)
         /\ i \in Nat /\ i >= 1 /\ i <= Len(v)
         /\ v[i] \in Slot /\ v[i].kind \in Kind /\ v[i].len \in Nat /\ v[i].ofs \in Nat
         /\ GetNext(v, i) \in Nat /\ i < GetNext(v, i) /\ GetNext(v, i) <= Len(v) + 1
         /\ ~IsCtn(v[i]) => GetNext(v, i) = i + 1
         /\ IsCtn(v[i]) => GetNext(v, i) = i + v[i].ofs
  <1>1. /\ v \in Seq(Slot) /\ v # <<>>
        /\ IsCtn(v[i]) => v[i].ofs >= 1 /\ GetNext(v, i) <= Len(v) + 1
    BY DEF WellNested
  <1>2. /\ Len(v) \in Nat /\ Len(v) >= 1 /\ DOMAIN v = 1..Len(v)
        /\ i \in Nat /\ i >= 1 /\ i <= Len(v) /\ v[i] \in Slot
    BY <1>1
  <1>3. v[i].kind \in Kind /\ v[i].len \in Nat /\ v[i].ofs \in Nat
    BY <1>2 DEF Slot
  <1> QED
    BY <1>1, <1>2, <1>3 DEF GetNext, SpanOf

(* Enclosing is transitive; of two slots that enclose a third, the earlier *)
(* encloses the later; the first slot encloses all others.                 *)
LEMMA EnclosesAll ==
  ASSUME NEW v, WellNested(v), NEW c \in DOMAIN v, NEW d \in DOMAIN v,
         Encloses(v, c, d)
  PROVE  /\ GetNext(v, d) <= GetNext(v, c)
         /\ \A j \in DOMAIN v : Encloses(v, d, j) => Encloses(v, c, j)
  <1>1. GetNext(v, d) <= GetNext(v, c)
    BY DEF WellNested
  <1>2. ASSUME NEW j \in DOMAIN v, Encloses(v, d, j) PROVE Encloses(v, c, j)
    BY <1>1, <1>2, SlotIs DEF Encloses
  <1> QED
    BY <1>1, <1>2

LEMMA EnclosersNest ==
  ASSUME NEW v, WellNested(v), NEW c \in DOMAIN v, NEW d \in DOMAIN v, NEW j \in DOMAIN v,
         Encloses(v, c, j), Encloses(v, d, j), c < d
  PROVE  Encloses(v, c, d)
  BY SlotIs DEF Encloses

LEMMA RootEncloses ==
  ASSUME NEW v, WellNested(v), NEW j \in DOMAIN v, j # 1
  PROVE  1 \in DOMAIN v /\ IsCtn(v[1]) /\ Encloses(v, 1, j)
  <1>1. 1 \in DOMAIN v /\ j > 1 /\ j < Len(v) + 1
    BY SlotIs
  <1>2. GetNext(v, 1) = Len(v) + 1
    BY DEF WellNested
  <1>3. IsCtn(v[1])
    BY <1>1, <1>2, SlotIs
  <1> QED
    BY <1>1, <1>2, <1>3 DEF Encloses

-----------------------------------------------------------------------------
(* u and w are the same arena but for n slots that only w has, from        *)
(* position at on; the containers of A, which end there or go on behind,   *)
(* are longer in w by as much.                                             *)
Moved(at, n, j) == IF j < at THEN j ELSE j + n

Spliced(u, w, A, at, n) ==
  /\ u \in Seq(Slot) /\ w \in Seq(Slot)
  /\ n \in Nat /\ at \in 2..(Len(u) + 1) /\ Len(w) = Len(u) + n
  /\ A \subseteq 1..(at - 1) /\ 1 \in A
  /\ \A j \in DOMAIN u : w[Moved(at, n, j)].kind = u[j].kind
  /\ \A j \in DOMAIN u : IsCtn(u[j]) =>
       w[Moved(at, n, j)].ofs = u[j].ofs + (IF j \in A THEN n ELSE 0)
  /\ \A j \in A : IsCtn(u[j])
  /\ \A j \in 1..(at - 1) : IsCtn(u[j]) =>
       IF j \in A THEN GetNext(u, j) >= at ELSE GetNext(u, j) <= at
  /\ \A c \in DOMAIN u, d \in A : Encloses(u, c, d) => c \in A

(* The n slots are whole values, one or more, side by side.                *)
Block(w, at, n) ==
  \A i \in at..(at + n - 1) :
    /\ IsCtn(w[i]) => w[i].ofs >= 1
    /\ GetNext(w, i) <= at + n
    /\ \A j \in DOMAIN w : Encloses(w, i, j) => GetNext(w, j) <= GetNext(w, i)

LEMMA SlotMoves ==
  ASSUME NEW u, NEW w, NEW A, NEW at, NEW n, Spliced(u, w, A, at, n),
         NEW j \in DOMAIN u
  PROVE  /\ Len(u) \in Nat /\ Len(w) \in Nat /\ n \in Nat /\ at \in Nat /\ at >= 2
         /\ Len(w) = Len(u) + n /\ at <= Len(u) + 1
         /\ DOMAIN u = 1..Len(u) /\ DOMAIN w = 1..Len(w)
         /\ j \in Nat /\ j >= 1 /\ j <= Len(u)
         /\ Moved(at, n, j) \in DOMAIN w
         /\ Moved(at, n, j) \notin at..(at + n - 1)
         /\ u[j] \in Slot /\ u[j].ofs \in Nat /\ w[Moved(at, n, j)] \in Slot
         /\ w[Moved(at, n, j)].kind = u[j].kind
         /\ IsCtn(w[Moved(at, n, j)]) <=> IsCtn(u[j])
         /\ j \in A => j < at
         /\ GetNext(u, j) \in Nat
         /\ GetNext(w, Moved(at, n, j)) =
              GetNext(u, j) + (IF j \in A \/ j >= at THEN n ELSE 0)
  <1> DEFINE i == Moved(at, n, j)
  <1>1. /\ u \in Seq(Slot) /\ w \in Seq(Slot)
        /\ n \in Nat /\ at \in 2..(Len(u) + 1) /\ Len(w) = Len(u) + n
        /\ A \subseteq 1..(at - 1)
        /\ w[i].kind = u[j].kind
        /\ IsCtn(u[j]) => w[i].ofs = u[j].ofs + (IF j \in A THEN n ELSE 0)
        /\ j \in A => IsCtn(u[j])
    BY DEF Spliced
  <1>2. /\ Len(u) \in Nat /\ Len(w) \in Nat /\ at \in Nat /\ at >= 2 /\ at <= Len(u) + 1
        /\ DOMAIN u = 1..Len(u) /\ DOMAIN w = 1..Len(w)
        /\ j \in Nat /\ j >= 1 /\ j <= Len(u)
    BY <1>1
  <1>3. /\ i \in DOMAIN w /\ i \notin at..(at + n - 1)
        /\ i = IF j < at THEN j ELSE j + n
    BY <1>1, <1>2 DEF Moved
  <1>4. u[j] \in Slot /\ w[i] \in Slot
    BY <1>1, <1>3
  <1>5. u[j].ofs \in Nat
    BY <1>4 DEF Slot
  <1>6. IsCtn(w[i]) <=> IsCtn(u[j])
    BY <1>1 DEF IsCtn
  <1>7. j \in A => j < at
    BY <1>1, <1>2
  <1> HIDE DEF i
  <1>8. /\ GetNext(u, j) \in Nat
        /\ GetNext(w, i) = GetNext(u, j) + (IF j \in A \/ j >= at THEN n ELSE 0)
    <2>1. CASE IsCtn(u[j])
      <3>1. GetNext(u, j) = j + u[j].ofs /\ GetNext(w, i) = i + w[i].ofs
        BY <2>1, <1>6 DEF GetNext, SpanOf
      <3>2. w[i].ofs = u[j].ofs + (IF j \in A THEN n ELSE 0)
        BY <2>1, <1>1
      <3> QED
        BY SMTT(30), <3>1, <3>2, <1>1, <1>2, <1>3, <1>5, <1>7
    <2>2. CASE ~IsCtn(u[j])
      <3>1. GetNext(u, j) = j + 1 /\ GetNext(w, i) = i + 1
        BY <2>2, <1>6 DEF GetNext, SpanOf
      <3>2. j \notin A
        BY <2>2, <1>1
      <3>3. i = (IF j < at THEN j ELSE j + n) /\ j \in Nat /\ at \in Nat /\ n \in Nat
        BY <1>1, <1>2, <1>3
      <3>4. CASE j < at
        BY <3>1, <3>2, <3>3, <3>4
      <3>5. CASE j >= at
        BY <3>1, <3>2, <3>3, <3>5
      <3> QED
        BY <3>3, <3>4, <3>5
    <2> QED
      BY <2>1, <2>2
  <1> QED
    BY <1>1, <1>2, <1>3, <1>4, <1>5, <1>6, <1>7, <1>8 DEF i

(* A slot of w is one of the block's or one of u's, moved.                 *)
LEMMA SlotStays ==
  ASSUME NEW u, NEW w, NEW A, NEW at, NEW n, Spliced(u, w, A, at, n),
         NEW i \in DOMAIN w, i \notin at..(at + n - 1)
  PROVE  \E j \in DOMAIN u : i = Moved(at, n, j)
  <1>1. /\ u \in Seq(Slot) /\ w \in Seq(Slot)
        /\ n \in Nat /\ at \in 2..(Len(u) + 1) /\ Len(w) = Len(u) + n
    BY DEF Spliced
  <1>2. i \in Nat /\ i >= 1 /\ i <= Len(u) + n /\ DOMAIN u = 1..Len(u)
    BY <1>1
  <1>3. CASE i < at
    <2>1. i \in DOMAIN u /\ i = Moved(at, n, i)
      BY <1>1, <1>2, <1>3 DEF Moved
    <2> QED
      BY <2>1
  <1>4. CASE i >= at + n
    <2>1. i - n \in DOMAIN u /\ i = Moved(at, n, i - n)
      BY <1>1, <1>2, <1>4 DEF Moved
    <2> QED
      BY <2>1
  <1> QED
    BY <1>1, <1>2, <1>3, <1>4

LEMMA MovedApart ==
  ASSUME NEW at \in Nat, NEW n \in Nat, NEW i \in Nat, NEW j \in Nat
  PROVE  /\ Moved(at, n, i) < Moved(at, n, j) <=> i < j
         /\ Moved(at, n, i) = Moved(at, n, j) <=> i = j
         /\ Moved(at, n, i) \in Nat
  BY DEF Moved

LEMMA MovedInto ==
  ASSUME NEW at \in Nat, NEW n \in Nat, NEW L \in Nat, NEW j \in 1..L
  PROVE  /\ Moved(at, n, j) \in 1..(L + n)
         /\ Moved(at, n, j) < at => Moved(at, n, j) = j
  BY DEF Moved

(* What encloses what is the same in both.                                 *)
LEMMA SameEnclosure ==
  ASSUME NEW u, NEW w, NEW A, NEW at, NEW n, Spliced(u, w, A, at, n),
         NEW c \in DOMAIN u, NEW j \in DOMAIN u
  PROVE  Encloses(u, c, j) <=> Encloses(w, Moved(at, n, c), Moved(at, n, j))
  <1> DEFINE a == Moved(at, n, c)
             b == Moved(at, n, j)
  <1>1. /\ n \in Nat /\ at \in Nat /\ c \in Nat /\ j \in Nat
        /\ IsCtn(w[a]) <=> IsCtn(u[c])
        /\ c \in A => c < at
        /\ GetNext(u, c) \in Nat
        /\ GetNext(w, a) = GetNext(u, c) + (IF c \in A \/ c >= at THEN n ELSE 0)
    BY SlotMoves
  <1>2. /\ c < at /\ IsCtn(u[c]) /\ c \in A => GetNext(u, c) >= at
        /\ c < at /\ IsCtn(u[c]) /\ c \notin A => GetNext(u, c) <= at
    <2>1. c < at => c \in 1..(at - 1)
      BY SlotMoves
    <2> QED
      BY <2>1 DEF Spliced
  <1>3. /\ b = IF j < at THEN j ELSE j + n
        /\ a < b <=> c < j
    BY <1>1, MovedApart DEF Moved
  <1> HIDE DEF a, b
  <1>4. CASE ~IsCtn(u[c])
    BY <1>4, <1>1 DEF Encloses, a, b
  <1>5. CASE IsCtn(u[c]) /\ c < j
    <2>1. j < GetNext(u, c) <=> b < GetNext(w, a)
      BY <1>5, <1>1, <1>2, <1>3
    <2> QED
      BY <1>5, <1>1, <1>3, <2>1 DEF Encloses, a, b
  <1>6. CASE ~(c < j)
    BY <1>6, <1>3 DEF Encloses, a, b
  <1> QED
    BY <1>4, <1>5, <1>6

(* Nothing in a block encloses a slot outside it.                          *)
LEMMA BlockEncloses ==
  ASSUME NEW u, NEW w, NEW A, NEW at, NEW n, Spliced(u, w, A, at, n), Block(w, at, n),
         NEW i \in DOMAIN w, NEW j \in DOMAIN w, i \in at..(at + n - 1), Encloses(w, i, j)
  PROVE  j \in at..(at + n - 1)
  <1>1. w \in Seq(Slot) /\ n \in Nat /\ at \in Nat
    BY DEF Spliced
  <1>2. w[i] \in Slot /\ i \in Nat /\ j \in Nat
    BY <1>1
  <1>3. i < j /\ j < GetNext(w, i) /\ GetNext(w, i) \in Nat
    BY <1>2 DEF Encloses, GetNext, SpanOf, Slot
  <1>4. GetNext(w, i) <= at + n
    BY DEF Block
  <1> QED
    BY <1>1, <1>2, <1>3, <1>4

LEMMA PutInNested ==
  ASSUME NEW u, NEW w, NEW A, NEW at, NEW n, Spliced(u, w, A, at, n), Block(w, at, n),
         WellNested(u)
  PROVE  WellNested(w)
  <1>1. /\ u \in Seq(Slot) /\ w \in Seq(Slot) /\ Len(u) >= 1 /\ 1 \in DOMAIN u
        /\ n \in Nat /\ at \in Nat /\ at >= 2 /\ at <= Len(u) + 1 /\ Len(w) = Len(u) + n
        /\ DOMAIN w = 1..Len(w) /\ Len(u) \in Nat /\ 1 \in A
    <2>1. u \in Seq(Slot) /\ u # <<>>
      BY DEF WellNested
    <2>2. Len(u) >= 1 /\ 1 \in DOMAIN u
      BY <2>1
    <2> QED
      BY <2>1, <2>2 DEF Spliced
  <1>2. GetNext(w, 1) = Len(w) + 1
    <2>1. Moved(at, n, 1) = 1
      BY <1>1 DEF Moved
    <2>2. GetNext(w, Moved(at, n, 1)) = GetNext(u, 1) + n
      BY <1>1, SlotMoves
    <2>3. GetNext(u, 1) = Len(u) + 1
      BY DEF WellNested
    <2> QED
      BY <1>1, <2>1, <2>2, <2>3
  <1>3. ASSUME NEW i \in DOMAIN w, IsCtn(w[i])
        PROVE  w[i].ofs >= 1 /\ GetNext(w, i) <= Len(w) + 1
    <2>1. CASE i \in at..(at + n - 1)
      <3>1. w[i].ofs >= 1 /\ GetNext(w, i) <= at + n
        BY <1>3, <2>1 DEF Block
      <3>2. w[i] \in Slot /\ i \in Nat
        BY <1>1
      <3>3. GetNext(w, i) \in Nat
        BY <3>2 DEF GetNext, SpanOf, Slot
      <3> QED
        BY <1>1, <3>1, <3>3
    <2>2. CASE i \notin at..(at + n - 1)
      <3>1. PICK j \in DOMAIN u : i = Moved(at, n, j)
        BY <2>2, SlotStays
      <3>2. /\ IsCtn(u[j]) /\ u[j].ofs \in Nat
            /\ GetNext(w, i) = GetNext(u, j) + (IF j \in A \/ j >= at THEN n ELSE 0)
            /\ GetNext(u, j) \in Nat
        BY <1>3, <3>1, SlotMoves
      <3>3. u[j].ofs >= 1 /\ GetNext(u, j) <= Len(u) + 1
        BY <3>2 DEF WellNested
      <3>4. w[i].ofs = u[j].ofs + (IF j \in A THEN n ELSE 0)
        BY <3>1, <3>2 DEF Spliced
      <3> QED
        BY <1>1, <3>2, <3>3, <3>4
    <2> QED
      BY <2>1, <2>2
  <1>4. ASSUME NEW i \in DOMAIN w, NEW k \in DOMAIN w, Encloses(w, i, k)
        PROVE  GetNext(w, k) <= GetNext(w, i)
    <2>1. CASE i \in at..(at + n - 1)
      BY <1>4, <2>1 DEF Block
    <2>2. CASE i \notin at..(at + n - 1) /\ k \in at..(at + n - 1)
      <3>1. PICK j \in DOMAIN u : i = Moved(at, n, j)
        BY <2>2, SlotStays
      <3>2. /\ GetNext(w, i) = GetNext(u, j) + (IF j \in A \/ j >= at THEN n ELSE 0)
            /\ GetNext(u, j) \in Nat /\ j \in Nat /\ j >= 1
            /\ IsCtn(u[j])
            /\ j \in A => j < at
        BY <1>4, <3>1, SlotMoves DEF Encloses
      <3>3. i < k /\ k < GetNext(w, i)
        BY <1>4 DEF Encloses
      <3>4. GetNext(w, k) <= at + n
        BY <2>2 DEF Block
      <3>5. j < at
        BY <1>1, <2>2, <3>1, <3>2, <3>3 DEF Moved
      <3>6. j \in A /\ GetNext(u, j) >= at
        <4>1. IF j \in A THEN GetNext(u, j) >= at ELSE GetNext(u, j) <= at
          BY <1>1, <3>2, <3>5 DEF Spliced
        <4> QED
          BY <1>1, <2>2, <3>2, <3>3, <3>5, <4>1
      <3>7. GetNext(w, k) \in Nat
        <4>1. w[k] \in Slot /\ k \in Nat
          BY <1>1
        <4> QED
          BY <4>1 DEF GetNext, SpanOf, Slot
      <3> QED
        BY <1>1, <3>2, <3>4, <3>6, <3>7
    <2>3. CASE i \notin at..(at + n - 1) /\ k \notin at..(at + n - 1)
      <3>1. PICK c \in DOMAIN u : i = Moved(at, n, c)
        BY <2>3, SlotStays
      <3>2. PICK d \in DOMAIN u : k = Moved(at, n, d)
        BY <2>3, SlotStays
      <3>3. Encloses(u, c, d)
        BY <1>4, <3>1, <3>2, SameEnclosure
      <3>4. GetNext(u, d) <= GetNext(u, c) /\ c < d /\ IsCtn(u[c])
        BY <3>3, EnclosesAll DEF Encloses
      <3>51. /\ GetNext(w, Moved(at, n, c)) =
                  GetNext(u, c) + (IF c \in A \/ c >= at THEN n ELSE 0)
             /\ GetNext(u, c) \in Nat /\ c \in Nat /\ c >= 1
             /\ c \in A => c < at
        BY SlotMoves
      <3>5. /\ GetNext(w, i) = GetNext(u, c) + (IF c \in A \/ c >= at THEN n ELSE 0)
            /\ GetNext(u, c) \in Nat /\ c \in Nat /\ c >= 1
            /\ c \in A => c < at
        BY <3>1, <3>51
      <3>61. /\ GetNext(w, Moved(at, n, d)) =
                  GetNext(u, d) + (IF d \in A \/ d >= at THEN n ELSE 0)
             /\ GetNext(u, d) \in Nat /\ d \in Nat
             /\ d \in A => d < at
        BY SlotMoves
      <3>6. /\ GetNext(w, k) = GetNext(u, d) + (IF d \in A \/ d >= at THEN n ELSE 0)
            /\ GetNext(u, d) \in Nat /\ d \in Nat
            /\ d \in A => d < at
        BY <3>2, <3>61
      <3>7. d \in A => c \in A
        BY <3>3 DEF Spliced
      <3>8. d >= at => c \in A \/ c >= at
        <4>1. SUFFICES ASSUME d >= at, c < at, c \notin A PROVE FALSE
          BY <1>1, <3>5
        <4>2. GetNext(u, c) <= at
          BY <1>1, <3>4, <3>5, <4>1 DEF Spliced
        <4>3. d < GetNext(u, c)
          BY <3>3 DEF Encloses
        <4> QED
          BY <1>1, <3>5, <3>6, <4>1, <4>2, <4>3
      <3> QED
        BY SMTT(30), <1>1, <3>4, <3>5, <3>6, <3>7, <3>8
    <2> QED
      BY <2>1, <2>2, <2>3
  <1>5. w # <<>>
    BY <1>1
  <1> QED
    BY <1>1, <1>2, <1>3, <1>4, <1>5 DEF WellNested

LEMMA TakenOutNested ==
  ASSUME NEW u, NEW w, NEW A, NEW at, NEW n, Spliced(u, w, A, at, n), WellNested(w)
  PROVE  WellNested(u)
  <1>1. /\ u \in Seq(Slot) /\ w \in Seq(Slot) /\ Len(u) >= 1 /\ 1 \in DOMAIN u
        /\ n \in Nat /\ at \in Nat /\ at >= 2 /\ at <= Len(u) + 1 /\ Len(w) = Len(u) + n
        /\ DOMAIN u = 1..Len(u) /\ Len(u) \in Nat /\ 1 \in A
    <2>1. u \in Seq(Slot) /\ at \in 2..(Len(u) + 1)
      BY DEF Spliced
    <2>2. Len(u) >= 1 /\ 1 \in DOMAIN u
      BY <2>1
    <2> QED
      BY <2>1, <2>2 DEF Spliced
  <1>2. GetNext(u, 1) = Len(u) + 1
    <2>1. Moved(at, n, 1) = 1
      BY <1>1 DEF Moved
    <2>2. GetNext(w, Moved(at, n, 1)) = GetNext(u, 1) + n /\ GetNext(u, 1) \in Nat
      BY <1>1, SlotMoves
    <2>3. GetNext(w, 1) = Len(w) + 1
      BY DEF WellNested
    <2> QED
      BY <1>1, <2>1, <2>2, <2>3
  <1>3. ASSUME NEW c \in DOMAIN u, IsCtn(u[c])
        PROVE  u[c].ofs >= 1 /\ GetNext(u, c) <= Len(u) + 1
    <2> DEFINE i == Moved(at, n, c)
    <2>1. /\ i \in DOMAIN w /\ IsCtn(w[i]) /\ c \in Nat /\ c >= 1 /\ c <= Len(u)
          /\ u[c].ofs \in Nat /\ GetNext(u, c) \in Nat
          /\ GetNext(w, i) = GetNext(u, c) + (IF c \in A \/ c >= at THEN n ELSE 0)
          /\ c \in A => c < at
      BY <1>3, SlotMoves
    <2>2. w[i].ofs >= 1 /\ GetNext(w, i) <= Len(w) + 1
      BY <2>1 DEF WellNested
    <2>3. w[i].ofs = u[c].ofs + (IF c \in A THEN n ELSE 0)
      BY <1>3 DEF Spliced
    <2>4. c < at => IF c \in A THEN GetNext(u, c) >= at ELSE GetNext(u, c) <= at
      BY <1>1, <1>3, <2>1 DEF Spliced
    <2>5. GetNext(u, c) = c + u[c].ofs
      BY <1>3 DEF GetNext, SpanOf
    <2> HIDE DEF i
    <2> QED
      BY SMTT(30), <1>1, <2>1, <2>2, <2>3, <2>4, <2>5
  <1>4. ASSUME NEW c \in DOMAIN u, NEW d \in DOMAIN u, Encloses(u, c, d)
        PROVE  GetNext(u, d) <= GetNext(u, c)
    <2> DEFINE i == Moved(at, n, c)
               k == Moved(at, n, d)
    <2>1. /\ i \in DOMAIN w
          /\ GetNext(w, i) = GetNext(u, c) + (IF c \in A \/ c >= at THEN n ELSE 0)
          /\ GetNext(u, c) \in Nat /\ c \in Nat /\ c >= 1
          /\ c \in A => c < at
      BY SlotMoves
    <2>2. /\ k \in DOMAIN w
          /\ GetNext(w, k) = GetNext(u, d) + (IF d \in A \/ d >= at THEN n ELSE 0)
          /\ GetNext(u, d) \in Nat /\ d \in Nat /\ d >= 1
          /\ ~IsCtn(u[d]) => GetNext(u, d) = d + 1
      BY SlotMoves DEF GetNext, SpanOf
    <2>3. Encloses(w, i, k)
      BY <1>4, SameEnclosure
    <2>4. GetNext(w, k) <= GetNext(w, i)
      BY <2>1, <2>2, <2>3, EnclosesAll
    <2>5. c < d /\ IsCtn(u[c]) /\ d < GetNext(u, c)
      BY <1>4 DEF Encloses
    <2>6. d \in A => c \in A
      BY <1>4 DEF Spliced
    <2>7. c < at => IF c \in A THEN GetNext(u, c) >= at ELSE GetNext(u, c) <= at
      BY <1>1, <2>1, <2>5 DEF Spliced
    <2>8. d < at /\ d \notin A => GetNext(u, d) <= at
      <3>1. CASE IsCtn(u[d]) /\ d < at /\ d \notin A
        <4>1. d \in 1..(at - 1)
          BY <1>1, <2>2, <3>1
        <4> QED
          BY <3>1, <4>1 DEF Spliced
      <3>2. CASE ~IsCtn(u[d])
        BY <1>1, <2>2, <3>2
      <3> QED
        BY <3>1, <3>2
    <2> HIDE DEF i, k
    <2> QED
      BY <1>1, <2>1, <2>2, <2>4, <2>5, <2>6, <2>7, <2>8
  <1>5. u # <<>>
    BY <1>1
  <1> QED
    BY <1>1, <1>2, <1>3, <1>4, <1>5 DEF WellNested

-----------------------------------------------------------------------------
(* Children, and their number.                                             *)
LEMMA ChildrenFinite ==
  ASSUME NEW v, v \in Seq(Slot), NEW c
  PROVE  /\ ChildrenOf(v, c) \in SUBSET Nat
         /\ ChildrenOf(v, c) \subseteq DOMAIN v
         /\ IsFiniteSet(ChildrenOf(v, c))
         /\ Cardinality(ChildrenOf(v, c)) \in Nat
  <1>1. DOMAIN v = 1..Len(v) /\ Len(v) \in Nat
    OBVIOUS
  <1>2. ChildrenOf(v, c) \in SUBSET (1..Len(v))
    BY <1>1 DEF ChildrenOf
  <1>3. IsFiniteSet(1..Len(v))
    BY <1>1, FS_Interval
  <1>4. IsFiniteSet(ChildrenOf(v, c))
    BY <1>2, <1>3, FS_Subset
  <1> QED
    BY <1>1, <1>2, <1>4, FS_CardinalityType

(* Moving slots keeps their number.                                        *)
LEMMA MovedCounts ==
  ASSUME NEW at \in Nat, NEW n \in Nat, NEW S \in SUBSET Nat, IsFiniteSet(S)
  PROVE  /\ IsFiniteSet({Moved(at, n, j) : j \in S})
         /\ Cardinality({Moved(at, n, j) : j \in S}) = Cardinality(S)
  <1> DEFINE T == {Moved(at, n, j) : j \in S}
             f == [j \in S |-> Moved(at, n, j)]
  <1>1. f \in [S -> T]
    OBVIOUS
  <1>2. \A a, b \in S : f[a] = f[b] => a = b
    BY MovedApart
  <1>3. \A t \in T : \E s \in S : f[s] = t
    OBVIOUS
  <1> HIDE DEF f, T
  <1>4. f \in Bijection(S, T)
    BY <1>1, <1>2, <1>3 DEF Bijection, Injection, Surjection, IsInjective
  <1>5. ExistsBijection(S, T)
    BY <1>4 DEF ExistsBijection
  <1>6. IsFiniteSet(T) /\ Cardinality(T) = Cardinality(S)
    BY <1>5, FS_Bijection
  <1> QED
    BY <1>6 DEF T

LEMMA DisjointCounts ==
  ASSUME NEW S, NEW T, IsFiniteSet(S), IsFiniteSet(T), S \cap T = {}
  PROVE  /\ IsFiniteSet(S \cup T)
         /\ Cardinality(S \cup T) = Cardinality(S) + Cardinality(T)
  <1>1. Cardinality(S) \in Nat /\ Cardinality(T) \in Nat /\ Cardinality({}) = 0
    BY FS_CardinalityType, FS_EmptySet
  <1>2. /\ IsFiniteSet(S \cup T)
        /\ Cardinality(S \cup T) = Cardinality(S) + Cardinality(T) - Cardinality(S \cap T)
    BY FS_Union
  <1>3. Cardinality(S \cap T) = 0
    BY <1>1
  <1> QED
    BY <1>1, <1>2, <1>3

LEMMA SameChild ==
  ASSUME NEW u, NEW w, NEW A, NEW at, NEW n, Spliced(u, w, A, at, n), Block(w, at, n),
         NEW c \in DOMAIN u, NEW j \in DOMAIN u
  PROVE  j \in ChildrenOf(u, c) <=> Moved(at, n, j) \in ChildrenOf(w, Moved(at, n, c))
  <1> DEFINE a == Moved(at, n, c)
             b == Moved(at, n, j)
  <1>1. b \in DOMAIN w /\ b \notin at..(at + n - 1)
    BY SlotMoves
  <1>2. Encloses(u, c, j) <=> Encloses(w, a, b)
    BY SameEnclosure
  <1>3. ASSUME NEW d \in DOMAIN u, Encloses(u, c, d), Encloses(u, d, j)
        PROVE  \E i \in DOMAIN w : Encloses(w, a, i) /\ Encloses(w, i, b)
    <2>1. Moved(at, n, d) \in DOMAIN w
      BY SlotMoves
    <2> QED
      BY <1>3, <2>1, SameEnclosure
  <1>4. ASSUME NEW i \in DOMAIN w, Encloses(w, a, i), Encloses(w, i, b)
        PROVE  \E d \in DOMAIN u : Encloses(u, c, d) /\ Encloses(u, d, j)
    <2>1. i \notin at..(at + n - 1)
      BY <1>1, <1>4, BlockEncloses
    <2>2. PICK d \in DOMAIN u : i = Moved(at, n, d)
      BY <2>1, SlotStays
    <2> QED
      BY <1>4, <2>2, SameEnclosure
  <1> HIDE DEF a, b
  <1>5. j \in ChildrenOf(u, c) <=> b \in ChildrenOf(w, a)
    BY <1>1, <1>2, <1>3, <1>4 DEF ChildrenOf
  <1> QED
    BY <1>5 DEF a, b

(* The children that the block adds to a container.                        *)
Added(w, i, at, n) == ChildrenOf(w, i) \cap (at..(at + n - 1))

(* The children of a container are those it had, moved, and those added;   *)
(* behind the block their numbers grow by as many.                         *)
LEMMA ChildrenMove ==
  ASSUME NEW u, NEW w, NEW A, NEW at, NEW n, Spliced(u, w, A, at, n), Block(w, at, n),
         NEW c \in DOMAIN u
  PROVE  LET S == ChildrenOf(u, c)
             T == ChildrenOf(w, Moved(at, n, c))
             K == Added(w, Moved(at, n, c), at, n)
         IN /\ T = {Moved(at, n, j) : j \in S} \cup K
            /\ Cardinality(T) = Cardinality(S) + Cardinality(K)
            /\ \A j \in S : Rank(T, Moved(at, n, j)) =
                              Rank(S, j) + (IF j >= at THEN Cardinality(K) ELSE 0)
  <1> DEFINE S == ChildrenOf(u, c)
             T == ChildrenOf(w, Moved(at, n, c))
             K == Added(w, Moved(at, n, c), at, n)
             Im(X) == {Moved(at, n, j) : j \in X}
  <1>1. /\ u \in Seq(Slot) /\ w \in Seq(Slot) /\ at \in Nat /\ n \in Nat
    BY DEF Spliced
  <1>2. /\ S \in SUBSET Nat /\ S \subseteq DOMAIN u /\ IsFiniteSet(S)
        /\ T \in SUBSET Nat /\ T \subseteq DOMAIN w /\ IsFiniteSet(T)
    BY <1>1, ChildrenFinite
  <1>3. K \subseteq T /\ K \subseteq at..(at + n - 1) /\ IsFiniteSet(K)
    <2>1. K \in SUBSET T /\ K \subseteq at..(at + n - 1)
      BY DEF Added
    <2> QED
      BY <1>2, <2>1, FS_Subset
  <1>4. T = Im(S) \cup K
    <2>1. ASSUME NEW i \in T PROVE i \in Im(S) \cup K
      <3>1. CASE i \in at..(at + n - 1)
        BY <3>1 DEF Added
      <3>2. CASE i \notin at..(at + n - 1)
        <4>1. PICK j \in DOMAIN u : i = Moved(at, n, j)
          BY <1>2, <3>2, SlotStays
        <4>2. j \in S
          BY <4>1, SameChild
        <4> QED
          BY <4>1, <4>2
      <3> QED
        BY <3>1, <3>2
    <2>2. ASSUME NEW j \in S PROVE Moved(at, n, j) \in T
      BY <1>2, SameChild
    <2> QED
      BY <1>3, <2>1, <2>2
  <1>5. \A j \in DOMAIN u : Moved(at, n, j) \notin at..(at + n - 1)
    BY SlotMoves
  <1>6. Cardinality(T) = Cardinality(S) + Cardinality(K)
    <2>1. Im(S) \cap K = {}
      BY <1>2, <1>3, <1>5
    <2>2. IsFiniteSet(Im(S)) /\ Cardinality(Im(S)) = Cardinality(S)
      BY <1>1, <1>2, MovedCounts
    <2> QED
      BY <1>3, <1>4, <2>1, <2>2, DisjointCounts
  <1>7. ASSUME NEW j \in S
        PROVE  Rank(T, Moved(at, n, j)) =
                 Rank(S, j) + (IF j >= at THEN Cardinality(K) ELSE 0)
    <2> DEFINE R == {m \in S : m <= j}
               L == {m \in T : m <= Moved(at, n, j)}
    <2>1. R \in SUBSET S /\ R \in SUBSET Nat /\ j \in Nat
      BY <1>2
    <2>2. IsFiniteSet(R)
      BY <1>2, <2>1, FS_Subset
    <2>3. IsFiniteSet(Im(R)) /\ Cardinality(Im(R)) = Cardinality(R)
      BY <1>1, <2>1, <2>2, MovedCounts
    <2>4. \A m \in S : Moved(at, n, m) <= Moved(at, n, j) <=> m <= j
      <3>1. ASSUME NEW m \in Nat
            PROVE  Moved(at, n, m) <= Moved(at, n, j) <=> m <= j
        BY <1>1, <2>1 DEF Moved
      <3> QED
        BY <1>2, <3>1
    <2>5. \A m \in K : m <= Moved(at, n, j) <=> j >= at
      <3>1. \A m \in K : m \in Nat /\ m >= at /\ m < at + n
        BY <1>1, <1>3
      <3> QED
        BY <1>1, <2>1, <3>1 DEF Moved
    <2>6. CASE j >= at
      <3>1. L = Im(R) \cup K
        BY <1>4, <2>4, <2>5, <2>6
      <3>2. Im(R) \cap K = {}
        BY <1>2, <1>3, <1>5
      <3>3. Cardinality(L) = Cardinality(R) + Cardinality(K)
        BY <1>3, <2>3, <3>1, <3>2, DisjointCounts
      <3> QED
        BY <2>6, <3>3 DEF Rank
    <2>7. CASE ~(j >= at)
      <3>1. L = Im(R)
        BY <1>4, <2>4, <2>5, <2>7
      <3>2. Cardinality(R) \in Nat
        BY <2>2, FS_CardinalityType
      <3> QED
        BY <2>3, <2>7, <3>1, <3>2 DEF Rank
    <2> QED
      BY <2>6, <2>7
  <1> QED
    BY <1>4, <1>6, <1>7

-----------------------------------------------------------------------------
(* An edit at container p: p and the containers around it are longer by    *)
(* the block, which is put into p or taken out of it; the length of p      *)
(* changes, nothing else does.                                             *)
Around(v, p) == {p} \cup {c \in DOMAIN v : Encloses(v, c, p)}

Edited(u, w, A, p, at, n) ==
  /\ u \in Seq(Slot) /\ w \in Seq(Slot)
  /\ n \in Nat /\ at \in 2..(Len(u) + 1) /\ Len(w) = Len(u) + n
  /\ p \in 1..(at - 1)
  /\ \A j \in DOMAIN u \ A : w[Moved(at, n, j)] = u[j]
  /\ \A j \in A :
       /\ j < at
       /\ w[j].kind = u[j].kind /\ w[j].ofs = u[j].ofs + n
       /\ j # p => w[j].len = u[j].len

(* Every enclosing container but p itself has p's children deeper inside.  *)
InsideOf(u, A, p) == p \in A /\ \A c \in A : c = p \/ Encloses(u, c, p)

LEMMA NoneAdded ==
  ASSUME NEW u, NEW w, NEW A, NEW at, NEW n, Spliced(u, w, A, at, n),
         NEW p, InsideOf(u, A, p), NEW c \in DOMAIN u, c # p
  PROVE  Added(w, Moved(at, n, c), at, n) = {}
  <1> SUFFICES ASSUME NEW i \in Added(w, Moved(at, n, c), at, n) PROVE FALSE
    OBVIOUS
  <1>1. /\ A \subseteq 1..(at - 1) /\ p \in A /\ at \in Nat /\ n \in Nat /\ p \in Nat
        /\ at <= Len(u) + 1 /\ DOMAIN u = 1..Len(u) /\ Len(u) \in Nat
        /\ A \subseteq DOMAIN u
        /\ \A a \in A : a \in Nat /\ a < at
    <2>1. /\ A \subseteq 1..(at - 1) /\ at \in 2..(Len(u) + 1) /\ u \in Seq(Slot) /\ n \in Nat
      BY DEF Spliced
    <2> QED
      BY <2>1 DEF InsideOf
  <1>2. /\ i \in at..(at + n - 1) /\ Encloses(w, Moved(at, n, c), i) /\ i \in DOMAIN w
        /\ \A d \in DOMAIN w : ~(Encloses(w, Moved(at, n, c), d) /\ Encloses(w, d, i))
    BY DEF Added, ChildrenOf
  <1>3. /\ Moved(at, n, c) < i /\ i < GetNext(w, Moved(at, n, c)) /\ IsCtn(u[c])
    BY <1>2, SlotMoves DEF Encloses
  <1>4. /\ GetNext(w, Moved(at, n, c)) =
             GetNext(u, c) + (IF c \in A \/ c >= at THEN n ELSE 0)
        /\ c \in Nat /\ c >= 1 /\ GetNext(u, c) \in Nat
    BY SlotMoves
  <1>5. c < at
    BY <1>1, <1>2, <1>3, <1>4 DEF Moved
  <1>6. c \in A
    <2>1. IF c \in A THEN GetNext(u, c) >= at ELSE GetNext(u, c) <= at
      BY <1>1, <1>3, <1>4, <1>5 DEF Spliced
    <2> QED
      BY <1>1, <1>2, <1>3, <1>4, <1>5, <2>1
  <1>7. Encloses(u, c, p) /\ p \in DOMAIN u
    BY <1>1, <1>6 DEF InsideOf
  <1>8. Encloses(w, Moved(at, n, c), Moved(at, n, p)) /\ Moved(at, n, p) \in DOMAIN w
    BY <1>7, SameEnclosure, SlotMoves
  <1>9. Moved(at, n, p) = p
    BY <1>1 DEF Moved
  <1>10. Encloses(w, p, i)
    <2>1. IsCtn(u[p]) /\ GetNext(u, p) >= at
      <3>1. p \in 1..(at - 1)
        BY <1>1
      <3> QED
        BY <1>1, <3>1 DEF Spliced
    <2>2. /\ GetNext(w, Moved(at, n, p)) =
               GetNext(u, p) + (IF p \in A \/ p >= at THEN n ELSE 0)
          /\ GetNext(u, p) \in Nat /\ IsCtn(w[Moved(at, n, p)])
      BY <1>7, <2>1, SlotMoves
    <2>3. GetNext(w, p) = GetNext(u, p) + n /\ IsCtn(w[p])
      BY <1>1, <1>9, <2>2
    <2>4. p < i /\ i < GetNext(w, p)
      BY <1>1, <1>2, <2>1, <2>2, <2>3
    <2> QED
      BY <2>3, <2>4 DEF Encloses
  <1> QED
    BY <1>2, <1>8, <1>9, <1>10

(* A container that keeps its length and gets no child from the block      *)
(* counts and names its children as before.                                *)
LEMMA OtherKept ==
  ASSUME NEW u, NEW w, NEW A, NEW at, NEW n, Spliced(u, w, A, at, n), Block(w, at, n),
         NEW c \in DOMAIN u, Added(w, Moved(at, n, c), at, n) = {},
         w[Moved(at, n, c)].len = u[c].len
  PROVE  /\ CountsChildren(u, c) <=> CountsChildren(w, Moved(at, n, c))
         /\ Keyed(u, c) <=> Keyed(w, Moved(at, n, c))
  <1> DEFINE S == ChildrenOf(u, c)
             T == ChildrenOf(w, Moved(at, n, c))
             K == Added(w, Moved(at, n, c), at, n)
  <1>1. /\ T = {Moved(at, n, j) : j \in S} \cup K
        /\ Cardinality(T) = Cardinality(S) + Cardinality(K)
        /\ \A j \in S : Rank(T, Moved(at, n, j)) =
                          Rank(S, j) + (IF j >= at THEN Cardinality(K) ELSE 0)
    BY ChildrenMove
  <1>2. Cardinality(K) = 0
    BY FS_EmptySet
  <1>3. u \in Seq(Slot)
    BY DEF Spliced
  <1>4. S \subseteq DOMAIN u /\ Cardinality(S) \in Nat
    BY <1>3, ChildrenFinite
  <1>5. \A j \in S : Rank(S, j) \in Nat
    <2> TAKE j \in S
    <2>1. {m \in S : m <= j} \in SUBSET S /\ IsFiniteSet(S)
      BY <1>3, ChildrenFinite
    <2>2. IsFiniteSet({m \in S : m <= j})
      BY <2>1, FS_Subset
    <2> QED
      BY <2>2, FS_CardinalityType DEF Rank
  <1>6. \A j \in DOMAIN u : w[Moved(at, n, j)].kind = u[j].kind
    BY DEF Spliced
  <1>7. Cardinality(T) = Cardinality(S)
    BY <1>1, <1>2, <1>4
  <1>8. T = {Moved(at, n, j) : j \in S}
    BY <1>1
  <1>9. \A j \in S : Rank(T, Moved(at, n, j)) = Rank(S, j)
    BY <1>1, <1>2, <1>5
  <1> HIDE DEF S, T, K
  <1>10. CountsChildren(u, c) <=> CountsChildren(w, Moved(at, n, c))
    BY <1>6, <1>7 DEF CountsChildren, S, T
  <1>11. Keyed(u, c) <=> Keyed(w, Moved(at, n, c))
    <2>1. (\A j \in S : Rank(S, j) % 2 = 1 => u[j].kind = "string")
            <=> (\A i \in T : Rank(T, i) % 2 = 1 => w[i].kind = "string")
      BY SMTT(30), <1>4, <1>6, <1>8, <1>9
    <2> QED
      BY <1>6, <2>1 DEF Keyed, S, T
  <1> QED
    BY <1>10, <1>11

(* What surrounds a container encloses it, the first slot included.        *)
LEMMA AroundIs ==
  ASSUME NEW v, WellNested(v), NEW p \in DOMAIN v, IsCtn(v[p])
  PROVE  /\ Around(v, p) \subseteq 1..p /\ 1 \in Around(v, p) /\ p \in Around(v, p)
         /\ \A j \in Around(v, p) : IsCtn(v[j]) /\ GetNext(v, j) >= GetNext(v, p)
         /\ \A c \in DOMAIN v, d \in Around(v, p) : Encloses(v, c, d) => c \in Around(v, p)
         /\ \A c \in DOMAIN v : (c < p /\ c \notin Around(v, p)) => GetNext(v, c) <= p
  <1>1. p \in Nat /\ p >= 1 /\ DOMAIN v = 1..Len(v) /\ Len(v) \in Nat /\ GetNext(v, p) \in Nat
    BY SlotIs
  <1>2. 1 \in Around(v, p)
    BY RootEncloses DEF Around
  <1>3. Around(v, p) \subseteq 1..p
    BY <1>1 DEF Around, Encloses
  <1>4. ASSUME NEW j \in Around(v, p) PROVE IsCtn(v[j]) /\ GetNext(v, j) >= GetNext(v, p)
    <2>1. CASE j = p
      BY <1>1, <2>1
    <2>2. CASE j \in DOMAIN v /\ Encloses(v, j, p)
      <3>1. GetNext(v, p) <= GetNext(v, j) /\ GetNext(v, j) \in Nat
        BY <2>2, EnclosesAll, SlotIs
      <3> QED
        BY <1>1, <2>2, <3>1 DEF Encloses
    <2> QED
      BY <2>1, <2>2 DEF Around
  <1>5. ASSUME NEW c \in DOMAIN v, NEW d \in Around(v, p), Encloses(v, c, d)
        PROVE  c \in Around(v, p)
    <2>1. CASE d = p
      BY <1>5, <2>1 DEF Around
    <2>2. CASE d \in DOMAIN v /\ Encloses(v, d, p)
      BY <1>5, <2>2, EnclosesAll DEF Around
    <2> QED
      BY <2>1, <2>2 DEF Around
  <1>6. ASSUME NEW c \in DOMAIN v, c < p, c \notin Around(v, p)
        PROVE  GetNext(v, c) <= p
    <2>1. ~Encloses(v, c, p)
      BY <1>6 DEF Around
    <2>2. c \in Nat /\ GetNext(v, c) \in Nat /\ (~IsCtn(v[c]) => GetNext(v, c) = c + 1)
      BY SlotIs
    <2> QED
      BY <1>1, <1>6, <2>1, <2>2 DEF Encloses
  <1> QED
    BY <1>2, <1>3, <1>4, <1>5, <1>6 DEF Around

LEMMA PutInSplices ==
  ASSUME NEW u, WellNested(u), NEW p \in DOMAIN u, IsCtn(u[p]), NEW w, NEW n,
         Edited(u, w, Around(u, p), p, GetNext(u, p), n)
  PROVE  /\ Spliced(u, w, Around(u, p), GetNext(u, p), n)
         /\ InsideOf(u, Around(u, p), p)
  <1> DEFINE A  == Around(u, p)
             at == GetNext(u, p)
  <1>1. /\ A \subseteq 1..p /\ 1 \in A /\ p \in A
        /\ \A j \in A : IsCtn(u[j]) /\ GetNext(u, j) >= at
        /\ \A c \in DOMAIN u, d \in A : Encloses(u, c, d) => c \in A
        /\ \A c \in DOMAIN u : (c < p /\ c \notin A) => GetNext(u, c) <= p
    BY AroundIs
  <1>2. InsideOf(u, A, p)
    BY <1>1 DEF InsideOf, Around
  <1>3. /\ p \in Nat /\ at \in Nat /\ p < at /\ Len(u) \in Nat /\ DOMAIN u = 1..Len(u)
        /\ at <= Len(u) + 1
    BY SlotIs
  <1>4. \A j \in 1..(at - 1) : IsCtn(u[j]) =>
          IF j \in A THEN GetNext(u, j) >= at ELSE GetNext(u, j) <= at
    <2> TAKE j \in 1..(at - 1)
    <2>1. j \in DOMAIN u /\ j \in Nat
      BY <1>3
    <2>2. GetNext(u, j) \in Nat
      BY <2>1, SlotIs
    <2>3. CASE j \in A
      BY <1>1, <2>3
    <2>4. CASE j \notin A /\ j < p
      BY <1>1, <1>3, <2>1, <2>2, <2>4
    <2>5. CASE j \notin A /\ j > p
      <3>1. Encloses(u, p, j)
        BY <1>3, <2>5 DEF Encloses
      <3>2. GetNext(u, j) <= at
        BY <2>1, <3>1, EnclosesAll
      <3> QED
        BY <2>5, <3>2
    <2> QED
      BY <1>1, <1>3, <2>1, <2>3, <2>4, <2>5
  <1> HIDE DEF A, at
  <1>5. /\ u \in Seq(Slot) /\ w \in Seq(Slot)
        /\ n \in Nat /\ at \in 2..(Len(u) + 1) /\ Len(w) = Len(u) + n
        /\ p \in 1..(at - 1)
        /\ \A j \in DOMAIN u \ A : w[Moved(at, n, j)] = u[j]
        /\ \A j \in A : j < at /\ w[j].kind = u[j].kind /\ w[j].ofs = u[j].ofs + n
    BY DEF Edited, A, at
  <1>6. A \subseteq 1..(at - 1)
    BY <1>1, <1>3
  <1>7. \A j \in DOMAIN u : w[Moved(at, n, j)].kind = u[j].kind
    BY <1>5 DEF Moved
  <1>8. \A j \in DOMAIN u : IsCtn(u[j]) =>
          w[Moved(at, n, j)].ofs = u[j].ofs + (IF j \in A THEN n ELSE 0)
    <2> TAKE j \in DOMAIN u
    <2>1. CASE j \in A
      BY <1>5, <2>1 DEF Moved
    <2>2. CASE j \notin A
      <3>1. u[j].ofs \in Nat
        BY <1>5, SlotTyped
      <3> QED
        BY <1>5, <2>2, <3>1
    <2> QED
      BY <2>1, <2>2
  <1>9. Spliced(u, w, A, at, n)
    BY <1>1, <1>4, <1>5, <1>6, <1>7, <1>8 DEF Spliced
  <1> QED
    BY <1>2, <1>9 DEF A, at

LEMMA TakeOutSplices ==
  ASSUME NEW w, WellNested(w), NEW p \in DOMAIN w, IsCtn(w[p]), NEW u, NEW at, NEW n,
         Edited(u, w, Around(w, p), p, at, n), at + n <= GetNext(w, p),
         \A c \in DOMAIN w : (Encloses(w, p, c) /\ c < at) => GetNext(w, c) <= at
  PROVE  /\ Spliced(u, w, Around(w, p), at, n)
         /\ InsideOf(u, Around(w, p), p)
  <1> DEFINE A == Around(w, p)
  <1>1. /\ A \subseteq 1..p /\ 1 \in A /\ p \in A
        /\ \A j \in A : IsCtn(w[j]) /\ GetNext(w, j) >= GetNext(w, p)
        /\ \A c \in DOMAIN w, d \in A : Encloses(w, c, d) => c \in A
        /\ \A c \in DOMAIN w : (c < p /\ c \notin A) => GetNext(w, c) <= p
        /\ \A c \in A : c = p \/ Encloses(w, c, p)
    BY AroundIs DEF Around
  <1> HIDE DEF A
  <1>2. /\ u \in Seq(Slot) /\ w \in Seq(Slot)
        /\ n \in Nat /\ at \in 2..(Len(u) + 1) /\ Len(w) = Len(u) + n
        /\ p \in 1..(at - 1)
        /\ \A j \in DOMAIN u \ A : w[Moved(at, n, j)] = u[j]
        /\ \A j \in A : j < at /\ w[j].kind = u[j].kind /\ w[j].ofs = u[j].ofs + n
    BY DEF Edited, A
  <1>3. /\ p \in Nat /\ at \in Nat /\ p < at /\ Len(u) \in Nat /\ DOMAIN u = 1..Len(u)
        /\ at <= Len(u) + 1 /\ at >= 2 /\ DOMAIN w = 1..Len(w) /\ n \in Nat
        /\ GetNext(w, p) \in Nat /\ DOMAIN u \subseteq DOMAIN w
    <2>1. Len(u) \in Nat /\ Len(w) \in Nat /\ DOMAIN u = 1..Len(u) /\ DOMAIN w = 1..Len(w)
      BY <1>2
    <2>2. GetNext(w, p) \in Nat
      BY SlotIs
    <2> QED
      BY <1>2, <2>1, <2>2
  <1>4. A \subseteq 1..(at - 1) /\ A \subseteq DOMAIN u
    BY <1>1, <1>3
  <1>5. \A j \in A : IsCtn(u[j])
    BY <1>1, <1>2 DEF IsCtn
  <1>6. \A j \in DOMAIN u : w[Moved(at, n, j)].kind = u[j].kind
    BY <1>2 DEF Moved
  <1>7. \A j \in DOMAIN u : u[j].ofs \in Nat /\ GetNext(u, j) \in Nat
    BY <1>2, SlotTyped
  <1>8. \A j \in DOMAIN u : IsCtn(u[j]) =>
          w[Moved(at, n, j)].ofs = u[j].ofs + (IF j \in A THEN n ELSE 0)
    <2> TAKE j \in DOMAIN u
    <2>1. CASE j \in A
      BY <1>2, <2>1 DEF Moved
    <2>2. CASE j \notin A
      BY <1>2, <1>7, <2>2
    <2> QED
      BY <2>1, <2>2
  <1>9. ASSUME NEW j \in A PROVE GetNext(u, j) = GetNext(w, j) - n /\ GetNext(w, j) \in Nat
    <2>1. GetNext(u, j) = j + u[j].ofs /\ GetNext(w, j) = j + w[j].ofs
      BY <1>1, <1>5 DEF GetNext, SpanOf
    <2>2. j \in Nat /\ j \in DOMAIN u /\ w[j].ofs = u[j].ofs + n
      BY <1>2, <1>3, <1>4
    <2>3. u[j].ofs \in Nat /\ n \in Nat
      BY <1>3, <1>7, <2>2
    <2> QED
      BY ONLY <2>1, <2>2, <2>3
  <1>10. ASSUME NEW j \in DOMAIN u, j < at, j \notin A
         PROVE  GetNext(u, j) = GetNext(w, j) /\ u[j] = w[j] /\ j \in DOMAIN w
    <2>1. Moved(at, n, j) = j
      BY <1>10 DEF Moved
    <2> QED
      BY <1>2, <1>3, <1>10, <2>1 DEF GetNext, SpanOf
  <1>11. \A j \in 1..(at - 1) : IsCtn(u[j]) =>
           IF j \in A THEN GetNext(u, j) >= at ELSE GetNext(u, j) <= at
    <2> TAKE j \in 1..(at - 1)
    <2>1. j \in DOMAIN u /\ j \in Nat /\ j < at
      BY <1>3
    <2>2. CASE j \in A
      <3>1. GetNext(w, j) >= GetNext(w, p)
        BY <1>1, <2>2
      <3> QED
        BY <1>3, <1>9, <2>2, <3>1
    <2>3. CASE j \notin A /\ j < p
      <3>1. GetNext(w, j) <= p /\ GetNext(u, j) = GetNext(w, j) /\ GetNext(u, j) \in Nat
        BY <1>1, <1>7, <1>10, <2>1, <2>3
      <3> QED
        BY <1>3, <2>3, <3>1
    <2>4. CASE j \notin A /\ j > p
      <3>1. GetNext(u, j) = GetNext(w, j) /\ j \in DOMAIN w
        BY <1>10, <2>1, <2>4
      <3>2. Encloses(w, p, j)
        BY <1>3, <2>1, <2>4 DEF Encloses
      <3> QED
        BY <2>1, <2>4, <3>1, <3>2
    <2> QED
      BY <1>1, <1>3, <2>1, <2>2, <2>3, <2>4
  <1>12. ASSUME NEW c \in DOMAIN u, NEW d \in A, Encloses(u, c, d) PROVE c \in A
    <2>1. SUFFICES ASSUME c \notin A PROVE FALSE
      OBVIOUS
    <2>2. c < d /\ d < at /\ c < at /\ c \in Nat /\ d \in Nat
      BY <1>2, <1>3, <1>4, <1>12 DEF Encloses
    <2>3. GetNext(u, c) = GetNext(w, c) /\ u[c] = w[c] /\ c \in DOMAIN w
      BY <1>10, <2>1, <2>2
    <2>4. Encloses(w, c, d)
      BY <1>12, <2>3 DEF Encloses
    <2> QED
      BY <1>1, <2>1, <2>3, <2>4
  <1>13. InsideOf(u, A, p)
    <2>1. ASSUME NEW c \in A, c # p PROVE Encloses(u, c, p)
      <3>1. Encloses(w, c, p)
        BY <1>1, <2>1
      <3>2. c < p /\ GetNext(w, c) >= GetNext(w, p)
        BY <1>1, <3>1 DEF Encloses
      <3> QED
        BY <1>3, <1>5, <1>9, <3>2 DEF Encloses
    <2> QED
      BY <1>1, <2>1 DEF InsideOf
  <1>14. Spliced(u, w, A, at, n)
    BY <1>1, <1>2, <1>3, <1>4, <1>5, <1>6, <1>8, <1>11, <1>12 DEF Spliced
  <1> QED
    BY <1>13, <1>14 DEF A

-----------------------------------------------------------------------------
(* Slots put in behind the last descendant of p: an element, or a key with *)
(* a value, none of them holding anything yet.                             *)
HoldsNothing(s) == IsCtn(s) => s.ofs = 1 /\ s.len = 0

PutIn(u, w, p, n) ==
  LET at == GetNext(u, p) IN
  /\ Edited(u, w, Around(u, p), p, at, n)
  /\ \A i \in at..(at + n - 1) : HoldsNothing(w[i])
  /\ w[p].len = u[p].len + 1
  /\ IF u[p].kind = "object" THEN n = 2 /\ w[at].kind = "string" ELSE n = 1

LEMMA EditedSlots ==
  ASSUME NEW u, NEW w, NEW A, NEW p, NEW at, NEW n, Edited(u, w, A, p, at, n)
  PROVE  /\ u \in Seq(Slot) /\ w \in Seq(Slot)
         /\ Len(u) \in Nat /\ Len(w) \in Nat /\ DOMAIN u = 1..Len(u) /\ DOMAIN w = 1..Len(w)
         /\ n \in Nat /\ at \in Nat /\ at >= 2 /\ at <= Len(u) + 1 /\ Len(w) = Len(u) + n
         /\ p \in Nat /\ p >= 1 /\ p < at /\ p \in DOMAIN u /\ p \in DOMAIN w
         /\ Moved(at, n, p) = p
         /\ at..(at + n - 1) \subseteq DOMAIN w
  <1>1. /\ u \in Seq(Slot) /\ w \in Seq(Slot)
        /\ n \in Nat /\ at \in 2..(Len(u) + 1) /\ Len(w) = Len(u) + n
        /\ p \in 1..(at - 1)
    BY DEF Edited
  <1>2. Len(u) \in Nat /\ Len(w) \in Nat /\ DOMAIN u = 1..Len(u) /\ DOMAIN w = 1..Len(w)
    BY <1>1
  <1> QED
    BY <1>1, <1>2 DEF Moved

(* New slots enclose nothing, and all of them are children of p.           *)
LEMMA PutInAdds ==
  ASSUME NEW u, WellNested(u), NEW p \in DOMAIN u, IsCtn(u[p]), NEW w, NEW n,
         PutIn(u, w, p, n)
  PROVE  LET at == GetNext(u, p) IN
         /\ Block(w, at, n)
         /\ \A i \in at..(at + n - 1) : ChildrenOf(w, i) = {}
         /\ Added(w, p, at, n) = at..(at + n - 1)
  <1> DEFINE at == GetNext(u, p)
             A  == Around(u, p)
  <1>1. Edited(u, w, A, p, at, n) /\ \A i \in at..(at + n - 1) : HoldsNothing(w[i])
    BY DEF PutIn
  <1>2. Spliced(u, w, A, at, n) /\ InsideOf(u, A, p)
    BY <1>1, PutInSplices
  <1>3. A \subseteq 1..p /\ p \in A
    BY AroundIs
  <1> HIDE DEF at, A
  <1>4. /\ u \in Seq(Slot) /\ w \in Seq(Slot)
        /\ Len(u) \in Nat /\ Len(w) \in Nat /\ DOMAIN u = 1..Len(u) /\ DOMAIN w = 1..Len(w)
        /\ n \in Nat /\ at \in Nat /\ at >= 2 /\ at <= Len(u) + 1 /\ Len(w) = Len(u) + n
        /\ p \in Nat /\ p >= 1 /\ p < at /\ p \in DOMAIN w
        /\ Moved(at, n, p) = p
        /\ at..(at + n - 1) \subseteq DOMAIN w
    BY <1>1, EditedSlots
  <1>5. ASSUME NEW i \in at..(at + n - 1)
        PROVE  GetNext(w, i) = i + 1 /\ i \in Nat /\ (IsCtn(w[i]) => w[i].ofs >= 1)
    <2>1. IsCtn(w[i]) => w[i].ofs = 1
      BY <1>1 DEF HoldsNothing
    <2> QED
      BY <1>4, <2>1 DEF GetNext, SpanOf
  <1>6. \A i \in at..(at + n - 1), j \in DOMAIN w : ~Encloses(w, i, j)
    BY <1>4, <1>5 DEF Encloses
  <1>7. Block(w, at, n)
    BY <1>4, <1>5, <1>6 DEF Block
  <1>8. \A i \in at..(at + n - 1) : ChildrenOf(w, i) = {}
    BY <1>6 DEF ChildrenOf
  <1>9. GetNext(w, p) = at + n /\ IsCtn(w[p])
    <2>1. /\ GetNext(w, Moved(at, n, p)) =
               GetNext(u, p) + (IF p \in A \/ p >= at THEN n ELSE 0)
          /\ IsCtn(w[Moved(at, n, p)])
      BY <1>2, SlotMoves
    <2> QED
      BY <1>3, <1>4, <2>1 DEF at
  <1>10. ASSUME NEW i \in at..(at + n - 1), NEW d \in DOMAIN w,
                Encloses(w, p, d), Encloses(w, d, i)
         PROVE  FALSE
    <2>1. d \notin at..(at + n - 1)
      BY <1>4, <1>6, <1>10
    <2>2. PICK e \in DOMAIN u : d = Moved(at, n, e)
      BY <1>2, <2>1, SlotStays
    <2>3. Encloses(u, p, e)
      BY SMTT(30), <1>2, <1>4, <1>10, <2>2, SameEnclosure
    <2>4. GetNext(u, e) <= at /\ p < e /\ e < at
      BY <2>3, EnclosesAll DEF Encloses, at
    <2>5. /\ GetNext(w, Moved(at, n, e)) =
               GetNext(u, e) + (IF e \in A \/ e >= at THEN n ELSE 0)
          /\ GetNext(u, e) \in Nat /\ e \in Nat
      BY <1>2, SlotMoves
    <2>6. GetNext(w, d) = GetNext(u, e)
      BY <1>3, <1>4, <2>2, <2>4, <2>5
    <2>7. i < GetNext(w, d)
      BY <1>10 DEF Encloses
    <2> QED
      BY <1>4, <2>4, <2>5, <2>6, <2>7
  <1>11. Added(w, p, at, n) = at..(at + n - 1)
    <2>1. ASSUME NEW i \in at..(at + n - 1) PROVE i \in ChildrenOf(w, p)
      <3>1. Encloses(w, p, i)
        BY <1>4, <1>9 DEF Encloses
      <3>2. i \in DOMAIN w
        BY <1>4
      <3> QED
        BY <1>10, <3>1, <3>2 DEF ChildrenOf
    <2> QED
      BY <2>1 DEF Added
  <1> QED
    BY <1>7, <1>8, <1>11 DEF at

LEMMA RankType ==
  ASSUME NEW S, IsFiniteSet(S), NEW j
  PROVE  Rank(S, j) \in Nat
  <1>1. {m \in S : m <= j} \in SUBSET S
    OBVIOUS
  <1>2. IsFiniteSet({m \in S : m <= j})
    BY <1>1, FS_Subset
  <1> QED
    BY <1>2, FS_CardinalityType DEF Rank

LEMMA PutInKeeps ==
  ASSUME NEW u, WellFormedArena(u), NEW p \in DOMAIN u, IsCtn(u[p]), NEW w, NEW n,
         PutIn(u, w, p, n)
  PROVE  WellFormedArena(w)
  <1> DEFINE at == GetNext(u, p)
             A  == Around(u, p)
             S  == ChildrenOf(u, p)
             T  == ChildrenOf(w, p)
  <1>1. WellNested(u) /\ CountsChildren(u, p) /\ Keyed(u, p)
    BY DEF WellFormedArena
  <1>2. Edited(u, w, A, p, at, n)
    BY DEF PutIn
  <1>3. Spliced(u, w, A, at, n) /\ InsideOf(u, A, p)
    BY <1>1, <1>2, PutInSplices
  <1>4. /\ Block(w, at, n)
        /\ \A i \in at..(at + n - 1) : ChildrenOf(w, i) = {}
        /\ Added(w, p, at, n) = at..(at + n - 1)
    BY <1>1, PutInAdds
  <1>5. /\ u \in Seq(Slot) /\ w \in Seq(Slot)
        /\ n \in Nat /\ at \in Nat /\ at >= 2 /\ at <= Len(u) + 1 /\ Len(w) = Len(u) + n
        /\ Moved(at, n, p) = p
    BY <1>2, EditedSlots
  <1>6. WellNested(w)
    BY <1>1, <1>3, <1>4, PutInNested
  <1>7. /\ \A i \in at..(at + n - 1) : HoldsNothing(w[i])
        /\ w[p].len = u[p].len + 1
        /\ IF u[p].kind = "object" THEN n = 2 /\ w[at].kind = "string" ELSE n = 1
    BY DEF PutIn
  <1>8. w[p].kind = u[p].kind
    <2>1. w[Moved(at, n, p)].kind = u[p].kind
      BY <1>3, SlotMoves
    <2> QED
      BY <1>5, <2>1
  <1>9. /\ T = {Moved(at, n, j) : j \in S} \cup at..(at + n - 1)
        /\ Cardinality(T) = Cardinality(S) + n
        /\ \A j \in S : Rank(T, Moved(at, n, j)) = Rank(S, j) + (IF j >= at THEN n ELSE 0)
    <2>1. Cardinality(at..(at + n - 1)) = n
      <3>1. at \in Int /\ at + n - 1 \in Int
        BY <1>5
      <3>2. Cardinality(at..(at + n - 1)) =
              IF at > at + n - 1 THEN 0 ELSE (at + n - 1) - at + 1
        BY <3>1, FS_Interval
      <3> HIDE DEF at
      <3> QED
        BY <1>5, <3>2
    <2>2. LET T2 == ChildrenOf(w, Moved(at, n, p))
              K  == Added(w, Moved(at, n, p), at, n)
          IN /\ T2 = {Moved(at, n, j) : j \in S} \cup K
             /\ Cardinality(T2) = Cardinality(S) + Cardinality(K)
             /\ \A j \in S : Rank(T2, Moved(at, n, j)) =
                               Rank(S, j) + (IF j >= at THEN Cardinality(K) ELSE 0)
      BY <1>3, <1>4, ChildrenMove
    <2> HIDE DEF at
    <2> QED
      BY <1>4, <1>5, <2>1, <2>2
  <1>10. Cardinality(S) \in Nat /\ S \subseteq DOMAIN u /\ IsFiniteSet(S) /\ IsFiniteSet(T)
         /\ T \subseteq DOMAIN w
    BY <1>5, ChildrenFinite
  <1>11. CountsChildren(w, p)
    <2>1. u[p].len \in Nat
      BY <1>5, SlotTyped
    <2>2. Cardinality(S) = IF u[p].kind = "object" THEN 2 * u[p].len ELSE u[p].len
      BY <1>1 DEF CountsChildren
    <2> HIDE DEF at, S, T
    <2>3. Cardinality(T) = IF w[p].kind = "object" THEN 2 * w[p].len ELSE w[p].len
      BY <1>7, <1>8, <1>9, <2>1, <2>2
    <2> QED
      BY <2>3 DEF CountsChildren, T
  <1>12. Keyed(w, p)
    <2> SUFFICES ASSUME u[p].kind = "object", NEW i \in T, Rank(T, i) % 2 = 1
                 PROVE  w[i].kind = "string"
      BY <1>8 DEF Keyed
    <2>1. n = 2 /\ w[at].kind = "string"
      BY <1>7
    <2>2. i \in Nat
      BY <1>5, <1>10
    <2>3. CASE i = at
      BY <2>1, <2>3
    <2>4. CASE i = at + 1
      <3>1. \A m \in T : m <= i
        <4>1. \A j \in S : Moved(at, n, j) <= i
          <5> TAKE j \in S
          <5>1. j < at /\ j \in Nat
            BY <1>5, <1>10 DEF ChildrenOf, Encloses
          <5> QED
            BY <1>5, <2>4, <5>1 DEF Moved
        <4> HIDE DEF at, S, T
        <4>2. \A m \in at..(at + n - 1) : m <= i
          BY <1>5, <2>1, <2>4
        <4> QED
          BY <1>9, <4>1, <4>2
      <3>2. Rank(T, i) = Cardinality(T)
        <4>1. {m \in T : m <= i} = T
          BY <3>1
        <4> QED
          BY <4>1 DEF Rank
      <3>3. Cardinality(T) = 2 * w[p].len /\ w[p].len \in Nat
        <4>1. p \in DOMAIN w
          BY <1>2, EditedSlots
        <4> QED
          BY <1>5, <1>8, <1>11, <4>1, SlotTyped DEF CountsChildren
      <3> QED
        BY <3>2, <3>3
    <2>5. CASE i # at /\ i # at + 1
      <3>1. PICK j \in S : i = Moved(at, n, j)
        <4>1. i \notin at..(at + n - 1)
          BY <1>5, <2>1, <2>2, <2>5
        <4> QED
          BY <1>9, <4>1
      <3>2. j < at /\ j \in DOMAIN u
        BY <1>10 DEF ChildrenOf, Encloses
      <3>3. Rank(T, i) = Rank(S, j)
        <4>1. Rank(S, j) \in Nat
          BY <1>10, RankType
        <4>2. ~(j >= at)
          BY <1>5, <3>2
        <4> QED
          BY <1>9, <3>1, <4>1, <4>2
      <3>4. u[j].kind = "string"
        BY <1>1, <3>3 DEF Keyed
      <3> QED
        BY SMTT(30), <1>3, <3>1, <3>2, <3>4, SlotMoves
    <2> QED
      BY <2>3, <2>4, <2>5
  <1>13. ASSUME NEW i \in DOMAIN w, IsCtn(w[i]), i \notin at..(at + n - 1), i # p
         PROVE  CountsChildren(w, i) /\ Keyed(w, i)
    <2>1. PICK c \in DOMAIN u : i = Moved(at, n, c)
      BY <1>3, <1>13, SlotStays
    <2>2. c # p
      BY <1>5, <1>13, <2>1
    <2>3. Added(w, Moved(at, n, c), at, n) = {}
      BY <1>3, <2>2, NoneAdded
    <2>4. IsCtn(u[c])
      BY <1>3, <1>13, <2>1, SlotMoves
    <2>5. w[Moved(at, n, c)].len = u[c].len
      <3>1. CASE c \in A
        BY <1>2, <2>2, <3>1 DEF Edited, Moved
      <3>2. CASE c \notin A
        BY <1>2, <3>2 DEF Edited
      <3> QED
        BY <3>1, <3>2
    <2>6. CountsChildren(u, c) /\ Keyed(u, c)
      BY <2>4 DEF WellFormedArena
    <2> QED
      BY <1>3, <1>4, <2>1, <2>3, <2>5, <2>6, OtherKept
  <1>14. ASSUME NEW i \in at..(at + n - 1), IsCtn(w[i])
         PROVE  CountsChildren(w, i) /\ Keyed(w, i)
    <2>1. ChildrenOf(w, i) = {} /\ w[i].len = 0
      BY <1>4, <1>7, <1>14 DEF HoldsNothing
    <2> QED
      BY <2>1, FS_EmptySet DEF CountsChildren, Keyed
  <1> QED
    BY <1>6, <1>11, <1>12, <1>13, <1>14 DEF WellFormedArena

-----------------------------------------------------------------------------
(* Children taken out of p: one element, a key and its value, or all.      *)
TakenOut(w, u, p, at, n) ==
  /\ Edited(u, w, Around(w, p), p, at, n)
  /\ at + n <= GetNext(w, p)
  /\ \A c \in DOMAIN w : (Encloses(w, p, c) /\ c < at) => GetNext(w, c) <= at
  /\ \A i \in at..(at + n - 1) : GetNext(w, i) <= at + n
  /\ LET K == Added(w, p, at, n) IN
     \/ /\ Cardinality(K) = (IF w[p].kind = "object" THEN 2 ELSE 1)
        /\ u[p].len = w[p].len - 1
     \/ K = ChildrenOf(w, p) /\ u[p].len = 0

LEMMA TakenOutKeeps ==
  ASSUME NEW w, WellFormedArena(w), NEW p \in DOMAIN w, IsCtn(w[p]), NEW u, NEW at, NEW n,
         TakenOut(w, u, p, at, n)
  PROVE  WellFormedArena(u)
  <1> DEFINE A  == Around(w, p)
             S  == ChildrenOf(u, p)
             T  == ChildrenOf(w, p)
             K  == Added(w, p, at, n)
  <1>1. WellNested(w) /\ CountsChildren(w, p) /\ Keyed(w, p)
    BY DEF WellFormedArena
  <1>2. Edited(u, w, A, p, at, n)
    BY DEF TakenOut
  <1>3. Spliced(u, w, A, at, n) /\ InsideOf(u, A, p)
    BY <1>1, <1>2, TakeOutSplices DEF TakenOut
  <1>4. /\ u \in Seq(Slot) /\ w \in Seq(Slot) /\ p \in DOMAIN u
        /\ n \in Nat /\ at \in Nat /\ at >= 2 /\ at <= Len(u) + 1 /\ Len(w) = Len(u) + n
        /\ Moved(at, n, p) = p /\ at..(at + n - 1) \subseteq DOMAIN w
    BY <1>2, EditedSlots
  <1>5. Block(w, at, n)
    <2>1. \A i \in at..(at + n - 1) : GetNext(w, i) <= at + n
      BY DEF TakenOut
    <2> QED
      BY <1>1, <1>4, <2>1 DEF Block, WellNested
  <1>6. WellNested(u)
    BY <1>1, <1>3, TakenOutNested
  <1>7. \/ /\ Cardinality(K) = (IF w[p].kind = "object" THEN 2 ELSE 1)
           /\ u[p].len = w[p].len - 1
        \/ K = T /\ u[p].len = 0
    BY DEF TakenOut
  <1>8. w[p].kind = u[p].kind /\ w[p].len \in Nat /\ u[p].len \in Nat
    <2>1. w[Moved(at, n, p)].kind = u[p].kind
      BY <1>3, <1>4, SlotMoves
    <2> QED
      BY <1>4, <2>1, SlotTyped
  <1>9. /\ T = {Moved(at, n, j) : j \in S} \cup K
        /\ Cardinality(T) = Cardinality(S) + Cardinality(K)
        /\ \A j \in S : Rank(T, Moved(at, n, j)) =
                          Rank(S, j) + (IF j >= at THEN Cardinality(K) ELSE 0)
    <2>1. LET T2 == ChildrenOf(w, Moved(at, n, p))
              K2 == Added(w, Moved(at, n, p), at, n)
          IN /\ T2 = {Moved(at, n, j) : j \in S} \cup K2
             /\ Cardinality(T2) = Cardinality(S) + Cardinality(K2)
             /\ \A j \in S : Rank(T2, Moved(at, n, j)) =
                               Rank(S, j) + (IF j >= at THEN Cardinality(K2) ELSE 0)
      BY <1>3, <1>4, <1>5, ChildrenMove
    <2> QED
      BY <1>4, <2>1
  <1>10. Cardinality(S) \in Nat /\ S \subseteq DOMAIN u /\ IsFiniteSet(S)
    BY <1>4, ChildrenFinite
  <1>11. Cardinality(T) = IF w[p].kind = "object" THEN 2 * w[p].len ELSE w[p].len
    BY <1>1 DEF CountsChildren
  <1>12. ASSUME Cardinality(K) = (IF w[p].kind = "object" THEN 2 ELSE 1),
                u[p].len = w[p].len - 1
         PROVE  CountsChildren(u, p) /\ Keyed(u, p)
    <2> HIDE DEF S, T, K
    <2>1. Cardinality(S) = IF u[p].kind = "object" THEN 2 * u[p].len ELSE u[p].len
      BY <1>8, <1>9, <1>10, <1>11, <1>12
    <2>2. Keyed(u, p)
      <3> SUFFICES ASSUME u[p].kind = "object", NEW j \in S, Rank(S, j) % 2 = 1
                   PROVE  u[j].kind = "string"
        BY DEF Keyed, S
      <3>1. Cardinality(K) = 2
        BY <1>8, <1>12
      <3>2. Rank(S, j) \in Nat
        BY <1>10, RankType
      <3>3. Rank(T, Moved(at, n, j)) % 2 = 1
        <4>1. Rank(T, Moved(at, n, j)) = Rank(S, j) + (IF j >= at THEN 2 ELSE 0)
          BY <1>9, <3>1
        <4> QED
          BY <3>2, <4>1
      <3>4. w[Moved(at, n, j)].kind = "string"
        BY <1>1, <1>8, <1>9, <3>3 DEF Keyed, T
      <3> QED
        BY SMTT(30), <1>3, <1>10, <3>4, SlotMoves
    <2> QED
      BY <2>1, <2>2 DEF CountsChildren, S
  <1>13. ASSUME K = T, u[p].len = 0
         PROVE  CountsChildren(u, p) /\ Keyed(u, p)
    <2>1. S = {}
      <3> SUFFICES ASSUME NEW j \in S PROVE FALSE
        OBVIOUS
      <3>1. Moved(at, n, j) \in K
        BY <1>9, <1>13
      <3>2. Moved(at, n, j) \notin at..(at + n - 1)
        BY <1>3, <1>10, SlotMoves
      <3> QED
        BY <3>1, <3>2 DEF Added
    <2> HIDE DEF T, K
    <2> QED
      BY <1>13, <2>1, FS_EmptySet DEF CountsChildren, Keyed
  <1>14. CountsChildren(u, p) /\ Keyed(u, p)
    BY <1>7, <1>12, <1>13
  <1>15. ASSUME NEW c \in DOMAIN u, IsCtn(u[c]), c # p
         PROVE  CountsChildren(u, c) /\ Keyed(u, c)
    <2>1. Added(w, Moved(at, n, c), at, n) = {}
      BY <1>3, <1>15, NoneAdded
    <2>2. w[Moved(at, n, c)].len = u[c].len
      <3>1. CASE c \in A
        BY <1>2, <1>15, <3>1 DEF Edited, Moved
      <3>2. CASE c \notin A
        BY <1>2, <3>2 DEF Edited
      <3> QED
        BY <3>1, <3>2
    <2>3. Moved(at, n, c) \in DOMAIN w /\ IsCtn(w[Moved(at, n, c)])
      BY <1>3, <1>15, SlotMoves
    <2>4. CountsChildren(w, Moved(at, n, c)) /\ Keyed(w, Moved(at, n, c))
      BY <2>3 DEF WellFormedArena
    <2> QED
      BY <1>3, <1>5, <2>1, <2>2, <2>4, OtherKept
  <1> QED
    BY <1>6, <1>14, <1>15 DEF WellFormedArena

-----------------------------------------------------------------------------
(* A child, what stands before it and what it holds.                       *)
LEMMA ChildIs ==
  ASSUME NEW v, WellNested(v), NEW p \in DOMAIN v, NEW at \in ChildrenOf(v, p)
  PROVE  /\ at \in DOMAIN v /\ at \in Nat /\ p \in Nat /\ p < at /\ IsCtn(v[p])
         /\ GetNext(v, p) \in Nat /\ GetNext(v, at) \in Nat
         /\ at < GetNext(v, at) /\ GetNext(v, at) <= GetNext(v, p)
         /\ \A c \in DOMAIN v : (Encloses(v, p, c) /\ c < at) => GetNext(v, c) <= at
         /\ \A i \in DOMAIN v : (at < i /\ i < GetNext(v, at)) =>
              GetNext(v, i) <= GetNext(v, at) /\ i \notin ChildrenOf(v, p)
         /\ GetNext(v, at) < GetNext(v, p) => GetNext(v, at) \in ChildrenOf(v, p)
  <1>1. /\ at \in DOMAIN v /\ Encloses(v, p, at)
        /\ \A d \in DOMAIN v : ~(Encloses(v, p, d) /\ Encloses(v, d, at))
    BY DEF ChildrenOf
  <1>2. /\ p < at /\ at < GetNext(v, p) /\ IsCtn(v[p])
        /\ GetNext(v, at) <= GetNext(v, p)
    BY <1>1, EnclosesAll DEF Encloses
  <1>3. \A i \in DOMAIN v : /\ i \in Nat /\ GetNext(v, i) \in Nat /\ i < GetNext(v, i)
                            /\ GetNext(v, i) <= Len(v) + 1
                            /\ ~IsCtn(v[i]) => GetNext(v, i) = i + 1
    BY SlotIs
  <1>4. DOMAIN v = 1..Len(v) /\ Len(v) \in Nat
    BY <1>1, SlotIs
  <1>5. ASSUME NEW c \in DOMAIN v, Encloses(v, p, c), c < at PROVE GetNext(v, c) <= at
    <2>1. ~Encloses(v, c, at)
      BY <1>1, <1>5
    <2> QED
      BY <1>1, <1>3, <1>5, <2>1 DEF Encloses
  <1>6. ASSUME NEW i \in DOMAIN v, at < i, i < GetNext(v, at)
        PROVE  GetNext(v, i) <= GetNext(v, at) /\ i \notin ChildrenOf(v, p)
    <2>1. Encloses(v, at, i)
      BY <1>1, <1>3, <1>6 DEF Encloses
    <2>2. GetNext(v, i) <= GetNext(v, at)
      BY <1>1, <2>1, EnclosesAll
    <2> QED
      BY <1>1, <2>1, <2>2 DEF ChildrenOf
  <1>7. ASSUME GetNext(v, at) < GetNext(v, p) PROVE GetNext(v, at) \in ChildrenOf(v, p)
    <2> DEFINE e == GetNext(v, at)
    <2>1. e \in DOMAIN v /\ Encloses(v, p, e)
      BY <1>1, <1>2, <1>3, <1>4, <1>7 DEF Encloses
    <2>2. ASSUME NEW d \in DOMAIN v, Encloses(v, p, d), Encloses(v, d, e) PROVE FALSE
      <3>1. d < e /\ e < GetNext(v, d)
        BY <2>2 DEF Encloses
      <3>2. CASE d < at
        BY <1>1, <1>3, <1>5, <2>2, <3>1, <3>2
      <3>3. CASE d = at
        BY <1>1, <1>3, <3>1, <3>3
      <3>4. CASE d > at
        BY <1>1, <1>3, <1>6, <3>1, <3>4
      <3> QED
        BY <1>1, <1>3, <3>2, <3>3, <3>4
    <2> QED
      BY <2>1, <2>2 DEF ChildrenOf
  <1> QED
    BY <1>1, <1>2, <1>3, <1>5, <1>6, <1>7

(* What TakenOut asks for, of an element, of a member and of all children. *)
Takeable(v, p, at, n) ==
  /\ at \in Nat /\ n \in Nat /\ p < at
  /\ at + n <= GetNext(v, p)
  /\ \A c \in DOMAIN v : (Encloses(v, p, c) /\ c < at) => GetNext(v, c) <= at
  /\ \A i \in at..(at + n - 1) : GetNext(v, i) <= at + n

LEMMA ElementTakeable ==
  ASSUME NEW v, WellNested(v), NEW p \in DOMAIN v, NEW at \in ChildrenOf(v, p)
  PROVE  LET n == GetNext(v, at) - at IN
         Takeable(v, p, at, n) /\ Cardinality(Added(v, p, at, n)) = 1
  <1> DEFINE n == GetNext(v, at) - at
  <1>1. /\ at \in DOMAIN v /\ at \in Nat /\ p \in Nat /\ p < at
        /\ GetNext(v, p) \in Nat /\ GetNext(v, at) \in Nat
        /\ at < GetNext(v, at) /\ GetNext(v, at) <= GetNext(v, p)
        /\ \A c \in DOMAIN v : (Encloses(v, p, c) /\ c < at) => GetNext(v, c) <= at
        /\ \A i \in DOMAIN v : (at < i /\ i < GetNext(v, at)) =>
             GetNext(v, i) <= GetNext(v, at) /\ i \notin ChildrenOf(v, p)
    BY ChildIs
  <1>2. n \in Nat /\ at + n = GetNext(v, at) /\ n >= 1
    BY <1>1
  <1>3. DOMAIN v = 1..Len(v) /\ Len(v) \in Nat /\ GetNext(v, p) <= Len(v) + 1
    BY SlotIs
  <1> HIDE DEF n
  <1>4. at..(at + n - 1) \subseteq DOMAIN v
    BY <1>1, <1>2, <1>3
  <1>5. \A i \in at..(at + n - 1) : GetNext(v, i) <= at + n
    BY <1>1, <1>2, <1>4
  <1>6. Added(v, p, at, n) = {at}
    BY <1>1, <1>2, <1>4 DEF Added
  <1> QED
    BY <1>1, <1>2, <1>5, <1>6, FS_Singleton DEF Takeable, n

LEMMA MemberTakeable ==
  ASSUME NEW v, WellFormedArena(v), NEW p \in DOMAIN v, v[p].kind = "object",
         NEW k \in ChildrenOf(v, p), Rank(ChildrenOf(v, p), k) % 2 = 1
  PROVE  LET n == GetNext(v, k + 1) - k IN
         /\ k + 1 \in ChildrenOf(v, p)
         /\ Takeable(v, p, k, n) /\ Cardinality(Added(v, p, k, n)) = 2
  <1> DEFINE n == GetNext(v, k + 1) - k
             S == ChildrenOf(v, p)
  <1>1. WellNested(v) /\ IsCtn(v[p])
    BY DEF WellFormedArena, IsCtn
  <1>2. v[k].kind = "string" /\ Cardinality(S) = 2 * v[p].len
    BY <1>1 DEF WellFormedArena, Keyed, CountsChildren
  <1>3. /\ k \in DOMAIN v /\ k \in Nat /\ p \in Nat /\ p < k
        /\ GetNext(v, p) \in Nat /\ GetNext(v, k) <= GetNext(v, p)
        /\ \A c \in DOMAIN v : (Encloses(v, p, c) /\ c < k) => GetNext(v, c) <= k
        /\ GetNext(v, k) < GetNext(v, p) => GetNext(v, k) \in S
    BY <1>1, ChildIs
  <1>4. GetNext(v, k) = k + 1
    BY <1>1, <1>2, <1>3, SlotIs DEF IsCtn
  <1>5. k + 1 \in S
    <2> SUFFICES ASSUME GetNext(v, p) = k + 1 PROVE FALSE
      BY <1>3, <1>4
    <2>1. \A m \in S : m <= k
      <3> TAKE m \in S
      <3>1. m \in DOMAIN v /\ m < k + 1
        BY DEF ChildrenOf, Encloses
      <3>2. m \in Nat
        BY <1>1, <3>1, SlotIs
      <3> QED
        BY <1>3, <3>1, <3>2
    <2>2. {m \in S : m <= k} = S
      BY <2>1
    <2>3. Rank(S, k) = Cardinality(S)
      BY <2>2 DEF Rank
    <2>4. v[p].len \in Nat
      BY <1>1, SlotIs
    <2> QED
      BY <1>2, <2>3, <2>4
  <1>6. /\ k + 1 \in DOMAIN v
        /\ GetNext(v, k + 1) \in Nat
        /\ k + 1 < GetNext(v, k + 1) /\ GetNext(v, k + 1) <= GetNext(v, p)
        /\ \A i \in DOMAIN v : (k + 1 < i /\ i < GetNext(v, k + 1)) =>
             GetNext(v, i) <= GetNext(v, k + 1) /\ i \notin S
    BY <1>1, <1>5, ChildIs
  <1>7. n \in Nat /\ k + n = GetNext(v, k + 1) /\ n >= 2
    BY <1>3, <1>6
  <1>8. DOMAIN v = 1..Len(v) /\ Len(v) \in Nat /\ GetNext(v, p) <= Len(v) + 1
    BY <1>1, SlotIs
  <1> HIDE DEF n, S
  <1>9. k..(k + n - 1) \subseteq DOMAIN v
    BY SMTT(30), <1>3, <1>6, <1>7, <1>8
  <1>10. \A i \in k..(k + n - 1) : GetNext(v, i) <= k + n
    <2> TAKE i \in k..(k + n - 1)
    <2>1. CASE i = k \/ i = k + 1
      BY <1>3, <1>4, <1>6, <1>7, <2>1
    <2>2. CASE k + 1 < i
      BY <1>3, <1>6, <1>7, <1>9, <2>2
    <2> QED
      BY <1>3, <1>7, <2>1, <2>2
  <1>11. Added(v, p, k, n) = {k, k + 1}
    <2>1. S \cap (k..(k + n - 1)) = {k, k + 1}
      <3>1. k \in S
        BY DEF S
      <3>2. \A i \in k..(k + n - 1) : i \in S => i = k \/ i = k + 1
        BY <1>3, <1>6, <1>7, <1>9
      <3> QED
        BY <1>3, <1>5, <1>7, <3>1, <3>2
    <2> QED
      BY <2>1 DEF Added, S
  <1>12. Cardinality(Added(v, p, k, n)) = 2
    <2>1. k # k + 1
      BY <1>3
    <2> QED
      <3>1. Cardinality({k, k + 1}) = 2
        BY <2>1, PairCounts
      <3> QED
        BY <1>11, <3>1
  <1>13. Takeable(v, p, k, n)
    BY <1>3, <1>6, <1>7, <1>10 DEF Takeable
  <1> QED
    BY <1>5, <1>12, <1>13 DEF n, S

LEMMA AllTakeable ==
  ASSUME NEW v, WellNested(v), NEW p \in DOMAIN v, IsCtn(v[p])
  PROVE  LET n == v[p].ofs - 1 IN
         Takeable(v, p, p + 1, n) /\ Added(v, p, p + 1, n) = ChildrenOf(v, p)
  <1> DEFINE n == v[p].ofs - 1
  <1>1. /\ p \in Nat /\ GetNext(v, p) = p + v[p].ofs /\ v[p].ofs \in Nat /\ v[p].ofs >= 1
        /\ DOMAIN v = 1..Len(v) /\ Len(v) \in Nat /\ GetNext(v, p) <= Len(v) + 1
    <2>1. v[p].ofs >= 1
      BY DEF WellNested
    <2> QED
      BY <2>1, SlotIs
  <1>2. n \in Nat /\ p + 1 + n = GetNext(v, p)
    BY <1>1
  <1> HIDE DEF n
  <1>3. ASSUME NEW i \in (p + 1)..(p + 1 + n - 1) PROVE GetNext(v, i) <= p + 1 + n
    <2>1. i \in DOMAIN v /\ Encloses(v, p, i)
      BY <1>1, <1>2 DEF Encloses
    <2>2. GetNext(v, i) <= GetNext(v, p)
      BY <2>1, EnclosesAll
    <2> QED
      BY <1>2, <2>2
  <1>4. ChildrenOf(v, p) \subseteq (p + 1)..(p + 1 + n - 1)
    BY <1>1, <1>2 DEF ChildrenOf, Encloses
  <1>5. Added(v, p, p + 1, n) = ChildrenOf(v, p)
    BY <1>4 DEF Added
  <1>6. \A c \in DOMAIN v : ~(Encloses(v, p, c) /\ c < p + 1)
    BY <1>1 DEF Encloses
  <1>7. Takeable(v, p, p + 1, n)
    BY <1>1, <1>2, <1>3, <1>6 DEF Takeable
  <1> QED
    BY <1>5, <1>7 DEF n

-----------------------------------------------------------------------------
(* Every number up to the size of a set is the rank of one of its members. *)
LEMMA RankOnto ==
  ASSUME NEW L \in Nat, NEW S \in SUBSET (0..L), NEW n \in 1..Cardinality(S)
  PROVE  \E j \in S : Rank(S, j) = n
  <1> DEFINE Upto(m) == {x \in S : x <= m}
             G       == {m \in Nat : Cardinality(Upto(m)) >= n}
  <1>0. \A x \in S : x \in Nat /\ x <= L
    OBVIOUS
  <1>1. IsFiniteSet(S) /\ Cardinality(S) \in Nat
    <2>1. IsFiniteSet(0..L)
      BY FS_Interval
    <2> QED
      BY <2>1, FS_Subset, FS_CardinalityType
  <1>2. n \in Nat /\ n >= 1 /\ n <= Cardinality(S)
    BY <1>1
  <1>3. ASSUME NEW m PROVE IsFiniteSet(Upto(m)) /\ Cardinality(Upto(m)) \in Nat
    <2>1. Upto(m) \in SUBSET S
      OBVIOUS
    <2> QED
      BY <1>1, <2>1, FS_Subset, FS_CardinalityType
  <1>4. L \in G
    <2>1. Upto(L) = S
      BY <1>0
    <2>2. Cardinality(Upto(L)) >= n
      BY <1>2, <2>1
    <2> QED
      BY <2>2
  <1>5. /\ G \in SUBSET Nat /\ G # {}
    BY <1>4
  <1>6. PICK m \in G : \A y \in G : m <= y
    <2> HIDE DEF G
    <2> QED
      BY <1>5, LeastOf
  <1>7. m \in Nat /\ Cardinality(Upto(m)) >= n
    OBVIOUS
  <1> DEFINE B == {x \in S : x < m}
  <1>8. IsFiniteSet(B) /\ Cardinality(B) \in Nat
    <2>1. B \in SUBSET S
      OBVIOUS
    <2> QED
      BY <1>1, <2>1, FS_Subset, FS_CardinalityType
  <1>9. Cardinality(B) < n
    <2>1. CASE m = 0
      <3>1. B = {}
        <4>1. \A x \in S : ~(x < m)
          BY <1>0, <2>1
        <4> QED
          BY <4>1
      <3> QED
        BY <1>2, <3>1, FS_EmptySet
    <2>2. CASE m # 0
      <3>1. m - 1 \in Nat /\ m - 1 < m
        BY <1>7, <2>2
      <3>2. m - 1 \notin G
        <4> SUFFICES ASSUME m - 1 \in G PROVE FALSE
          OBVIOUS
        <4>1. m <= m - 1
          BY <1>6
        <4> QED
          BY <1>7, <4>1
      <3>3. ~(Cardinality(Upto(m - 1)) >= n)
        BY <3>1, <3>2
      <3>4. Upto(m - 1) = B
        <4>1. \A x \in S : x <= m - 1 <=> x < m
          BY <1>0, <1>7
        <4> QED
          BY <4>1
      <3> QED
        BY <1>2, <1>8, <3>3, <3>4
    <2> QED
      BY <2>1, <2>2
  <1>10. m \in S
    <2> SUFFICES ASSUME m \notin S PROVE FALSE
      OBVIOUS
    <2>1. Upto(m) = B
      <3>1. \A x \in S : x <= m <=> x < m
        BY <1>0, <1>7
      <3> QED
        BY <3>1
    <2> QED
      BY <1>2, <1>7, <1>8, <1>9, <2>1
  <1>11. Upto(m) = B \cup {m}
    <2>1. \A x \in S : x <= m <=> (x < m \/ x = m)
      BY <1>0, <1>7
    <2> QED
      BY <1>7, <1>10, <2>1
  <1>12. Cardinality(Upto(m)) = Cardinality(B) + 1
    <2>1. m \notin B
      BY <1>7
    <2> QED
      BY <1>8, <1>11, <2>1, FS_AddElement
  <1>13. Rank(S, m) = n
    BY <1>2, <1>7, <1>8, <1>9, <1>12 DEF Rank
  <1> QED
    BY <1>10, <1>13

-----------------------------------------------------------------------------
(* Sequences: a piece put in, a piece taken out.                           *)
IsCat(q, s, t) ==
  /\ q \in Seq(Slot) /\ Len(q) = Len(s) + Len(t)
  /\ \A j \in 1..Len(s) : q[j] = s[j]
  /\ \A j \in 1..Len(t) : q[Len(s) + j] = t[j]

LEMMA Cat ==
  ASSUME NEW s \in Seq(Slot), NEW t \in Seq(Slot)
  PROVE  IsCat(s \o t, s, t)
  BY DEF IsCat

LEMMA PieceIn ==
  ASSUME NEW P \in Seq(Slot), NEW new \in Seq(Slot), NEW e \in 1..(Len(P) + 1)
  PROVE  LET q == SubSeq(P, 1, e - 1) \o new \o SubSeq(P, e, Len(P)) IN
         /\ q \in Seq(Slot) /\ Len(q) = Len(P) + Len(new)
         /\ \A j \in DOMAIN P : q[Moved(e, Len(new), j)] = P[j]
         /\ \A i \in 1..Len(new) : q[e + i - 1] = new[i]
  <1> DEFINE a == SubSeq(P, 1, e - 1)
             b == SubSeq(P, e, Len(P))
             q == a \o new \o b
  <1>1. Len(P) \in Nat /\ Len(new) \in Nat /\ e \in Nat /\ DOMAIN P = 1..Len(P)
    OBVIOUS
  <1>2. /\ a \in Seq(Slot) /\ Len(a) = e - 1
        /\ \A j \in 1..(e - 1) : a[j] = P[j]
    BY <1>1
  <1>3. /\ b \in Seq(Slot) /\ Len(b) = Len(P) - e + 1
        /\ \A j \in 1..(Len(P) - e + 1) : b[j] = P[e + j - 1]
    BY <1>1
  <1> HIDE DEF a, b
  <1>4. /\ q \in Seq(Slot) /\ Len(q) = Len(P) + Len(new)
        /\ \A j \in 1..(e - 1) : q[j] = a[j]
        /\ \A j \in 1..Len(new) : q[e - 1 + j] = new[j]
        /\ \A j \in 1..(Len(P) - e + 1) : q[e - 1 + Len(new) + j] = b[j]
    <2>1. IsCat(a \o new, a, new)
      BY <1>2, Cat
    <2>2. a \o new \in Seq(Slot)
      BY <2>1 DEF IsCat
    <2>3. IsCat((a \o new) \o b, a \o new, b)
      BY <1>3, <2>2, Cat
    <2> DEFINE r == a \o new
    <2> HIDE DEF r, q
    <2>4. IsCat(r, a, new) /\ IsCat(q, r, b)
      BY <2>1, <2>3 DEF r, q
    <2>5. /\ Len(r) = e - 1 + Len(new) /\ Len(b) = Len(P) - e + 1
          /\ 1..(e - 1) \subseteq 1..Len(r)
          /\ \A j \in 1..Len(new) : e - 1 + j \in 1..Len(r)
      BY SMTT(30), <1>1, <1>2, <1>3, <2>4 DEF IsCat
    <2> QED
      BY SMTT(30), <1>1, <1>2, <1>3, <2>4, <2>5 DEF IsCat
  <1> HIDE DEF q
  <1>5. ASSUME NEW j \in DOMAIN P PROVE q[Moved(e, Len(new), j)] = P[j]
    <2>1. CASE j < e
      BY <1>1, <1>2, <1>4, <2>1 DEF Moved
    <2>2. CASE j >= e
      <3>1. j - e + 1 \in 1..(Len(P) - e + 1)
        BY <1>1, <2>2
      <3>2. e - 1 + Len(new) + (j - e + 1) = j + Len(new) /\ e + (j - e + 1) - 1 = j
        BY <1>1
      <3>3. q[j + Len(new)] = b[j - e + 1] /\ b[j - e + 1] = P[j]
        BY <1>3, <1>4, <3>1, <3>2
      <3> QED
        BY <1>1, <2>2, <3>3 DEF Moved
    <2> QED
      BY <1>1, <2>1, <2>2
  <1>6. ASSUME NEW i \in 1..Len(new) PROVE q[e + i - 1] = new[i]
    <2>1. e + i - 1 = e - 1 + i
      BY <1>1
    <2> QED
      BY <1>4, <2>1
  <1> QED
    BY <1>4, <1>5, <1>6 DEF q, a, b

LEMMA PieceOut ==
  ASSUME NEW P \in Seq(Slot), NEW at \in Nat, NEW n \in Nat, at >= 1, at + n - 1 <= Len(P)
  PROVE  LET q == SubSeq(P, 1, at - 1) \o SubSeq(P, at + n, Len(P)) IN
         /\ q \in Seq(Slot) /\ Len(q) = Len(P) - n
         /\ \A j \in DOMAIN q : q[j] = P[Moved(at, n, j)]
  <1> DEFINE a == SubSeq(P, 1, at - 1)
             b == SubSeq(P, at + n, Len(P))
             q == a \o b
  <1>1. Len(P) \in Nat /\ DOMAIN P = 1..Len(P)
    OBVIOUS
  <1>2. /\ a \in Seq(Slot) /\ Len(a) = at - 1
        /\ \A j \in 1..(at - 1) : a[j] = P[j]
    BY <1>1
  <1>3. /\ b \in Seq(Slot) /\ Len(b) = Len(P) - (at + n) + 1
        /\ \A j \in 1..(Len(P) - (at + n) + 1) : b[j] = P[at + n + j - 1]
    BY <1>1
  <1> HIDE DEF a, b
  <1>4. /\ q \in Seq(Slot) /\ Len(q) = Len(P) - n
        /\ \A j \in 1..(at - 1) : q[j] = a[j]
        /\ \A j \in 1..(Len(P) - (at + n) + 1) : q[at - 1 + j] = b[j]
    <2>1. IsCat(q, a, b)
      BY <1>2, <1>3, Cat
    <2> HIDE DEF q
    <2> QED
      BY <1>1, <1>2, <1>3, <2>1 DEF IsCat
  <1> HIDE DEF q
  <1>5. ASSUME NEW j \in DOMAIN q PROVE q[j] = P[Moved(at, n, j)]
    <2>0. j \in 1..(Len(P) - n)
      BY <1>4
    <2>1. CASE j < at
      BY <1>1, <1>2, <1>4, <2>0, <2>1 DEF Moved
    <2>2. CASE j >= at
      <3>1. j - at + 1 \in 1..(Len(P) - (at + n) + 1)
        BY <1>1, <2>0, <2>2
      <3>2. at - 1 + (j - at + 1) = j /\ at + n + (j - at + 1) - 1 = j + n
        BY <1>1, <2>0
      <3>3. q[j] = b[j - at + 1] /\ b[j - at + 1] = P[j + n]
        BY <1>3, <1>4, <3>1, <3>2
      <3> QED
        BY <1>1, <2>0, <2>2, <3>3 DEF Moved
    <2> QED
      BY <1>1, <2>0, <2>1, <2>2
  <1> QED
    BY <1>4, <1>5 DEF q, a, b

-----------------------------------------------------------------------------
(* A value that holds nothing gives way to another that holds nothing: the *)
(* shape stays, and a key stays a key when it is still a string.           *)
LEMMA RewriteKeeps ==
  ASSUME NEW u, WellFormedArena(u), NEW i \in DOMAIN u, ~IsCtn(u[i]),
         NEW s \in Slot, ~IsCtn(s),
         \/ s.kind = "string"
         \/ \A c \in DOMAIN u : (u[c].kind = "object" /\ i \in ChildrenOf(u, c)) =>
              Rank(ChildrenOf(u, c), i) % 2 # 1
  PROVE  WellFormedArena([u EXCEPT ![i] = s])
  <1> DEFINE w == [u EXCEPT ![i] = s]
  <1>1. WellNested(u) /\ u \in Seq(Slot) /\ u # <<>>
    BY DEF WellFormedArena, WellNested
  <1>2. /\ w \in Seq(Slot) /\ Len(w) = Len(u) /\ DOMAIN w = DOMAIN u /\ w # <<>>
        /\ w[i] = s
        /\ \A j \in DOMAIN u : j # i => w[j] = u[j]
    BY <1>1
  <1> HIDE DEF w
  <1>3. \A j \in DOMAIN u : IsCtn(w[j]) <=> IsCtn(u[j])
    BY <1>2
  <1>4. \A j \in DOMAIN u : GetNext(w, j) = GetNext(u, j)
    BY <1>2, <1>3 DEF GetNext, SpanOf
  <1>5. \A c, j \in DOMAIN u : Encloses(w, c, j) <=> Encloses(u, c, j)
    BY <1>3, <1>4 DEF Encloses
  <1>6. \A c \in DOMAIN u : ChildrenOf(w, c) = ChildrenOf(u, c)
    BY <1>2, <1>5 DEF ChildrenOf
  <1>7. WellNested(w)
    <2>1. GetNext(w, 1) = Len(w) + 1
      <3>1. 1 \in DOMAIN u /\ GetNext(u, 1) = Len(u) + 1
        BY <1>1 DEF WellNested
      <3> QED
        BY <1>2, <1>4, <3>1
    <2>2. \A c \in DOMAIN w : IsCtn(w[c]) => w[c].ofs >= 1 /\ GetNext(w, c) <= Len(w) + 1
      <3> SUFFICES ASSUME NEW c \in DOMAIN u, IsCtn(w[c])
                   PROVE  w[c].ofs >= 1 /\ GetNext(w, c) <= Len(w) + 1
        BY <1>2
      <3>1. IsCtn(u[c]) /\ c # i /\ w[c] = u[c]
        BY <1>2, <1>3
      <3>2. u[c].ofs >= 1 /\ GetNext(u, c) <= Len(u) + 1
        BY <1>1, <3>1 DEF WellNested
      <3> QED
        BY <1>2, <1>4, <3>1, <3>2
    <2>3. \A c, d \in DOMAIN w : Encloses(w, c, d) => GetNext(w, d) <= GetNext(w, c)
      BY <1>1, <1>2, <1>4, <1>5 DEF WellNested
    <2> QED
      BY <1>2, <2>1, <2>2, <2>3 DEF WellNested
  <1>8. ASSUME NEW c \in DOMAIN u, IsCtn(w[c]) PROVE CountsChildren(w, c) /\ Keyed(w, c)
    <2>1. IsCtn(u[c]) /\ w[c] = u[c]
      BY <1>2, <1>3, <1>8
    <2>2. CountsChildren(u, c) /\ Keyed(u, c)
      BY <2>1 DEF WellFormedArena
    <2>3. CountsChildren(w, c)
      BY <1>6, <2>1, <2>2 DEF CountsChildren
    <2>4. ASSUME w[c].kind = "object", NEW j \in ChildrenOf(w, c),
                 Rank(ChildrenOf(w, c), j) % 2 = 1
          PROVE  w[j].kind = "string"
      <3>1. /\ u[c].kind = "object" /\ j \in ChildrenOf(u, c)
            /\ Rank(ChildrenOf(u, c), j) % 2 = 1
        BY <1>6, <2>1, <2>4
      <3>2. u[j].kind = "string" /\ j \in DOMAIN u
        BY <2>2, <3>1 DEF Keyed, ChildrenOf
      <3>3. j = i => s.kind = "string"
        BY <3>1
      <3> QED
        BY <1>2, <3>2, <3>3
    <2> QED
      BY <2>3, <2>4 DEF Keyed
  <1> QED
    BY <1>2, <1>7, <1>8 DEF WellFormedArena, w

-----------------------------------------------------------------------------
(* Texts.  Two of them with the byte behind each.                          *)
Apart(s, t) == s.ofs + s.len < t.ofs \/ t.ofs + t.len < s.ofs

LEMMA TextsAre ==
  ASSUME NEW v, NEW p, TextsApart(v, p), v \in Seq(Slot), Len(p) \in Nat
  PROVE  /\ \A i \in DOMAIN v : IsText(v[i]) =>
              /\ v[i].ofs \in Nat /\ v[i].ofs >= 1 /\ v[i].len \in Nat
              /\ v[i].ofs + v[i].len <= Len(p) + 1
              /\ Len(v) # 1 => v[i].ofs + v[i].len <= Len(p)
         /\ \A i, j \in DOMAIN v : (IsText(v[i]) /\ IsText(v[j]) /\ i # j) =>
              Apart(v[i], v[j])
  <1>1. \A i \in DOMAIN v : v[i].ofs \in Nat /\ v[i].len \in Nat
    BY SlotTyped
  <1>2. Len(p) \in Nat
    OBVIOUS
  <1> QED
    BY <1>1, <1>2 DEF TextsApart, Apart

(* Texts stay apart when every one of them stood in v, two in two places,  *)
(* but for one put behind them all; there is a byte behind each.           *)
From(v, w, f, new) ==
  \A i \in DOMAIN w : (IsText(w[i]) /\ i \notin new) =>
    /\ f[i] \in DOMAIN v /\ w[i] = v[f[i]]
    /\ \A j \in DOMAIN w : (IsText(w[j]) /\ j \notin new /\ j # i) => f[j] # f[i]

LEMMA TextsStayApart ==
  ASSUME NEW v, NEW p, TextsApart(v, p), v \in Seq(Slot), Len(p) \in Nat,
         Len(v) # 1 \/ ~IsText(v[1]),
         NEW w, w \in Seq(Slot), NEW q, Len(q) \in Nat, Len(p) <= Len(q),
         NEW f, NEW new, From(v, w, f, new),
         \A i \in new, j \in DOMAIN w : (IsText(w[i]) /\ IsText(w[j]) /\ j \in new) => j = i,
         \A i \in new : IsText(w[i]) => w[i].ofs > Len(p) /\ w[i].ofs + w[i].len <= Len(q)
  PROVE  TextsApart(w, q)
  <1>1. /\ \A i \in DOMAIN v : IsText(v[i]) =>
              /\ v[i].ofs \in Nat /\ v[i].ofs >= 1 /\ v[i].len \in Nat
              /\ v[i].ofs + v[i].len <= Len(p)
        /\ \A i, j \in DOMAIN v : (IsText(v[i]) /\ IsText(v[j]) /\ i # j) =>
              Apart(v[i], v[j])
    <2>1. ASSUME NEW i \in DOMAIN v, IsText(v[i]) PROVE Len(v) # 1
      <3>1. DOMAIN v = 1..Len(v)
        OBVIOUS
      <3>2. Len(v) = 1 => i = 1
        BY ONLY <3>1, i \in DOMAIN v
      <3> QED
        BY ONLY <2>1, <3>2, Len(v) # 1 \/ ~IsText(v[1])
    <2> QED
      BY <2>1, TextsAre
  <1>2. Len(p) \in Nat /\ Len(q) \in Nat
    OBVIOUS
  <1>3. \A i \in DOMAIN w : w[i].ofs \in Nat /\ w[i].len \in Nat
    BY SlotTyped
  <1>4. ASSUME NEW i \in DOMAIN w, IsText(w[i])
        PROVE  /\ w[i].ofs >= 1 /\ w[i].ofs + w[i].len <= Len(q)
               /\ IF i \in new THEN w[i].ofs > Len(p) ELSE w[i].ofs + w[i].len <= Len(p)
    <2>1. CASE i \in new
      BY <1>2, <1>3, <1>4, <2>1
    <2>2. CASE i \notin new
      <3>1. f[i] \in DOMAIN v /\ w[i] = v[f[i]]
        BY <1>4, <2>2 DEF From
      <3>2. v[f[i]].ofs >= 1 /\ v[f[i]].ofs + v[f[i]].len <= Len(p)
        BY <1>1, <1>4, <3>1
      <3>3. w[i].ofs + w[i].len \in Nat /\ w[i].ofs + w[i].len <= Len(p) /\ w[i].ofs >= 1
        <4>1. w[i].ofs \in Nat /\ w[i].len \in Nat
          BY <1>3
        <4>2. w[i].ofs >= 1 /\ w[i].ofs + w[i].len <= Len(p)
          BY ONLY <3>1, <3>2
        <4>3. w[i].ofs + w[i].len \in Nat
          BY ONLY <4>1
        <4> QED
          BY ONLY <4>2, <4>3
      <3>4. w[i].ofs + w[i].len <= Len(q)
        BY <1>2, <3>3
      <3> QED
        BY <2>2, <3>3, <3>4
    <2> QED
      BY <2>1, <2>2
  <1>5. ASSUME NEW i \in DOMAIN w, NEW j \in DOMAIN w, IsText(w[i]), IsText(w[j]), i # j
        PROVE  Apart(w[i], w[j])
    <2>0. /\ w[i].ofs \in Nat /\ w[j].ofs \in Nat /\ w[i].len \in Nat /\ w[j].len \in Nat
          /\ IF i \in new THEN w[i].ofs > Len(p) ELSE w[i].ofs + w[i].len <= Len(p)
          /\ IF j \in new THEN w[j].ofs > Len(p) ELSE w[j].ofs + w[j].len <= Len(p)
      BY <1>3, <1>4, <1>5
    <2>1. ~(i \in new /\ j \in new)
      BY <1>5
    <2>2. CASE i \in new \/ j \in new
      <3>1. \/ w[i].ofs > Len(p) /\ w[j].ofs + w[j].len <= Len(p)
            \/ w[j].ofs > Len(p) /\ w[i].ofs + w[i].len <= Len(p)
        BY <2>0, <2>1, <2>2
      <3>2. \A a, b, c, d, e \in Nat :
              (a > e /\ c + d <= e) \/ (c > e /\ a + b <= e) => a + b < c \/ c + d < a
        OBVIOUS
      <3> QED
        BY <1>2, <2>0, <3>1, <3>2 DEF Apart
    <2>3. CASE i \notin new /\ j \notin new
      <3>1. /\ f[i] \in DOMAIN v /\ w[i] = v[f[i]] /\ f[j] \in DOMAIN v /\ w[j] = v[f[j]]
            /\ f[j] # f[i]
        BY <1>5, <2>3 DEF From
      <3> QED
        BY <1>1, <1>5, <3>1
    <2> QED
      BY <2>2, <2>3
  <1>6. \A i \in DOMAIN w : IsText(w[i]) =>
          w[i].ofs + w[i].len <= (IF Len(w) = 1 THEN Len(q) + 1 ELSE Len(q))
    <2> SUFFICES ASSUME NEW i \in DOMAIN w, IsText(w[i])
                 PROVE  /\ w[i].ofs + w[i].len <= Len(q)
                        /\ w[i].ofs + w[i].len <= Len(q) + 1
      OBVIOUS
    <2>1. w[i].ofs + w[i].len \in Nat
      <3>1. w[i].ofs \in Nat /\ w[i].len \in Nat
        BY <1>3
      <3> QED
        BY ONLY <3>1
    <2>2. w[i].ofs + w[i].len <= Len(q)
      BY <1>4
    <2> QED
      BY <1>2, <2>1, <2>2
  <1> QED
    BY <1>4, <1>5, <1>6 DEF TextsApart, Apart

(* Where the texts of an edited arena come from.                           *)
Back(at, n, i) == IF i < at THEN i ELSE i - n

LEMMA BackIs ==
  ASSUME NEW at \in Nat, NEW n \in Nat, NEW L \in Nat, NEW i \in 1..(L + n),
         at >= 1, at <= L + 1, i \notin at..(at + n - 1)
  PROVE  Back(at, n, i) \in 1..L /\ Moved(at, n, Back(at, n, i)) = i
  <1>1. CASE i < at
    BY <1>1 DEF Back, Moved
  <1>2. CASE i >= at + n
    BY <1>2 DEF Back, Moved
  <1> QED
    BY <1>1, <1>2

LEMMA PutInFrom ==
  ASSUME NEW u, WellNested(u), NEW p \in DOMAIN u, IsCtn(u[p]), NEW w, NEW n,
         PutIn(u, w, p, n)
  PROVE  LET at == GetNext(u, p) IN
         From(u, w, [i \in DOMAIN w |-> Back(at, n, i)], at..(at + n - 1))
  <1> DEFINE at == GetNext(u, p)
             A  == Around(u, p)
             f  == [i \in DOMAIN w |-> Back(at, n, i)]
  <1>1. Edited(u, w, A, p, at, n)
    BY DEF PutIn
  <1>2. /\ Len(u) \in Nat /\ DOMAIN u = 1..Len(u) /\ DOMAIN w = 1..Len(w)
        /\ n \in Nat /\ at \in Nat /\ at >= 2 /\ at <= Len(u) + 1 /\ Len(w) = Len(u) + n
    BY <1>1, EditedSlots
  <1>3. /\ \A j \in DOMAIN u \ A : w[Moved(at, n, j)] = u[j]
        /\ \A j \in A : j < at /\ w[j].kind = u[j].kind
        /\ \A j \in A : IsCtn(u[j]) /\ j \in Nat
    <2>1. \A j \in A : IsCtn(u[j]) /\ j \in 1..p
      BY AroundIs
    <2>2. \A j \in A : j \in Nat
      BY <2>1
    <2>3. /\ \A j \in DOMAIN u \ A : w[Moved(at, n, j)] = u[j]
          /\ \A j \in A : j < at /\ w[j].kind = u[j].kind
      BY <1>1 DEF Edited
    <2> QED
      BY <2>1, <2>2, <2>3
  <1> HIDE DEF at, A
  <1>4. ASSUME NEW i \in DOMAIN w, IsText(w[i]), i \notin at..(at + n - 1)
        PROVE  f[i] \in DOMAIN u /\ w[i] = u[f[i]]
    <2>1. f[i] = Back(at, n, i) /\ i \in Nat
      BY <1>2
    <2>2. f[i] \in DOMAIN u /\ i = Moved(at, n, f[i])
      <3>1. Back(at, n, i) \in 1..Len(u) /\ Moved(at, n, Back(at, n, i)) = i
        <4>1. i \in 1..(Len(u) + n)
          BY <1>2
        <4>2. at >= 1
          BY <1>2
        <4> QED
          BY <1>2, <1>4, <4>1, <4>2, BackIs
      <3> QED
        BY <1>2, <2>1, <3>1
    <2>3. f[i] \notin A
      <3> SUFFICES ASSUME f[i] \in A PROVE FALSE
        OBVIOUS
      <3>1. f[i] < at /\ w[f[i]].kind = u[f[i]].kind /\ IsCtn(u[f[i]])
        BY <1>3
      <3>2. i = f[i]
        BY <2>2, <3>1 DEF Moved
      <3> QED
        BY <1>4, <3>1, <3>2 DEF IsCtn, IsText
    <2> QED
      BY <1>3, <2>2, <2>3
  <1>5. ASSUME NEW i \in DOMAIN w, NEW j \in DOMAIN w, i \notin at..(at + n - 1),
               j \notin at..(at + n - 1), j # i
        PROVE  f[j] # f[i]
    <2>1. i \in 1..(Len(u) + n) /\ j \in 1..(Len(u) + n) /\ at >= 1
      BY <1>2
    <2>0. n \in Nat /\ at \in Nat /\ Len(u) \in Nat /\ at <= Len(u) + 1
      BY <1>2
    <2>2. Moved(at, n, Back(at, n, i)) = i /\ Moved(at, n, Back(at, n, j)) = j
      <3> DEFINE L == Len(u)
      <3>1. n \in Nat /\ at \in Nat /\ L \in Nat /\ at <= L + 1
            /\ i \in 1..(L + n) /\ j \in 1..(L + n) /\ at >= 1
        BY <2>0, <2>1
      <3> HIDE DEF L
      <3>2. Moved(at, n, Back(at, n, i)) = i
        BY ONLY <1>5, <3>1, BackIs
      <3>3. Moved(at, n, Back(at, n, j)) = j
        BY ONLY <1>5, <3>1, BackIs
      <3> QED
        BY <3>2, <3>3
    <2>3. f[i] = Back(at, n, i) /\ f[j] = Back(at, n, j)
      OBVIOUS
    <2> QED
      BY ONLY <1>5, <2>2, <2>3
  <1>6. From(u, w, f, at..(at + n - 1))
    <2> HIDE DEF f
    <2> QED
      BY <1>4, <1>5 DEF From
  <1> QED
    BY <1>6 DEF at

LEMMA TakenOutFrom ==
  ASSUME NEW w, WellNested(w), NEW p \in DOMAIN w, IsCtn(w[p]), NEW u, NEW at, NEW n,
         Edited(u, w, Around(w, p), p, at, n)
  PROVE  From(w, u, [j \in DOMAIN u |-> Moved(at, n, j)], {})
  <1> DEFINE A == Around(w, p)
             f == [j \in DOMAIN u |-> Moved(at, n, j)]
  <1>1. /\ Len(u) \in Nat /\ DOMAIN u = 1..Len(u) /\ DOMAIN w = 1..Len(w)
        /\ n \in Nat /\ at \in Nat /\ at >= 2 /\ at <= Len(u) + 1 /\ Len(w) = Len(u) + n
    BY EditedSlots
  <1>2. /\ \A j \in DOMAIN u \ A : w[Moved(at, n, j)] = u[j]
        /\ \A j \in A : w[j].kind = u[j].kind
        /\ \A j \in A : IsCtn(w[j])
    <2>1. \A j \in A : IsCtn(w[j])
      BY AroundIs
    <2> QED
      BY <2>1 DEF Edited
  <1> HIDE DEF A
  <1>3. ASSUME NEW j \in DOMAIN u, IsText(u[j])
        PROVE  f[j] \in DOMAIN w /\ u[j] = w[f[j]]
    <2>1. j \notin A
      BY <1>2, <1>3 DEF IsCtn, IsText
    <2> QED
      BY <1>1, <1>2, <2>1 DEF Moved
  <1>4. ASSUME NEW i \in DOMAIN u, NEW j \in DOMAIN u, j # i
        PROVE  f[j] # f[i]
    BY <1>1, <1>4 DEF Moved
  <1>5. From(w, u, f, {})
    <2> HIDE DEF f
    <2> QED
      BY <1>3, <1>4 DEF From
  <1> QED
    BY <1>5

LEMMA RewrittenFrom ==
  ASSUME NEW u, u \in Seq(Slot), NEW i \in DOMAIN u, NEW s \in Slot
  PROVE  From(u, [u EXCEPT ![i] = s], [j \in DOMAIN u |-> j], {i})
  BY DEF From

-----------------------------------------------------------------------------
(* Sums over slots.  The function that defines one exists: each of its     *)
(* beginnings does, and they agree.                                        *)
SumFcn(w, i) == CHOOSE sum : sum = [k \in Nat |-> IF k < i THEN 0 ELSE sum[k - 1] + w[k]]

LEMMA SumFcnIs ==
  ASSUME NEW w, NEW i \in Nat, i >= 1
  PROVE  SumFcn(w, i) = [k \in Nat |-> IF k < i THEN 0 ELSE SumFcn(w, i)[k - 1] + w[k]]
  <1> DEFINE s(k, x) == IF k < i THEN 0 ELSE x + w[k]
             Starts(n, g) == g = [k \in 0..n |-> s(k, g[k - 1])]
             Bad == {n \in Nat : ~\E g : Starts(n, g)}
             H == [n \in Nat |-> CHOOSE g : Starts(n, g)]
             G == [n \in Nat |-> H[n][n]]
  <1>1. \A x, y : s(0, x) = s(0, y)
    OBVIOUS
  <1> HIDE DEF s
  <1>2. ASSUME Bad # {} PROVE FALSE
    <2>1. PICK m \in Bad : \A n \in Bad : m <= n
      <3>1. Bad \in SUBSET Nat
        OBVIOUS
      <3> HIDE DEF Bad
      <3> QED
        BY <1>2, <3>1, LeastOf
    <2>2. m \in Nat /\ ~\E g : Starts(m, g)
      OBVIOUS
    <2>3. CASE m = 0
      <3> DEFINE g == [k \in 0..0 |-> s(0, 0)]
      <3>1. g = [k \in 0..0 |-> s(k, g[k - 1])]
        <4>1. \A k \in 0..0 : s(k, g[k - 1]) = s(0, 0)
          <5> HIDE DEF g
          <5>1. \A k \in 0..0 : k = 0
            OBVIOUS
          <5> QED
            BY <1>1, <5>1
        <4> DEFINE h == [k \in 0..0 |-> s(k, g[k - 1])]
        <4>2. \A k \in 0..0 : h[k] = g[k]
          BY <4>1
        <4> QED
          BY <4>2
      <3> HIDE DEF g
      <3> QED
        BY <2>2, <2>3, <3>1
    <2>4. CASE m # 0
      <3>1. m - 1 \in Nat /\ m - 1 \notin Bad
        <4>1. m - 1 \in Nat /\ ~(m <= m - 1)
          BY <2>2, <2>4
        <4> HIDE DEF Bad
        <4> QED
          BY <2>1, <4>1
      <3>2. PICK g : Starts(m - 1, g)
        BY <3>1
      <3> DEFINE h == [k \in 0..m |-> IF k = m THEN s(m, g[m - 1]) ELSE g[k]]
      <3>3. \A k \in 0..(m - 1) : g[k] = s(k, g[k - 1])
        BY <3>2
      <3>4. \A k \in 0..m : h[k] = s(k, h[k - 1])
        <4> TAKE k \in 0..m
        <4>1. CASE k = m
          <5>1. h[m] = s(m, g[m - 1])
            BY <2>2
          <5>2. h[m - 1] = g[m - 1]
            BY <2>2, <2>4
          <5> HIDE DEF h
          <5> QED
            BY <4>1, <5>1, <5>2
        <4>2. CASE k # m /\ k # 0
          <5>1. k \in 0..(m - 1) /\ k - 1 \in 0..(m - 1) /\ k \in 0..m /\ k - 1 \in 0..m
            BY <2>2, <4>2
          <5>2. h[k] = g[k]
            BY <4>2, <5>1
          <5>3. h[k - 1] = g[k - 1]
            BY <2>2, <5>1
          <5> HIDE DEF h
          <5> QED
            BY <3>3, <5>1, <5>2, <5>3
        <4>3. CASE k = 0 /\ k # m
          <5>1. h[0] = g[0] /\ 0 \in 0..(m - 1)
            BY <2>2, <4>3
          <5> HIDE DEF h
          <5> QED
            BY <1>1, <3>3, <4>3, <5>1
        <4> QED
          BY <4>1, <4>2, <4>3
      <3>5. Starts(m, h)
        <4> DEFINE f == [k \in 0..m |-> s(k, h[k - 1])]
        <4>1. h = [k \in 0..m |-> h[k]]
          OBVIOUS
        <4> HIDE DEF h
        <4>2. f = h
          BY <3>4, <4>1
        <4> QED
          BY <4>2
      <3> HIDE DEF h
      <3> QED
        BY <2>2, <3>5
    <2> QED
      BY <2>3, <2>4
  <1>3. \A n \in Nat : \A k \in 0..n : H[n][k] = s(k, H[n][k - 1])
    <2> TAKE n \in Nat
    <2>1. Starts(n, H[n])
      BY <1>2
    <2> HIDE DEF H
    <2> QED
      BY <2>1
  <1> HIDE DEF H
  <1>4. ASSUME NEW n \in Nat, NEW m \in Nat, NEW k \in Nat, k <= n, k <= m
        PROVE  H[n][k] = H[m][k]
    <2> DEFINE D == {j \in 0..k : H[n][j] # H[m][j]}
    <2>1. ASSUME D # {} PROVE FALSE
      <3>1. PICK j \in D : \A y \in D : j <= y
        <4>1. D \in SUBSET Nat
          OBVIOUS
        <4> HIDE DEF D
        <4> QED
          BY <2>1, <4>1, LeastOf
      <3>2. j \in Nat /\ j <= k /\ H[n][j] # H[m][j] /\ j \in 0..n /\ j \in 0..m
        BY <1>4
      <3>3. H[n][j] = s(j, H[n][j - 1]) /\ H[m][j] = s(j, H[m][j - 1])
        BY <1>3, <3>2
      <3>4. CASE j = 0
        BY <1>1, <3>2, <3>3, <3>4
      <3>5. CASE j # 0
        <4>1. j - 1 \in 0..k /\ ~(j <= j - 1)
          BY <3>2, <3>5
        <4>2. j - 1 \notin D
          <5> HIDE DEF D
          <5> QED
            BY <3>1, <4>1
        <4>3. H[n][j - 1] = H[m][j - 1]
          BY <4>1, <4>2
        <4> QED
          BY <3>2, <3>3, <4>3
      <3> QED
        BY <3>4, <3>5
    <2>2. k \in 0..k
      BY <1>4
    <2> QED
      BY <2>1, <2>2
  <1>5. \A n \in Nat : G[n] = s(n, G[n - 1])
    <2> TAKE n \in Nat
    <2>1. G[n] = s(n, H[n][n - 1])
      BY <1>3
    <2>2. CASE n = 0
      BY <1>1, <2>1, <2>2
    <2>3. CASE n # 0
      <3>1. n - 1 \in Nat /\ n - 1 <= n /\ n - 1 <= n - 1
        BY <2>3
      <3>2. H[n][n - 1] = H[n - 1][n - 1]
        BY <1>4, <3>1
      <3>3. G[n - 1] = H[n - 1][n - 1]
        BY <3>1
      <3> QED
        BY <2>1, <3>2, <3>3
    <2> QED
      BY <2>2, <2>3
  <1>6. G = [k \in Nat |-> s(k, G[k - 1])]
    <2> DEFINE F == [k \in Nat |-> s(k, G[k - 1])]
    <2>1. G = [k \in Nat |-> G[k]]
      OBVIOUS
    <2> HIDE DEF G
    <2>2. F = G
      BY <1>5, <2>1
    <2> QED
      BY <2>2
  <1> HIDE DEF G
  <1>7. G = [k \in Nat |-> IF k < i THEN 0 ELSE G[k - 1] + w[k]]
    BY <1>6 DEF s
  <1> QED
    BY <1>7 DEF SumFcn

LEMMA SumIs ==
  ASSUME NEW w, NEW i \in Nat, i >= 1
  PROVE  /\ \A k \in Nat : k < i => SumOver(w, i, k) = 0
         /\ \A k \in Nat : k >= i => SumOver(w, i, k) = SumOver(w, i, k - 1) + w[k]
  <1> DEFINE F == SumFcn(w, i)
  <1>1. F = [k \in Nat |-> IF k < i THEN 0 ELSE F[k - 1] + w[k]]
    BY SumFcnIs
  <1>2. \A k : SumOver(w, i, k) = F[k]
    BY DEF SumOver, SumFcn
  <1> HIDE DEF F
  <1>3. ASSUME NEW k \in Nat, k < i PROVE F[k] = 0
    BY <1>1, <1>3
  <1>4. ASSUME NEW k \in Nat, k >= i PROVE F[k] = F[k - 1] + w[k]
    <2>1. ~(k < i)
      BY <1>4
    <2> QED
      BY <1>1, <2>1
  <1> QED
    BY <1>2, <1>3, <1>4

(* The sum of what is summed alike, of two sums, of a sum with one term    *)
(* replaced.  Each holds up to every k, or there would be a first k up to  *)
(* which it does not.                                                      *)
Alike(u, w, i, j, m, d) ==
  \A k \in i..j : /\ w[k] \in Int /\ u[k] \in Int
                  /\ u[k] = w[k] + (IF k = m THEN d ELSE 0)

Adds(v, w, u, i, j, c) ==
  \A k \in i..j : w[k] \in Nat /\ u[k] \in Nat /\ v[k] = w[k] + c * u[k]

LEMMA SumsAlike ==
  ASSUME NEW w, NEW u, NEW i \in Nat, i >= 1, NEW j \in Nat, j >= i - 1,
         NEW d \in Int, NEW m \in Int, Alike(u, w, i, j, m, d)
  PROVE  /\ SumOver(w, i, j) \in Int /\ SumOver(u, i, j) \in Int
         /\ SumOver(u, i, j) = SumOver(w, i, j) + (IF m \in i..j THEN d ELSE 0)
  <1> DEFINE a(k) == SumOver(w, i, k)
             b(k) == SumOver(u, i, k)
             P(k) == /\ a(k) \in Int /\ b(k) \in Int
                     /\ b(k) = a(k) + (IF m \in i..k THEN d ELSE 0)
             Bad == {k \in (i - 1)..j : ~P(k)}
  <1>1. /\ \A k \in Nat : k < i => a(k) = 0 /\ b(k) = 0
        /\ \A k \in Nat : k >= i => a(k) = a(k - 1) + w[k] /\ b(k) = b(k - 1) + u[k]
    BY SumIs
  <1> HIDE DEF a, b
  <1>2. ASSUME Bad # {} PROVE FALSE
    <2>1. PICK k \in Bad : \A n \in Bad : k <= n
      <3>1. Bad \in SUBSET Nat
        OBVIOUS
      <3> HIDE DEF Bad
      <3> QED
        BY <1>2, <3>1, LeastOf
    <2>2. k \in Nat /\ k >= i - 1 /\ k <= j /\ ~P(k)
      OBVIOUS
    <2>3. CASE k < i
      <3>1. a(k) = 0 /\ b(k) = 0 /\ m \notin i..k
        BY <1>1, <2>2, <2>3
      <3> QED
        BY <2>2, <3>1
    <2>4. CASE k >= i
      <3>1. k - 1 \in Nat /\ k - 1 \in (i - 1)..j /\ ~(k <= k - 1) /\ k \in i..j
        BY <2>2, <2>4
      <3>2. k - 1 \notin Bad
        <4> HIDE DEF Bad
        <4> QED
          BY <2>1, <3>1
      <3>3. /\ a(k - 1) \in Int /\ b(k - 1) \in Int
            /\ b(k - 1) = a(k - 1) + (IF m \in i..(k - 1) THEN d ELSE 0)
        BY <3>1, <3>2
      <3>4. a(k) = a(k - 1) + w[k] /\ b(k) = b(k - 1) + u[k]
        BY <1>1, <2>2, <2>4
      <3>5. w[k] \in Int /\ u[k] = w[k] + (IF k = m THEN d ELSE 0)
        BY <3>1 DEF Alike
      <3>6. (IF m \in i..k THEN d ELSE 0)
              = (IF m \in i..(k - 1) THEN d ELSE 0) + (IF k = m THEN d ELSE 0)
        BY <2>2, <2>4
      <3> DEFINE x == IF m \in i..(k - 1) THEN d ELSE 0
                 y == IF k = m THEN d ELSE 0
                 z == IF m \in i..k THEN d ELSE 0
      <3>7. x \in Int /\ y \in Int /\ z = x + y
        BY <3>6
      <3>8. b(k - 1) = a(k - 1) + x /\ u[k] = w[k] + y
        BY <3>3, <3>5
      <3> HIDE DEF x, y, z
      <3>9. a(k) \in Int /\ b(k) \in Int /\ b(k) = a(k) + z
        BY ONLY <3>3, <3>4, <3>5, <3>7, <3>8
      <3> QED
        BY <2>2, <3>9 DEF z
    <2> QED
      BY <2>2, <2>3, <2>4
  <1>3. j \in (i - 1)..j
    OBVIOUS
  <1>4. P(j)
    BY <1>2, <1>3
  <1> QED
    BY <1>4 DEF a, b

LEMMA SumsAdd ==
  ASSUME NEW w, NEW u, NEW v, NEW i \in Nat, i >= 1, NEW j \in Nat, j >= i - 1,
         NEW c \in Nat, Adds(v, w, u, i, j, c)
  PROVE  /\ SumOver(w, i, j) \in Nat /\ SumOver(u, i, j) \in Nat
         /\ SumOver(v, i, j) = SumOver(w, i, j) + c * SumOver(u, i, j)
  <1> DEFINE a(k) == SumOver(w, i, k)
             b(k) == SumOver(u, i, k)
             t(k) == SumOver(v, i, k)
             P(k) == a(k) \in Nat /\ b(k) \in Nat /\ t(k) = a(k) + c * b(k)
             Bad == {k \in (i - 1)..j : ~P(k)}
  <1>1. /\ \A k \in Nat : k < i => a(k) = 0 /\ b(k) = 0 /\ t(k) = 0
        /\ \A k \in Nat : k >= i => /\ a(k) = a(k - 1) + w[k] /\ b(k) = b(k - 1) + u[k]
                                    /\ t(k) = t(k - 1) + v[k]
    BY SumIs
  <1> HIDE DEF a, b, t
  <1>2. ASSUME Bad # {} PROVE FALSE
    <2>1. PICK k \in Bad : \A n \in Bad : k <= n
      <3>1. Bad \in SUBSET Nat
        OBVIOUS
      <3> HIDE DEF Bad
      <3> QED
        BY <1>2, <3>1, LeastOf
    <2>2. k \in Nat /\ k >= i - 1 /\ k <= j /\ ~P(k)
      OBVIOUS
    <2>3. CASE k < i
      <3>1. a(k) = 0 /\ b(k) = 0 /\ t(k) = 0
        BY <1>1, <2>2, <2>3
      <3> QED
        BY <2>2, <3>1
    <2>4. CASE k >= i
      <3>1. k - 1 \in Nat /\ k - 1 \in (i - 1)..j /\ ~(k <= k - 1) /\ k \in i..j
        BY <2>2, <2>4
      <3>2. k - 1 \notin Bad
        <4> HIDE DEF Bad
        <4> QED
          BY <2>1, <3>1
      <3>3. a(k - 1) \in Nat /\ b(k - 1) \in Nat /\ t(k - 1) = a(k - 1) + c * b(k - 1)
        BY <3>1, <3>2
      <3>4. a(k) = a(k - 1) + w[k] /\ b(k) = b(k - 1) + u[k] /\ t(k) = t(k - 1) + v[k]
        BY <1>1, <2>2, <2>4
      <3>5. w[k] \in Nat /\ u[k] \in Nat /\ v[k] = w[k] + c * u[k]
        BY <3>1 DEF Adds
      <3>6. \A x, y, e, f \in Nat : (x + c * y) + (e + c * f) = (x + e) + c * (y + f)
        OBVIOUS
      <3>7. t(k) = (a(k - 1) + w[k]) + c * (b(k - 1) + u[k])
        BY <3>3, <3>4, <3>5, <3>6
      <3>8. a(k) \in Nat /\ b(k) \in Nat
        BY ONLY <3>3, <3>4, <3>5
      <3>9. t(k) = a(k) + c * b(k)
        BY ONLY <3>4, <3>7
      <3> QED
        BY <2>2, <3>8, <3>9
    <2> QED
      BY <2>2, <2>3, <2>4
  <1>3. j \in (i - 1)..j
    OBVIOUS
  <1>4. P(j)
    BY <1>2, <1>3
  <1> QED
    BY <1>4 DEF a, b, t
=============================================================================
