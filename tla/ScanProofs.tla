----------------------------- MODULE ScanProofs -----------------------------
(***************************************************************************)
(* Stage 1 and the minifier for every text, and every width of a block up  *)
(* to that of the code: wherever blocks cut the text, the masks computed   *)
(* from them and the bits carried over are those of the text read byte by  *)
(* byte, so the index lists the structural bytes and the minifier keeps    *)
(* what it should.                                                         *)
(*                                                                         *)
(* The two pieces of bit arithmetic stand alone first: the subtraction     *)
(* that finds escaped bytes (EscapesAreRight) and the doubling that finds  *)
(* strings (PrefixXorIsParity).  What is computed byte by byte is stated   *)
(* as a set of positions and its recurrence; a block then is a stretch of  *)
(* such a set, moved to 0.                                                 *)
(***************************************************************************)
EXTENDS Scan, SetLemmas, TLAPS

-----------------------------------------------------------------------------
(* Words as numbers.                                                       *)
LEMMA PowIs ==
  ASSUME W \in Nat
  PROVE  /\ Pow \in [0..W -> Nat] /\ Pow[0] = 1
         /\ \A p \in 0..(W - 1) : Pow[p + 1] = 2 * Pow[p]
         /\ \A p \in 0..W : Pow[p] >= 1
  <1> DEFINE step == [p \in 0..W |-> [x \in Nat |-> 2 * x]]
  <1>1. PICK f : Stepwise(f, W, Nat, 1, step)
    <2>1. step \in [0..W -> [Nat -> Nat]]
      OBVIOUS
    <2> HIDE DEF step
    <2> QED
      BY <2>1, StepwiseFcn
  <1>2. f \in [0..W -> Nat] /\ f[0] = 1 /\ \A p \in 1..W : f[p] = 2 * f[p - 1]
    <2>1. \A p \in 1..W : p - 1 \in 0..W
      OBVIOUS
    <2> QED
      BY <1>1, <2>1 DEF Stepwise
  <1>3. f = [p \in 0..W |-> IF p = 0 THEN 1 ELSE 2 * f[p - 1]]
    BY <1>2
  <1>4. Pow = [p \in 0..W |-> IF p = 0 THEN 1 ELSE 2 * Pow[p - 1]]
    BY <1>3 DEF Pow
  <1>5. Pow[0] = 1 /\ \A p \in 0..(W - 1) : Pow[p + 1] = 2 * Pow[p]
    BY <1>4
  <1>6. \A p \in 0..W : p \in {q \in 0..W : Pow[q] \in Nat /\ Pow[q] >= 1}
    <2> DEFINE S == {q \in 0..W : Pow[q] \in Nat /\ Pow[q] >= 1}
    <2>1. 0 \in S /\ \A p \in 0..(W - 1) : p \in S => p + 1 \in S
      BY <1>5
    <2> HIDE DEF S
    <2>2. \A p \in 0..W : p \in S
      BY <2>1, UpTo
    <2> QED
      BY <2>2 DEF S
  <1>7. Pow \in [0..W -> Nat]
    BY <1>4, <1>6
  <1> QED
    BY <1>5, <1>6, <1>7

(* The sum that Word makes, up to each bit.                                *)
SumOf(a) == CHOOSE sum : sum = [p \in 0..W |->
  IF p = 0 THEN 0 ELSE sum[p - 1] + (IF p - 1 \in a THEN Pow[p - 1] ELSE 0)]

(* It is below the power of the next bit.                                 *)
LEMMA SumIs ==
  ASSUME W \in Nat, NEW a
  PROVE  /\ Word(a) = SumOf(a)[W]
         /\ SumOf(a)[0] = 0
         /\ \A p \in 0..(W - 1) :
              SumOf(a)[p + 1] = SumOf(a)[p] + (IF p \in a THEN Pow[p] ELSE 0)
         /\ \A p \in 0..W : SumOf(a)[p] \in Nat /\ SumOf(a)[p] < Pow[p]
  <1> DEFINE bit(p) == IF p \in a THEN Pow[p] ELSE 0
             step   == [p \in 0..W |-> [x \in Nat |-> x + bit(p)]]
  <1>1. \A p \in 0..W : bit(p) \in Nat
    BY PowIs
  <1> HIDE DEF bit
  <1>2. PICK f : Stepwise(f, W, Nat, 0, step)
    <2>1. step \in [0..W -> [Nat -> Nat]]
      BY <1>1
    <2> HIDE DEF step
    <2> QED
      BY <2>1, StepwiseFcn
  <1>3. f \in [0..W -> Nat] /\ f[0] = 0 /\ \A p \in 1..W : f[p] = f[p - 1] + bit(p - 1)
    <2>1. \A p \in 1..W : p - 1 \in 0..W
      OBVIOUS
    <2> QED
      BY <1>2, <2>1 DEF Stepwise
  <1>4. f = [p \in 0..W |-> IF p = 0 THEN 0 ELSE f[p - 1] + bit(p - 1)]
    BY <1>3
  <1> DEFINE s == SumOf(a)
  <1>5. s = [p \in 0..W |-> IF p = 0 THEN 0 ELSE s[p - 1] + bit(p - 1)]
    BY <1>4 DEF SumOf, bit
  <1>6. Word(a) = s[W]
    BY DEF Word, SumOf
  <1> HIDE DEF s
  <1>7. s[0] = 0 /\ \A p \in 0..(W - 1) : s[p + 1] = s[p] + bit(p)
    BY <1>5
  <1>8. \A p \in 0..W : s[p] \in Nat /\ s[p] < Pow[p]
    <2> DEFINE S == {q \in 0..W : s[q] \in Nat /\ s[q] < Pow[q]}
    <2>1. 0 \in S
      BY <1>7, PowIs
    <2>2. ASSUME NEW p \in 0..(W - 1), p \in S PROVE p + 1 \in S
      <3>1. s[p + 1] = s[p] + bit(p) /\ bit(p) \in {0, Pow[p]} /\ Pow[p + 1] = 2 * Pow[p]
            /\ Pow[p] \in Nat
        BY <1>7, PowIs DEF bit
      <3> QED
        BY <2>2, <3>1
    <2> HIDE DEF S
    <2>3. \A p \in 0..W : p \in S
      BY <2>1, <2>2, UpTo
    <2> QED
      BY <2>3 DEF S
  <1> QED
    BY <1>6, <1>7, <1>8 DEF s, bit

LEMMA TopBitTells ==
  ASSUME NEW x \in Nat, NEW y \in Nat, NEW w \in Nat, x < w, y < w,
         NEW u \in {0, w}, NEW v \in {0, w}, x + u = y + v
  PROVE  x = y /\ u = v
  OBVIOUS

(* Different words are different numbers.                                  *)
LEMMA WordsDiffer ==
  ASSUME W \in Nat, NEW a \in SUBSET Bits, NEW c \in SUBSET Bits, Word(a) = Word(c)
  PROVE  a = c
  <1> DEFINE x == SumOf(a)
             y == SumOf(c)
             S == {q \in 0..W : x[W - q] = y[W - q]}
  <1>1. ASSUME NEW p \in 0..(W - 1), x[p + 1] = y[p + 1]
        PROVE  x[p] = y[p] /\ (p \in a <=> p \in c)
    <2>1. /\ x[p + 1] = x[p] + (IF p \in a THEN Pow[p] ELSE 0)
          /\ x[p] \in Nat /\ x[p] < Pow[p]
      BY SumIs
    <2>2. /\ y[p + 1] = y[p] + (IF p \in c THEN Pow[p] ELSE 0)
          /\ y[p] \in Nat /\ y[p] < Pow[p]
      BY SumIs
    <2>3. Pow[p] \in Nat /\ Pow[p] >= 1
      BY PowIs
    <2> DEFINE u == IF p \in a THEN Pow[p] ELSE 0
               v == IF p \in c THEN Pow[p] ELSE 0
    <2>4. u \in {0, Pow[p]} /\ v \in {0, Pow[p]} /\ x[p] + u = y[p] + v
      BY <1>1, <2>1, <2>2
    <2>5. u = v => (p \in a <=> p \in c)
      BY <2>3
    <2> HIDE DEF x, y, u, v
    <2>6. x[p] = y[p] /\ u = v
      BY <2>1, <2>2, <2>3, <2>4, TopBitTells
    <2> QED
      BY <2>5, <2>6
  <1>2. 0 \in S
    BY SumIs
  <1>3. ASSUME NEW q \in 0..(W - 1), q \in S PROVE q + 1 \in S
    <2>1. W - (q + 1) \in 0..(W - 1) /\ (W - (q + 1)) + 1 = W - q /\ q + 1 \in 0..W
      OBVIOUS
    <2> HIDE DEF x, y
    <2> QED
      BY <1>1, <1>3, <2>1
  <1> HIDE DEF x, y
  <1>4. \A p \in 0..W : x[p] = y[p]
    <2> HIDE DEF S
    <2>1. \A q \in 0..W : q \in S
      BY <1>2, <1>3, UpTo
    <2>2. \A p \in 0..W : W - p \in 0..W /\ W - (W - p) = p
      OBVIOUS
    <2> QED
      BY <2>1, <2>2 DEF S
  <1>5. \A p \in Bits : p \in a <=> p \in c
    BY <1>1, <1>4 DEF Bits
  <1> QED
    BY <1>5

LEMMA Wraps ==
  ASSUME NEW w \in Nat, NEW x \in Nat, x < w
  PROVE  x % w = x /\ (x - w) % w = x
  OBVIOUS

(* Subtraction bit by bit: B holds the positions that are borrowed from.   *)
Subtracts(a, c, d, B) ==
  /\ 0 \notin B
  /\ \A p \in Bits : p \in d <=> ((p \in a <=> p \in c) <=> p \in B)
  /\ \A p \in Bits : p + 1 \in B <=> \/ p \notin a /\ (p \in c \/ p \in B)
                                     \/ p \in c /\ p \in B

(* Then d is the difference, modulo the power of the width.               *)
LEMMA MinusIs ==
  ASSUME W \in Nat, NEW a \in SUBSET Bits, NEW c \in SUBSET Bits, NEW d \in SUBSET Bits,
         NEW B, Subtracts(a, c, d, B)
  PROVE  Minus(a, c) = d
  <1> DEFINE x == SumOf(a)
             y == SumOf(c)
             z == SumOf(d)
             owed(p) == IF p \in B THEN Pow[p] ELSE 0
             S == {p \in 0..W : x[p] - y[p] = z[p] - owed(p)}
  <1>1. 0 \in S
    BY SumIs DEF Subtracts
  <1>2. ASSUME NEW p \in 0..(W - 1), p \in S PROVE p + 1 \in S
    <2> DEFINE w == Pow[p]
               u == IF p \in a THEN w ELSE 0
               v == IF p \in c THEN w ELSE 0
               e == IF p \in d THEN w ELSE 0
               o == IF p + 1 \in B THEN 2 * w ELSE 0
    <2>1. /\ x[p] \in Nat /\ x[p + 1] = x[p] + u
          /\ y[p] \in Nat /\ y[p + 1] = y[p] + v
          /\ z[p] \in Nat /\ z[p + 1] = z[p] + e
      BY SumIs
    <2>2. w \in Nat /\ Pow[p + 1] = 2 * w /\ p \in Bits /\ p + 1 \in 0..W
      BY PowIs DEF Bits
    <2>3. owed(p + 1) = o /\ owed(p) = IF p \in B THEN w ELSE 0
      BY <2>2
    <2>4. x[p] - y[p] = z[p] - owed(p)
      BY <1>2
    <2> HIDE DEF x, y, z, w
    <2>5. u - v = (e - o) + owed(p)
      <3>1. /\ p \in d <=> ((p \in a <=> p \in c) <=> p \in B)
            /\ p + 1 \in B <=> \/ p \notin a /\ (p \in c \/ p \in B)
                               \/ p \in c /\ p \in B
        BY <2>2 DEF Subtracts
      <3>2. owed(p) = (IF p \in B THEN w ELSE 0) /\ w \in Nat
        BY <2>2, <2>3
      <3> HIDE DEF owed
      <3>3. CASE p \in B
        BY ONLY <3>1, <3>2, <3>3
      <3>4. CASE p \notin B
        BY ONLY <3>1, <3>2, <3>4
      <3> QED
        BY <3>3, <3>4
    <2>6. u \in Nat /\ v \in Nat /\ e \in Nat /\ o \in Nat /\ owed(p) \in Nat
      BY <2>2, <2>3
    <2> HIDE DEF owed, u, v, e, o
    <2>7. x[p + 1] - y[p + 1] = z[p + 1] - owed(p + 1)
      BY ONLY <2>1, <2>3, <2>4, <2>5, <2>6
    <2> QED
      BY <2>2, <2>7
  <1>3. x[W] - y[W] = z[W] - owed(W)
    <2> HIDE DEF S
    <2>1. \A p \in 0..W : p \in S
      BY <1>1, <1>2, UpTo
    <2> QED
      BY <2>1 DEF S
  <1>4. /\ x[W] = Word(a) /\ y[W] = Word(c) /\ z[W] = Word(d)
        /\ z[W] \in Nat /\ z[W] < Pow[W] /\ x[W] \in Nat /\ y[W] \in Nat
        /\ owed(W) \in {0, Pow[W]} /\ Pow[W] \in Nat
    BY SumIs, PowIs
  <1> HIDE DEF x, y, z, owed
  <1>5. Word(d) = (Word(a) - Word(c)) % Pow[W]
    <2>1. CASE owed(W) = 0
      <3>1. Word(a) - Word(c) = z[W]
        BY <1>3, <1>4, <2>1
      <3>2. z[W] % Pow[W] = z[W]
        BY <1>4, Wraps
      <3> QED
        BY <1>4, <3>1, <3>2
    <2>2. CASE owed(W) = Pow[W]
      <3>1. Word(a) - Word(c) = z[W] - Pow[W]
        BY <1>3, <1>4, <2>2
      <3>2. (z[W] - Pow[W]) % Pow[W] = z[W]
        BY <1>4, <2>2, Wraps
      <3> QED
        BY <1>4, <3>1, <3>2
    <2> QED
      BY <1>4, <2>1, <2>2
  <1>6. \A e \in SUBSET Bits : Word(e) = (Word(a) - Word(c)) % Pow[W] => e = d
    BY <1>5, WordsDiffer
  <1> QED
    BY <1>5, <1>6 DEF Minus

-----------------------------------------------------------------------------
(* Escaped bytes: of a run of backslashes every second one escapes.  E     *)
(* holds the escaped positions; next is the carry.                         *)
LEMMA CarryIs ==
  ASSUME W \in Nat, W >= 2, NEW b \in BOOLEAN
  PROVE  \A p : p \in Carry(b) <=> (p = 0 /\ b)
  BY DEF Carry

LEMMA XorIs ==
  ASSUME NEW a, NEW c, NEW p
  PROVE  p \in Xor(a, c) <=> ~(p \in a <=> p \in c)
  BY DEF Xor

LEMMA ShlIs ==
  ASSUME W \in Nat, NEW a \in SUBSET Bits, NEW k \in Nat
  PROVE  /\ Shl(a, k) \in SUBSET Bits
         /\ \A p \in Bits : p \in Shl(a, k) <=> p - k \in a
  BY DEF Shl, Bits

(* The subtraction tells the bytes that are either escaped or backslashes  *)
(* (a carry counted as one), not both.                                     *)
LEMMA EatIs ==
  ASSUME W \in Nat, W >= 2, NEW bs \in SUBSET Bits, NEW next \in BOOLEAN, NEW E,
         0 \in E <=> next, \A p \in Bits : p + 1 \in E <=> p \in bs /\ p \notin E,
         NEW pot, pot = bs \ Carry(next)
  PROVE  \A p \in Bits :
           p \in NextEscapeAndTerminal(pot) <=> ~(p \in E <=> p \in bs \cup Carry(next))
  <1> DEFINE a == Shl(pot, 1) \cup OddBits
             B == {p \in 1..W : p - 1 \in pot /\ (p \in E <=> p % 2 = 1)}
             d == {p \in Bits : ((p \in a <=> p \in pot) <=> p \in B)}
  <1>1. pot \in SUBSET Bits /\ \A p \in Bits : p \in pot <=> (p \in bs /\ ~(p = 0 /\ next))
    BY CarryIs
  <1>2. a \in SUBSET Bits /\ \A p \in Bits : p \in a <=> (p - 1 \in pot \/ p % 2 = 1)
    BY <1>1, ShlIs DEF OddBits
  <1>3. 0 \notin B /\ \A p \in Bits : p + 1 \in B <=> (p \in pot /\ (p + 1 \in E <=> (p + 1) % 2 = 1))
    BY DEF Bits
  <1>4. d \in SUBSET Bits /\ \A p \in Bits : p \in d <=> ((p \in a <=> p \in pot) <=> p \in B)
    OBVIOUS
  <1>5. \A p \in Bits : p \in B <=> (p - 1 \in pot /\ (p \in E <=> p % 2 = 1))
    <2>1. \A p \in pot : p \in 0..(W - 1)
      BY <1>1 DEF Bits
    <2> QED
      BY <2>1 DEF Bits
  <1>6. ASSUME NEW p \in Bits, p \in E, p # 0 PROVE p - 1 \in pot
    <2>1. p - 1 \in Bits /\ (p - 1) + 1 = p
      BY <1>6 DEF Bits
    <2> QED
      BY <1>1, <1>6, <2>1
  <1>7. \A p \in pot : p - 1 # p /\ p >= 0
    BY <1>1 DEF Bits
  <1>8. -1 \notin pot /\ 0 \in Bits /\ \A p \in Bits : p \in Nat
    BY <1>1 DEF Bits
  <1> HIDE DEF a, B, d
  <1>9. ASSUME NEW p \in Bits
        PROVE  p + 1 \in B <=> \/ p \notin a /\ (p \in pot \/ p \in B)
                               \/ p \in pot /\ p \in B
    <2>1. (p + 1) % 2 = 1 <=> p % 2 # 1
      BY <1>8
    <2>2. /\ p \in pot <=> (p \in bs /\ ~(p = 0 /\ next))
          /\ p \in a <=> (p - 1 \in pot \/ p % 2 = 1)
          /\ p + 1 \in B <=> (p \in pot /\ (p + 1 \in E <=> (p + 1) % 2 = 1))
          /\ p \in B <=> (p - 1 \in pot /\ (p \in E <=> p % 2 = 1))
          /\ p + 1 \in E <=> p \in bs /\ p \notin E
          /\ p \in E /\ p # 0 => p - 1 \in pot
      BY <1>1, <1>2, <1>3, <1>5, <1>6
    <2>3. p = 0 => p - 1 \notin pot /\ p % 2 # 1
      BY <1>8
    <2> QED
      BY ONLY <2>1, <2>2, <2>3, (0 \in E <=> next)
  <1>10. Minus(a, pot) = d
    <2>1. Subtracts(a, pot, d, B)
      BY <1>3, <1>4, <1>9 DEF Subtracts
    <2> QED
      BY <1>1, <1>2, <1>4, <2>1, MinusIs
  <1>11. ASSUME NEW p \in Bits
         PROVE  p \in Xor(d, OddBits) <=> ~(p \in E <=> p \in bs \cup Carry(next))
    <2>1. /\ p \in Xor(d, OddBits) <=> ~(p \in d <=> p % 2 = 1)
          /\ p \in d <=> ((p \in a <=> p \in pot) <=> p \in B)
          /\ p \in pot <=> (p \in bs /\ ~(p = 0 /\ next))
          /\ p \in a <=> (p - 1 \in pot \/ p % 2 = 1)
          /\ p \in B <=> (p - 1 \in pot /\ (p \in E <=> p % 2 = 1))
          /\ p \in E /\ p # 0 => p - 1 \in pot
          /\ p \in bs \cup Carry(next) <=> (p \in bs \/ (p = 0 /\ next))
      BY <1>1, <1>2, <1>4, <1>5, <1>6, XorIs, CarryIs DEF OddBits
    <2>2. p = 0 => p - 1 \notin pot /\ p % 2 # 1
      BY <1>8
    <2> QED
      BY ONLY <2>1, <2>2, (0 \in E <=> next)
  <1> QED
    BY <1>10, <1>11 DEF NextEscapeAndTerminal, a

(* Whatever a block holds and whatever was carried into it, the masks tell*)
(* the bytes a backslash escapes, and the carry whether the block's last  *)
(* byte escapes the next (stage1.hpp, resolve_escapes).                   *)
THEOREM EscapesAreRight ==
  ASSUME W \in Nat, W >= 2, NEW bs \in SUBSET Bits, NEW next \in BOOLEAN, NEW E,
         0 \in E <=> next, \A p \in Bits : p + 1 \in E <=> p \in bs /\ p \notin E
  PROVE  /\ Escapes(bs, next).escaped \cap Bits = E \cap Bits
         /\ Escapes(bs, next).next \in BOOLEAN
         /\ Escapes(bs, next).next <=> W \in E
  <1> DEFINE eat == NextEscapeAndTerminal(bs \ Carry(next))
             r   == Escapes(bs, next)
  <1>1. \A p \in Bits : p \in eat <=> ~(p \in E <=> p \in bs \cup Carry(next))
    BY EatIs
  <1>2. 0 \in Bits /\ W - 1 \in Bits /\ W - 1 # 0 /\ (W - 1) + 1 = W
    BY DEF Bits
  <1>3. CASE bs = {}
    <2>1. r = [escaped |-> Carry(next), next |-> FALSE]
      BY <1>3 DEF Escapes
    <2>2. \A p \in Bits : p \in E <=> (p = 0 /\ next)
      <3>1. ASSUME NEW p \in Bits, p # 0 PROVE p \notin E
        <4>1. p - 1 \in Bits /\ (p - 1) + 1 = p
          BY <3>1 DEF Bits
        <4> QED
          BY <1>3, <4>1
      <3> QED
        BY <3>1
    <2>3. W \notin E
      BY <1>2, <1>3
    <2> QED
      BY <2>1, <2>2, <2>3, CarryIs
  <1>4. CASE bs # {}
    <2>1. r = [escaped |-> Xor(eat, bs \cup Carry(next)), next |-> TopBit(eat \cap bs)]
      BY <1>4 DEF Escapes
    <2> HIDE DEF eat
    <2>2. \A p \in Bits : p \in Xor(eat, bs \cup Carry(next)) <=> p \in E
      BY <1>1, XorIs
    <2>3. W - 1 \in eat \cap bs <=> W \in E
      BY <1>1, <1>2, CarryIs
    <2>4. /\ r.escaped = Xor(eat, bs \cup Carry(next))
          /\ r.next = (W - 1 \in eat \cap bs)
      BY <2>1 DEF TopBit
    <2> HIDE DEF r
    <2>5. r.escaped \cap Bits = E \cap Bits
      BY <2>2, <2>4
    <2>6. r.next \in BOOLEAN
      <3>1. (W - 1 \in eat \cap bs) \in BOOLEAN
        OBVIOUS
      <3>2. r.next = (W - 1 \in eat \cap bs)
        BY <2>4
      <3> QED
        BY <3>1, <3>2, Zenon
    <2>7. r.next <=> W \in E
      BY <2>3, <2>4, Zenon
    <2> QED
      BY <2>5, <2>6, <2>7 DEF r
  <1> QED
    BY <1>3, <1>4

-----------------------------------------------------------------------------
(* Parities: a mask of quotes, and the positions P at and after an odd     *)
(* number of them, up to each.  Doubling tells the parity of a window of   *)
(* positions, then of one twice as wide.                                   *)
Window(P, w) == {p \in Bits : ~(p \in P <=> p - w \in P)}

LEMMA DoubledIs ==
  ASSUME W \in Nat, NEW P \in SUBSET Bits, NEW w \in Nat
  PROVE  Doubled(Window(P, w), w) = Window(P, 2 * w)
  <1> DEFINE a == Window(P, w)
  <1>1. a \in SUBSET Bits /\ \A p \in Bits : p \in a <=> ~(p \in P <=> p - w \in P)
    BY DEF Window
  <1>2. \A p \in P : p \in Bits
    OBVIOUS
  <1> HIDE DEF a
  <1>3. ASSUME NEW p \in Bits
        PROVE  p \in Xor(a, Shl(a, w)) <=> ~(p \in P <=> p - 2 * w \in P)
    <2>1. p \in Xor(a, Shl(a, w)) <=> ~(p \in a <=> p - w \in a)
      BY <1>1, ShlIs, XorIs
    <2>2. p \in Nat /\ p <= W - 1 /\ (p - w) - w = p - 2 * w
      BY DEF Bits
    <2>3. p - w \in a <=> ~(p - w \in P <=> p - 2 * w \in P)
      <3>1. CASE p - w \in Bits
        BY <1>1, <2>2, <3>1
      <3>2. CASE p - w \notin Bits
        <4>1. p - w < 0 /\ p - 2 * w < 0
          BY <2>2, <3>2 DEF Bits
        <4>2. p - w \notin P /\ p - 2 * w \notin P /\ p - w \notin a
          BY <1>1, <1>2, <4>1 DEF Bits
        <4> QED
          BY <4>2
      <3> QED
        BY <3>1, <3>2
    <2> QED
      BY <1>1, <2>1, <2>3
  <1>4. Xor(a, Shl(a, w)) \in SUBSET Bits
    BY <1>1, ShlIs DEF Xor
  <1>5. Xor(a, Shl(a, w)) = Window(P, 2 * w)
    BY <1>3, <1>4 DEF Window
  <1> QED
    BY <1>5 DEF Doubled, a

(* Six doublings are enough for 64 bits: if q marks where membership in P *)
(* changes, prefix_xor gives back P (prefix_xor_scalar).                  *)
THEOREM PrefixXorIsParity ==
  ASSUME W \in Nat, W <= 64, NEW q \in SUBSET Bits, NEW P \in SUBSET Bits,
         \A p \in Bits : p \in q <=> ~(p \in P <=> p - 1 \in P)
  PROVE  PrefixXor(q) = P
  <1>1. q = Window(P, 1)
    BY DEF Window
  <1>2. /\ Doubled(Window(P, 1), 1) = Window(P, 2)
        /\ Doubled(Window(P, 2), 2) = Window(P, 4)
        /\ Doubled(Window(P, 4), 4) = Window(P, 8)
        /\ Doubled(Window(P, 8), 8) = Window(P, 16)
        /\ Doubled(Window(P, 16), 16) = Window(P, 32)
        /\ Doubled(Window(P, 32), 32) = Window(P, 64)
    <2>1. 2 * 1 = 2 /\ 2 * 2 = 4 /\ 2 * 4 = 8 /\ 2 * 8 = 16 /\ 2 * 16 = 32 /\ 2 * 32 = 64
      OBVIOUS
    <2>2. \A w \in Nat : Doubled(Window(P, w), w) = Window(P, 2 * w)
      BY DoubledIs
    <2> QED
      BY <2>1, <2>2
  <1>3. PrefixXor(q) = Window(P, 64)
    BY <1>1, <1>2, Zenon DEF PrefixXor
  <1>4. \A p \in Bits : p - 64 \notin P
    BY DEF Bits
  <1>5. Window(P, 64) = P
    BY <1>4 DEF Window
  <1> QED
    BY <1>3, <1>5

-----------------------------------------------------------------------------
(* The text byte by byte, as sets of positions.  Past its end it is blank. *)
Esc    == {p \in Nat : p <= N /\ Escaped[p]}
Quotes == {p \in Nat : p < N /\ Quote(p)}
Opens  == {p \in Nat : IF p <= N THEN Open[p] ELSE Open[N]}

LEMMA EscapedIs ==
  ASSUME text \in Seq(Class)
  PROVE  /\ Escaped \in [0..N -> BOOLEAN]
         /\ \A p \in 0..N : Escaped[p] = (p > 0 /\ At(p - 1) = "bs" /\ ~Escaped[p - 1])
  <1> DEFINE step == [p \in 0..N |-> [b \in BOOLEAN |-> At(p) = "bs" /\ ~b]]
  <1>1. N \in Nat
    BY DEF N
  <1>2. PICK f : Stepwise(f, N, BOOLEAN, FALSE, step)
    <2>1. step \in [0..N -> [BOOLEAN -> BOOLEAN]]
      OBVIOUS
    <2> HIDE DEF step
    <2> QED
      BY <1>1, <2>1, StepwiseFcn
  <1>3. ASSUME NEW p \in 0..N
        PROVE  f[p] = (p > 0 /\ At(p - 1) = "bs" /\ ~f[p - 1])
    <2>1. CASE p = 0
      BY <1>2, <2>1 DEF Stepwise
    <2>2. CASE p # 0
      <3>1. p \in 1..N /\ p - 1 \in 0..N /\ p > 0
        BY <1>1, <2>2
      <3>2. f[p] = step[p - 1][f[p - 1]] /\ f[p - 1] \in BOOLEAN
        BY <1>2, <3>1 DEF Stepwise
      <3>3. step[p - 1][f[p - 1]] = (At(p - 1) = "bs" /\ ~f[p - 1])
        BY <3>1, <3>2
      <3> QED
        BY <3>1, <3>2, <3>3
    <2> QED
      BY <2>1, <2>2
  <1>4. f = [p \in 0..N |-> p > 0 /\ At(p - 1) = "bs" /\ ~f[p - 1]]
    <2>1. f = [p \in 0..N |-> f[p]]
      BY <1>2 DEF Stepwise
    <2> QED
      BY <1>3, <2>1
  <1>5. Escaped = [p \in 0..N |-> p > 0 /\ At(p - 1) = "bs" /\ ~Escaped[p - 1]]
    BY <1>4, Zenon DEF Escaped
  <1> QED
    BY <1>5

LEMMA OpenIs ==
  ASSUME text \in Seq(Class)
  PROVE  /\ Open \in [0..N -> BOOLEAN] /\ ~Open[0]
         /\ \A p \in 0..N : p # 0 => Open[p] = (Open[p - 1] # Quote(p - 1))
  <1> DEFINE step == [p \in 0..N |-> [b \in BOOLEAN |-> b # Quote(p)]]
  <1>1. N \in Nat
    BY DEF N
  <1>2. PICK f : Stepwise(f, N, BOOLEAN, FALSE, step)
    <2>1. step \in [0..N -> [BOOLEAN -> BOOLEAN]]
      OBVIOUS
    <2> HIDE DEF step
    <2> QED
      BY <1>1, <2>1, StepwiseFcn
  <1>3. ASSUME NEW p \in 0..N
        PROVE  f[p] = IF p = 0 THEN FALSE ELSE f[p - 1] # Quote(p - 1)
    <2>1. CASE p = 0
      BY <1>2, <2>1 DEF Stepwise
    <2>2. CASE p # 0
      <3>1. p \in 1..N /\ p - 1 \in 0..N /\ p > 0
        BY <1>1, <2>2
      <3>2. f[p] = step[p - 1][f[p - 1]] /\ f[p - 1] \in BOOLEAN
        BY <1>2, <3>1 DEF Stepwise
      <3>3. step[p - 1][f[p - 1]] = (f[p - 1] # Quote(p - 1))
        BY <3>1, <3>2
      <3>4. f[p] = (f[p - 1] # Quote(p - 1))
        BY <3>2, <3>3
      <3> QED
        BY <2>2, <3>4, Zenon
    <2> QED
      BY <2>1, <2>2
  <1>4. f = [p \in 0..N |-> IF p = 0 THEN FALSE ELSE f[p - 1] # Quote(p - 1)]
    <2>1. f = [p \in 0..N |-> f[p]]
      BY <1>2 DEF Stepwise
    <2> QED
      BY <1>3, <2>1
  <1>5. Open = [p \in 0..N |-> IF p = 0 THEN FALSE ELSE Open[p - 1] # Quote(p - 1)]
    BY <1>4, Zenon DEF Open
  <1>6. \A p \in 0..N : (IF p = 0 THEN FALSE ELSE Open[p - 1] # Quote(p - 1)) \in BOOLEAN
    OBVIOUS
  <1>7. 0 \in 0..N
    BY <1>1
  <1> QED
    BY <1>5, <1>6, <1>7

(* Their recurrences, and what they are past the end.                     *)
LEMMA TextIs ==
  ASSUME text \in Seq(Class)
  PROVE  /\ N \in Nat
         /\ \A p \in Nat : p >= N => At(p) = "sp"
         /\ 0 \notin Esc
         /\ \A p \in Nat : p + 1 \in Esc <=> (At(p) = "bs" /\ p \notin Esc)
         /\ \A p \in Nat : p \in Quotes <=> (At(p) = "quote" /\ p \notin Esc)
         /\ \A p \in Nat : p \in Quotes <=> Quote(p)
         /\ 0 \notin Opens
         /\ \A p \in Nat : p + 1 \in Opens <=> ~(p \in Opens <=> p \in Quotes)
  <1>1. N \in Nat /\ \A p \in Nat : p >= N => At(p) = "sp"
    BY DEF N, At
  <1>2. 0 \notin Esc
    BY <1>1, EscapedIs DEF Esc
  <1>3. ASSUME NEW p \in Nat PROVE p + 1 \in Esc <=> (At(p) = "bs" /\ p \notin Esc)
    <2>1. CASE p < N
      <3>1. p \in 0..N /\ p + 1 \in 0..N /\ (p + 1) - 1 = p /\ p + 1 > 0
        BY <1>1, <2>1
      <3>2. Escaped[p + 1] = (At(p) = "bs" /\ ~Escaped[p])
        BY <3>1, EscapedIs
      <3>3. p \in Esc <=> Escaped[p]
        BY <1>1, <2>1 DEF Esc
      <3>4. p + 1 \in Esc <=> Escaped[p + 1]
        BY <1>1, <2>1 DEF Esc
      <3> QED
        BY <3>2, <3>3, <3>4, Zenon
    <2>2. CASE p >= N
      BY <1>1, <2>2 DEF Esc
    <2> QED
      BY <1>1, <2>1, <2>2
  <1>4. ASSUME NEW p \in Nat
        PROVE  /\ p \in Quotes <=> (At(p) = "quote" /\ p \notin Esc)
               /\ p \in Quotes <=> Quote(p)
    <2>1. CASE p < N
      BY <1>1, <2>1 DEF Quotes, Quote, Esc
    <2>2. CASE p >= N
      BY <1>1, <2>2 DEF Quotes, Quote
    <2> QED
      BY <1>1, <2>1, <2>2
  <1>5. 0 \notin Opens
    BY <1>1, OpenIs DEF Opens
  <1>6. ASSUME NEW p \in Nat PROVE p + 1 \in Opens <=> ~(p \in Opens <=> p \in Quotes)
    <2>1. CASE p < N
      <3>1. p \in 0..N /\ p + 1 \in 0..N /\ (p + 1) - 1 = p /\ p + 1 # 0
        BY <1>1, <2>1
      <3>2. Open[p + 1] = (Open[p] # Quote(p)) /\ Open[p] \in BOOLEAN
        BY <3>1, OpenIs
      <3>3. Quote(p) \in BOOLEAN
        BY DEF Quote
      <3>4. (p \in Opens <=> Open[p]) /\ (p + 1 \in Opens <=> Open[p + 1])
        BY <1>1, <2>1 DEF Opens
      <3> QED
        BY <1>4, <3>2, <3>3, <3>4
    <2>2. CASE p >= N
      <3>1. p \notin Quotes
        BY <1>1, <1>4, <2>2
      <3>2. p + 1 \in Opens <=> Open[N]
        BY <1>1, <2>2 DEF Opens
      <3>3. p \in Opens <=> Open[N]
        BY <1>1, <2>2 DEF Opens
      <3> QED
        BY <3>1, <3>2, <3>3
    <2> QED
      BY <1>1, <2>1, <2>2
  <1> QED
    BY <1>1, <1>2, <1>3, <1>4, <1>5, <1>6

(* What the sweep looks for, and the carries it needs at byte n.           *)
Scalars == {p \in Nat : IsScalar(p)}
Structs == {p \in Nat : Structural(p)}
Keeps   == {p \in Nat : p < N /\ (p \in Opens \/ p \in Quotes \/ ~Blank(p))}
Bads    == {p \in Nat : p \in Opens /\ p \notin Quotes /\ At(p) \in {"nl", "ff", "ctl"}}

Carried(s, n) ==
  /\ s \in [inString : BOOLEAN, escaped : BOOLEAN, scalar : BOOLEAN, ctrl : BOOLEAN]
  /\ s.inString <=> n \in Opens
  /\ s.escaped <=> n \in Esc
  /\ s.scalar <=> n - 1 \in Scalars
  /\ s.ctrl <=> \E p \in Bads : p < n

(* Structural bytes by these sets.                                        *)
LEMMA StructsIs ==
  ASSUME text \in Seq(Class)
  PROVE  \A p \in Nat :
           /\ p \in Scalars <=> (~Blank(p) /\ ~IsOp(p) /\ p \notin Quotes)
           /\ p \in Structs <=>
                \/ p \in Quotes
                \/ p \notin Opens /\ (IsOp(p) \/ (p \in Scalars /\ p - 1 \notin Scalars))
                \/ p \in Opens /\ At(p) = "bs" /\ p \notin Esc
  <1> SUFFICES ASSUME NEW p \in Nat
               PROVE  /\ p \in Scalars <=> (~Blank(p) /\ ~IsOp(p) /\ p \notin Quotes)
                      /\ p \in Structs <=>
                           \/ p \in Quotes
                           \/ p \notin Opens /\ (IsOp(p) \/ (p \in Scalars /\ p - 1 \notin Scalars))
                           \/ p \in Opens /\ At(p) = "bs" /\ p \notin Esc
    OBVIOUS
  <1>1. p \in Scalars <=> (~Blank(p) /\ ~IsOp(p) /\ p \notin Quotes)
    BY TextIs DEF Scalars, IsScalar
  <1>2. p - 1 \in Scalars <=> (p # 0 /\ IsScalar(p - 1))
    BY DEF Scalars
  <1>3. (p \in Scalars <=> IsScalar(p)) /\ (p \in Structs <=> Structural(p))
        /\ (p \in Quotes <=> Quote(p))
    BY TextIs DEF Scalars, Structs
  <1>4. CASE p < N
    <2>1. (p \in Opens <=> Open[p]) /\ (p \in Esc <=> Escaped[p])
      BY <1>4, TextIs DEF Opens, Esc
    <2> QED
      BY <1>1, <1>2, <1>3, <2>1 DEF Structural
  <1>5. CASE p >= N
    <2>1. At(p) = "sp" /\ p \notin Quotes
      BY <1>5, TextIs
    <2>2. ~IsOp(p) /\ ~IsScalar(p)
      BY <2>1 DEF IsOp, IsScalar, Blank
    <2> QED
      BY <1>1, <1>3, <2>1, <2>2 DEF Structural
  <1> QED
    BY <1>4, <1>5, TextIs

(* A block's masks are its bytes' classes.                                *)
LEMMA ClassesAre ==
  ASSUME NEW n \in Nat
  PROVE  LET m == Classified(n)
         IN \A p \in Bits : /\ p \in m.ws <=> Blank(n + p)
                            /\ p \in m.op <=> IsOp(n + p)
                            /\ p \in m.quote <=> At(n + p) = "quote"
                            /\ p \in m.bs <=> At(n + p) = "bs"
                            /\ p \in m.ctrl <=> At(n + p) \in {"nl", "ff", "ctl"}
  BY DEF Classified, Blank, IsOp

(* A block: its structural bytes, its bytes in strings, and the carries at *)
(* its end.                                                                *)
LEMMA BlockIs ==
  ASSUME text \in Seq(Class), W \in Nat, W >= 2, W <= 64,
         NEW n \in Nat, NEW s, Carried(s, n), NEW sb, sb = StructuralBits(Classified(n), s)
  PROVE  /\ sb.bits = {p \in Bits : n + p \in Structs}
         /\ sb.inStr = {p \in Bits : n + (p + 1) \in Opens}
         /\ Carried(sb.st, n + W)
  <1> DEFINE m        == Classified(n)
             esc      == Escapes(m.bs, s.escaped)
             quote    == m.quote \ esc.escaped
             P        == {p \in Bits : ~(n + (p + 1) \in Opens <=> n \in Opens)}
             E        == {p \in Nat : n + p \in Esc}
             inStr    == Xor(PrefixXor(quote), IF s.inString THEN Bits ELSE {})
             tail     == Xor(inStr, quote)
             scalar   == Not(m.op \cup m.ws)
             nonquote == scalar \ quote
             follows  == Follows(nonquote, s)
             bits     == ((m.op \cup (scalar \ follows)) \ tail) \cup quote
                           \cup ((m.bs \ esc.escaped) \cap inStr)
  <1>1. /\ m.ws \in SUBSET Bits /\ m.op \in SUBSET Bits /\ m.quote \in SUBSET Bits
        /\ m.bs \in SUBSET Bits /\ m.ctrl \in SUBSET Bits
    BY DEF Classified
  <1>2. \A p \in Bits : p \in Nat /\ n + p \in Nat /\ n + (p + 1) = (n + p) + 1
    BY DEF Bits
  <1>3. /\ sb.bits = bits /\ sb.inStr = inStr
        /\ sb.st = [inString |-> TopBit(inStr), escaped |-> esc.next,
                    scalar |-> TopBit(nonquote),
                    ctrl |-> s.ctrl \/ m.ctrl \cap (inStr \ quote) # {}]
    BY DEF StructuralBits
  <1>4. 0 \in Bits /\ W - 1 \in Bits /\ n + ((W - 1) + 1) = n + W /\ (n + W) - 1 = n + (W - 1)
    BY DEF Bits
  <1>5. /\ \A p \in Bits : p \in esc.escaped <=> n + p \in Esc
        /\ esc.next \in BOOLEAN /\ (esc.next <=> n + W \in Esc)
    <2>1. 0 \in E <=> s.escaped
      BY DEF Carried
    <2>2. \A p \in Bits : p + 1 \in E <=> p \in m.bs /\ p \notin E
      <3>1. \A p \in Bits : p \in m.bs <=> At(n + p) = "bs"
        BY ClassesAre
      <3>2. \A p \in Bits : n + (p + 1) \in Esc <=> (At(n + p) = "bs" /\ n + p \notin Esc)
        BY <1>2, TextIs
      <3>3. \A p \in Bits : p + 1 \in Nat
        BY <1>2
      <3> QED
        BY <1>2, <3>1, <3>2, <3>3
    <2>3. s.escaped \in BOOLEAN
      BY DEF Carried
    <2>4. \A p \in Bits : p \in E <=> n + p \in Esc
      BY <1>2
    <2>5. W \in E <=> n + W \in Esc
      OBVIOUS
    <2> HIDE DEF E, m
    <2>6. /\ esc.escaped \cap Bits = E \cap Bits
          /\ esc.next \in BOOLEAN
          /\ esc.next <=> W \in E
      <3> DEFINE b == m.bs
                 next == s.escaped
      <3>1. /\ b \in SUBSET Bits /\ next \in BOOLEAN /\ (0 \in E <=> next)
            /\ \A p \in Bits : p + 1 \in E <=> p \in b /\ p \notin E
        BY <1>1, <2>1, <2>2, <2>3
      <3> HIDE DEF b, next
      <3>2. /\ Escapes(b, next).escaped \cap Bits = E \cap Bits
            /\ Escapes(b, next).next \in BOOLEAN
            /\ Escapes(b, next).next <=> W \in E
        BY <3>1, EscapesAreRight
      <3> QED
        BY <3>2 DEF b, next
    <2> HIDE DEF esc
    <2> QED
      BY <2>4, <2>5, <2>6
  <1> HIDE DEF esc
  <1>6. \A p \in Bits : p \in quote <=> n + p \in Quotes
    BY <1>2, <1>5, ClassesAre, TextIs
  <1>7. quote \in SUBSET Bits
    BY <1>1
  <1> HIDE DEF quote
  <1>8. \A p \in Bits : n + (p + 1) \in Opens <=> ~(n + p \in Opens <=> n + p \in Quotes)
    BY <1>2, TextIs
  <1>9. PrefixXor(quote) = P
    <2>1. ASSUME NEW p \in Bits PROVE p \in quote <=> ~(p \in P <=> p - 1 \in P)
      <3>1. CASE p = 0
        <4>1. p - 1 \notin P /\ n + p = n
          BY <3>1 DEF Bits
        <4> QED
          BY <1>6, <1>8, <4>1
      <3>2. CASE p # 0
        <4>1. p - 1 \in Bits /\ (p - 1) + 1 = p
          BY <3>2 DEF Bits
        <4> QED
          BY <1>6, <1>8, <4>1
      <3> QED
        BY <3>1, <3>2
    <2>2. P \in SUBSET Bits
      OBVIOUS
    <2> HIDE DEF P
    <2> QED
      BY <1>7, <2>1, <2>2, PrefixXorIsParity
  <1>10. inStr \in SUBSET Bits /\ \A p \in Bits : p \in inStr <=> n + (p + 1) \in Opens
    <2>1. s.inString <=> n \in Opens
      BY DEF Carried
    <2> QED
      BY <1>9, <2>1 DEF Xor
  <1> HIDE DEF inStr
  <1>11. tail \in SUBSET Bits /\ \A p \in Bits : p \in tail <=> n + p \in Opens
    BY <1>6, <1>7, <1>8, <1>10 DEF Xor
  <1>12. /\ scalar \in SUBSET Bits
         /\ \A p \in Bits : p \in scalar <=> ~Blank(n + p) /\ ~IsOp(n + p)
    BY ClassesAre DEF Not
  <1> HIDE DEF tail, scalar
  <1>13. nonquote \in SUBSET Bits /\ \A p \in Bits : p \in nonquote <=> n + p \in Scalars
    BY <1>2, <1>6, <1>12, StructsIs
  <1> HIDE DEF nonquote
  <1>14. \A p \in Bits : p \in follows <=> (n + p) - 1 \in Scalars
    <2>1. ASSUME NEW p \in Bits PROVE p \in follows <=> (n + p) - 1 \in Scalars
      <3>1. p \in follows <=> (p - 1 \in nonquote \/ (p = 0 /\ s.scalar))
        <4>1. p \in Shl(nonquote, 1) <=> p - 1 \in nonquote
          BY <1>13, ShlIs
        <4>2. p \in Carry(s.scalar) <=> (p = 0 /\ s.scalar)
          BY DEF Carry
        <4> QED
          BY <4>1, <4>2 DEF Follows
      <3>2. CASE p = 0
        <4>1. p - 1 \notin nonquote /\ (n + p) - 1 = n - 1
          BY <1>13, <3>2 DEF Bits
        <4> QED
          BY <3>1, <3>2, <4>1 DEF Carried
      <3>3. CASE p # 0
        <4>1. p - 1 \in Bits /\ n + (p - 1) = (n + p) - 1
          BY <3>3 DEF Bits
        <4> QED
          BY <1>13, <3>1, <3>3, <4>1
      <3> QED
        BY <3>2, <3>3
    <2> QED
      BY <2>1
  <1> HIDE DEF follows
  <1>15. \A p \in Bits : p \in bits <=> n + p \in Structs
    <2> SUFFICES ASSUME NEW p \in Bits PROVE p \in bits <=> n + p \in Structs
      OBVIOUS
    <2>1. /\ p \in quote <=> n + p \in Quotes
          /\ p \in tail <=> n + p \in Opens
          /\ p \in scalar <=> ~Blank(n + p) /\ ~IsOp(n + p)
          /\ p \in follows <=> (n + p) - 1 \in Scalars
          /\ p \in m.op <=> IsOp(n + p)
          /\ p \in m.bs <=> At(n + p) = "bs"
          /\ p \in esc.escaped <=> n + p \in Esc
          /\ p \in inStr <=> ~(n + p \in Opens <=> n + p \in Quotes)
      BY <1>5, <1>6, <1>8, <1>10, <1>11, <1>12, <1>14, ClassesAre
    <2>2. /\ n + p \in Scalars <=> (~Blank(n + p) /\ ~IsOp(n + p) /\ n + p \notin Quotes)
          /\ n + p \in Structs <=>
               \/ n + p \in Quotes
               \/ n + p \notin Opens /\ (IsOp(n + p) \/ (n + p \in Scalars /\ (n + p) - 1 \notin Scalars))
               \/ n + p \in Opens /\ At(n + p) = "bs" /\ n + p \notin Esc
      BY <1>2, StructsIs
    <2>3. n + p \in Quotes => At(n + p) # "bs"
      BY <1>2, TextIs
    <2>4. p \in bits <=> \/ (p \in m.op \/ (p \in scalar /\ p \notin follows)) /\ p \notin tail
                         \/ p \in quote
                         \/ p \in m.bs /\ p \notin esc.escaped /\ p \in inStr
      BY Zenon
    <2> HIDE DEF bits, m
    <2> QED
      BY ONLY <2>1, <2>2, <2>3, <2>4
  <1>16. bits = {p \in Bits : n + p \in Structs}
    <2>1. bits \in SUBSET Bits
      BY <1>1, <1>7, <1>10, <1>12
    <2> HIDE DEF bits
    <2> QED
      BY <1>15, <2>1
  <1>17. (s.ctrl \/ m.ctrl \cap (inStr \ quote) # {}) <=> \E p \in Bads : p < n + W
    <2>1. \A p \in Bits : p \in m.ctrl \cap (inStr \ quote) <=> n + p \in Bads
      <3> SUFFICES ASSUME NEW p \in Bits
                   PROVE  p \in m.ctrl \cap (inStr \ quote) <=> n + p \in Bads
        OBVIOUS
      <3>1. p \in m.ctrl <=> At(n + p) \in {"nl", "ff", "ctl"}
        BY ClassesAre
      <3>2. n + p \in Bads <=>
              n + p \in Opens /\ n + p \notin Quotes /\ At(n + p) \in {"nl", "ff", "ctl"}
        BY <1>2 DEF Bads
      <3> HIDE DEF m
      <3> QED
        BY <1>6, <1>8, <1>10, <3>1, <3>2
    <2>2. m.ctrl \cap (inStr \ quote) # {} <=> \E p \in Bits : n + p \in Bads
      <3>1. m.ctrl \cap (inStr \ quote) \in SUBSET Bits
        BY <1>1
      <3> QED
        BY <2>1, <3>1
    <2>3. s.ctrl <=> \E p \in Bads : p < n
      BY DEF Carried
    <2>4. \A p \in Bads : p \in Nat /\ (p < n + W <=> p < n \/ (p - n \in Bits /\ n + (p - n) = p))
      BY DEF Bads, Bits
    <2>5. \A p \in Bits : n + p < n + W
      BY DEF Bits
    <2> QED
      BY <2>2, <2>3, <2>4, <2>5
  <1>18. Carried(sb.st, n + W)
    <2>1. TopBit(inStr) <=> n + W \in Opens
      BY <1>4, <1>10 DEF TopBit
    <2>2. TopBit(nonquote) <=> (n + W) - 1 \in Scalars
      BY <1>4, <1>13 DEF TopBit
    <2>3. TopBit(inStr) \in BOOLEAN /\ TopBit(nonquote) \in BOOLEAN
      BY DEF TopBit
    <2> DEFINE c == s.ctrl \/ m.ctrl \cap (inStr \ quote) # {}
    <2>4. c \in BOOLEAN
      OBVIOUS
    <2>5. c <=> \E p \in Bads : p < n + W
      BY <1>17
    <2>6. sb.st = [inString |-> TopBit(inStr), escaped |-> esc.next,
                   scalar |-> TopBit(nonquote), ctrl |-> c]
      BY <1>3
    <2> HIDE DEF c
    <2> QED
      BY <1>5, <2>1, <2>2, <2>3, <2>4, <2>5, <2>6 DEF Carried
  <1>19. inStr = {p \in Bits : n + (p + 1) \in Opens}
    BY <1>10
  <1> QED
    BY <1>3, <1>16, <1>18, <1>19

-----------------------------------------------------------------------------
(* Positions in order.                                                     *)
ListOf(S, n) == CHOOSE list : list = [p \in 0..n |->
  IF p = 0 THEN <<>>
  ELSE IF p - 1 \in S THEN Append(list[p - 1], p - 1) ELSE list[p - 1]]

Put(S, list, p) == IF p \in S THEN Append(list, p) ELSE list

LEMMA ListIs ==
  ASSUME NEW n \in Nat, NEW S
  PROVE  /\ Ascending(S, n) = ListOf(S, n)[n]
         /\ ListOf(S, n)[0] = <<>>
         /\ \A p \in 0..n : ListOf(S, n)[p] \in Seq(Nat)
         /\ \A p \in 0..(n - 1) : ListOf(S, n)[p + 1] = Put(S, ListOf(S, n)[p], p)
  <1> DEFINE step == [p \in 0..n |-> [x \in Seq(Nat) |-> Put(S, x, p)]]
  <1>0. \A p \in 0..n, x \in Seq(Nat) : Put(S, x, p) \in Seq(Nat)
    BY DEF Put
  <1>1. PICK f : Stepwise(f, n, Seq(Nat), <<>>, step)
    <2>1. step \in [0..n -> [Seq(Nat) -> Seq(Nat)]]
      BY <1>0
    <2>2. <<>> \in Seq(Nat)
      OBVIOUS
    <2> HIDE DEF step
    <2> QED
      BY <2>1, <2>2, StepwiseFcn
  <1>2. /\ f \in [0..n -> Seq(Nat)] /\ f[0] = <<>>
        /\ \A p \in 1..n : f[p] = Put(S, f[p - 1], p - 1)
    <2>1. \A p \in 1..n : p - 1 \in 0..n
      OBVIOUS
    <2> QED
      BY <1>1, <2>1 DEF Stepwise
  <1>3. f = [p \in 0..n |-> IF p = 0 THEN <<>> ELSE Put(S, f[p - 1], p - 1)]
    BY <1>2
  <1> DEFINE l == ListOf(S, n)
  <1>4. l = [p \in 0..n |-> IF p = 0 THEN <<>> ELSE Put(S, l[p - 1], p - 1)]
    BY <1>3 DEF ListOf, Put
  <1>5. Ascending(S, n) = l[n]
    BY DEF Ascending, ListOf
  <1> HIDE DEF l
  <1>6. l[0] = <<>> /\ \A p \in 0..(n - 1) :
          l[p + 1] = Put(S, l[p], p)
    <2>1. \A p \in 0..(n - 1) : p + 1 \in 0..n /\ p + 1 # 0 /\ (p + 1) - 1 = p
      OBVIOUS
    <2> QED
      BY <1>4, <2>1
  <1>7. \A p \in 0..n : l[p] \in Seq(Nat)
    <2> DEFINE T == {p \in 0..n : l[p] \in Seq(Nat)}
    <2>1. 0 \in T
      <3>1. l[0] \in Seq(Nat) /\ 0 \in 0..n
        BY <1>6
      <3> QED
        BY <3>1
    <2>2. \A p \in 0..(n - 1) : p \in T => p + 1 \in T
      BY <1>0, <1>6
    <2> HIDE DEF T
    <2>3. \A p \in 0..n : p \in T
      BY <2>1, <2>2, UpTo
    <2> QED
      BY <2>3 DEF T
  <1> QED
    BY <1>5, <1>6, <1>7 DEF l

(* A list for a bound begins as that for a smaller one.                   *)
LEMMA AscendingIs ==
  ASSUME NEW n \in Nat, NEW S
  PROVE  /\ Ascending(S, 0) = <<>>
         /\ Ascending(S, n) \in Seq(Nat)
         /\ Ascending(S, n + 1) = Put(S, Ascending(S, n), n)
  <1> DEFINE a == ListOf(S, n)
             b == ListOf(S, n + 1)
             T == {p \in 0..n : a[p] = b[p]}
  <1>1. /\ a[0] = <<>>
        /\ \A p \in 0..(n - 1) : a[p + 1] = Put(S, a[p], p)
    BY ListIs
  <1>2. /\ b[0] = <<>>
        /\ \A p \in 0..n : b[p + 1] = Put(S, b[p], p)
    <2>1. n + 1 \in Nat /\ (n + 1) - 1 = n
      OBVIOUS
    <2> QED
      BY <2>1, ListIs
  <1>3. Ascending(S, n) = a[n] /\ a[n] \in Seq(Nat)
    BY ListIs
  <1>4. Ascending(S, n + 1) = b[n + 1]
    BY ListIs
  <1>5. Ascending(S, 0) = <<>>
    BY ListIs
  <1> HIDE DEF a, b
  <1>6. a[n] = b[n]
    <2>1. 0 \in T /\ \A p \in 0..(n - 1) : p \in T => p + 1 \in T
      BY <1>1, <1>2
    <2> HIDE DEF T
    <2>2. \A p \in 0..n : p \in T
      BY <2>1, UpTo
    <2> QED
      BY <2>2 DEF T
  <1> QED
    BY <1>2, <1>3, <1>4, <1>5, <1>6

(* What lies at or after the bound plays no part.                          *)
LEMMA AscendingBelow ==
  ASSUME NEW n \in Nat, NEW S, NEW T, \A p \in 0..(n - 1) : p \in S <=> p \in T
  PROVE  Ascending(S, n) = Ascending(T, n)
  <1> DEFINE D == {p \in 0..n : Ascending(S, p) = Ascending(T, p)}
  <1>1. 0 \in D
    BY AscendingIs
  <1>2. ASSUME NEW p \in 0..(n - 1), p \in D PROVE p + 1 \in D
    <2>1. /\ Ascending(S, p + 1) = Put(S, Ascending(S, p), p)
          /\ Ascending(T, p + 1) = Put(T, Ascending(T, p), p)
      BY AscendingIs
    <2> QED
      BY <1>2, <2>1 DEF Put
  <1> HIDE DEF D
  <1>3. n \in D
    BY <1>1, <1>2, UpTo
  <1> QED
    BY <1>3 DEF D

(* A stretch after a stretch: what is listed below n after what is listed  *)
(* below m.                                                                *)
LEMMA AscendingJoins ==
  ASSUME NEW m \in Nat, NEW k \in Nat, NEW S, NEW T, NEW U,
         \A p \in 0..(m - 1) : p \notin T /\ (p \in U <=> p \in S),
         \A p \in m..(m + k - 1) : p \in U <=> p \in T
  PROVE  Ascending(S, m) \o Ascending(T, m + k) = Ascending(U, m + k)
  <1> DEFINE D == {p \in 0..k : Ascending(S, m) \o Ascending(T, m + p) = Ascending(U, m + p)}
  <1>1. Ascending(T, m) = <<>>
    <2>1. Ascending(T, m) = Ascending({}, m)
      BY AscendingBelow
    <2> DEFINE E == {p \in 0..m : Ascending({}, p) = <<>>}
    <2>2. 0 \in E
      <3>1. Ascending({}, 0) = <<>> /\ 0 \in 0..m
        BY AscendingIs
      <3> QED
        BY <3>1
    <2>4. \A p \in 0..(m - 1) : p \in E => p + 1 \in E
      <3>1. \A p \in Nat : Ascending({}, p + 1) = Ascending({}, p)
        BY AscendingIs DEF Put
      <3> QED
        BY <3>1
    <2> HIDE DEF E
    <2>3. m \in E
      BY <2>2, <2>4, UpTo
    <2> QED
      BY <2>1, <2>3 DEF E
  <1>2. 0 \in D
    <2>1. Ascending(S, m) = Ascending(U, m) /\ Ascending(S, m) \in Seq(Nat)
      BY AscendingBelow, AscendingIs
    <2> QED
      BY <1>1, <2>1
  <1>3. ASSUME NEW p \in 0..(k - 1), p \in D PROVE p + 1 \in D
    <2> DEFINE n == m + p
    <2>1. n \in Nat /\ n \in m..(m + k - 1) /\ m + (p + 1) = n + 1 /\ p + 1 \in 0..k
      OBVIOUS
    <2>2. n \in U <=> n \in T
      BY <2>1
    <2>3. Ascending(S, m) \o Ascending(T, n) = Ascending(U, n)
      BY <1>3
    <2> HIDE DEF n
    <2>4. /\ Ascending(T, n + 1) = Put(T, Ascending(T, n), n)
          /\ Ascending(U, n + 1) = Put(U, Ascending(U, n), n)
          /\ Ascending(T, n) \in Seq(Nat) /\ Ascending(S, m) \in Seq(Nat)
      BY <2>1, AscendingIs
    <2>5. Ascending(S, m) \o Append(Ascending(T, n), n)
            = Append(Ascending(S, m) \o Ascending(T, n), n)
      <3>1. \A s, t \in Seq(Nat), x \in Nat : s \o Append(t, x) = Append(s \o t, x)
        BY SMTT(30)
      <3> QED
        BY <2>1, <2>4, <3>1
    <2>6. Ascending(S, m) \o Ascending(T, n + 1) = Ascending(U, n + 1)
      BY <2>2, <2>3, <2>4, <2>5 DEF Put
    <2> QED
      BY <2>1, <2>6
  <1> HIDE DEF D
  <1>4. k \in D
    BY <1>2, <1>3, UpTo
  <1> QED
    BY <1>4 DEF D

(* A list has a place for each of its members.                             *)
LEMMA AscendingCounts ==
  ASSUME NEW n \in Nat, NEW S \in SUBSET (0..(n - 1))
  PROVE  Len(Ascending(S, n)) = Cardinality(S)
  <1> DEFINE D == {p \in 0..n : /\ IsFiniteSet({q \in S : q < p})
                                /\ Len(Ascending(S, p)) = Cardinality({q \in S : q < p})}
  <1>0. \A q \in S : q \in Nat /\ q < n
    OBVIOUS
  <1>1. 0 \in D
    <2>1. \A q \in S : ~(q < 0)
      BY <1>0
    <2>2. {q \in S : q < 0} = {}
      BY <2>1, Zenon
    <2>3. Ascending(S, 0) = <<>> /\ 0 \in 0..n
      BY AscendingIs
    <2>4. IsFiniteSet({}) /\ Cardinality({}) = 0 /\ Len(<<>>) = 0
      BY FS_EmptySet
    <2> QED
      BY <2>2, <2>3, <2>4, Zenon
  <1>2. ASSUME NEW p \in 0..(n - 1), p \in D PROVE p + 1 \in D
    <2> DEFINE A == {q \in S : q < p}
               B == {q \in S : q < p + 1}
    <2>1. /\ Ascending(S, p + 1) = Put(S, Ascending(S, p), p)
          /\ Ascending(S, p) \in Seq(Nat)
      BY AscendingIs
    <2>2. /\ B = IF p \in S THEN A \cup {p} ELSE A
          /\ p \notin A
      <3>1. \A q \in S : (q < p + 1 <=> (q < p \/ q = p)) /\ ~(p < p)
        BY <1>0
      <3> QED
        BY <3>1
    <2>3. IsFiniteSet(A) /\ Len(Ascending(S, p)) = Cardinality(A)
      BY <1>2
    <2> HIDE DEF A, B
    <2>4. ASSUME p \in S
          PROVE  IsFiniteSet(B) /\ Len(Ascending(S, p + 1)) = Cardinality(B)
      <3>1. IsFiniteSet(B) /\ Cardinality(B) = Cardinality(A) + 1
        BY <2>2, <2>3, <2>4, FS_AddElement
      <3>2. Len(Ascending(S, p + 1)) = Len(Ascending(S, p)) + 1
        BY <2>1, <2>4 DEF Put
      <3> QED
        BY <2>3, <3>1, <3>2
    <2>5. ASSUME p \notin S
          PROVE  IsFiniteSet(B) /\ Len(Ascending(S, p + 1)) = Cardinality(B)
      BY <2>1, <2>2, <2>3, <2>5 DEF Put
    <2>6. IsFiniteSet(B) /\ Len(Ascending(S, p + 1)) = Cardinality(B)
      BY <2>4, <2>5
    <2> QED
      BY <2>6 DEF B
  <1> HIDE DEF D
  <1>3. n \in D
    BY <1>1, <1>2, UpTo
  <1>4. {q \in S : q < n} = S
    BY <1>0
  <1> QED
    BY <1>3, <1>4 DEF D

(* The positions of a block, as members of a set of positions.             *)
LEMMA FlatJoins ==
  ASSUME W \in Nat, NEW n \in Nat, NEW K, NEW bits, bits = {p \in Bits : n + p \in K}
  PROVE  Ascending(K, n) \o Flat(n, bits) = Ascending(K, n + W)
  <1> DEFINE T == {n + p : p \in bits}
  <1>1. \A q \in 0..(n - 1) : q \notin T
    BY DEF Bits
  <1>2. \A q \in n..(n + W - 1) : q \in K <=> q \in T
    <2> SUFFICES ASSUME NEW q \in n..(n + W - 1) PROVE q \in K <=> q \in T
      OBVIOUS
    <2>1. q - n \in Bits /\ n + (q - n) = q
      BY DEF Bits
    <2>2. \A p \in bits : p \in Bits /\ n + p \in K
      OBVIOUS
    <2> QED
      BY <2>1, <2>2
  <1> HIDE DEF T
  <1>3. Ascending(K, n) \o Ascending(T, n + W) = Ascending(K, n + W)
    BY <1>1, <1>2, AscendingJoins
  <1> QED
    BY <1>3 DEF Flat, T

(* As many as there are bits.                                             *)
LEMMA FlatCounts ==
  ASSUME W \in Nat, NEW n \in Nat, NEW bits \in SUBSET Bits
  PROVE  /\ Flat(n, bits) \in Seq(Nat)
         /\ Len(Flat(n, bits)) = Cardinality(bits)
  <1> DEFINE T == {n + p : p \in bits}
             f == [p \in bits |-> n + p]
  <1>1. IsFiniteSet(bits)
    <2>1. IsFiniteSet(Bits)
      BY FS_Interval DEF Bits
    <2> QED
      BY <2>1, FS_Subset
  <1>2. \A p \in bits : p \in Nat /\ p < W
    BY DEF Bits
  <1>3. ExistsBijection(bits, T)
    <2>1. f \in [bits -> T] /\ \A t \in T : \E p \in bits : f[p] = t
      OBVIOUS
    <2>2. \A p, q \in bits : f[p] = f[q] => p = q
      BY <1>2
    <2> HIDE DEF f, T
    <2> QED
      BY <2>1, <2>2 DEF ExistsBijection, Bijection, Injection, Surjection, IsInjective
  <1>4. T \in SUBSET (0..((n + W) - 1))
    BY <1>2
  <1> HIDE DEF T
  <1>5. Cardinality(T) = Cardinality(bits)
    BY <1>1, <1>3, FS_Bijection
  <1>6. Len(Ascending(T, n + W)) = Cardinality(T) /\ Ascending(T, n + W) \in Seq(Nat)
    <2>1. n + W \in Nat
      OBVIOUS
    <2> QED
      BY <1>4, <2>1, AscendingCounts, AscendingIs
  <1> QED
    BY <1>5, <1>6 DEF Flat, T

(* Lists grow with their bound, and stop growing at the end of the set.    *)
LEMMA AscendingGrows ==
  ASSUME NEW m \in Nat, NEW k \in Nat, NEW S
  PROVE  /\ Len(Ascending(S, m)) <= Len(Ascending(S, m + k))
         /\ (\A p \in m..(m + k - 1) : p \notin S) => Ascending(S, m + k) = Ascending(S, m)
  <1> DEFINE T == {p \in S : p \in Nat /\ p >= m}
  <1>1. Ascending(S, m) \o Ascending(T, m + k) = Ascending(S, m + k)
    <2>1. \A p \in 0..(m - 1) : p \notin T
      OBVIOUS
    <2>2. \A p \in m..(m + k - 1) : p \in S <=> p \in T
      OBVIOUS
    <2> HIDE DEF T
    <2> QED
      BY <2>1, <2>2, AscendingJoins
  <1>2. Ascending(S, m) \in Seq(Nat) /\ Ascending(T, m + k) \in Seq(Nat)
    BY AscendingIs
  <1>3. Len(Ascending(S, m)) <= Len(Ascending(S, m + k))
    <2> HIDE DEF T
    <2> QED
      BY <1>1, <1>2
  <1>4. ASSUME \A p \in m..(m + k - 1) : p \notin S
        PROVE  Ascending(S, m + k) = Ascending(S, m)
    <2> DEFINE E == {}
    <2>1. /\ \A p \in 0..(m - 1) : p \notin E /\ (p \in S <=> p \in S)
          /\ \A p \in m..(m + k - 1) : p \in S <=> p \in E
      BY <1>4
    <2> HIDE DEF E
    <2>2. Ascending(S, m) \o Ascending(E, m + k) = Ascending(S, m + k)
      BY <2>1, AscendingJoins
    <2>3. Len(Ascending(E, m + k)) = 0 /\ Ascending(E, m + k) \in Seq(Nat)
      <3>1. m + k \in Nat /\ E \in SUBSET (0..((m + k) - 1)) /\ Cardinality(E) = 0
        BY FS_EmptySet DEF E
      <3> QED
        BY <3>1, AscendingCounts, AscendingIs
    <2>4. \A s, t \in Seq(Nat) : Len(t) = 0 => s \o t = s
      OBVIOUS
    <2> QED
      BY <1>2, <2>2, <2>3, <2>4
  <1> QED
    BY <1>3, <1>4

-----------------------------------------------------------------------------
(* What is copied of a block: all of it when it fits, or else runs that do *)
(* fit.                                                                    *)
LEMMA RunsCover ==
  ASSUME W \in Nat, NEW keep \in SUBSET Bits
  PROVE  /\ \A r \in Runs(keep) : /\ r # {} /\ r \subseteq keep /\ Max(r) \in r
                                  /\ \A p \in r : p <= Max(r)
         /\ \A p \in keep : \E r \in Runs(keep) : p \in r
  <1>1. \A p \in keep : p \in Nat /\ p <= W - 1
    BY DEF Bits
  <1>2. ASSUME NEW r \in Runs(keep)
        PROVE  /\ r # {} /\ r \subseteq keep /\ Max(r) \in r
               /\ \A p \in r : p <= Max(r)
    <2>1. r # {} /\ r \subseteq keep
      BY DEF Runs
    <2>2. r \in SUBSET (0..W)
      BY <1>1, <2>1
    <2>3. Max(r) \in r /\ \A p \in r : Max(r) >= p
      BY <2>1, <2>2, GreatestOf
    <2>4. \A p \in r : p \in Nat
      BY <2>2
    <2> QED
      BY <2>1, <2>3, <2>4
  <1>3. ASSUME NEW p \in keep PROVE \E r \in Runs(keep) : p \in r
    <2> DEFINE A == {a \in 0..p : a..p \subseteq keep}
               C == {c \in 0..W : c >= p /\ p..c \subseteq keep}
    <2>1. p \in A /\ p \in C
      <3>1. p..p = {p}
        BY <1>1
      <3> QED
        BY <1>1, <3>1
    <2>2. PICK a \in A : \A x \in A : a <= x
      <3>1. A \in SUBSET Nat /\ A # {}
        BY <2>1
      <3> HIDE DEF A
      <3> QED
        BY <3>1, LeastOf
    <2>3. PICK c \in C : \A x \in C : c >= x
      <3>1. C \in SUBSET (0..W) /\ C # {}
        BY <2>1
      <3> HIDE DEF C
      <3> QED
        BY <3>1, GreatestOf
    <2>4. /\ a \in Nat /\ c \in Nat /\ p \in Nat /\ a <= p /\ p <= c
          /\ \A x \in a..p : x \in keep
          /\ \A x \in p..c : x \in keep
      BY <1>1
    <2>5. a - 1 \notin keep
      <3>1. SUFFICES ASSUME a - 1 \in keep PROVE FALSE
        OBVIOUS
      <3>2. a - 1 \in 0..p /\ a - 1 < a
        BY <1>1, <2>4, <3>1
      <3>3. (a - 1)..p \subseteq keep
        BY <2>4, <3>1
      <3>4. a - 1 \in A
        BY <3>2, <3>3
      <3> HIDE DEF A
      <3> QED
        BY <2>2, <2>4, <3>2, <3>4
    <2>6. c + 1 \notin keep
      <3>1. SUFFICES ASSUME c + 1 \in keep PROVE FALSE
        OBVIOUS
      <3>2. c + 1 \in 0..W /\ c + 1 >= p
        BY <1>1, <2>4, <3>1
      <3>3. p..(c + 1) \subseteq keep
        BY <2>4, <3>1
      <3>4. c + 1 \in C
        BY <3>2, <3>3
      <3> HIDE DEF C
      <3> QED
        BY <2>3, <2>4, <3>4
    <2> HIDE DEF A, C
    <2> DEFINE r == a..c
    <2>7. r \subseteq keep /\ p \in r /\ a \in r /\ c \in r /\ a \in keep /\ c \in keep
      BY <2>4
    <2>8. Min(r) = a
      <3>1. r \in SUBSET Nat /\ r # {}
        BY <2>4, <2>7
      <3>2. Min(r) \in r /\ \A y \in r : Min(r) <= y
        <4> HIDE DEF r
        <4> QED
          BY <3>1, LeastOf
      <3> QED
        BY <2>4, <2>7, <3>2
    <2>9. Max(r) = c
      <3>1. r \in SUBSET (0..c) /\ r # {}
        BY <2>4, <2>7
      <3>2. Max(r) \in r /\ \A y \in r : Max(r) >= y
        <4> HIDE DEF r
        <4> QED
          BY <2>4, <3>1, GreatestOf
      <3> QED
        BY <2>4, <2>7, <3>2
    <2>10. r \in {x..y : x, y \in keep}
      BY <2>7
    <2> HIDE DEF r
    <2>11. r \in Runs(keep)
      BY <2>5, <2>6, <2>7, <2>8, <2>9, <2>10 DEF Runs
    <2> QED
      BY <2>7, <2>11
  <1> QED
    BY <1>2, <1>3

(* What is copied fits, and is all unless all does not fit.               *)
LEMMA FittingIs ==
  ASSUME W \in Nat, cap \in Nat, NEW keep \in SUBSET Bits, NEW w \in Nat, w <= cap
  PROVE  /\ Fitting(w, keep) \in SUBSET keep
         /\ w + Cardinality(Fitting(w, keep)) <= cap
         /\ Fitting(w, keep) # keep => w + Cardinality(keep) > cap
  <1> DEFINE upTo(m) == {p \in keep : p <= m}
             Good    == {r \in Runs(keep) : w + Cardinality(upTo(Max(r))) <= cap}
             fit     == UNION Good
  <1>1. Fitting(w, keep) = fit
    BY DEF Fitting
  <1>2. IsFiniteSet(keep) /\ Cardinality(keep) \in Nat
    <2>1. IsFiniteSet(Bits)
      BY FS_Interval DEF Bits
    <2>2. IsFiniteSet(keep)
      BY <2>1, FS_Subset
    <2> QED
      BY <2>2, FS_CardinalityType
  <1>3. \A a \in SUBSET keep : \A c \in SUBSET a :
          /\ Cardinality(c) \in Nat /\ Cardinality(a) \in Nat
          /\ Cardinality(c) <= Cardinality(a)
    <2> TAKE a \in SUBSET keep
    <2> TAKE c \in SUBSET a
    <2>1. IsFiniteSet(a)
      BY <1>2, FS_Subset
    <2>2. IsFiniteSet(c) /\ Cardinality(c) <= Cardinality(a)
      BY <2>1, FS_Subset
    <2> QED
      BY <2>1, <2>2, FS_CardinalityType
  <1>4. fit \in SUBSET keep
    BY RunsCover
  <1>5. w + Cardinality(fit) <= cap
    <2>1. CASE Good = {}
      <3>1. fit = {}
        BY <2>1
      <3>2. Cardinality(fit) = 0
        BY <3>1, FS_EmptySet
      <3> HIDE DEF fit
      <3> QED
        BY <3>2
    <2>2. CASE Good # {}
      <3> DEFINE G == {Max(r) : r \in Good}
      <3>1. \A r \in Good : Max(r) \in 0..W /\ \A p \in r : p <= Max(r) /\ p \in keep
        <4> TAKE r \in Good
        <4>1. r \in Runs(keep)
          OBVIOUS
        <4>2. r \subseteq keep /\ Max(r) \in r /\ \A p \in r : p <= Max(r)
          BY <4>1, RunsCover
        <4>3. \A p \in keep : p \in 0..W
          BY DEF Bits
        <4> QED
          BY <4>2, <4>3
      <3>2. G \in SUBSET (0..W) /\ G # {}
        BY <2>2, <3>1
      <3>3. PICK m \in G : \A x \in G : m >= x
        <4> HIDE DEF G
        <4> QED
          BY <3>2, GreatestOf
      <3>4. PICK r0 \in Good : m = Max(r0)
        OBVIOUS
      <3>5. \A r \in Good : Max(r) <= m
        <4> TAKE r \in Good
        <4>1. Max(r) \in G
          OBVIOUS
        <4>2. m >= Max(r)
          BY <3>3, <4>1
        <4>3. m \in 0..W /\ Max(r) \in 0..W
          BY <3>2, <4>1
        <4> QED
          BY <4>2, <4>3
      <3>6. fit \in SUBSET upTo(m)
        <4> SUFFICES ASSUME NEW r \in Good, NEW p \in r PROVE p \in upTo(m)
          OBVIOUS
        <4>1. p <= Max(r) /\ p \in keep /\ Max(r) \in Nat /\ Max(r) <= m /\ m \in Nat /\ p \in Nat
          <5>1. p <= Max(r) /\ p \in keep /\ Max(r) \in 0..W
            BY <3>1
          <5>2. m \in 0..W /\ p \in 0..W
            BY <3>1, <3>2, <3>3, <5>1 DEF Bits
          <5> QED
            BY <3>5, <5>1, <5>2
        <4> QED
          BY <4>1
      <3>7. upTo(m) \in SUBSET keep /\ w + Cardinality(upTo(m)) <= cap
        BY <3>4
      <3> HIDE DEF fit, upTo
      <3>8. /\ Cardinality(fit) \in Nat /\ Cardinality(upTo(m)) \in Nat
            /\ Cardinality(fit) <= Cardinality(upTo(m))
        BY <1>3, <3>6, <3>7
      <3> QED
        BY <3>7, <3>8
    <2> QED
      BY <2>1, <2>2
  <1>6. ASSUME w + Cardinality(keep) <= cap PROVE fit = keep
    <2>1. \A r \in Runs(keep) : r \in Good
      <3> TAKE r \in Runs(keep)
      <3>1. upTo(Max(r)) \in SUBSET keep /\ keep \in SUBSET keep
        OBVIOUS
      <3> HIDE DEF upTo
      <3>2. Cardinality(upTo(Max(r))) <= Cardinality(keep) /\ Cardinality(upTo(Max(r))) \in Nat
        BY <1>3, <3>1
      <3>3. w + Cardinality(upTo(Max(r))) <= cap
        BY <1>2, <1>6, <3>2
      <3> QED
        BY <3>3
    <2> HIDE DEF Good
    <2>2. keep \subseteq fit
      BY <2>1, RunsCover
    <2> QED
      BY <1>4, <2>2
  <1>7. fit # keep => w + Cardinality(keep) > cap
    <2> HIDE DEF fit
    <2> QED
      BY <1>2, <1>6
  <1> QED
    BY <1>1, <1>4, <1>5, <1>7

-----------------------------------------------------------------------------
(* The inductive invariant.  Between blocks, the sweep has read up to some *)
(* byte n, which is i unless the text ended before; the carries are those  *)
(* at n, and what is listed, with the block still to be flattened, is what *)
(* there is to list below n.                                               *)
Typed ==
  /\ text \in Texts /\ W \in Widths
  /\ cap \in Nat /\ i \in Nat /\ idx \in Seq(Nat) /\ out \in Seq(Nat)
  /\ job \in {"index", "minify"} /\ pc \in {"head", "sweep", "done"}

Swept ==
  \E n \in Nat :
    /\ n >= i /\ (i < N => n = i)
    /\ Carried(st, n)
    /\ idx \o Flat(lag.base, lag.bits) = Ascending(Structs, n)
    /\ job = "minify" => out = Ascending(Keeps, n)

Finished ==
  IF res = "short_output"
    THEN job = "minify" /\ Len(Ascending(Keeps, N)) > cap
    ELSE /\ res = IF N \in Opens \/ Bads # {} THEN "bad_string" ELSE "ok"
         /\ res = "ok" => idx = Ascending(Structs, N) \o <<N, N>>
         /\ job = "minify" => out = Ascending(Keeps, N)

IInv ==
  /\ Typed
  /\ pc = "head" => job = "index" /\ i = 0 /\ st = Start /\ idx = <<>>
  /\ job = "minify" => lag = [base |-> 0, bits |-> {}] /\ Len(out) <= cap
  /\ pc # "done" => Swept
  /\ pc = "done" => Finished

(* What the assumptions on the constants say of a state.                  *)
LEMMA TypedIs ==
  ASSUME Typed
  PROVE  text \in Seq(Class) /\ W \in Nat /\ W >= 2 /\ W <= 64 /\ N \in Nat
  <1>1. text \in Seq(Class)
    BY TextsAssumption DEF Typed
  <1>2. W \in 2..64
    BY WidthAssumption DEF Typed
  <1>3. N \in Nat
    BY <1>1 DEF N
  <1> QED
    BY <1>1, <1>2, <1>3

(* What the text says does not change with the rest of the state.          *)
LEMMA TextStays ==
  ASSUME UNCHANGED <<text, W>>
  PROVE  /\ N' = N /\ Opens' = Opens /\ Bads' = Bads
         /\ Structs' = Structs /\ Keeps' = Keeps
         /\ \A s, n : Carried(s, n)' <=> Carried(s, n)
         /\ \A b, m : Flat(b, m)' = Flat(b, m)
  <1>1. N' = N /\ \A p : At(p)' = At(p)
    BY DEF N, At
  <1>2. Escaped' = Escaped
    BY DEF Escaped, At, N
  <1>3. \A p : Quote(p)' = Quote(p)
    BY <1>1, <1>2 DEF Quote
  <1>4. Open' = Open
    BY DEF Open, Quote, Escaped, At, N
  <1>5. \A p : /\ Blank(p)' = Blank(p) /\ IsOp(p)' = IsOp(p)
               /\ IsScalar(p)' = IsScalar(p)
    BY <1>1, <1>3 DEF Blank, IsOp, IsScalar
  <1>6. \A p : Structural(p)' = Structural(p)
    BY <1>1, <1>2, <1>3, <1>4, <1>5 DEF Structural
  <1>7. Opens' = Opens /\ Quotes' = Quotes /\ Esc' = Esc
    BY <1>1, <1>2, <1>3, <1>4 DEF Opens, Quotes, Esc
  <1>8. Scalars' = Scalars /\ Structs' = Structs
    BY <1>5, <1>6 DEF Scalars, Structs
  <1>9. Keeps' = Keeps /\ Bads' = Bads
    BY <1>1, <1>5, <1>7 DEF Keeps, Bads
  <1>10. \A s, n : Carried(s, n)' <=> Carried(s, n)
    BY <1>7, <1>8, <1>9 DEF Carried
  <1>11. \A b, m : Flat(b, m)' = Flat(b, m)
    BY DEF Flat
  <1> QED
    BY <1>1, <1>7, <1>8, <1>9, <1>10, <1>11

(* Nothing to list lies past the end of the text.                         *)
LEMMA InTheText ==
  ASSUME text \in Seq(Class)
  PROVE  /\ \A p \in Structs \cup Keeps \cup Bads : p \in 0..(N - 1)
         /\ \A n \in Nat : n >= N => /\ Ascending(Structs, n) = Ascending(Structs, N)
                                     /\ Ascending(Keeps, n) = Ascending(Keeps, N)
                                     /\ n \in Opens <=> N \in Opens
  <1>1. N \in Nat
    BY DEF N
  <1>2. ASSUME NEW p \in Nat, p >= N PROVE p \notin Structs /\ p \notin Keeps /\ p \notin Bads
    <2>1. At(p) = "sp" /\ p \notin Quotes
      BY <1>2, TextIs
    <2>2. ~IsOp(p) /\ p \notin Scalars
      BY <2>1 DEF Scalars, IsScalar, IsOp, Blank
    <2>3. p \notin Structs
      BY <2>1, <2>2, StructsIs
    <2> QED
      BY <1>1, <1>2, <2>1, <2>3 DEF Keeps, Bads
  <1>3. \A p \in Structs \cup Keeps \cup Bads : p \in 0..(N - 1)
    <2>1. Structs \cup Keeps \cup Bads \subseteq Nat
      BY DEF Structs, Keeps, Bads
    <2> QED
      BY <1>1, <1>2, <2>1
  <1>4. ASSUME NEW n \in Nat, n >= N
        PROVE  /\ Ascending(Structs, n) = Ascending(Structs, N)
               /\ Ascending(Keeps, n) = Ascending(Keeps, N)
               /\ n \in Opens <=> N \in Opens
    <2> DEFINE k == n - N
    <2>1. k \in Nat /\ n = N + k
      BY <1>1, <1>4
    <2>2. \A p \in N..(N + k - 1) : p \notin Structs /\ p \notin Keeps
      BY <1>1, <1>2
    <2>3. n \in Opens <=> N \in Opens
      BY <1>1, <1>4 DEF Opens
    <2> HIDE DEF k
    <2> QED
      BY <1>1, <2>1, <2>2, <2>3, AscendingGrows
  <1> QED
    BY <1>3, <1>4

(* Initially.                                                             *)
LEMMA StartIs ==
  ASSUME text \in Seq(Class)
  PROVE  Carried(Start, 0)
  <1>1. 0 \notin Opens /\ 0 \notin Esc
    BY TextIs
  <1>2. 0 - 1 \notin Scalars /\ \A p \in Bads : ~(p < 0)
    BY DEF Scalars, Bads
  <1> QED
    BY <1>1, <1>2 DEF Carried, Start

LEMMA NothingFlat ==
  ASSUME W \in Nat
  PROVE  Flat(0, {}) = <<>>
  <1>1. Flat(0, {}) \in Seq(Nat) /\ Len(Flat(0, {})) = 0
    BY FlatCounts, FS_EmptySet
  <1> QED
    BY <1>1

LEMMA Initially ==
  Init => IInv
  <1> SUFFICES ASSUME NEW t \in Texts, NEW w \in Widths, NEW b \in {"index", "minify"},
                      Begin(t, w, b)
               PROVE  IInv
    BY DEF Init
  <1>1. text \in Texts /\ W \in Widths /\ i = 0 /\ st = Start /\ idx = <<>> /\ out = <<>>
        /\ lag = [base |-> 0, bits |-> {}] /\ job \in {"index", "minify"}
        /\ pc \in {"head", "sweep"} /\ (pc = "head" => job = "index")
    BY DEF Begin
  <1>2. text \in Seq(Class) /\ N \in Nat /\ W \in Nat
    <2>1. text \in Seq(Class) /\ W \in 2..64
      BY <1>1, TextsAssumption, WidthAssumption
    <2> QED
      BY <2>1 DEF N
  <1>3. cap \in Nat
    <2>1. Max({0, N - 2}) \in Nat
      <3> DEFINE S == {0, N - 2}
      <3>1. CASE N - 2 >= 0
        <4>1. S \in SUBSET (0..N) /\ S # {}
          BY <1>2, <3>1
        <4>2. Max(S) \in S
          <5> HIDE DEF S
          <5> QED
            BY <1>2, <4>1, GreatestOf
        <4> QED
          BY <1>2, <3>1, <4>2
      <3>2. CASE N - 2 < 0
        <4>1. \A x \in S : x <= 0
          BY <1>2, <3>2
        <4>2. 0 \in S /\ \A x \in S : 0 >= x
          BY <1>2, <3>2
        <4>3. \A x \in S : (\A y \in S : x >= y) => x = 0
          BY <1>2, <3>2
        <4>4. Max(S) = 0
          <5> HIDE DEF S
          <5> QED
            BY <4>2, <4>3 DEF Max
        <4> QED
          BY <4>4
      <3> QED
        BY <1>2, <3>1, <3>2
    <2> QED
      BY <1>2, <2>1 DEF Begin
  <1>4. Swept
    <2>1. idx \o Flat(lag.base, lag.bits) = <<>>
      BY <1>1, <1>2, NothingFlat
    <2>2. Ascending(Structs, 0) = <<>> /\ Ascending(Keeps, 0) = <<>>
      BY AscendingIs
    <2>3. Carried(st, 0)
      BY <1>1, <1>2, StartIs
    <2> QED
      BY <1>1, <1>2, <2>1, <2>2, <2>3 DEF Swept
  <1> QED
    BY <1>1, <1>3, <1>4 DEF IInv, Typed

(* The first block, and the others: the carries and one more stretch of   *)
(* each list.                                                             *)
LEMMA HeadStep ==
  ASSUME IInv, Head0
  PROVE  IInv'
  <1> DEFINE sb == StructuralBits(Classified(0), st)
  <1>1. text \in Seq(Class) /\ W \in Nat /\ W >= 2 /\ W <= 64 /\ N \in Nat
    BY TypedIs DEF IInv
  <1>2. /\ job = "index" /\ st = Start /\ idx = <<>>
        /\ pc' = "sweep" /\ st' = sb.st /\ i' = Min({N, W})
        /\ lag' = [base |-> 0, bits |-> {p \in sb.bits : p < N}]
        /\ UNCHANGED <<text, W, job, cap, idx, out>>
    BY DEF IInv, Head0
  <1>3. i' \in {N, W} /\ i' <= N /\ i' <= W
    <2> DEFINE S == {N, W}
    <2>1. S \in SUBSET Nat /\ S # {}
      BY <1>1
    <2>2. Min(S) \in S /\ \A y \in S : Min(S) <= y
      <3> HIDE DEF S
      <3> QED
        BY <2>1, LeastOf
    <2> QED
      BY <1>2, <2>2
  <1>4. Carried(st, 0)
    BY <1>1, <1>2, StartIs
  <1>5. sb.bits = {p \in Bits : 0 + p \in Structs} /\ Carried(sb.st, 0 + W)
    <2> HIDE DEF sb
    <2> QED
      BY <1>1, <1>4, BlockIs DEF sb
  <1> HIDE DEF sb
  <1>6. {p \in sb.bits : p < N} = {p \in Bits : 0 + p \in Structs}
    <2>1. \A p \in Structs : p < N
      BY <1>1, InTheText
    <2> QED
      BY <1>5, <2>1 DEF Bits
  <1>7. idx' \o Flat(0, lag'.bits) = Ascending(Structs, W)
    <2>1. Ascending(Structs, 0) \o Flat(0, lag'.bits) = Ascending(Structs, 0 + W)
      BY <1>1, <1>2, <1>6, FlatJoins
    <2>2. Ascending(Structs, 0) = idx' /\ 0 + W = W
      BY <1>1, <1>2, AscendingIs
    <2> QED
      BY <2>1, <2>2, Zenon
  <1>8. Swept'
    <2>1. W >= i' /\ (i' < N => W = i')
      BY <1>1, <1>3
    <2>2. Carried(st', W)
      BY <1>1, <1>2, <1>5
    <2>3. Carried(st, W)' /\ N' = N /\ Structs' = Structs
          /\ (\A b, m : Flat(b, m)' = Flat(b, m))
      BY <1>2, <2>2, TextStays
    <2>4. (idx \o Flat(lag.base, lag.bits))' = Ascending(Structs', W)
      BY <1>2, <1>7, <2>3
    <2> QED
      BY <1>1, <1>2, <2>1, <2>3, <2>4 DEF Swept
  <1>9. Typed'
    BY <1>1, <1>2, <1>3 DEF IInv, Typed
  <1> QED
    BY <1>2, <1>8, <1>9 DEF IInv

LEMMA IndexStep ==
  ASSUME IInv, IndexBlock
  PROVE  IInv'
  <1> DEFINE sb == StructuralBits(Classified(i), st)
  <1>1. text \in Seq(Class) /\ W \in Nat /\ W >= 2 /\ W <= 64 /\ N \in Nat
    BY TypedIs DEF IInv
  <1>2. /\ pc = "sweep" /\ job = "index" /\ i < N
        /\ idx' = idx \o Flat(lag.base, lag.bits) /\ lag' = [base |-> i, bits |-> sb.bits]
        /\ st' = sb.st /\ i' = i + W
        /\ UNCHANGED <<text, W, job, cap, pc, out>>
    BY DEF IndexBlock
  <1>3. i \in Nat /\ Carried(st, i) /\ idx' = Ascending(Structs, i)
    BY <1>2 DEF IInv, Typed, Swept
  <1>4. sb.bits = {p \in Bits : i + p \in Structs} /\ Carried(sb.st, i + W)
    <2> HIDE DEF sb
    <2> QED
      BY <1>1, <1>3, BlockIs DEF sb
  <1> HIDE DEF sb
  <1>5. idx' \o Flat(lag'.base, lag'.bits) = Ascending(Structs, i')
    <2>1. Ascending(Structs, i) \o Flat(i, sb.bits) = Ascending(Structs, i + W)
      BY <1>1, <1>3, <1>4, FlatJoins
    <2> QED
      BY <1>2, <1>3, <2>1
  <1>6. Swept'
    <2>1. Carried(st', i') /\ i' \in Nat
      BY <1>1, <1>2, <1>3, <1>4
    <2>2. Carried(st, i)' /\ N' = N /\ Structs' = Structs
          /\ (\A b, m : Flat(b, m)' = Flat(b, m))
      BY <1>2, <2>1, TextStays
    <2>3. (idx \o Flat(lag.base, lag.bits))' = Ascending(Structs', i')
      BY <1>5, <2>2
    <2> QED
      BY <1>2, <2>1, <2>2, <2>3 DEF Swept
  <1>7. Typed'
    <2>1. idx' \in Seq(Nat)
      BY <1>3, AscendingIs
    <2> QED
      BY <1>1, <1>2, <2>1 DEF IInv, Typed
  <1> QED
    BY <1>2, <1>6, <1>7 DEF IInv

(* The minifier's block; when a run does not fit, the rest of the text    *)
(* would only have made the list longer.                                  *)
LEMMA SweepStep ==
  ASSUME IInv, SweepBlock
  PROVE  IInv'
  <1> DEFINE m    == Classified(i)
             sb   == StructuralBits(m, st)
             keep == {p \in Kept(m, sb.inStr) : i + p < N}
             fit  == Fitting(Len(out), keep)
  <1>1. text \in Seq(Class) /\ W \in Nat /\ W >= 2 /\ W <= 64 /\ N \in Nat
    BY TypedIs DEF IInv
  <1>2. /\ pc = "sweep" /\ job = "minify" /\ i < N
        /\ idx' = idx \o Flat(i, sb.bits) /\ out' = out \o Flat(i, fit)
        /\ st' = sb.st /\ i' = i + W
        /\ IF fit = keep THEN UNCHANGED <<pc, res>>
                         ELSE pc' = "done" /\ res' = "short_output"
        /\ UNCHANGED <<text, W, job, cap, lag>>
    BY DEF SweepBlock
  <1>3. /\ i \in Nat /\ cap \in Nat /\ idx \in Seq(Nat) /\ out \in Seq(Nat) /\ Len(out) <= cap
        /\ lag = [base |-> 0, bits |-> {}]
    BY <1>2 DEF IInv, Typed
  <1>4. Carried(st, i) /\ idx = Ascending(Structs, i) /\ out = Ascending(Keeps, i)
    <2>1. /\ Carried(st, i) /\ out = Ascending(Keeps, i)
          /\ idx \o Flat(lag.base, lag.bits) = Ascending(Structs, i)
      BY <1>2 DEF IInv, Swept
    <2>2. Flat(lag.base, lag.bits) = <<>>
      BY <1>1, <1>3, NothingFlat
    <2>3. idx \o <<>> = idx
      BY <1>3
    <2>4. idx \o <<>> = Ascending(Structs, i)
      BY <2>1, <2>2, Zenon
    <2> QED
      BY <2>1, <2>3, <2>4, Zenon
  <1>5. /\ sb.bits = {p \in Bits : i + p \in Structs}
        /\ sb.inStr = {p \in Bits : i + (p + 1) \in Opens}
        /\ Carried(sb.st, i + W)
    <2> HIDE DEF sb
    <2> QED
      BY <1>1, <1>3, <1>4, BlockIs DEF sb
  <1> HIDE DEF sb
  <1>6. keep = {p \in Bits : i + p \in Keeps}
    <2> SUFFICES ASSUME NEW p PROVE p \in keep <=> p \in Bits /\ i + p \in Keeps
      OBVIOUS
    <2>1. CASE p \in Bits
      <3>1. i + p \in Nat /\ i + (p + 1) = (i + p) + 1
        BY <1>3, <2>1 DEF Bits
      <3>2. p \in m.ws <=> Blank(i + p)
        BY <1>3, <2>1, ClassesAre
      <3>3. p \in sb.inStr <=> ~(i + p \in Opens <=> i + p \in Quotes)
        BY <1>1, <1>5, <2>1, <3>1, TextIs
      <3>4. i + p \in Quotes => ~Blank(i + p)
        BY <1>1, <3>1, TextIs DEF Blank
      <3>5. i + p \in Keeps <=>
              i + p < N /\ (i + p \in Opens \/ i + p \in Quotes \/ ~Blank(i + p))
        BY <3>1 DEF Keeps
      <3>6. p \in keep <=> i + p < N /\ (p \notin m.ws \/ p \in sb.inStr)
        BY <2>1 DEF Kept, Not
      <3> QED
        BY ONLY <2>1, <3>2, <3>3, <3>4, <3>5, <3>6
    <2>2. CASE p \notin Bits
      BY <1>5, <2>2 DEF Kept, Not
    <2> QED
      BY <2>1, <2>2
  <1>7. keep \in SUBSET Bits
    BY <1>6
  <1> HIDE DEF keep
  <1>8. /\ fit \in SUBSET keep /\ Len(out) + Cardinality(fit) <= cap
        /\ fit # keep => Len(out) + Cardinality(keep) > cap
    <2> DEFINE w == Len(out)
    <2>1. w \in Nat /\ w <= cap
      BY <1>3
    <2> HIDE DEF w
    <2>2. /\ Fitting(w, keep) \in SUBSET keep
          /\ w + Cardinality(Fitting(w, keep)) <= cap
          /\ Fitting(w, keep) # keep => w + Cardinality(keep) > cap
      BY <1>1, <1>3, <1>7, <2>1, FittingIs
    <2> QED
      BY <2>2 DEF w
  <1> HIDE DEF fit
  <1>9. /\ Flat(i, fit) \in Seq(Nat) /\ Len(Flat(i, fit)) = Cardinality(fit)
        /\ Flat(i, keep) \in Seq(Nat) /\ Len(Flat(i, keep)) = Cardinality(keep)
        /\ Flat(i, sb.bits) \in Seq(Nat)
    <2>1. fit \in SUBSET Bits /\ sb.bits \in SUBSET Bits
      BY <1>5, <1>7, <1>8
    <2> QED
      BY <1>1, <1>3, <1>7, <2>1, FlatCounts
  <1>10. /\ Ascending(Structs, i) \o Flat(i, sb.bits) = Ascending(Structs, i + W)
         /\ Ascending(Keeps, i) \o Flat(i, keep) = Ascending(Keeps, i + W)
    BY <1>1, <1>3, <1>5, <1>6, FlatJoins
  <1>11. Len(out') <= cap
    BY <1>2, <1>3, <1>8, <1>9
  <1>12. Typed'
    <2>1. idx' \in Seq(Nat) /\ out' \in Seq(Nat)
      BY <1>2, <1>3, <1>9
    <2>2. pc' \in {"sweep", "done"} /\ i' \in Nat
      BY <1>1, <1>2, <1>3
    <2> QED
      BY <1>2, <2>1, <2>2 DEF IInv, Typed
  <1>13. CASE fit = keep
    <2>1. idx' = Ascending(Structs, i') /\ out' = Ascending(Keeps, i')
      BY <1>2, <1>4, <1>10, <1>13
    <2>2. Carried(st', i') /\ i' \in Nat
      BY <1>1, <1>2, <1>3, <1>5
    <2>3. Carried(st, i)' /\ N' = N /\ Structs' = Structs /\ Keeps' = Keeps
          /\ (\A b, c : Flat(b, c)' = Flat(b, c))
      BY <1>2, <2>2, TextStays
    <2>4. (idx \o Flat(lag.base, lag.bits))' = Ascending(Structs', i')
      <3>1. lag'.base = 0 /\ lag'.bits = {} /\ Flat(0, {}) = <<>>
        BY <1>1, <1>2, <1>3, NothingFlat
      <3>2. Flat(lag.base, lag.bits)' = <<>>
        BY <2>3, <3>1
      <3>3. idx' \in Seq(Nat)
        BY <1>12 DEF Typed
      <3> QED
        BY <2>1, <2>3, <3>2, <3>3
    <2>5. Swept'
      BY <2>1, <2>2, <2>3, <2>4 DEF Swept
    <2> QED
      BY <1>2, <1>3, <1>11, <1>12, <1>13, <2>5 DEF IInv
  <1>14. CASE fit # keep
    <2>1. Len(Ascending(Keeps, i + W)) > cap
      BY <1>3, <1>4, <1>8, <1>9, <1>10, <1>14
    <2>2. Len(Ascending(Keeps, i + W)) <= Len(Ascending(Keeps, N))
      <3>1. CASE i + W >= N
        <4>1. Ascending(Keeps, i + W) = Ascending(Keeps, N)
          BY <1>1, <1>3, <3>1, InTheText
        <4>2. Ascending(Keeps, N) \in Seq(Nat)
          BY <1>1, AscendingIs
        <4> QED
          BY <4>1, <4>2
      <3>2. CASE i + W < N
        <4> DEFINE k == N - (i + W)
        <4>1. k \in Nat /\ N = (i + W) + k /\ i + W \in Nat
          BY <1>1, <1>3, <3>2
        <4> HIDE DEF k
        <4> QED
          BY <4>1, AscendingGrows
      <3> QED
        BY <1>1, <1>3, <3>1, <3>2
    <2>3. Len(Ascending(Keeps, N)) > cap
      <3>1. Len(Ascending(Keeps, N)) \in Nat /\ Len(Ascending(Keeps, i + W)) \in Nat
        <4>1. Ascending(Keeps, N) \in Seq(Nat) /\ Ascending(Keeps, i + W) \in Seq(Nat)
          BY <1>1, <1>3, AscendingIs
        <4> QED
          BY <4>1
      <3> QED
        BY <1>3, <2>1, <2>2, <3>1
    <2>4. N' = N /\ Keeps' = Keeps
      BY <1>2, TextStays
    <2>5. Finished'
      BY <1>2, <1>14, <2>3, <2>4 DEF Finished
    <2> QED
      BY <1>2, <1>3, <1>11, <1>12, <1>14, <2>5 DEF IInv
  <1> QED
    BY <1>13, <1>14

(* The end: past the text the lists do not grow.                          *)
LEMMA EndStep ==
  ASSUME IInv, End
  PROVE  IInv'
  <1>1. text \in Seq(Class) /\ W \in Nat /\ N \in Nat
    BY TypedIs DEF IInv
  <1>2. /\ pc = "sweep" /\ i >= N /\ pc' = "done" /\ res' = Verdict(st)
        /\ idx' = IF res' = "ok" THEN (idx \o Flat(lag.base, lag.bits)) \o <<N, N>>
                                 ELSE idx \o Flat(lag.base, lag.bits)
        /\ UNCHANGED <<text, W, job, cap, i, lag, out>>
    BY DEF End
  <1>3. PICK n \in Nat :
          /\ n >= i /\ Carried(st, n)
          /\ idx \o Flat(lag.base, lag.bits) = Ascending(Structs, n)
          /\ job = "minify" => out = Ascending(Keeps, n)
    BY <1>2 DEF IInv, Swept
  <1>4. n >= N
    BY <1>1, <1>2, <1>3 DEF IInv, Typed
  <1>5. /\ idx \o Flat(lag.base, lag.bits) = Ascending(Structs, N)
        /\ job = "minify" => out = Ascending(Keeps, N)
        /\ n \in Opens <=> N \in Opens
    BY <1>1, <1>3, <1>4, InTheText
  <1>6. (\E p \in Bads : p < n) <=> Bads # {}
    <2>1. \A p \in Bads : p < n
      <3>1. \A p \in Bads : p \in 0..(N - 1)
        BY <1>1, InTheText
      <3> QED
        BY <1>1, <1>4, <3>1
    <2> QED
      BY <2>1
  <1>7. res' = IF N \in Opens \/ Bads # {} THEN "bad_string" ELSE "ok"
    <2>1. (st.inString <=> N \in Opens) /\ (st.ctrl <=> Bads # {})
      BY <1>3, <1>5, <1>6 DEF Carried
    <2> QED
      BY <1>2, <2>1 DEF Verdict
  <1>8. N' = N /\ Opens' = Opens /\ Bads' = Bads /\ Structs' = Structs /\ Keeps' = Keeps
    BY <1>2, TextStays
  <1>9. res' = "ok" => idx' = Ascending(Structs, N) \o <<N, N>>
    BY <1>2, <1>5
  <1>10. Finished'
    BY <1>2, <1>5, <1>7, <1>8, <1>9 DEF Finished
  <1>11. Typed'
    <2>1. idx' \in Seq(Nat)
      <3>1. Ascending(Structs, N) \in Seq(Nat) /\ <<N, N>> \in Seq(Nat)
        BY <1>1, AscendingIs
      <3>2. Ascending(Structs, N) \o <<N, N>> \in Seq(Nat)
        BY <3>1
      <3> QED
        BY <1>2, <1>5, <3>1, <3>2
    <2> QED
      BY <1>2, <2>1 DEF IInv, Typed
  <1> QED
    BY <1>2, <1>10, <1>11 DEF IInv

LEMMA NothingStep ==
  ASSUME IInv, UNCHANGED vars
  PROVE  IInv'
  <1>1. UNCHANGED <<text, W, job, cap, pc, i, st, lag, idx, out, res>>
    BY DEF vars
  <1>2. /\ N' = N /\ Opens' = Opens /\ Bads' = Bads
        /\ Structs' = Structs /\ Keeps' = Keeps
        /\ \A s, n : Carried(s, n)' <=> Carried(s, n)
        /\ \A b, m : Flat(b, m)' = Flat(b, m)
    BY <1>1, TextStays
  <1>3. Typed'
    BY <1>1 DEF IInv, Typed
  <1>4. Swept => Swept'
    <2> SUFFICES ASSUME NEW n \in Nat,
                        n >= i /\ (i < N => n = i), Carried(st, n),
                        idx \o Flat(lag.base, lag.bits) = Ascending(Structs, n),
                        job = "minify" => out = Ascending(Keeps, n)
                 PROVE  Swept'
      BY DEF Swept
    <2>1. Carried(st, n)'
      BY <1>1, <1>2
    <2>2. (idx \o Flat(lag.base, lag.bits))' = Ascending(Structs', n)
      BY <1>1, <1>2
    <2> QED
      BY <1>1, <1>2, <2>1, <2>2 DEF Swept
  <1>5. Finished => Finished'
    BY <1>1, <1>2 DEF Finished
  <1> QED
    BY <1>1, <1>3, <1>4, <1>5 DEF IInv

-----------------------------------------------------------------------------
(* After every block the carries are those of the text read byte by byte   *)
(* up to there, and what is listed is all there is to list below.          *)
THEOREM Invariance == Spec => []IInv
  <1>1. ASSUME IInv, [Next]_vars PROVE IInv'
    BY <1>1, HeadStep, IndexStep, SweepStep, EndStep, NothingStep DEF Next, Done
  <1> QED
    BY Initially, <1>1, PTL DEF Spec

(* For every text and every width of a block from 2 to 64, stage 1 lists   *)
(* the structural bytes of the text, in order, and refuses the texts with  *)
(* an open string or a control character in a string, and no others        *)
(* (stage1.hpp, __index_input and structural_bits_ex).                     *)
THEOREM StructuralsFound == Spec => []IndexesAreStructural
  <1>1. IInv => IndexesAreStructural
    <2> SUFFICES ASSUME IInv, pc = "done", res # "short_output"
                 PROVE  /\ res = IF Malformed THEN "bad_string" ELSE "ok"
                        /\ res = "ok" => idx = InOrder(Structural) \o <<N, N>>
      BY DEF IndexesAreStructural
    <2>1. text \in Seq(Class) /\ N \in Nat
      BY TypedIs DEF IInv
    <2>2. /\ res = IF N \in Opens \/ Bads # {} THEN "bad_string" ELSE "ok"
          /\ res = "ok" => idx = Ascending(Structs, N) \o <<N, N>>
      BY DEF IInv, Finished
    <2>3. Malformed <=> N \in Opens \/ Bads # {}
      <3>1. N \in Opens <=> Open[N]
        BY <2>1 DEF Opens
      <3>2. \A p \in 0..(N - 1) :
              p \in Bads <=> Open[p] /\ ~Quote(p) /\ At(p) \in {"nl", "ff", "ctl"}
        <4> TAKE p \in 0..(N - 1)
        <4>1. p \in Nat /\ p <= N /\ (p \in Opens <=> Open[p])
          BY <2>1 DEF Opens
        <4>2. p \in Quotes <=> Quote(p)
          BY <2>1, <4>1, TextIs
        <4> QED
          BY <4>1, <4>2 DEF Bads
      <3>3. \A p \in Bads : p \in 0..(N - 1)
        BY <2>1, InTheText
      <3> QED
        BY <3>1, <3>2, <3>3 DEF Malformed
    <2>4. InOrder(Structural) = Ascending(Structs, N)
      <3> DEFINE S == {p \in 0..(N - 1) : Structural(p)}
      <3>1. \A p \in 0..(N - 1) : p \in S <=> p \in Structs
        BY <2>1 DEF Structs
      <3>2. InOrder(Structural) = Ascending(S, N)
        BY DEF InOrder
      <3> HIDE DEF S
      <3> QED
        BY <2>1, <3>1, <3>2, AscendingBelow
    <2> QED
      BY <2>2, <2>3, <2>4
  <1> QED
    BY <1>1, Invariance, PTL

(* For every text, width of a block and room for the output, minifying     *)
(* keeps every byte but white space outside strings, in order, writes no   *)
(* more than there is room for, and fails for room only when it must       *)
(* (minify.hpp, sweep).                                                    *)
THEOREM MinifyKeepsTheRest == Spec => []MinifyStrips
  <1>1. IInv => MinifyStrips
    <2> SUFFICES ASSUME IInv, job = "minify" PROVE MinifyStrips
      BY DEF MinifyStrips
    <2>1. text \in Seq(Class) /\ N \in Nat /\ cap \in Nat /\ Len(out) <= cap
      BY TypedIs DEF IInv, Typed
    <2> DEFINE S == {p \in 0..(N - 1) : Open[p] \/ Quote(p) \/ ~Blank(p)}
               kept == Ascending(S, N)
    <2>2. kept = Ascending(Keeps, N)
      <3>1. \A p \in 0..(N - 1) : p \in S <=> p \in Keeps
        <4> TAKE p \in 0..(N - 1)
        <4>1. p \in Nat /\ p < N /\ (p \in Opens <=> Open[p])
          BY <2>1 DEF Opens
        <4>2. p \in Quotes <=> Quote(p)
          BY <2>1, <4>1, TextIs
        <4> QED
          BY <4>1, <4>2 DEF Keeps
      <3> HIDE DEF S
      <3> QED
        BY <2>1, <3>1, AscendingBelow
    <2> HIDE DEF kept
    <2>3. ASSUME pc = "done"
          PROVE  IF Len(kept) > cap THEN res = "short_output"
                                    ELSE res # "short_output" /\ out = kept
      <3>1. Finished
        BY <2>3 DEF IInv
      <3>2. CASE res = "short_output"
        BY <2>2, <3>1, <3>2 DEF Finished
      <3>3. CASE res # "short_output"
        <4>1. out = kept
          BY <2>2, <3>1, <3>3 DEF Finished
        <4> QED
          BY <2>1, <3>3, <4>1
      <3> QED
        BY <3>2, <3>3
    <2> QED
      BY <2>1, <2>3 DEF MinifyStrips, InOrder, kept
  <1> QED
    BY <1>1, Invariance, PTL
=============================================================================
