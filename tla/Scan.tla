-------------------------------- MODULE Scan --------------------------------
(***************************************************************************)
(* Stage 1 (stage1.hpp) and the whitespace stripper (minify.hpp): both     *)
(* sweep the text in blocks, classify the bytes of a block into bit masks  *)
(* and find strings and structural bytes with arithmetic on the masks; a   *)
(* few bits are carried from block to block.  The block has W bits here,   *)
(* 64 in the code.  A mask is the set of its positions; the one            *)
(* subtraction is done on numbers, modulo 2^W.                             *)
(*                                                                         *)
(* A byte is its class: "nl" is white space and a control character, "ff"  *)
(* (0x0c, 0x1a) a control character that the classifier takes for an       *)
(* operator, "ctl" any other control character, "x" anything else.         *)
(***************************************************************************)
EXTENDS Integers, Sequences, FiniteSetsExt

Class == {"sp", "nl", "op", "ff", "quote", "bs", "ctl", "x"}

CONSTANTS Texts, Widths      \* sizes of a block

ASSUME WidthAssumption == Widths \subseteq 2..64
ASSUME TextsAssumption == Texts \subseteq Seq(Class) \ {<<>>}    \* callers refuse it

VARIABLES
  text, W,
  job,         \* "index" or "minify"
  cap,         \* minify: bytes of the output
  pc,          \* "head", "sweep" or "done"
  i,           \* next byte; bytes are numbered from 0
  st,          \* scan_state, between blocks
  lag,         \* index: the block whose bits are not yet in idx
  idx, out, res

vars == <<text, W, job, cap, pc, i, st, lag, idx, out, res>>

N      == Len(text)
At(p)  == IF p < N THEN text[p + 1] ELSE "sp"      \* padded with spaces

-----------------------------------------------------------------------------
(* 64-bit words as sets of bit positions.                                  *)
Bits    == 0..(W - 1)
Not(a)  == Bits \ a
Xor(a, c) == (a \ c) \cup (c \ a)
Shl(a, k) == {p + k : p \in a} \cap Bits
Carry(b)  == IF b THEN {0} ELSE {}
TopBit(a) == W - 1 \in a

(* The number a word stands for, bit by bit.                               *)
Pow[p \in 0..W] == IF p = 0 THEN 1 ELSE 2 * Pow[p - 1]
Word(a) ==
  LET sum[p \in 0..W] ==
        IF p = 0 THEN 0 ELSE sum[p - 1] + (IF p - 1 \in a THEN Pow[p - 1] ELSE 0)
  IN sum[W]
Minus(a, c) == CHOOSE d \in SUBSET Bits : Word(d) = (Word(a) - Word(c)) % Pow[W]

(* classify_scalar.                                                        *)
Classified(p0) ==
  LET all(cs) == {p \in Bits : At(p0 + p) \in cs}
  IN [ws |-> all({"sp", "nl"}), op |-> all({"op", "ff"}), quote |-> all({"quote"}),
      bs |-> all({"bs"}), ctrl |-> all({"nl", "ff", "ctl"})]

(* resolve_escapes: which bytes a backslash escapes; an odd run of         *)
(* backslashes at the end of a block escapes the first byte of the next.   *)
OddBits == {p \in Bits : p % 2 = 1}

NextEscapeAndTerminal(potential) ==
  Xor(Minus(Shl(potential, 1) \cup OddBits, potential), OddBits)

Escapes(bs, next) ==
  LET eat == NextEscapeAndTerminal(bs \ Carry(next))
  IN IF bs = {}
       THEN [escaped |-> Carry(next), next |-> FALSE]
       ELSE [escaped |-> Xor(eat, bs \cup Carry(next)), next |-> TopBit(eat \cap bs)]

(* prefix_xor: the parity of the bits up to each position, by doubling.    *)
Doubled(a, k) == Xor(a, Shl(a, k))
PrefixXor(a) ==
  Doubled(Doubled(Doubled(Doubled(Doubled(Doubled(a, 1), 2), 4), 8), 16), 32)

(* structural_bits_ex: the structural bytes of a block, its bytes in       *)
(* strings, and the carries for the next block.                            *)
Start == [inString |-> FALSE, escaped |-> FALSE, scalar |-> FALSE, ctrl |-> FALSE]

BugFollows(nonquote, s) == Shl(nonquote, 1)       \* a scalar cut by a block
Follows(nonquote, s)    == Shl(nonquote, 1) \cup Carry(s.scalar)

StructuralBits(m, s) ==
  LET esc      == Escapes(m.bs, s.escaped)
      quote    == m.quote \ esc.escaped
      inStr    == Xor(PrefixXor(quote), IF s.inString THEN Bits ELSE {})
      tail     == Xor(inStr, quote)
      scalar   == Not(m.op \cup m.ws)
      nonquote == scalar \ quote
      potential == m.op \cup (scalar \ Follows(nonquote, s))
  IN [bits |-> (potential \ tail) \cup quote \cup ((m.bs \ esc.escaped) \cap inStr),
      inStr |-> inStr,
      st |-> [inString |-> TopBit(inStr), escaped |-> esc.next, scalar |-> TopBit(nonquote),
              ctrl |-> s.ctrl \/ m.ctrl \cap (inStr \ quote) # {}]]

-----------------------------------------------------------------------------
Begin(t, w, b) ==
  /\ text = t /\ W = w /\ job = b
  /\ \/ job = "index" /\ cap = 0 /\ pc \in {"head", "sweep"}
     \/ job = "minify" /\ cap \in {N, Max({0, N - 2})} /\ pc = "sweep"
  /\ i = 0 /\ st = Start
  /\ lag = [base |-> 0, bits |-> {}]
  /\ idx = <<>> /\ out = <<>> /\ res = "run"

Init == \E t \in Texts, w \in Widths, b \in {"index", "minify"} : Begin(t, w, b)

(* The members of S below n, in order.                                     *)
Ascending(S, n) ==
  LET list[p \in 0..n] ==
        IF p = 0 THEN <<>>
        ELSE IF p - 1 \in S THEN Append(list[p - 1], p - 1) ELSE list[p - 1]
  IN list[n]

(* flatten: the positions of a block's bits, in order.                     *)
Flat(base, bits) == Ascending({base + p : p \in bits}, base + W)

(* __index_input with UTF-8 checks starts with a block of its own, padded  *)
(* and masked when the text ends in it.                                    *)
Head0 ==
  LET sb == StructuralBits(Classified(0), st) IN
  /\ pc = "head"
  /\ pc' = "sweep"
  /\ st' = sb.st
  /\ lag' = [base |-> 0, bits |-> {p \in sb.bits : p < N}]
  /\ i' = Min({N, W})
  /\ UNCHANGED <<text, W, job, cap, idx, out, res>>

(* A block of stage 1, the padded tail included: the bits of the block     *)
(* before it are flattened only now.                                       *)
IndexBlock ==
  LET sb == StructuralBits(Classified(i), st) IN
  /\ pc = "sweep" /\ job = "index" /\ i < N
  /\ idx' = idx \o Flat(lag.base, lag.bits)
  /\ lag' = [base |-> i, bits |-> sb.bits]
  /\ st' = sb.st
  /\ i' = i + W
  /\ UNCHANGED <<text, W, job, cap, pc, out, res>>

(* compact: the bytes to keep, run by run; a run that does not fit ends    *)
(* the sweep.                                                              *)
Runs(keep) ==
  {r \in {a..c : a, c \in keep} : r # {} /\ r \subseteq keep
                                  /\ Min(r) - 1 \notin keep /\ Max(r) + 1 \notin keep}

Fitting(w, keep) ==      \* what is copied of keep after w bytes: whole runs
  UNION {r \in Runs(keep) : w + Cardinality({p \in keep : p <= Max(r)}) <= cap}

BugKept(m, inStr) == Not(m.ws)        \* white space in strings too
Kept(m, inStr)    == Not(m.ws) \cup inStr

SweepBlock ==
  LET m    == Classified(i)
      sb   == StructuralBits(m, st)
      keep == {p \in Kept(m, sb.inStr) : i + p < N}
      fit  == Fitting(Len(out), keep)
  IN
  /\ pc = "sweep" /\ job = "minify" /\ i < N
  /\ idx' = idx \o Flat(i, sb.bits)
  /\ out' = out \o Flat(i, fit)
  /\ st' = sb.st
  /\ i' = i + W
  /\ IF fit = keep THEN UNCHANGED <<pc, res>>
                   ELSE pc' = "done" /\ res' = "short_output"
  /\ UNCHANGED <<text, W, job, cap, lag>>

(* The text ends: the last bits, the errors, the two sentinels.            *)
Verdict(s) == IF s.inString \/ s.ctrl THEN "bad_string" ELSE "ok"

End ==
  /\ pc = "sweep" /\ i >= N
  /\ pc' = "done"
  /\ res' = Verdict(st)
  /\ idx' = LET all == idx \o Flat(lag.base, lag.bits)
            IN IF res' = "ok" THEN all \o <<N, N>> ELSE all
  /\ UNCHANGED <<text, W, job, cap, i, st, lag, out>>

Done == pc = "done" /\ UNCHANGED vars

Next == Head0 \/ IndexBlock \/ SweepBlock \/ End \/ Done
Spec == Init /\ [][Next]_vars

-----------------------------------------------------------------------------
(* The same, byte by byte: what escapes what, what lies in a string.       *)
Escaped[p \in 0..N] == p > 0 /\ At(p - 1) = "bs" /\ ~Escaped[p - 1]
Quote(p)  == At(p) = "quote" /\ ~Escaped[p]
Open[p \in 0..N] == IF p = 0 THEN FALSE ELSE Open[p - 1] # Quote(p - 1)  \* before byte p

Blank(p)   == At(p) \in {"sp", "nl"}
IsOp(p)    == At(p) \in {"op", "ff"}
IsScalar(p) == ~Blank(p) /\ ~IsOp(p) /\ ~Quote(p)

(* The bytes stage 2 works on: operators and the first byte of every       *)
(* scalar outside strings, quotes, and the backslashes that begin an       *)
(* escape inside.                                                          *)
Structural(p) ==
  \/ Quote(p)
  \/ ~Open[p] /\ (IsOp(p) \/ (IsScalar(p) /\ (p = 0 \/ ~IsScalar(p - 1))))
  \/ Open[p] /\ At(p) = "bs" /\ ~Escaped[p]

Malformed == \/ Open[N]
             \/ \E p \in 0..(N - 1) : Open[p] /\ ~Quote(p) /\ At(p) \in {"nl", "ff", "ctl"}

InOrder(P(_)) == Ascending({p \in 0..(N - 1) : P(p)}, N)

(* Wherever blocks cut the text, stage 1 finds the structural bytes the    *)
(* text has, byte by byte, in order and once each, ends them with two      *)
(* sentinels, and refuses exactly the texts with an open string or a       *)
(* control character in a string.  (stage1.hpp, structural_bits_ex,        *)
(* __index_input.)                                                         *)
IndexesAreStructural ==
  pc = "done" /\ res # "short_output" =>
    /\ res = IF Malformed THEN "bad_string" ELSE "ok"
    /\ res = "ok" => idx = InOrder(Structural) \o <<N, N>>

(* Minifying keeps every byte but the white space outside strings, in      *)
(* order, and fails for room exactly when these do not fit; it never       *)
(* writes more than there is room for.                                     *)
MinifyStrips ==
  job = "minify" =>
    /\ Len(out) <= cap
    /\ pc = "done" =>
         LET kept == InOrder(LAMBDA p : Open[p] \/ Quote(p) \/ ~Blank(p))
         IN IF Len(kept) > cap THEN res = "short_output" ELSE res # "short_output" /\ out = kept
=============================================================================
