---------------------------- MODULE WriteBounds -----------------------------
(***************************************************************************)
(* The room the writer reserves before it emits a value: walks over a      *)
(* finished arena (write.hpp), which the accumulators of the parser and    *)
(* the bookkeeping of the mutators stand in for.                           *)
(***************************************************************************)
EXTENDS JsonTokens, FiniteSetsExt

(* w[i] + ... + w[j], positions counted from 1.                            *)
SumOver(w, i, j) ==
  LET sum[k \in Nat] == IF k < i THEN 0 ELSE sum[k - 1] + w[k] IN sum[j]

(* bound_slots: the flat bound, summed over the slots of the value.        *)
BugSlotBound(v) ==       \* escapes not allowed for
  CASE v.kind = "string" -> v.len + 4
    [] v.kind = "raw"    -> v.len + 12
    [] v.kind = "number" -> 42
    [] OTHER             -> 12

SlotBound(v) ==
  CASE v.kind = "string" -> (IF v.sub = "noesc" THEN v.len ELSE v.len * 6) + 4
    [] v.kind = "raw"    -> v.len + 12
    [] v.kind = "number" -> 42
    [] OTHER             -> 12

BoundSlots(vals, r) ==
  32 + SumOver([i \in DOMAIN vals |-> SlotBound(vals[i])], r, GetNext(vals, r) - 1)

(* pretty_extra: a line and an indent per slot, and one more line for the  *)
(* closer of a non-empty container.  The walk keeps the ends of the        *)
(* containers it is inside; how many there are is all it reads of them.    *)
NonEmpty(v) == IsCtn(v) /\ v.len # 0

Inside(vals, r, i) ==
  {c \in r..(i - 1) : NonEmpty(vals[c]) /\ i < GetNext(vals, c)}

PrettyCost(vals, r, ind, i) ==
  LET d       == Cardinality(Inside(vals, r, i))
      line(n) == 1 + n * ind
  IN IF NonEmpty(vals[i]) THEN line(d + 1) + 2 + line(d) ELSE line(d) + 2

PrettyExtra(vals, r, ind) ==
  IF ind = 0
    THEN 0
    ELSE 8 + SumOver([i \in DOMAIN vals |-> PrettyCost(vals, r, ind, i)],
                     r, GetNext(vals, r) - 1)

(* write_bound of a document, from the parser's accumulators when it kept  *)
(* them and from the walks otherwise.                                      *)
WriteBound(vals, parts, ind) ==
  IF parts.flat # 0
    THEN parts.flat + (IF ind # 0 THEN parts.pc + ind * parts.pk ELSE 0)
    ELSE BoundSlots(vals, 1) + PrettyExtra(vals, 1, ind)

=============================================================================
