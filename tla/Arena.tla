------------------------------- MODULE Arena --------------------------------
(***************************************************************************)
(* What a finished arena looks like, said of its slots one by one: which   *)
(* slot encloses which, and nothing by recursion on the structure.         *)
(* JsonGrammar says the same by recursion.                                 *)
(***************************************************************************)
EXTENDS JsonTokens, FiniteSets

(* Slot j stands inside container c; it is a child of c, a key included,   *)
(* when it stands inside nothing else there.                               *)
Encloses(v, c, j) == IsCtn(v[c]) /\ c < j /\ j < GetNext(v, c)

ChildrenOf(v, c) ==
  {j \in DOMAIN v : /\ Encloses(v, c, j)
                    /\ \A d \in DOMAIN v : ~(Encloses(v, c, d) /\ Encloses(v, d, j))}

(* How many members of S come up to j: the number of child j among S.      *)
Rank(S, j) == Cardinality({m \in S : m <= j})

(* Spans nest, and the first slot roots the whole arena.                   *)
WellNested(v) ==
  /\ v \in Seq(Slot) /\ v # <<>>
  /\ GetNext(v, 1) = Len(v) + 1
  /\ \A c \in DOMAIN v : IsCtn(v[c]) => v[c].ofs >= 1 /\ GetNext(v, c) <= Len(v) + 1
  /\ \A c, d \in DOMAIN v : Encloses(v, c, d) => GetNext(v, d) <= GetNext(v, c)

(* Lengths count children, an object's in pairs of a key and a value.      *)
CountsChildren(v, c) ==
  Cardinality(ChildrenOf(v, c)) = IF v[c].kind = "object" THEN 2 * v[c].len ELSE v[c].len

Keyed(v, c) ==
  v[c].kind = "object" =>
    \A j \in ChildrenOf(v, c) : Rank(ChildrenOf(v, c), j) % 2 = 1 => v[j].kind = "string"

WellFormedArena(v) ==
  /\ WellNested(v)
  /\ \A c \in DOMAIN v : IsCtn(v[c]) => CountsChildren(v, c) /\ Keyed(v, c)

(* The texts of an arena over a pool p stand in it apart from each other,  *)
(* each with a byte of its own behind it, where a terminator may be put:   *)
(* the quote or the separator that followed it when it was parsed.  Only a *)
(* raw number that is all there is may have no such byte.                  *)
IsText(s) == s.kind \in {"string", "raw"}

TextsApart(v, p) ==
  \A i \in DOMAIN v : IsText(v[i]) =>
    /\ v[i].ofs >= 1
    /\ v[i].ofs + v[i].len <= (IF Len(v) = 1 THEN Len(p) + 1 ELSE Len(p))
    /\ \A j \in DOMAIN v : (IsText(v[j]) /\ j # i) =>
         \/ v[i].ofs + v[i].len < v[j].ofs
         \/ v[j].ofs + v[j].len < v[i].ofs
=============================================================================
