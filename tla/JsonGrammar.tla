---------------------------- MODULE JsonGrammar -----------------------------
(***************************************************************************)
(* The grammar of RFC 8259 over lexical units, and what a finished arena   *)
(* must look like, both stated by recursion on the structure: the          *)
(* reference the machines of parse.hpp and write.hpp, which have no        *)
(* recursion, are compared with.                                           *)
(***************************************************************************)
EXTENDS JsonTokens, FiniteSets

IsLeaf(u, i, raw) == u[i] \in Leaf /\ ReadErr(raw, u[i]) = "ok"

(* Units i to j - 1 of u are one value nesting at most d non-empty         *)
(* containers; IsList, one or more elements or members of one container.   *)
RECURSIVE IsValue(_, _, _, _, _), IsList(_, _, _, _, _, _)

IsMember(u, i, j, d, raw) ==
  /\ i + 2 < j
  /\ u[i] \in String /\ IsLeaf(u, i, raw)
  /\ u[i + 1] = ":"
  /\ IsValue(u, i + 2, j, d, raw)

IsValue(u, i, j, d, raw) ==
  \/ j = i + 1 /\ IsLeaf(u, i, raw)
  \/ j = i + 2 /\ u[i] \in Opener /\ u[i + 1] = Closer(u[i])
  \/ /\ j > i + 2 /\ d > 0
     /\ u[i] \in Opener /\ u[j - 1] = Closer(u[i])
     /\ IsList(u, i + 1, j - 1, d - 1, raw, u[i])

IsList(u, i, j, d, raw, opener) ==
  LET IsItem(a, b) == IF opener = "{" THEN IsMember(u, a, b, d, raw)
                                      ELSE IsValue(u, a, b, d, raw)
  IN \/ IsItem(i, j)
     \/ \E m \in (i + 1)..(j - 2) :
          u[m] = "," /\ IsItem(i, m) /\ IsList(u, m + 1, j, d, raw, opener)

(* A value has at most one end: no value is a proper prefix of another.    *)
ValueEnds(u, i, d, raw) == {j \in (i + 1)..(Len(u) + 1) : IsValue(u, i, j, d, raw)}

(* The units that own a slot, and the slots a stretch of units needs.      *)
SlotUnits(u, i, j) == {m \in i..(j - 1) : u[m] \in Leaf \cup Opener}
SlotsOf(u, i, j)   == Cardinality(SlotUnits(u, i, j))

-----------------------------------------------------------------------------
(* Slot i of a finished arena roots a well formed value: the children of a *)
(* container, walked by their spans, are as many as its length says, end   *)
(* exactly where its own span ends, and in an object every key is a        *)
(* string.                                                                 *)
RECURSIVE WellFormed(_, _), Children(_, _, _)

(* The slots of the children from slot c up to e, in order.                *)
Children(vs, c, e) ==
  IF c >= e THEN <<>> ELSE <<c>> \o Children(vs, GetNext(vs, c), e)

WellFormed(vs, i) ==
  IsCtn(vs[i]) =>
    LET end  == GetNext(vs, i)
        kids == Children(vs, i + 1, end)
        n    == Len(kids)
    IN /\ vs[i].ofs >= 1
       /\ end - 1 \in DOMAIN vs
       /\ IF n = 0 THEN end = i + 1 ELSE GetNext(vs, kids[n]) = end
       /\ \A c \in 1..n : WellFormed(vs, kids[c])
       /\ IF vs[i].kind = "array"
            THEN n = vs[i].len
            ELSE /\ n = 2 * vs[i].len
                 /\ \A c \in 1..n : c % 2 = 1 => vs[kids[c]].kind = "string"
=============================================================================
