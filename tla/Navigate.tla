------------------------------ MODULE Navigate ------------------------------
(***************************************************************************)
(* val, the handle on a value of a parsed document (doc.hpp): navigation   *)
(* over the slots of the arena.  A val is the slot it refers to, 0 the     *)
(* empty one.  Segments of a pointer are those of OnDemand.                *)
(***************************************************************************)
EXTENDS JsonTokens

(* arr_is_flat: no element is a container with children, so that element n *)
(* is the n-th slot.                                                       *)
BugFlat(v) == v.len <= v.ofs
Flat(v)    == v.len + 1 = v.ofs

RECURSIVE MemberFrom(_, _, _, _), Ahead(_, _, _), Pointed(_, _, _)

(* val::operator[](key): of the pairs still to see, the first whose key is *)
(* in match, by the unit it was read from: the keys whose text, without    *)
(* its escapes, is the name.                                               *)
MemberFrom(vs, s, pairs, match) ==
  CASE pairs = 0          -> 0
    [] vs[s].ofs \in match -> s + 1
    [] OTHER              -> MemberFrom(vs, GetNext(vs, s + 1), pairs - 1, match)

Member(vs, r, match) ==
  IF vs[r].kind = "object" THEN MemberFrom(vs, r + 1, vs[r].len, match) ELSE 0

(* val::operator[](i).                                                     *)
Ahead(vs, s, n) == IF n = 0 THEN s ELSE Ahead(vs, GetNext(vs, s), n - 1)

Element(vs, r, i) ==
  CASE vs[r].kind # "array" \/ i >= vs[r].len -> 0
    [] Flat(vs[r]) -> r + 1 + i
    [] OTHER       -> Ahead(vs, r + 1, i)

(* val::at_pointer.                                                        *)
Segment(vs, r, seg) ==
  IF vs[r].kind = "array" /\ seg.num >= 0 THEN Element(vs, r, seg.num)
                                          ELSE Member(vs, r, seg.keys)

Pointed(vs, r, path) ==
  IF path = <<>> \/ r = 0 THEN r ELSE Pointed(vs, Segment(vs, r, Head(path)), Tail(path))
=============================================================================
