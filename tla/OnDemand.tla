------------------------------ MODULE OnDemand ------------------------------
(***************************************************************************)
(* The on-demand reader (ondemand.hpp): cursors that walk the index of     *)
(* stage 1 with no grammar and no arena.  A cursor is a position in the    *)
(* index; 0 is the dead cursor and a skip that found no end.               *)
(***************************************************************************)
EXTENDS JsonTokens, FiniteSetsExt, SequencesExt

(* The index of a text: the byte at each entry, and the unit it belongs to. *)
(* A string owns its two quotes and the backslashes of its escapes.        *)
Bytes(t) == CASE t = "str" -> <<"quote", "quote">>
              [] t \in String \ {"str"} -> <<"quote", "bs", "quote">>
              [] OTHER -> <<t>>

Index(u) ==
  FlattenSeq([i \in DOMAIN u |-> [n \in DOMAIN Bytes(u[i]) |-> [c |-> Bytes(u[i])[n], u |-> i]]])

Is(x, k, cs)   == k \in DOMAIN x /\ x[k].c \in cs
Past(x, k, c)  == IF Is(x, k, {c}) THEN k + 1 ELSE k

(* The quote that closes the string whose inside begins at k.              *)
BugCloseQuote(x, k) == IF k \in DOMAIN x THEN k ELSE 0     \* no escapes
CloseQuote(x, k) ==
  LET quotes == {p \in k..Len(x) : x[p].c = "quote"}
  IN IF quotes = {} THEN 0 ELSE Min(quotes)

(* cur::skip: the entry after the value at k; Level, after d closers.      *)
RECURSIVE Level(_, _, _)
SkipString(x, k) == LET q == CloseQuote(x, k + 1) IN IF q = 0 THEN 0 ELSE q + 1

Level(x, k, d) ==
  CASE d = 0               -> k
    [] k \notin DOMAIN x   -> 0
    [] Is(x, k, {"quote"}) -> LET e == SkipString(x, k) IN IF e = 0 THEN 0 ELSE Level(x, e, d)
    [] Is(x, k, Opener)     -> Level(x, k + 1, d + 1)
    [] Is(x, k, {"}", "]"}) -> Level(x, k + 1, d - 1)
    [] OTHER               -> Level(x, k + 1, d)

Skip(x, k) ==
  CASE k \notin DOMAIN x   -> 0
    [] Is(x, k, {"quote"}) -> SkipString(x, k)
    [] Is(x, k, Opener)    -> Level(x, k + 1, 1)
    [] OTHER               -> k + 1

(* The value of the member whose key opens at k, and the entry the next    *)
(* member or element begins at.                                            *)
ValueOf(x, k) == LET e == Skip(x, k) IN IF e = 0 THEN 0 ELSE Past(x, e, ":")
Following(x, k) == LET e == Skip(x, k) IN IF e = 0 THEN 0 ELSE Past(x, e, ",")

(* cur::operator[]: match is the keys, by their units, whose raw bytes are *)
(* the name.                                                               *)
RECURSIVE FindFrom(_, _, _), ElementFrom(_, _, _), CountFrom(_, _, _)
FindFrom(x, k, match) ==
  LET v == ValueOf(x, k) IN
  CASE ~Is(x, k, {"quote"}) -> 0
    [] v = 0                -> 0
    [] x[k].u \in match     -> v
    [] OTHER                -> FindFrom(x, Following(x, v), match)

Member(x, k, match) == IF Is(x, k, {"{"}) THEN FindFrom(x, k + 1, match) ELSE 0

(* cur::at.                                                                *)
ElementFrom(x, k, i) ==
  CASE k \notin DOMAIN x \/ Is(x, k, {"]"}) -> 0
    [] i = 0 -> k
    [] OTHER -> ElementFrom(x, Following(x, k), i - 1)

Element(x, k, i) == IF Is(x, k, {"["}) THEN ElementFrom(x, k + 1, i) ELSE 0

(* cur::count: until the closer, or a walk that fails.                     *)
CountFrom(x, k, opener) ==
  LET v    == IF opener = "{" THEN ValueOf(x, k) ELSE k
      next == IF v = 0 THEN 0 ELSE Following(x, v)
  IN CASE k \notin DOMAIN x \/ Is(x, k, {Closer(opener)}) -> 0
       [] next = 0 -> 0
       [] OTHER    -> 1 + CountFrom(x, next, opener)

Count(x, k) == IF Is(x, k, Opener) THEN CountFrom(x, k + 1, x[k].c) ELSE 0

(* cur_arr_iter and cur_obj_iter: the cursors a range loop yields, an      *)
(* object's with their keys.                                               *)
RECURSIVE ItemsFrom(_, _), MembersFrom(_, _)
ItemsFrom(x, k) ==
  IF k \notin DOMAIN x \/ Is(x, k, {"]"}) THEN <<>>
  ELSE <<k>> \o ItemsFrom(x, Following(x, k))

MembersFrom(x, k) ==
  LET v == ValueOf(x, k) IN
  IF ~Is(x, k, {"quote"}) THEN <<>>
  ELSE <<[key |-> k, v |-> v]>> \o (IF v = 0 THEN <<>> ELSE MembersFrom(x, Following(x, v)))

Items(x, k)   == IF Is(x, k, {"["}) THEN ItemsFrom(x, k + 1) ELSE <<>>
Members(x, k) == IF Is(x, k, {"{"}) THEN MembersFrom(x, k + 1) ELSE <<>>

(* cur::__span: first and last unit of the container at k.                 *)
Span(x, k) ==
  LET e == Skip(x, k) IN
  IF Is(x, k, Opener) /\ e # 0 THEN <<x[k].u, x[e - 1].u>> ELSE <<0, 0>>

(* cur::at_pointer: a segment is a name, that of the keys in seg.keys, and *)
(* the number its digits make, -1 when they make none.                     *)
RECURSIVE AtPointer(_, _, _)
Segment(x, k, seg) ==
  IF Is(x, k, {"["}) /\ seg.num >= 0 THEN Element(x, k, seg.num) ELSE Member(x, k, seg.keys)

AtPointer(x, k, path) ==
  IF path = <<>> \/ k = 0 THEN k ELSE AtPointer(x, Segment(x, k, Head(path)), Tail(path))
=============================================================================
