----------------------------- MODULE JsonTokens -----------------------------
(***************************************************************************)
(* What stage 2 reads and writes.  Stage 1 hands it one index per          *)
(* structural byte; here the input is the sequence of lexical units those  *)
(* indexes stand for.  A string is one unit although it owns two indexes   *)
(* or more (its quotes and its escapes), so a position below never exceeds *)
(* the index position of the code.  Slots are numbered from 1 and offsets  *)
(* count slots, where the code counts sizeof(value) bytes; 0 stands for    *)
(* the code's "none".                                                      *)
(***************************************************************************)
EXTENDS Integers, Sequences

Op     == {"{", "}", "[", "]", ",", ":"}
String == {"str", "esc", "badstr"}       \* without escapes, with some, malformed
Number == {"num", "huge", "badnum"}      \* huge: well formed, rounds to infinity
Token  == Op \cup String \cup Number \cup {"lit", "other"}

Opener    == {"{", "["}
Closer(t) == IF t = "{" THEN "}" ELSE "]"
Leaf      == Token \ Op

Error == {"bad_syntax", "bad_number", "bad_string", "depth_exceeded",
          "trailing_garbage", "empty_input", "oom"}

(* The verdict of validate_string, validate_number and validate_literal    *)
(* on the unit at hand.                                                    *)
CheckErr(t) ==
  CASE t = "badstr" -> "bad_string"
    [] t = "badnum" -> "bad_number"
    [] t \in {"str", "esc", "num", "huge", "lit"} -> "ok"
    [] OTHER -> "bad_syntax"

(* The verdict of read_string, read_number and read_literal: read_number   *)
(* also refuses a number that rounds to infinity, unless numbers are kept  *)
(* raw, when validate_number alone is consulted.                           *)
ReadErr(raw, t) == IF t = "huge" /\ ~raw THEN "bad_number" ELSE CheckErr(t)

-----------------------------------------------------------------------------
Kind == {"none", "raw", "literal", "number", "string", "array", "object"}
Sub  == {"", "noesc", "plain"}
Slot == [kind : Kind, sub : Sub, len : Nat, ofs : Nat]

(* A slot the allocator has handed out and nobody has written.             *)
Unset == [kind |-> "none", sub |-> "", len |-> 0, ofs |-> 0]

IsCtn(v)  == v.kind \in {"array", "object"}
CtnKind(t) == IF t = "{" THEN "object" ELSE "array"

(* A leaf read at unit k.  Its payload is where its text starts, as in the  *)
(* code, or the value read there: either way k identifies it.  A string or *)
(* raw token holds TextLen bytes, enough for its share of the write bound  *)
(* to matter.                                                              *)
TextLen == 9

LeafSlot(raw, t, k) ==
  CASE t = "str" -> [kind |-> "string", sub |-> "noesc", len |-> TextLen, ofs |-> k]
    [] t = "esc" -> [kind |-> "string", sub |-> "plain", len |-> TextLen, ofs |-> k]
    [] t \in Number ->
         [kind |-> IF raw THEN "raw" ELSE "number", sub |-> "",
          len |-> IF raw THEN TextLen ELSE 0, ofs |-> k]
    [] OTHER -> [kind |-> "literal", sub |-> "", len |-> 0, ofs |-> k]

EmptyCtn(kd) == [kind |-> kd, sub |-> "", len |-> 0, ofs |-> 1]

-----------------------------------------------------------------------------
(* Walking a finished arena: the span of a slot and the slot after it.     *)
SpanOf(vs, i) == IF IsCtn(vs[i]) THEN vs[i].ofs ELSE 1
GetNext(vs, i) == i + SpanOf(vs, i)
=============================================================================
