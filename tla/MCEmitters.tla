----------------------------- MODULE MCEmitters -----------------------------
(***************************************************************************)
(* A small instance of Emitters.                                           *)
(***************************************************************************)
EXTENDS Emitters

Ask(op, unit) == [op |-> op, unit |-> unit]

MCSubtrees == {
  <<Ask("value", "num")>>,
  <<Ask("open", "{"), Ask("end", "")>>,
  <<Ask("open", "["), Ask("value", "str"), Ask("value", "num"), Ask("end", "")>>,
  <<Ask("open", "{"), Ask("key", "str"), Ask("open", "["), Ask("end", ""), Ask("end", "")>>}
=============================================================================
