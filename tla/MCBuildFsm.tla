----------------------------- MODULE MCBuildFsm -----------------------------
(***************************************************************************)
(* A small instance of Twins: every unit sequence of MaxAny units, the     *)
(* documents of MaxDoc and the near misses of those of MaxEdit.            *)
(***************************************************************************)
EXTENDS Twins

CONSTANTS MaxAny, MaxDoc, MaxEdit

G == INSTANCE TextGen

MCInputs == G!Texts(MaxAny, MaxDoc, MaxEdit)

Plain == [raw |-> FALSE, stop |-> FALSE, bounds |-> TRUE, located |-> FALSE,
          fixed |-> FALSE, cap |-> 0, maxDepth |-> 0]

Fixed(n, d) == [Plain EXCEPT !.fixed = TRUE, !.located = TRUE, !.cap = n, !.maxDepth = d]

Stopping == [Plain EXCEPT !.raw = TRUE, !.stop = TRUE]

MCOptions == {Plain, Stopping, Fixed(3, 2), Fixed(7, 4)}
=============================================================================
