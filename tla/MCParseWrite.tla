---------------------------- MODULE MCParseWrite ----------------------------
(***************************************************************************)
(* Small instances of ParseWriteText.                                      *)
(***************************************************************************)
EXTENDS ParseWriteText

CONSTANTS
  MaxAny,     \* every sequence of so many units
  MaxDoc,     \* every document of so many
  MaxEdit     \* every near miss of a document of so many

G == INSTANCE TextGen

MCInputs == G!Texts(MaxAny, MaxDoc, MaxEdit)

Plain == [raw |-> FALSE, stop |-> FALSE, bounds |-> FALSE, located |-> FALSE,
          fixed |-> FALSE, cap |-> 0, maxDepth |-> 0]

RawBounds == [Plain EXCEPT !.raw = TRUE, !.bounds = TRUE]
Stopping  == [Plain EXCEPT !.stop = TRUE, !.raw = TRUE]
Fixed(n, d) == [Plain EXCEPT !.fixed = TRUE, !.bounds = TRUE, !.located = TRUE,
                             !.cap = n, !.maxDepth = d, !.raw = TRUE]

MCOptions == {Plain, RawBounds, Stopping, Fixed(3, 2), Fixed(6, 1)}
OnlyPlain == {Plain}
=============================================================================
