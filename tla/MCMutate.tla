------------------------------ MODULE MCMutate -------------------------------
(***************************************************************************)
(* Small instances of Mutate: a few parsed documents, every way of having  *)
(* parsed them, and every sequence of edits within the bounds.             *)
(***************************************************************************)
EXTENDS MutateTree

Str(n, ofs)      == [kind |-> "string", sub |-> "noesc", len |-> n, ofs |-> ofs]
Raw(n, ofs)      == [kind |-> "raw", sub |-> "", len |-> n, ofs |-> ofs]
Num(id)          == [kind |-> "number", sub |-> "", len |-> 0, ofs |-> id]
Ctn(kd, n, span) == [kind |-> kd, sub |-> "", len |-> n, ofs |-> span]

(* {"a":["bb"]}; {"a":[77]} and 77 with raw numbers; [ [""] ].  A pool is  *)
(* the text it was parsed from; in the first two only the part that        *)
(* strings and numbers stand in is kept.                                   *)
Member(v, last) == [vs |-> <<Ctn("object", 1, 4), Str(1, 1), Ctn("array", 1, 2), v>>,
                    pool |-> <<"a", Nul>> \o last]
Nested     == Member(Str(2, 3), <<"b", "b", Nul>>)
RawNumbers == Member(Raw(2, 3), <<"7", "7", "]">>)
RawRoot    == [vs |-> <<Raw(2, 1)>>, pool |-> <<"7", "7">>]
Rows       == [vs |-> <<Ctn("array", 1, 3), Ctn("array", 1, 2), Str(0, 5)>>,
               pool |-> <<"[", " ", "[", "q", Nul, "]", " ", "]">>]

MCDocs  == {Nested, RawNumbers, RawRoot, Rows}
MCModes == [borrowed : BOOLEAN, hasPool : BOOLEAN, kept : {TRUE}]

Filled  == {Nested, Rows}
Pooled  == {m \in MCModes : m.hasPool}

MCChars   == {"a", "b", "q", "7", "[", "]", " ", Nul}
MCTexts   == {<<"a">>, <<"b", "q">>}
MCScalars == {Num(5)}

(* No guard reads the call or the sticky error: states that differ only in *)
(* them are one where no property depends on them, and states that differ  *)
(* only in the last call are one where the error matters.                  *)
StoreView == <<vs, pool, store, wb>>
DocView   == <<vs, pool, store, wb, merr>>
=============================================================================
