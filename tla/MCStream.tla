------------------------------ MODULE MCStream ------------------------------
(***************************************************************************)
(* A small instance of Stream: roots of every kind, keys and children      *)
(* shorter and longer than a buffer.                                       *)
(***************************************************************************)
EXTENDS Stream

Leaf(text)     == [kind |-> "leaf", text |-> text, keys |-> <<>>, kids |-> <<>>]
Array(kids)    == [kind |-> "array", text |-> <<>>, keys |-> <<>>, kids |-> kids]
Object(ks, vs) == [kind |-> "object", text |-> <<>>, keys |-> ks, kids |-> vs]

MCTrees == {
  Leaf(<<"a1", "a2", "a3">>),
  Array(<<Leaf(<<"a">>), Array(<<Leaf(<<"b">>)>>)>>),
  Object(<<<<"k">>, <<"m1", "m2">>>>, <<Leaf(<<"a">>), Array(<<>>)>>)}
=============================================================================
