----------------------------- MODULE MCDocHeap ------------------------------
(***************************************************************************)
(* A small instance of DocHeap.  States that differ only in which numbers  *)
(* their blocks and parses have, or in the last call, are taken for one:   *)
(* no guard tells numbers apart, a document that has lost what it borrowed *)
(* can only be dropped or moved, and a step is checked against its own     *)
(* call.  What the view keeps of a state is who has which array, at which  *)
(* capacity, who borrows from whom, what is lost, how many parses were     *)
(* made, and whether the invariants hold.                                  *)
(***************************************************************************)
EXTENDS DocHeap, TLC

LenderOf(b, f) == {s \in Scratches : b # None /\ scr[s].blk[f] = b}

DocView(dc) ==
  IF Alive(dc) /\ dc.borrowed /\ ~Intact(dc)
    THEN <<"lost">>
    ELSE <<Alive(dc), dc.borrowed, Intact(dc), dc.pool # None, dc.alias,
           dc.vals = Store, LenderOf(dc.vals, "vals"), LenderOf(dc.pool, "pool")>>

Shape ==
  <<[d \in Docs |-> DocView(docs[d])],
    [s \in Scratches |-> scr[s].cap],
    IF view = NoView THEN <<"none">> ELSE <<ViewIntact, LenderOf(view.idx, "idx")>>,
    parses, OneOwner, OwnersKeep>>

Interchangeable == Permutations(Docs) \cup Permutations(Scratches)
=============================================================================
