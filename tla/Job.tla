-------------------------------- MODULE Job ---------------------------------
(***************************************************************************)
(* One document's turn at the sink: write_to makes the calls of a plan one *)
(* after the other and gives up at the first that is refused or finds the  *)
(* sink failed; then the sink is drained, and drained again by its         *)
(* destructor (stream_file).  Stream has the plans of documents.           *)
(***************************************************************************)
EXTENDS Sink, Sequences

VARIABLES
  plan,       \* auxiliary: the calls write_to makes if none is refused
  todo,       \* those it has yet to make
  wres,       \* what write_to answered: "run", "ok" or an error
  drains      \* drains begun

jobVars == <<vars, plan, todo, wres, drains>>

(* A call stages a text for which it asks room at once, or puts it byte by *)
(* byte, from the overflow slab if it is long.                             *)
SinkCall ==
  {c \in [room : Nat \ {0}, cells : Seq(STRING), slab : BOOLEAN] :
     /\ c.cells # <<>>
     /\ IF c.slab THEN c.room = 1 ELSE Len(c.cells) <= c.room}

(* A key longer than a buffer is refused (short_output) on the way.        *)
Refused(call) == call.room > chunk

JobInit ==
  /\ Init
  /\ plan \in Seq(SinkCall)
  /\ todo = plan /\ wres = "run" /\ drains = 0

Writing == wres = "run" /\ pc = "idle"

NextCall ==
  /\ Writing /\ err = "ok" /\ todo # <<>>
  /\ LET call == Head(todo) IN
     \/ /\ ~Refused(call)
        /\ Call(call.room, Len(call.cells))
        /\ todo' = Tail(todo)
        /\ UNCHANGED wres
     \/ /\ call.slab /\ SlabFails
        /\ todo' = Tail(todo)
        /\ UNCHANGED wres
     \/ /\ Refused(call)
        /\ wres' = "short_output"
        /\ UNCHANGED <<vars, todo>>
  /\ UNCHANGED <<plan, drains>>

(* write_to answers: the sink's error, or that all is staged.              *)
Written ==
  /\ Writing
  /\ err # "ok" \/ todo = <<>>
  /\ wres' = err
  /\ UNCHANGED <<vars, plan, todo, drains>>

DrainOnce ==
  /\ wres # "run" /\ drains < 2
  /\ Drain
  /\ drains' = drains + 1
  /\ UNCHANGED <<plan, todo, wres>>

JobWorker == \/ NextCall \/ Written \/ DrainOnce
             \/ Worker /\ UNCHANGED <<plan, todo, wres, drains>>
JobKernel == Kernel /\ UNCHANGED <<plan, todo, wres, drains>>

(* After the destructor's drain and the last completion nothing is left to *)
(* do.                                                                     *)
JobNext == JobWorker \/ JobKernel
JobSpec == JobInit /\ [][JobNext]_jobVars

-----------------------------------------------------------------------------
(* The bytes of the first k calls.                                         *)
BytesUpTo ==
  LET upto[k \in 0..Len(plan)] ==
        IF k = 0 THEN 0 ELSE upto[k - 1] + Len(plan[k].cells)
  IN upto

(* When write_to and the drain after it both answer that all is well,      *)
(* every byte of every call is in the file, each in its place, and nothing *)
(* else is.                                                                *)
AllInFile ==
  wres = "ok" /\ ret.res = "ok" =>
    /\ ret.n = BytesUpTo[Len(plan)]
    /\ DOMAIN file = 0..(ret.n - 1)
    /\ \A p \in DOMAIN file : file[p] = p
=============================================================================
