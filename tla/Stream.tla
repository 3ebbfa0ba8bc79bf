------------------------------- MODULE Stream -------------------------------
(***************************************************************************)
(* stream_file: one document through the sink.  write_to splits the root   *)
(* into its children, so that each is staged in one piece when it fits a   *)
(* buffer and goes through the overflow slab when it does not; the         *)
(* separators of the root are its own.  Then the sink is drained, and      *)
(* drained again by its destructor.                                        *)
(*                                                                         *)
(* A text is a sequence of cells: a structural character, a line break, a  *)
(* space, or a part of a scalar.  A tree is [kind, text, keys, kids]; the  *)
(* writer's bound on a text is its length and some slack.                  *)
(***************************************************************************)
EXTENDS Job, SequencesExt

CONSTANTS
  Trees,      \* documents
  Indents,    \* style.indent
  Slacks      \* by how much write_bound may exceed the text

VARIABLES
  doc, indent, slack,
  whole       \* write_to(doc) rather than write_to(val)

docVars == <<doc, indent, slack, whole>>
allVars == <<jobVars, docVars>>

-----------------------------------------------------------------------------
(* emit: the text of a tree whose container is depth deep (module          *)
(* WriteEmit has the machine; its output is this recursion).               *)
Opening(t) == IF t.kind = "object" THEN "{" ELSE "["
Closing(t) == IF t.kind = "object" THEN "}" ELSE "]"

Newline(depth) ==
  IF indent = 0 THEN <<>> ELSE <<"nl">> \o [i \in 1..(depth * indent) |-> "sp"]

RECURSIVE Emit(_, _)
Emit(t, depth) ==
  LET item(i) == Newline(depth + 1)
                   \o (IF t.kind = "object"
                         THEN t.keys[i] \o <<":">> \o (IF indent = 0 THEN <<>> ELSE <<"sp">>)
                         ELSE <<>>)
                   \o Emit(t.kids[i], depth + 1)
                   \o (IF i = Len(t.kids) THEN Newline(depth) ELSE <<",">>)
  IN IF t.kind = "leaf"
       THEN t.text
       ELSE <<Opening(t)>> \o FlattenSeq([i \in DOMAIN t.kids |-> item(i)]) \o <<Closing(t)>>

Text == Emit(doc, 0)
Bound(cells) == Len(cells) + slack

(* The calls write_to makes: stage a text the sink has room for at once,   *)
(* put one byte, or put the contents of the slab.                          *)
Staged(b, cells) == [room |-> b, cells |-> cells, slab |-> FALSE]
Byte(c)          == [room |-> 1, cells |-> <<c>>, slab |-> FALSE]
Oversized(cells) == [room |-> 1, cells |-> cells, slab |-> TRUE]

One(t, extra) ==
  LET cells == Emit(t, 0)
      b     == Bound(cells) + extra
  IN IF b <= chunk THEN Staged(b, cells) ELSE Oversized(cells)

BugSeparated(i) == <<Byte(",")>>      \* a separator before the first item too
Separated(i)    == IF i = 1 THEN <<>> ELSE <<Byte(",")>>

Child(i) ==
  Separated(i)
    \o (IF doc.kind = "object" THEN <<Staged(Bound(doc.keys[i]), doc.keys[i]), Byte(":")>>
                               ELSE <<>>)
    \o <<One(doc.kids[i], 1)>>

Calls ==
  CASE ~whole                   -> <<One(doc, 0)>>
    [] Bound(Text) <= chunk     -> <<Staged(Bound(Text), Text)>>
    [] doc.kind = "leaf"        -> <<Oversized(Text)>>
    [] OTHER -> <<Byte(Opening(doc))>>
                  \o FlattenSeq([i \in DOMAIN doc.kids |-> Child(i)])
                  \o <<Byte(Closing(doc))>>

-----------------------------------------------------------------------------
StreamInit ==
  /\ doc \in Trees /\ indent \in Indents /\ slack \in Slacks /\ whole \in BOOLEAN
  /\ Init /\ plan = Calls
  /\ JobInit

StreamWorker == JobWorker /\ UNCHANGED docVars
StreamKernel == JobKernel /\ UNCHANGED docVars
StreamNext   == StreamWorker \/ StreamKernel

(* The thread runs on, without counting on a failure to end a wait, and    *)
(* the kernel completes what it was given.                                 *)
StreamSpec == StreamInit /\ [][StreamNext]_allVars
                /\ WF_allVars(StreamWorker /\ UNCHANGED faults)
                /\ WF_allVars(StreamKernel)

-----------------------------------------------------------------------------
(* The cells behind the bytes of the log.                                  *)
Sent == FlattenSeq([i \in DOMAIN plan |-> plan[i].cells])

(* A document that streams without an error is, in the file, the text the  *)
(* writer gives for it, at every buffer size.  (flash.hpp, write_to; the   *)
(* claim at the head of tests/flash.cpp.)                                  *)
StreamedIsWritten ==
  wres = "ok" /\ ret.res = "ok" =>
    [i \in 1..ret.n |-> IF i - 1 \in DOMAIN file THEN Sent[file[i - 1] + 1] ELSE "hole"] = Text

(* Every call on the sink returns, drain and the destructor included:      *)
(* whatever fails, no wait is for a completion that never comes.           *)
CallsReturn == (pc # "idle") ~> (pc = "idle")
=============================================================================
