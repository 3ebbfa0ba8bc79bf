----------------------------- MODULE ParseWrite -----------------------------
(***************************************************************************)
(* One text through the library: validate, then parse (stage 2), then      *)
(* write the document, or any value inside it, back.  The three machines   *)
(* are separate code; what relates them is only the text and the arena.    *)
(***************************************************************************)
EXTENDS Twins

CONSTANT Indents         \* style.indent

ASSUME IndentsAssumption == Indents \subseteq Nat

(* parse_into refuses a limit the writer's stack has no frames for         *)
(* (fixed.hpp:46).                                                         *)
ASSUME FixedDepthAssumption ==
  \A o \in Options :
    o.fixed => o.maxDepth <= (IF DepthLimit > 0 THEN DepthLimit ELSE FallbackDepth)

VARIABLES pc, root, indent, room, cur, stack, top, out, w     \* of the writer

outVars == <<pc, root, indent, room, cur, stack, top, out, w>>
allVars == <<vars, valVars, outVars>>

W == INSTANCE WriteEmit

CallInit ==
  /\ Init
  /\ V!Start
  /\ pc = "idle" /\ root = 0 /\ indent = 0 /\ room = 0 /\ cur = 0
  /\ stack = <<>> /\ top = W!NoFrame /\ out = <<>> /\ w = 0

CallValidate == UNCHANGED <<vars, outVars>> /\ V!Step

CallParse == vRes # "run" /\ Step /\ UNCHANGED <<valVars, outVars>>

(* A key slot is no value: a val never refers to one.                      *)
IsKeySlot(i) ==
  \E c \in 1..vi :
    /\ vs[c].kind = "object"
    /\ LET kids == ChildrenOf(Slots, c) IN i \in kids /\ Rank(kids, i) % 2 = 1

WriteDoc ==
  /\ res = "ok"
  /\ \E ind \in Indents :
       W!Begin(1, ind, WriteBound(vs, IF opt.bounds THEN wb ELSE [wb EXCEPT !.flat = 0], ind))
  /\ UNCHANGED <<vars, valVars>>

WriteVal ==
  /\ res = "ok"
  /\ \E r \in 2..vi, ind \in Indents :
       /\ ~IsKeySlot(r)
       /\ W!Begin(r, ind, BoundSlots(vs, r) + PrettyExtra(vs, r, ind))
  /\ UNCHANGED <<vars, valVars>>

CallWrite == W!Step /\ UNCHANGED <<vars, valVars>>

CallStep == CallValidate \/ CallParse \/ WriteDoc \/ WriteVal \/ CallWrite

Finished == res \notin {"run", "ok"} \/ pc = "done"
CallDone == Finished /\ UNCHANGED allVars

CallNext == CallStep \/ CallDone
CallSpec == CallInit /\ [][CallNext]_allVars
FairCallSpec == CallSpec /\ WF_allVars(CallStep)
-----------------------------------------------------------------------------
(* The writer never passes the end of the room write_bound asked for, the  *)
(* separator it is about to erase included.                                *)
BytesFit == w <= room

(* The writer's stack of frames, sized by the depth limit, is never too    *)
(* small for a parsed document.                                            *)
FramesFit == Len(stack) <= W!WDepth

(* A depth limit of 0 means no limit: no text is refused for its depth.    *)
(* (config.hpp: "nesting depth cap; 0 folds the counter away entirely".)   *)
UncappedWhenFolded == DepthLimit = 0 => "depth_exceeded" \notin {res, vRes}

(* Every text is eventually answered and, once parsed, written.            *)
Terminates == <>Finished
=============================================================================
