----------------------------- MODULE WriteEmit ------------------------------
(***************************************************************************)
(* emit_t of write.hpp: the serializer walks the arena once, slot after    *)
(* slot, with a stack of the containers it is inside.  It writes every     *)
(* item with its separator and erases the one separator too many when a    *)
(* container ends.  The output is the sequence of units written, each with *)
(* the payload it came from; w counts its bytes, every scalar at the       *)
(* longest it can be, so that the room reserved beforehand can be judged.  *)
(***************************************************************************)
EXTENDS WriteBounds, SequencesExt

CONSTANTS
  DepthLimit,     \* CJSON_DEPTH_LIMIT
  FallbackDepth   \* 1024, the frames reserved when that is 0

WDepth == IF DepthLimit > 0 THEN DepthLimit ELSE FallbackDepth

VARIABLES
  vs,         \* the arena, which the writer only reads
  pc,         \* "idle", "item", "close" or "done"
  root,       \* slot of the value written
  indent,     \* style.indent, 0 for minified
  room,       \* write_bound: the bytes the output has room for
  cur,        \* next slot
  stack,      \* a frame per open container
  top,        \* t_end, t_obj, t_key: the innermost frame, cached
  out,        \* units written
  w           \* bytes written

outVars == <<root, indent, room>>
vars    == <<vs, pc, root, indent, room, cur, stack, top, out, w>>

Frame == [end : Nat, obj : BOOLEAN, key : BOOLEAN]
NoFrame == [end |-> 0, obj |-> FALSE, key |-> FALSE]

TypeOK ==
  /\ pc \in {"idle", "item", "close", "done"}
  /\ root \in Nat /\ indent \in Nat /\ room \in Nat /\ cur \in Nat
  /\ \A i \in DOMAIN stack : stack[i] \in Frame
  /\ top \in Frame
  /\ w \in Nat

-----------------------------------------------------------------------------
(* The most bytes write_scalar produces: quotes and six per byte of an     *)
(* escaped string, 24 for a number (sign, 17 digits, point, e-308), false. *)
Width(v) ==
  CASE v.kind = "string" -> (IF v.sub = "noesc" THEN v.len ELSE v.len * 6) + 2
    [] v.kind = "raw"    -> v.len
    [] v.kind = "number" -> 24
    [] OTHER             -> 5

Sp == Len(stack)
Newline(d) == IF indent # 0 THEN 1 + d * indent ELSE 0

Unit(t)    == [tok |-> t, at |-> 0]
Text(v)    == [tok |-> v.kind, at |-> v.ofs]

(* The key flag at the head of an iteration: whether this item is a key,   *)
(* and the flag the item leaves behind.                                    *)
IsKeyNow  == Sp # 0 /\ top.obj /\ top.key
BugFlipped == top         \* the flag is never toggled
Flipped   == IF Sp # 0 THEN [top EXCEPT !.key = top.obj /\ ~top.key] ELSE top
LineStart == IF Sp # 0 /\ (IsKeyNow \/ ~top.obj) THEN Newline(Sp) ELSE 0

Begin(r, ind, bytes) ==
  /\ pc = "idle"
  /\ pc' = "item"
  /\ root' = r /\ indent' = ind /\ room' = bytes
  /\ cur' = r
  /\ stack' = <<>> /\ top' = NoFrame
  /\ out' = <<>> /\ w' = 0
  /\ UNCHANGED vs

Open ==
  LET f == [end |-> GetNext(vs, cur), obj |-> vs[cur].kind = "object",
            key |-> vs[cur].kind = "object"]
      synced == IF Sp = 0 THEN stack ELSE [stack EXCEPT ![Sp].key = Flipped.key]
  IN
  /\ pc = "item"
  /\ NonEmpty(vs[cur])
  /\ stack' = Append(synced, f)
  /\ top' = f
  /\ cur' = cur + 1
  /\ out' = Append(out, Unit(IF f.obj THEN "{" ELSE "["))
  /\ w' = w + LineStart + 1
  /\ UNCHANGED <<vs, pc, outVars>>

Empty ==
  LET obj == vs[cur].kind = "object" IN
  /\ pc = "item"
  /\ IsCtn(vs[cur]) /\ ~NonEmpty(vs[cur])
  /\ out' = out \o <<Unit(IF obj THEN "{" ELSE "["), Unit(IF obj THEN "}" ELSE "]"),
                     Unit(",")>>
  /\ w' = w + LineStart + 3
  /\ cur' = GetNext(vs, cur)
  /\ top' = Flipped
  /\ pc' = "close"
  /\ UNCHANGED <<vs, stack, outVars>>

Scalar ==
  /\ pc = "item"
  /\ ~IsCtn(vs[cur])
  /\ out' = out \o <<Text(vs[cur]), Unit(IF IsKeyNow THEN ":" ELSE ",")>>
  /\ w' = w + LineStart + Width(vs[cur]) + (IF IsKeyNow /\ indent # 0 THEN 2 ELSE 1)
  /\ cur' = cur + 1
  /\ top' = Flipped
  /\ pc' = "close"
  /\ UNCHANGED <<vs, stack, outVars>>

(* The innermost container ends here: its closer replaces the separator of *)
(* its last item, and its parent's frame comes back from the stack.        *)
CloseTop ==
  /\ pc = "close"
  /\ Sp # 0 /\ cur = top.end
  /\ stack' = Front(stack)
  /\ top' = IF Sp > 1 THEN stack[Sp - 1] ELSE top
  /\ out' = Front(out) \o <<Unit(IF top.obj THEN "}" ELSE "]"), Unit(",")>>
  /\ w' = w - 1 + Newline(Sp - 1) + 2
  /\ UNCHANGED <<vs, pc, cur, outVars>>

NextItem ==
  /\ pc = "close"
  /\ Sp # 0 /\ cur # top.end
  /\ pc' = "item"
  /\ UNCHANGED <<vs, cur, stack, top, out, w, outVars>>

Finish ==
  LET drop == cur = GetNext(vs, root) /\ Last(out).tok = "," IN
  /\ pc = "close"
  /\ Sp = 0
  /\ out' = IF drop THEN Front(out) ELSE out
  /\ w' = IF drop THEN w - 1 ELSE w
  /\ pc' = "done"
  /\ UNCHANGED <<vs, cur, stack, top, outVars>>

Step == Open \/ Empty \/ Scalar \/ CloseTop \/ NextItem \/ Finish
=============================================================================
