------------------------------ MODULE Emitters ------------------------------
(***************************************************************************)
(* The two emitters that take a document call by call: builder, which      *)
(* appends to a string that grows, writes a separator after every value    *)
(* and takes the last one back when a container ends; and fixed_writer,    *)
(* which fills the caller's bytes, writes a separator before every value   *)
(* but the first and refuses what does not fit.  Both track nesting by     *)
(* themselves, the builder in a bitset, the writer in a stack of frames,   *)
(* and both stay failed once a call was refused.  Every call is made on    *)
(* both.                                                                   *)
(*                                                                         *)
(* A text is a sequence of the units of JsonTokens; "badstr" is a string   *)
(* that is not UTF-8, which the writer refuses and the builder copies.     *)
(***************************************************************************)
EXTENDS JsonGrammar, SequencesExt

CONSTANTS
  MaxDepth,     \* depth_limit, the builder's
  Depth,        \* of fixed_writer
  Capacities,   \* of the writer's output
  Subtrees,     \* values copied from a document: sequences of calls
  MaxUnits      \* bound: units in the builder's text

VARIABLES
  b,      \* builder:      [out, bits, depth, key, err]
  f,      \* fixed_writer: [out, stack, root, err]
  cap     \* bytes of the writer's output

vars == <<b, f, cap>>

NewBuilder == [out |-> <<>>, bits |-> [l \in 0..(MaxDepth - 1) |-> FALSE], depth |-> 0,
               key |-> FALSE, err |-> "ok"]
NewWriter  == [out |-> <<>>, stack |-> <<>>, root |-> FALSE, err |-> "ok"]

(* A call: what is asked for, and the unit it adds.                        *)
Calls ==
  {[op |-> "open", unit |-> u] : u \in Opener}
    \cup {[op |-> "end", unit |-> ""]}
    \cup {[op |-> "key", unit |-> u] : u \in {"str", "badstr"}}
    \cup {[op |-> "value", unit |-> u] : u \in {"str", "badstr", "num", "lit"}}

(* Bytes of a unit: two quotes and a byte, digits, null.                   *)
Width(u) == CASE u \in String -> 3 [] u = "num" -> 2 [] u = "lit" -> 4 [] OTHER -> 1
Size(t)  == FoldLeft(LAMBDA n, u : n + Width(u), 0, t)

-----------------------------------------------------------------------------
(* builder.                                                                *)
TopObj(s) == s.depth # 0 /\ s.bits[s.depth - 1]

ValueOk(s) ==
  /\ s.err = "ok"
  /\ IF s.depth = 0 THEN s.out = <<>> ELSE TopObj(s) => s.key

Fail(s, e) == IF s.err = "ok" THEN [s EXCEPT !.err = e] ELSE s

BugObjBit(bits, l, obj) == IF obj THEN [bits EXCEPT ![l] = TRUE] ELSE bits  \* arr() leaves it
ObjBit(bits, l, obj)    == [bits EXCEPT ![l] = obj]

BOpen(s, u) ==
  IF ~ValueOk(s) \/ s.depth >= MaxDepth
    THEN Fail(s, "bad_syntax")
    ELSE [s EXCEPT !.bits = ObjBit(@, s.depth, u = "{"), !.depth = @ + 1,
                   !.key = FALSE, !.out = Append(@, u)]

Uncommaed(t) == IF t # <<>> /\ Last(t) = "," THEN Front(t) ELSE t

BugBEnd(s) ==                 \* the separator of the last value stays
  IF s.err # "ok" \/ s.depth = 0 \/ s.key THEN Fail(s, "bad_syntax")
  ELSE [s EXCEPT !.depth = @ - 1, !.key = FALSE,
                 !.out = @ \o <<IF TopObj(s) THEN "}" ELSE "]", ",">>]
BEnd(s) ==
  IF s.err # "ok" \/ s.depth = 0 \/ s.key THEN Fail(s, "bad_syntax")
  ELSE [s EXCEPT !.depth = @ - 1, !.key = FALSE,
                 !.out = Uncommaed(@) \o <<IF TopObj(s) THEN "}" ELSE "]", ",">>]

BKey(s, u) ==
  IF ~TopObj(s) \/ s.key \/ s.err # "ok"
    THEN Fail(s, "bad_syntax")
    ELSE [s EXCEPT !.out = @ \o <<u, ":">>, !.key = TRUE]

(* A value, or a text trusted as it is (raw).                              *)
BValue(s, text) ==
  IF ~ValueOk(s) THEN Fail(s, "bad_syntax")
  ELSE [s EXCEPT !.out = @ \o text \o <<",">>, !.key = FALSE]

Built(s, c) ==
  CASE c.op = "open"  -> BOpen(s, c.unit)
    [] c.op = "end"   -> BEnd(s)
    [] c.op = "key"   -> BKey(s, c.unit)
    [] c.op = "value" -> BValue(s, <<c.unit>>)

(* out(): the finished text, or nothing.                                   *)
Finished(s) == s.err = "ok" /\ s.depth = 0 /\ ~s.key /\ s.out # <<>>
Out(s)      == IF Finished(s) THEN Uncommaed(s.out) ELSE <<>>

-----------------------------------------------------------------------------
(* fixed_writer.                                                           *)
Room(s, n) == n <= cap - Size(s.out)
Nested(s)  == s.stack # <<>>
Top(s)     == Last(s.stack)
SetTop(s, fr) == [s EXCEPT !.stack[Len(s.stack)] = fr]

(* __prefix: whether a value may stand here and n bytes of it fit, its     *)
(* separator included; the separator, and the note that it is there.       *)
BugRoomFor(s, n, comma) == Room(s, n)
RoomFor(s, n, comma)    == Room(s, n + (IF comma THEN 1 ELSE 0))

Prefix(s, n) ==
  LET comma == Nested(s) /\ ~Top(s).obj /\ Top(s).count # 0
      noted == IF Nested(s) THEN SetTop(s, [Top(s) EXCEPT !.count = @ + 1, !.key = FALSE])
                            ELSE [s EXCEPT !.root = TRUE]
  IN CASE s.err # "ok"            -> s
       [] ~Nested(s) /\ s.root    -> Fail(s, "trailing_garbage")
       [] Nested(s) /\ Top(s).obj /\ ~Top(s).key -> Fail(s, "bad_syntax")
       [] ~RoomFor(s, n, comma)   -> Fail(s, "short_output")
       [] OTHER -> [noted EXCEPT !.out = IF comma THEN Append(@, ",") ELSE @]

(* A refused prefix leaves the error in its result: what follows is not    *)
(* written.                                                                *)
Wrote(s, text) == IF s.err = "ok" THEN [s EXCEPT !.out = @ \o text] ELSE s

FOpen(s, u) ==
  LET p == Prefix(s, 1) IN
  CASE Len(s.stack) >= Depth -> Fail(s, "depth_exceeded")
    [] p.err # "ok"             -> p
    [] OTHER -> [Wrote(p, <<u>>) EXCEPT !.stack =
                   Append(@, [obj |-> u = "{", key |-> FALSE, count |-> 0])]

FEnd(s) ==
  CASE s.err # "ok"  -> s
    [] ~Nested(s) \/ (Nested(s) /\ Top(s).key) -> Fail(s, "bad_syntax")
    [] ~Room(s, 1)   -> Fail(s, "short_output")
    [] OTHER -> [Wrote(s, <<IF Top(s).obj THEN "}" ELSE "]">>) EXCEPT !.stack = Front(@)]

FKey(s, u) ==
  CASE s.err # "ok"  -> s
    [] ~Nested(s) \/ (Nested(s) /\ (~Top(s).obj \/ Top(s).key)) -> Fail(s, "bad_syntax")
    [] u = "badstr"  -> Fail(s, "bad_utf8")
    [] ~RoomFor(s, Width(u) + 1, Top(s).count # 0) -> Fail(s, "short_output")
    [] OTHER -> SetTop(Wrote(s, (IF Top(s).count # 0 THEN <<",">> ELSE <<>>) \o <<u, ":">>),
                       [Top(s) EXCEPT !.key = TRUE])

FValue(s, u) ==
  IF u = "badstr" THEN Fail(s, "bad_utf8") ELSE Wrote(Prefix(s, Width(u)), <<u>>)

Filled(s, c) ==
  CASE c.op = "open"  -> FOpen(s, c.unit)
    [] c.op = "end"   -> FEnd(s)
    [] c.op = "key"   -> FKey(s, c.unit)
    [] c.op = "value" -> FValue(s, c.unit)

(* copy: a subtree call by call; it stops at the first refusal, with what  *)
(* fitted already written.                                                 *)
Copied(s, calls) == FoldLeft(Filled, s, calls)

(* finish(): how much may be published.                                    *)
Published(s) == s.err = "ok" /\ s.root /\ ~Nested(s)

-----------------------------------------------------------------------------
Init == b = NewBuilder /\ f = NewWriter /\ cap \in Capacities

Small == Len(b.out) < MaxUnits

Make(c) ==
  /\ Small
  /\ b' = Built(b, c)
  /\ f' = Filled(f, c)
  /\ UNCHANGED cap

(* A subtree: the writer copies it, the builder is given its text.         *)
TextOf(calls) == Out(FoldLeft(Built, NewBuilder, calls))

Nest(calls) ==
  /\ Small
  /\ b' = BValue(b, TextOf(calls))
  /\ f' = Copied(f, calls)
  /\ UNCHANGED cap

(* out() takes the last separator back.                                    *)
Look ==
  /\ Finished(b)
  /\ b' = [b EXCEPT !.out = Uncommaed(@)]
  /\ UNCHANGED <<f, cap>>

(* take() empties the builder, whatever its state; a new writer is begun.  *)
TakeText ==
  /\ b' = NewBuilder
  /\ f' = NewWriter
  /\ cap' \in Capacities

MakeAny == \E c \in Calls : Make(c)
NestAny == \E calls \in Subtrees : Nest(calls)

Next == MakeAny \/ NestAny \/ Look \/ TakeText
Spec == Init /\ [][Next]_vars

-----------------------------------------------------------------------------
IsText(t) == IsValue(t, 1, Len(t) + 1, Len(t), FALSE)
Utf8(t)   == \A i \in DOMAIN t : t[i] # "badstr"

(* Whatever calls are made in whatever order, a text that is published is  *)
(* one JSON value: the builder's out() if every string given to it was     *)
(* UTF-8, the writer's bytes after a finish() that succeeds, and those fit *)
(* the output.                                                             *)
PublishedIsJson ==
  /\ Out(b) # <<>> /\ Utf8(b.out) => IsText(Out(b))
  /\ Published(f) => IsText(f.out) /\ Size(f.out) <= cap

(* The two emitters accept the same calls and write the same text, apart   *)
(* from the separator the builder is ahead by: the writer refuses on its   *)
(* own account only for room, for depth or for a string that is not UTF-8, *)
(* as long as it may nest no deeper than the builder.                      *)
EmittersAgree ==
  Depth <= MaxDepth =>
    /\ f.err = "ok" => /\ b.err = "ok"
                       /\ Uncommaed(b.out) = f.out
                       /\ Finished(b) <=> Published(f)
    /\ f.err \in {"bad_syntax", "trailing_garbage"} => b.err # "ok"

(* A refused call leaves the writer's bytes as they were and fails it for  *)
(* good (copy may have written part of the subtree); nothing is written    *)
(* past the output.                                                        *)
RefusalIsFinal ==
  [][/\ MakeAny /\ f'.err # "ok" => f'.out = f.out
     /\ (MakeAny \/ NestAny) /\ f.err # "ok" => f' = f
     /\ (MakeAny \/ NestAny) /\ b.err # "ok" => b' = b
     /\ Size(f'.out) <= cap']_vars
=============================================================================
