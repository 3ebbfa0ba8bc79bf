------------------------------ MODULE BuildFsm ------------------------------
(***************************************************************************)
(* Stage 2 of the parser, build and build_t of parse.hpp: the machine that *)
(* turns the structural units of the input into the flat value arena.      *)
(* While a container is open its slot holds the distance back to its       *)
(* parent and, once a child container opens, the parent's running child    *)
(* count; closing it overwrites both with the forward span and the final   *)
(* length.  There is no stack besides this chain.                          *)
(***************************************************************************)
EXTENDS Arena, WriteBounds

CONSTANTS
  Inputs,       \* the unit sequences stage 1 may deliver
  Options,      \* the combinations of template and run-time options
  DepthLimit    \* CJSON_DEPTH_LIMIT; 0 folds the counter away

OptionType == [raw : BOOLEAN, stop : BOOLEAN, bounds : BOOLEAN, located : BOOLEAN,
               fixed : BOOLEAN, cap : Nat, maxDepth : Nat]

ASSUME InputsAssumption  == Inputs \subseteq Seq(Token)
(* Only the fixed parser keeps source ranges, and it always accumulates    *)
(* the bounds.                                                             *)
ASSUME OptionsAssumption ==
  /\ Options \subseteq OptionType
  /\ \A o \in Options : (o.located => o.fixed) /\ (o.fixed => o.bounds)
ASSUME LimitAssumption   == DepthLimit \in Nat

VARIABLES
  inp,        \* the units, fixed once the machine starts
  opt,        \* the options, fixed too
  s,          \* fs: value, after or key
  k,          \* position of the next unit
  vs,         \* the slab
  vi,         \* slots in use
  ci,         \* innermost open container, 0 for none
  ctnLen,     \* children of ci seen so far, keys included
  depth,      \* open containers, when counted
  wb,         \* write bound accumulators
  rng,        \* source range of every slot, when located
  consumed,
  res,        \* "run", "ok" or the error returned
  opens       \* auxiliary: the open containers; no guard reads it

vars == <<inp, opt, s, k, vs, vi, ci, ctnLen, depth, wb, rng, consumed, res, opens>>

-----------------------------------------------------------------------------
NUnits  == Len(inp)

(* a.ensure(nidx + 2) for the growing arena, the caller's storage for the  *)
(* fixed one.                                                              *)
SlabCap == IF opt.fixed THEN opt.cap ELSE NUnits + 2

Counted == opt.fixed \/ DepthLimit > 0
Limit   == IF opt.fixed THEN opt.maxDepth ELSE DepthLimit

NoRange == [b |-> 0, e |-> 0]
WbStart == [flat |-> 32, pc |-> 8, pk |-> 0, pdepth |-> 0]

Init ==
  /\ inp \in Inputs
  /\ opt \in Options
  /\ s = "value"
  /\ k = 1
  /\ vs = [i \in 1..SlabCap |-> Unset]
  /\ vi = 0
  /\ ci = 0
  /\ ctnLen = 0
  /\ depth = 0
  /\ wb = WbStart
  /\ rng = [i \in 1..SlabCap |-> NoRange]
  /\ consumed = 0
  /\ res = IF inp = <<>> THEN "empty_input" ELSE "run"
  /\ opens = {}

-----------------------------------------------------------------------------
Running(state) == res = "run" /\ s = state
HasUnit        == k <= NUnits

(* The fixed arena checks its room, and the depth, before it writes.       *)
BugRoom  == opt.fixed => vi <= opt.cap       \* a slot too many
Room     == opt.fixed => vi < opt.cap
Shallow  == opt.fixed => depth <= opt.maxDepth
AtValue  == Running("value") /\ HasUnit /\ Room /\ Shallow

BugEmptyPair == inp[k] \in Opener /\ k < NUnits /\ inp[k + 1] \in {"}", "]"}
EmptyPair == inp[k] \in Opener /\ k < NUnits /\ inp[k + 1] = Closer(inp[k])
BugTooDeep == Counted /\ depth > Limit       \* compared before it is incremented
TooDeep   == Counted /\ depth + 1 > Limit

Fail(e) ==
  /\ res' = e
  /\ UNCHANGED <<inp, opt, s, k, vs, vi, ci, ctnLen, depth, wb, rng, consumed, opens>>

(* Bytes a slot adds to the flat write bound.                              *)
BugFlatCharge(v) ==      \* escapes not allowed for
  CASE v.kind = "string" -> v.len + 4
    [] v.kind = "raw"    -> v.len + 12
    [] v.kind = "number" -> 42
    [] OTHER             -> 12

FlatCharge(v) ==
  CASE v.kind = "string" -> (IF v.sub = "noesc" THEN v.len ELSE 6 * v.len) + 4
    [] v.kind = "raw"    -> v.len + 12
    [] v.kind = "number" -> 42
    [] OTHER             -> 12

(* What one slot adds to the bounds: its flat share, and three bytes and   *)
(* one indent at depth d for the pretty form.                              *)
Charge(v, d) ==
  IF opt.bounds
    THEN [wb EXCEPT !.flat = @ + FlatCharge(v), !.pc = @ + 3, !.pk = @ + d]
    ELSE wb

BugLocate(b, e) == IF opt.located THEN [rng EXCEPT ![vi] = [b |-> b, e |-> e]] ELSE rng

Locate(b, e) == IF opt.located THEN [rng EXCEPT ![vi + 1] = [b |-> b, e |-> e]] ELSE rng

(* Writes slot v, read from the units before position e, as one more child *)
(* of the open container.                                                  *)
PutChild(v, e) ==
  /\ vs' = [vs EXCEPT ![vi + 1] = v]
  /\ vi' = vi + 1
  /\ ctnLen' = ctnLen + 1
  /\ wb' = Charge(v, wb.pdepth)
  /\ rng' = Locate(k, e)
  /\ UNCHANGED <<inp, opt, ci, depth, consumed, res, opens>>

ValueLeaf ==
  /\ AtValue
  /\ inp[k] \in Leaf
  /\ ReadErr(opt.raw, inp[k]) = "ok"
  /\ PutChild(LeafSlot(opt.raw, inp[k], k), k + 1)
  /\ k' = k + 1
  /\ s' = "after"

ValueEmpty ==
  /\ AtValue
  /\ EmptyPair
  /\ PutChild(EmptyCtn(CtnKind(inp[k])), k + 2)
  /\ k' = k + 2
  /\ s' = "after"

(* The slot of a container just opened: no children yet, and the distance  *)
(* back to its parent (0 when it is the root).                             *)
BugOpenSlot(t) ==        \* the distance to the slot before, not to the parent
  [kind |-> CtnKind(t), sub |-> "", len |-> 0, ofs |-> IF ci = 0 THEN 0 ELSE 1]

BugSwapSlot(t) ==        \* the distance with its sign swapped
  [kind |-> CtnKind(t), sub |-> "", len |-> 0, ofs |-> IF ci = 0 THEN 0 ELSE ci - vi - 1]

OpenSlot(t) ==
  [kind |-> CtnKind(t), sub |-> "", len |-> 0,
   ofs |-> IF ci = 0 THEN 0 ELSE vi + 1 - ci]

(* The parent keeps its child count, this child included, in its own slot. *)
BugStashCount == IF ci = 0 THEN vs ELSE [vs EXCEPT ![ci].len = ctnLen]

StashCount == IF ci = 0 THEN vs ELSE [vs EXCEPT ![ci].len = ctnLen + 1]

ValueOpen ==
  /\ AtValue
  /\ inp[k] \in Opener
  /\ ~EmptyPair
  /\ ~TooDeep
  /\ vs' = [StashCount EXCEPT ![vi + 1] = OpenSlot(inp[k])]
  /\ vi' = vi + 1
  /\ ci' = vi + 1
  /\ ctnLen' = 0
  /\ depth' = IF Counted THEN depth + 1 ELSE depth
  /\ wb' = IF opt.bounds
             THEN [Charge(OpenSlot(inp[k]), wb.pdepth + 1) EXCEPT !.pdepth = @ + 1]
             ELSE wb
  /\ rng' = Locate(k, 0)
  /\ k' = k + 1
  /\ s' = IF inp[k] = "{" THEN "key" ELSE "value"
  /\ opens' = opens \cup {vi + 1}
  /\ UNCHANGED <<inp, opt, consumed, res>>

ValueFail ==
  /\ Running("value")
  /\ \/ ~HasUnit /\ Fail("bad_syntax")
     \/ HasUnit /\ ~Room /\ Fail("oom")
     \/ HasUnit /\ Room /\ (~Shallow \/ (inp[k] \in Opener /\ ~EmptyPair /\ TooDeep))
        /\ Fail("depth_exceeded")
     \/ AtValue /\ inp[k] \notin Opener /\ ReadErr(opt.raw, inp[k]) # "ok"
        /\ Fail(ReadErr(opt.raw, inp[k]))

-----------------------------------------------------------------------------
Trailing    == ~opt.stop /\ k # NUnits + 1

AfterRoot ==
  /\ Running("after")
  /\ ci = 0
  /\ consumed' = k
  /\ res' = IF Trailing THEN "trailing_garbage" ELSE "ok"
  /\ UNCHANGED <<inp, opt, s, k, vs, vi, ci, ctnLen, depth, wb, rng, opens>>

InCtn == Running("after") /\ ci # 0

AfterComma ==
  /\ InCtn /\ HasUnit
  /\ inp[k] = ","
  /\ k' = k + 1
  /\ s' = IF vs[ci].kind = "object" THEN "key" ELSE "value"
  /\ UNCHANGED <<inp, opt, vs, vi, ci, ctnLen, depth, wb, rng, consumed, res, opens>>

(* The unit that closes a container of this kind.                          *)
CloserOf(kd) == IF kd = "object" THEN "}" ELSE "]"

(* A closed container: the pairs or elements it holds, and the distance to *)
(* the slot after its last descendant.                                     *)
BugKeepOffset ==         \* the back offset is left in the slot
  [vs[ci] EXCEPT !.len = IF vs[ci].kind = "object" THEN ctnLen \div 2 ELSE ctnLen]

BugShortSpan ==          \* the span stops a slot early
  [vs[ci] EXCEPT !.len = IF vs[ci].kind = "object" THEN ctnLen \div 2 ELSE ctnLen,
                 !.ofs = vi - ci]

ClosedSlot ==
  [vs[ci] EXCEPT !.len = IF vs[ci].kind = "object" THEN ctnLen \div 2 ELSE ctnLen,
                 !.ofs = vi + 1 - ci]

AfterClose ==
  LET back == vs[ci].ofs IN
  /\ InCtn /\ HasUnit
  /\ inp[k] = CloserOf(vs[ci].kind)
  /\ vs' = [vs EXCEPT ![ci] = ClosedSlot]
  /\ rng' = IF opt.located THEN [rng EXCEPT ![ci].e = k + 1] ELSE rng
  /\ ci' = IF back = 0 THEN 0 ELSE ci - back
  /\ ctnLen' = IF back = 0 THEN ctnLen ELSE vs[ci - back].len
  /\ depth' = IF Counted THEN depth - 1 ELSE depth
  /\ wb' = IF opt.bounds
             THEN [wb EXCEPT !.pc = @ + 1, !.pk = @ + wb.pdepth - 1, !.pdepth = @ - 1]
             ELSE wb
  /\ k' = k + 1
  /\ opens' = opens \ {ci}
  /\ UNCHANGED <<inp, opt, s, vi, consumed, res>>

BugAfterFail ==          \* a text that ends inside a container is not noticed
  /\ InCtn
  /\ HasUnit /\ inp[k] \notin {",", CloserOf(vs[ci].kind)}
  /\ Fail("bad_syntax")

AfterFail ==
  /\ InCtn
  /\ HasUnit => inp[k] \notin {",", CloserOf(vs[ci].kind)}
  /\ Fail("bad_syntax")

-----------------------------------------------------------------------------
IsKey == HasUnit /\ inp[k] \in String

(* A key is a string unit followed by a colon.                             *)
Key ==
  /\ Running("key")
  /\ IsKey /\ Room
  /\ ReadErr(opt.raw, inp[k]) = "ok"
  /\ k < NUnits /\ inp[k + 1] = ":"
  /\ PutChild(LeafSlot(opt.raw, inp[k], k), k + 1)
  /\ k' = k + 2
  /\ s' = "value"

KeyFail ==
  /\ Running("key")
  /\ \/ ~IsKey /\ Fail("bad_syntax")
     \/ IsKey /\ ~Room /\ Fail("oom")
     \/ IsKey /\ Room /\ ReadErr(opt.raw, inp[k]) # "ok" /\ Fail(ReadErr(opt.raw, inp[k]))
     \/ IsKey /\ Room /\ ReadErr(opt.raw, inp[k]) = "ok"
        /\ (k < NUnits => inp[k + 1] # ":") /\ Fail("bad_syntax")

-----------------------------------------------------------------------------
Step ==
  \/ ValueLeaf \/ ValueEmpty \/ ValueOpen \/ ValueFail
  \/ AfterRoot \/ AfterComma \/ AfterClose \/ AfterFail
  \/ Key \/ KeyFail

(* The call has returned.                                                  *)
Returned == res # "run" /\ UNCHANGED vars

Next == Step \/ Returned

Spec     == Init /\ [][Next]_vars
FairSpec == Spec /\ WF_vars(Step)
-----------------------------------------------------------------------------
Bounds == [flat : Nat, pc : Nat, pk : Nat, pdepth : Nat]
SourceRange == [b : Nat, e : Nat]

(* The type of every variable.                                             *)
TypeOK ==
  /\ inp \in Seq(Token)
  /\ opt \in OptionType
  /\ s \in {"value", "after", "key"}
  /\ k \in 1..(NUnits + 1)
  /\ vs \in [1..SlabCap -> Slot]
  /\ vi \in Nat
  /\ ci \in Nat
  /\ ctnLen \in Nat
  /\ depth \in Nat
  /\ wb \in Bounds
  /\ rng \in [1..SlabCap -> SourceRange]
  /\ consumed \in 0..(NUnits + 1)
  /\ res \in Error \cup {"run", "ok"}
  /\ opens \subseteq 1..vi

(* The builder never claims more slots than it has: the growing arena is   *)
(* sized before the first slot is written and never checked again, the     *)
(* fixed one is checked slot by slot.                                      *)
SlabInBounds == vi <= SlabCap

(* The open containers form one chain: ci is the innermost, the distance   *)
(* in each slot leads to the next one out, and the outermost, which is the *)
(* root in slot 1, holds 0.  Nothing else remembers where they are.        *)
OpenChain ==
  /\ IF opens = {} THEN ci = 0
     ELSE ci \in opens /\ \A j \in opens : j <= ci
  /\ \A i \in opens :
       /\ IsCtn(vs[i])
       /\ IF vs[i].ofs = 0
            THEN i = 1
            ELSE /\ i - vs[i].ofs \in opens
                 /\ vs[i].ofs > 0
                 /\ \A j \in opens : j < i => j <= i - vs[i].ofs

(* The depth counter is the number of open containers and never exceeds    *)
(* the limit.                                                              *)
DepthIsOpens ==
  Counted => depth = Cardinality(opens) /\ depth <= Limit

(* A closed container covers a stretch of used slots, and whatever starts  *)
(* inside the stretch is closed and ends inside it.                        *)
ClosedSpansNest ==
  \A i \in 1..vi :
    i \notin opens =>
      /\ GetNext(vs, i) \in (i + 1)..(vi + 1)
      /\ \A j \in (i + 1)..(GetNext(vs, i) - 1) :
           j \notin opens /\ GetNext(vs, j) <= GetNext(vs, i)

(* The child count kept for an open container, in ctnLen for the innermost *)
(* and stashed in its own slot for the others, is the number of children   *)
(* it has, keys included: the slots after it that no container between     *)
(* covers.                                                                 *)
ChildrenSoFar(i) ==
  {j \in (i + 1)..vi :
     \A m \in (i + 1)..(j - 1) : m \notin opens /\ GetNext(vs, m) <= j}

LiveCounts ==
  \A i \in opens :
    Cardinality(ChildrenSoFar(i)) = IF i = ci THEN ctnLen ELSE vs[i].len

(* A parsed document is well formed: every slot in use belongs to the      *)
(* root, containers nest and count their children, and the keys of objects *)
(* are strings.                                                            *)
Slots == SubSeq(vs, 1, vi)

ArenaWellFormed ==
  res = "ok" => WellFormedArena(Slots) /\ \A i \in 1..vi : vs[i].kind # "none"

(* The bounds accumulated on the way are, to the byte, those the writer's  *)
(* walks over the finished arena compute.                                  *)
BoundsAgree ==
  (res = "ok" /\ opt.bounds) =>
    /\ wb.flat = BoundSlots(vs, 1)
    /\ \A ind \in 1..4 : wb.pc + ind * wb.pk = PrettyExtra(vs, 1, ind)
=============================================================================
