---------------------------- MODULE ValidateFsm -----------------------------
(***************************************************************************)
(* validate_indexes of parse.hpp: the grammar machine that writes nothing. *)
(* Where the builder finds the enclosing container by its back offset, the *)
(* validator keeps one bit per open level, and it counts the depth by the  *)
(* capacity of that bitset even when the build folds its counter away.     *)
(***************************************************************************)
EXTENDS JsonTokens

CONSTANTS
  DepthLimit,     \* CJSON_DEPTH_LIMIT
  FallbackDepth   \* 1024, what the bitset holds when that is 0

VARIABLES
  inp,        \* the units
  stop,       \* opts.stop_when_done
  s, k,       \* as in the builder
  isArr,      \* the bitset: level -> TRUE for an array
  depth,
  consumed,
  res

vars == <<inp, stop, s, k, isArr, depth, consumed, res>>

NUnits == Len(inp)
VDepth == IF DepthLimit > 0 THEN DepthLimit ELSE FallbackDepth

TypeOK ==
  /\ s \in {"value", "after", "key"}
  /\ k \in 1..(NUnits + 1)
  /\ isArr \in [0..(VDepth - 1) -> BOOLEAN]
  /\ depth \in 0..VDepth
  /\ consumed \in 0..(NUnits + 1)
  /\ res \in Error \cup {"run", "ok"}

(* The machine at the first unit of its input.                             *)
Start ==
  /\ s = "value" /\ k = 1
  /\ isArr = [l \in 0..(VDepth - 1) |-> FALSE]
  /\ depth = 0
  /\ consumed = 0
  /\ res = IF inp = <<>> THEN "empty_input" ELSE "run"

-----------------------------------------------------------------------------
Running(state) == res = "run" /\ s = state
HasUnit   == k <= NUnits
EmptyPair == inp[k] \in Opener /\ k < NUnits /\ inp[k + 1] = Closer(inp[k])

Fail(e) == res' = e /\ UNCHANGED <<inp, stop, s, k, isArr, depth, consumed>>

Advance(n, state) ==
  /\ k' = k + n
  /\ s' = state
  /\ UNCHANGED <<inp, stop, consumed, res>>

ValueLeaf ==
  /\ Running("value") /\ HasUnit
  /\ inp[k] \in Leaf /\ CheckErr(inp[k]) = "ok"
  /\ Advance(1, "after")
  /\ UNCHANGED <<isArr, depth>>

ValueEmpty ==
  /\ Running("value") /\ HasUnit
  /\ EmptyPair
  /\ Advance(2, "after")
  /\ UNCHANGED <<isArr, depth>>

RoomDeeper == depth < VDepth

ValueOpen ==
  /\ Running("value") /\ HasUnit
  /\ inp[k] \in Opener /\ ~EmptyPair
  /\ RoomDeeper
  /\ isArr' = [isArr EXCEPT ![depth] = inp[k] = "["]
  /\ depth' = depth + 1
  /\ Advance(1, IF inp[k] = "{" THEN "key" ELSE "value")

ValueFail ==
  /\ Running("value")
  /\ \/ ~HasUnit /\ Fail("bad_syntax")
     \/ HasUnit /\ inp[k] \in Opener /\ ~EmptyPair /\ ~RoomDeeper
        /\ Fail("depth_exceeded")
     \/ HasUnit /\ inp[k] \notin Opener /\ CheckErr(inp[k]) # "ok"
        /\ Fail(CheckErr(inp[k]))

AfterRoot ==
  /\ Running("after")
  /\ depth = 0
  /\ consumed' = k
  /\ res' = IF ~stop /\ k # NUnits + 1 THEN "trailing_garbage" ELSE "ok"
  /\ UNCHANGED <<inp, stop, s, k, isArr, depth>>

InCtn  == Running("after") /\ depth > 0
BugTopArr == isArr[0]     \* the root's bit for every level
TopArr == isArr[depth - 1]

AfterComma ==
  /\ InCtn /\ HasUnit
  /\ inp[k] = ","
  /\ Advance(1, IF TopArr THEN "value" ELSE "key")
  /\ UNCHANGED <<isArr, depth>>

AfterClose ==
  /\ InCtn /\ HasUnit
  /\ inp[k] = (IF TopArr THEN "]" ELSE "}")
  /\ depth' = depth - 1
  /\ Advance(1, "after")
  /\ UNCHANGED isArr

AfterFail ==
  /\ InCtn
  /\ HasUnit => inp[k] \notin {",", IF TopArr THEN "]" ELSE "}"}
  /\ Fail("bad_syntax")

IsKey    == HasUnit /\ inp[k] \in String
HasColon == k < NUnits /\ inp[k + 1] = ":"

Key ==
  /\ Running("key")
  /\ IsKey /\ CheckErr(inp[k]) = "ok" /\ HasColon
  /\ Advance(2, "value")
  /\ UNCHANGED <<isArr, depth>>

KeyFail ==
  /\ Running("key")
  /\ \/ IsKey /\ CheckErr(inp[k]) # "ok" /\ Fail(CheckErr(inp[k]))
     \/ IsKey /\ CheckErr(inp[k]) = "ok" /\ ~HasColon /\ Fail("bad_syntax")
     \/ ~IsKey /\ Fail("bad_syntax")

Step ==
  \/ ValueLeaf \/ ValueEmpty \/ ValueOpen \/ ValueFail
  \/ AfterRoot \/ AfterComma \/ AfterClose \/ AfterFail
  \/ Key \/ KeyFail
=============================================================================
