------------------------------- MODULE Twins --------------------------------
(***************************************************************************)
(* The library holds two machines for one grammar: build_t, which writes   *)
(* the arena, and validate_indexes, which only answers.  Nothing connects  *)
(* them but the units they read.  Here both read the same units, one step  *)
(* of each at a time; one that has returned waits for the other.           *)
(***************************************************************************)
EXTENDS BuildFsm

CONSTANT FallbackDepth   \* levels the validator's bitset holds when DepthLimit is 0

ASSUME FallbackAssumption == FallbackDepth \in Nat \ {0}

VARIABLES vS, vK, vIsArr, vDepth, vConsumed, vRes     \* of the validator

valVars == <<vS, vK, vIsArr, vDepth, vConsumed, vRes>>

V == INSTANCE ValidateFsm WITH stop <- opt.stop, s <- vS, k <- vK, isArr <- vIsArr,
                               depth <- vDepth, consumed <- vConsumed, res <- vRes

TwinInit == Init /\ V!Start

Validate == V!Step \/ (vRes # "run" /\ UNCHANGED valVars)

TwinNext == Next /\ Validate

TwinSpec == TwinInit /\ [][TwinNext]_<<vars, valVars>>
-----------------------------------------------------------------------------
(* Where the two machines are meant to be one: the arena grows, the depth  *)
(* limit is compiled in, and no number rounds to infinity, which only a    *)
(* machine that converts it can see (COMPLIANCE.md, F3).                   *)
SameLanguage ==
  /\ ~opt.fixed
  /\ DepthLimit > 0
  /\ \A i \in DOMAIN inp : inp[i] # "huge"

(* validate and parse then agree at every unit: on what they expect there, *)
(* on the verdict and the error, and on where the text ends.  One goes by  *)
(* back offsets in the arena, the other by a bit for each level.           *)
TwinsAgree ==
  SameLanguage => /\ res = vRes /\ consumed = vConsumed
                  /\ s = vS /\ k = vK
=============================================================================
