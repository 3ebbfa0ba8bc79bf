-------------------------- MODULE ParseWriteProofs --------------------------
(***************************************************************************)
(* A text through all three machines.                                      *)
(*                                                                         *)
(* The builder and the validator agree on every text of the language they  *)
(* share.  What couples them: the validator's depth is the number of open  *)
(* containers, and the bit it keeps for a level is the kind of the         *)
(* container open at that level, counted from the outermost.               *)
(*                                                                         *)
(* The writer, on a document the builder made, checks neither its output   *)
(* nor its stack: the room comes from the bound, the stack from the limit  *)
(* the parser had.  The invariant says which containers the writer is in,  *)
(* and divides the room among the slots behind it and the closers still    *)
(* to come.                                                                *)
(***************************************************************************)
EXTENDS ParseWrite, BuildFsmProofs

(* Builder and validator.                                                  *)
Level(i) == Cardinality({j \in opens : j < i})

Coupled ==
  SameLanguage =>
    /\ res = vRes /\ consumed = vConsumed /\ s = vS /\ k = vK
    /\ depth = vDepth
    /\ vIsArr \in [0..(DepthLimit - 1) -> BOOLEAN]
    /\ \A i \in opens : vIsArr[Level(i)] <=> vs[i].kind = "array"

-----------------------------------------------------------------------------
(* Both machines read the same units, by the same names.                   *)
LEMMA SameUnits ==
  /\ V!Opener = Opener /\ V!String = String /\ V!Leaf = Leaf
  /\ \A t : V!CheckErr(t) = CheckErr(t) /\ V!Closer(t) = Closer(t)
  /\ V!NUnits = NUnits
  <1>1. V!Token = Token
    BY DEF Token, V!Token, V!Op, Op, V!String, String, V!Number, Number
  <1>2. V!Leaf = Leaf
    BY <1>1 DEF V!Leaf, Leaf, V!Op, Op
  <1>3. \A t : V!CheckErr(t) = CheckErr(t)
    BY DEF V!CheckErr, CheckErr
  <1> QED
    BY <1>2, <1>3 DEF V!Opener, Opener, V!String, String, V!Closer, Closer, V!NUnits, NUnits

(* In the shared language both count the depth, to the same limit, the     *)
(* builder refuses no slot, and both pass the same scalars.                *)
LEMMA Shared ==
  ASSUME IInv, SameLanguage
  PROVE  /\ depth = Cardinality(opens) /\ depth \in 0..DepthLimit
         /\ DepthLimit \in Nat /\ V!VDepth = DepthLimit
         /\ TooDeep <=> ~(depth < DepthLimit)
         /\ Room /\ Shallow /\ NUnits = V!NUnits
         /\ k <= NUnits => inp[k] \in Token /\ ReadErr(opt.raw, inp[k]) = CheckErr(inp[k])
  <1>1. DepthLimit \in Nat /\ DepthLimit > 0 /\ ~opt.fixed /\ depth \in Nat
    BY LimitAssumption DEF SameLanguage, IInv, TypeOK
  <1>2. Counted /\ Limit = DepthLimit /\ V!VDepth = DepthLimit
    BY <1>1 DEF Counted, Limit, V!VDepth
  <1>3. depth = Cardinality(opens) /\ depth <= DepthLimit
    BY <1>2 DEF IInv, DepthIsOpens
  <1>4. k <= NUnits => inp[k] \in Token /\ inp[k] # "huge"
    BY DEF IInv, TypeOK, NUnits, SameLanguage
  <1>5. k <= NUnits => ReadErr(opt.raw, inp[k]) = CheckErr(inp[k])
    BY <1>4 DEF ReadErr
  <1> QED
    BY <1>1, <1>2, <1>3, <1>4, <1>5 DEF TooDeep, Room, Shallow, NUnits, V!NUnits

(* The levels of the open containers are those below the depth, and the    *)
(* innermost is on the last.                                               *)
LEMMA Levels ==
  ASSUME IInv
  PROVE  /\ \A i \in opens : Level(i) \in 0..(Cardinality(opens) - 1)
         /\ ci # 0 => Level(ci) = Cardinality(opens) - 1
         /\ ci = 0 <=> Cardinality(opens) = 0
  <1>1. IsFiniteSet(opens) /\ Cardinality(opens) \in Nat /\ opens \subseteq Nat
    BY InSlab, FS_CardinalityType DEF IInv, TypeOK
  <1>2. ASSUME NEW i \in opens
        PROVE  Level(i) \in 0..(Cardinality(opens) - 1)
    <2>1. {j \in opens : j < i} \subseteq opens \ {i}
      BY <1>1
    <2>2. IsFiniteSet(opens \ {i}) /\ Cardinality(opens \ {i}) = Cardinality(opens) - 1
      BY <1>1, FS_RemoveElement
    <2>3. /\ Level(i) <= Cardinality(opens \ {i}) /\ Level(i) \in Nat
      BY <2>1, <2>2, FS_Subset, FS_CardinalityType DEF Level
    <2> QED
      BY <1>1, <2>2, <2>3
  <1>3. ASSUME ci # 0
        PROVE  Level(ci) = Cardinality(opens) - 1
    <2>1. ci \in opens /\ \A j \in opens : j <= ci
      BY <1>3, InSlab DEF IInv, OpenChain
    <2>2. {j \in opens : j < ci} = opens \ {ci}
      <3>1. ci \in Nat /\ \A j \in opens : j < ci <=> j # ci
        BY <1>1, <2>1
      <3> QED
        BY <3>1
    <2> QED
      BY <1>1, <2>1, <2>2, FS_RemoveElement DEF Level
  <1>4. ci = 0 <=> Cardinality(opens) = 0
    <2>1. ci = 0 <=> opens = {}
      BY DEF IInv, TypeOK, OpenChain
    <2> QED
      BY <1>1, <2>1, FS_EmptySet
  <1> QED
    BY <1>2, <1>3, <1>4

(* The bit on top tells the kind of the innermost container.               *)
LEMMA TopBit ==
  ASSUME IInv, Coupled, SameLanguage, ci # 0
  PROVE  /\ V!TopArr <=> vs[ci].kind = "array"
         /\ vs[ci].kind \in {"array", "object"}
         /\ vDepth > 0
  <1>1. ci \in opens /\ IsCtn(vs[ci])
    BY InSlab DEF IInv, OpenChain
  <1>2. vDepth = Cardinality(opens) /\ Level(ci) = vDepth - 1 /\ vDepth \in Nat /\ vDepth # 0
    BY Shared, Levels DEF Coupled
  <1> QED
    BY <1>1, <1>2 DEF Coupled, V!TopArr, IsCtn

-----------------------------------------------------------------------------
(* A step that opens and closes nothing, on both sides.                    *)
LEMMA SameLevels ==
  ASSUME IInv, Coupled, SameLanguage,
         opens' = opens, depth' = depth, vDepth' = vDepth, vIsArr' = vIsArr,
         \A i \in opens : vs'[i] = vs[i],
         res' = vRes', consumed' = vConsumed', s' = vS', k' = vK'
  PROVE  Coupled'
  <1>1. \A i \in opens : Level(i)' = Level(i)
    BY DEF Level
  <1>2. \A i \in opens' : vIsArr'[Level(i)'] <=> vs'[i].kind = "array"
    BY <1>1 DEF Coupled
  <1> QED
    BY <1>2 DEF Coupled

(* The slot of a child leaves those of the open containers alone.          *)
LEMMA PutChildSpares ==
  ASSUME IInv, NEW v, NEW e, PutChild(v, e)
  PROVE  /\ opens' = opens /\ depth' = depth /\ res' = res /\ consumed' = consumed
         /\ \A i \in opens : vs'[i] = vs[i]
  <1>1. vs' = [vs EXCEPT ![vi + 1] = v]
    BY DEF PutChild
  <1>2. \A i \in opens : i # vi + 1 /\ i \in 1..SlabCap
    BY InSlab DEF IInv, TypeOK
  <1> QED
    BY <1>1, <1>2 DEF PutChild, IInv, TypeOK

(* What the validator can do in each of its states.                        *)
LEMMA ValidatorsState ==
  ASSUME Validate, vRes = "run"
  PROVE  /\ vS = "value" => V!ValueLeaf \/ V!ValueEmpty \/ V!ValueOpen \/ V!ValueFail
         /\ vS = "after" => V!AfterRoot \/ V!AfterComma \/ V!AfterClose \/ V!AfterFail
         /\ vS = "key"   => V!Key \/ V!KeyFail
  <1>1. V!Step
    BY DEF Validate
  <1>2. (V!ValueLeaf \/ V!ValueEmpty \/ V!ValueOpen \/ V!ValueFail) => vS = "value"
    BY DEF V!ValueLeaf, V!ValueEmpty, V!ValueOpen, V!ValueFail, V!Running
  <1>3. (V!AfterRoot \/ V!AfterComma \/ V!AfterClose \/ V!AfterFail) => vS = "after"
    BY DEF V!AfterRoot, V!AfterComma, V!AfterClose, V!AfterFail, V!InCtn, V!Running
  <1>4. (V!Key \/ V!KeyFail) => vS = "key"
    BY DEF V!Key, V!KeyFail, V!Running
  <1> QED
    BY <1>1, <1>2, <1>3, <1>4 DEF V!Step

(* Opening a container leaves the kinds of the open ones alone.            *)
LEMMA OpenSpares ==
  ASSUME IInv, ValueOpen
  PROVE  /\ \A i \in opens : vs'[i].kind = vs[i].kind
         /\ \A i \in opens' : i = vi + 1 => vs'[i].kind = CtnKind(inp[k])
  <1> DEFINE new == OpenSlot(inp[k])
  <1>1. /\ vs' = [StashCount EXCEPT ![vi + 1] = new]
        /\ vs \in [1..SlabCap -> Slot] /\ DOMAIN StashCount = 1..SlabCap
        /\ \A i \in opens : i \in 1..SlabCap /\ i # vi + 1
    <2>1. vs' = [StashCount EXCEPT ![vi + 1] = new]
      BY DEF ValueOpen
    <2>2. vs \in [1..SlabCap -> Slot]
      BY DEF IInv, TypeOK
    <2>3. DOMAIN StashCount = 1..SlabCap
      BY <2>2 DEF StashCount
    <2>4. \A i \in opens : i \in 1..SlabCap /\ i # vi + 1
      BY InSlab DEF IInv, TypeOK
    <2> QED
      BY <2>1, <2>2, <2>3, <2>4
  <1>2. new.kind = CtnKind(inp[k])
    BY DEF OpenSlot
  <1> HIDE DEF new
  <1>3. ASSUME NEW i \in opens PROVE vs'[i].kind = vs[i].kind
    <2>1. vs'[i] = StashCount[i]
      BY <1>1
    <2>2. StashCount[i].kind = vs[i].kind
      <3>1. CASE ci = 0
        BY <3>1 DEF StashCount
      <3>2. CASE ci # 0
        <4>1. StashCount = [vs EXCEPT ![ci].len = ctnLen + 1] /\ vs[i] \in Slot
          BY <1>1, <3>2 DEF StashCount
        <4> QED
          BY <1>1, <4>1 DEF Slot
      <3> QED
        BY <3>1, <3>2
    <2> QED
      BY <2>1, <2>2
  <1>4. vi + 1 \in 1..SlabCap
    <2>1. k <= NUnits /\ Room
      BY DEF ValueOpen, AtValue, HasUnit
    <2> QED
      BY SMTT(30), <2>1, InSlab DEF IInv, TypeOK, SlotsBehindUnits, SlabCap, Room, OptionType
  <1> QED
    BY <1>1, <1>2, <1>3, <1>4

LEMMA LeafCoupled ==
  ASSUME IInv, Coupled, SameLanguage, ValueLeaf, Validate
  PROVE  Coupled'
  <1>1. /\ res = "run" /\ s = "value" /\ k <= NUnits /\ inp[k] \in Leaf
        /\ CheckErr(inp[k]) = "ok" /\ k' = k + 1 /\ s' = "after"
        /\ PutChild(LeafSlot(opt.raw, inp[k], k), k + 1)
    BY Shared DEF ValueLeaf, AtValue, Running, HasUnit
  <1>2. vRes = "run" /\ vS = "value" /\ vK = k /\ inp[k] \notin Opener
    BY <1>1 DEF Coupled, Leaf, Opener, Op
  <1>3. ~V!ValueEmpty /\ ~V!ValueOpen
    BY <1>2, SameUnits DEF V!ValueEmpty, V!EmptyPair, V!ValueOpen
  <1>4. ~V!ValueFail
    BY <1>1, <1>2, SameUnits DEF V!ValueFail, V!HasUnit
  <1>5. V!ValueLeaf
    BY <1>2, <1>3, <1>4, ValidatorsState
  <1>6. /\ vK' = k' /\ vS' = s' /\ UNCHANGED <<vIsArr, vDepth, vConsumed, vRes>>
    BY <1>1, <1>2, <1>5, SameUnits DEF V!ValueLeaf, V!Advance
  <1> QED
    BY <1>1, <1>6, PutChildSpares, SameLevels DEF Coupled

LEMMA EmptyCoupled ==
  ASSUME IInv, Coupled, SameLanguage, ValueEmpty, Validate
  PROVE  Coupled'
  <1>1. /\ res = "run" /\ s = "value" /\ k <= NUnits /\ EmptyPair /\ inp[k] \in Opener
        /\ k' = k + 2 /\ s' = "after"
        /\ PutChild(EmptyCtn(CtnKind(inp[k])), k + 2)
    BY DEF ValueEmpty, AtValue, Running, HasUnit, EmptyPair
  <1>2. vRes = "run" /\ vS = "value" /\ vK = k /\ V!EmptyPair
    BY <1>1, SameUnits DEF Coupled, EmptyPair, V!EmptyPair
  <1>3. ~V!ValueLeaf /\ ~V!ValueOpen
    BY <1>1, <1>2, SameUnits DEF V!ValueLeaf, V!ValueOpen, Leaf, Opener, Op
  <1>4. ~V!ValueFail
    BY <1>1, <1>2, SameUnits DEF V!ValueFail, V!HasUnit
  <1>5. V!ValueEmpty
    BY <1>2, <1>3, <1>4, ValidatorsState
  <1>6. /\ vK' = k' /\ vS' = s' /\ UNCHANGED <<vIsArr, vDepth, vConsumed, vRes>>
    BY <1>1, <1>2, <1>5, SameUnits DEF V!ValueEmpty, V!Advance
  <1> QED
    BY <1>1, <1>6, PutChildSpares, SameLevels DEF Coupled

LEMMA KeyCoupled ==
  ASSUME IInv, Coupled, SameLanguage, Key, Validate
  PROVE  Coupled'
  <1>1. /\ res = "run" /\ s = "key" /\ IsKey /\ k < NUnits /\ inp[k + 1] = ":"
        /\ CheckErr(inp[k]) = "ok" /\ k' = k + 2 /\ s' = "value"
        /\ PutChild(LeafSlot(opt.raw, inp[k], k), k + 1)
    BY Shared DEF Key, IsKey, HasUnit, Running
  <1>2. vRes = "run" /\ vS = "key" /\ vK = k
    BY <1>1 DEF Coupled
  <1>3. V!IsKey /\ V!HasColon
    BY <1>1, <1>2, SameUnits DEF V!IsKey, V!HasColon, V!HasUnit, IsKey, HasUnit
  <1>4. ~V!KeyFail
    BY <1>1, <1>2, <1>3, SameUnits DEF V!KeyFail
  <1>5. V!Key
    BY <1>2, <1>4, ValidatorsState
  <1>6. /\ vK' = k' /\ vS' = s' /\ UNCHANGED <<vIsArr, vDepth, vConsumed, vRes>>
    BY <1>1, <1>2, <1>5 DEF V!Key, V!Advance
  <1> QED
    BY <1>1, <1>6, PutChildSpares, SameLevels DEF Coupled

(* A container opened is one level deeper on both sides: the validator     *)
(* writes the bit of a level no open container is on.                      *)
LEMMA WithBit ==
  ASSUME NEW S, NEW f \in [S -> BOOLEAN], NEW x \in S, NEW b \in BOOLEAN,
         NEW g, g = [f EXCEPT ![x] = b]
  PROVE  g \in [S -> BOOLEAN] /\ g[x] = b /\ \A y \in S : y # x => g[y] = f[y]
  OBVIOUS

LEMMA OpenCoupled ==
  ASSUME IInv, Coupled, SameLanguage, ValueOpen, Validate
  PROVE  Coupled'
  <1>1. /\ res = "run" /\ s = "value" /\ k <= NUnits /\ inp[k] \in Opener /\ ~EmptyPair
        /\ depth < DepthLimit /\ k' = k + 1
        /\ s' = (IF inp[k] = "{" THEN "key" ELSE "value")
        /\ opens' = opens \cup {vi + 1} /\ res' = res /\ consumed' = consumed
    BY Shared DEF ValueOpen, AtValue, Running, HasUnit
  <1>2. /\ vRes = "run" /\ vS = "value" /\ vK = k /\ ~V!EmptyPair /\ V!RoomDeeper
        /\ vDepth = depth
    BY <1>1, Shared, SameUnits DEF Coupled, EmptyPair, V!EmptyPair, V!RoomDeeper
  <1>3. ~V!ValueLeaf /\ ~V!ValueEmpty
    BY <1>1, <1>2, SameUnits DEF V!ValueLeaf, V!ValueEmpty, Leaf, Opener, Op
  <1>4. ~V!ValueFail
    BY <1>1, <1>2, SameUnits DEF V!ValueFail, V!HasUnit
  <1>5. V!ValueOpen
    BY <1>2, <1>3, <1>4, ValidatorsState
  <1>6. /\ vK' = k' /\ vS' = s' /\ UNCHANGED <<vConsumed, vRes>>
        /\ vDepth' = depth + 1
        /\ vIsArr' = [vIsArr EXCEPT ![depth] = inp[k] = "["]
    BY <1>1, <1>2, <1>5, SameUnits DEF V!ValueOpen, V!Advance
  <1>7. depth' = depth + 1
    <2>1. depth' = IF Counted THEN depth + 1 ELSE depth
      BY DEF ValueOpen
    <2>2. Counted
      BY LimitAssumption DEF Counted, SameLanguage
    <2> QED
      BY <2>1, <2>2
  <1>8. /\ depth = Cardinality(opens) /\ depth \in 0..(DepthLimit - 1)
        /\ vIsArr \in [0..(DepthLimit - 1) -> BOOLEAN]
        /\ vi \in Nat /\ opens \subseteq 1..vi
    <2>1. depth = Cardinality(opens) /\ depth \in 0..DepthLimit /\ DepthLimit \in Nat
      BY Shared
    <2>2. depth \in 0..(DepthLimit - 1)
      <3>1. depth < DepthLimit
        BY <1>1
      <3> QED
        BY <2>1, <3>1
    <2>3. vIsArr \in [0..(DepthLimit - 1) -> BOOLEAN]
      BY DEF Coupled
    <2> QED
      BY <2>1, <2>2, <2>3 DEF IInv, TypeOK
  <1>9. /\ vIsArr' \in [0..(DepthLimit - 1) -> BOOLEAN]
        /\ vIsArr'[depth] <=> inp[k] = "["
        /\ \A l \in 0..(depth - 1) : vIsArr'[l] <=> vIsArr[l]
    <2> DEFINE S == 0..(DepthLimit - 1)
               b == inp[k] = "["
    <2>1. depth \in S /\ \A l \in 0..(depth - 1) : l \in S /\ l # depth
      BY <1>8, LimitAssumption
    <2>2. b \in BOOLEAN /\ vIsArr \in [S -> BOOLEAN] /\ vIsArr' = [vIsArr EXCEPT ![depth] = b]
      BY <1>6, <1>8
    <2> HIDE DEF S, b
    <2>3. vIsArr' \in [S -> BOOLEAN] /\ vIsArr'[depth] = b
          /\ \A l \in S : l # depth => vIsArr'[l] = vIsArr[l]
      BY <2>1, <2>2, WithBit
    <2> QED
      BY <2>1, <2>3 DEF S, b
  <1>10. ASSUME NEW i \in opens
         PROVE  vIsArr'[Level(i)'] <=> vs'[i].kind = "array"
    <2>1. vs'[i].kind = vs[i].kind
      BY OpenSpares
    <2>2. {j \in opens' : j < i} = {j \in opens : j < i}
      <3>1. ~(vi + 1 < i)
        BY <1>8
      <3> QED
        BY <1>1, <3>1
    <2>3. Level(i)' = Level(i) /\ Level(i) \in 0..(depth - 1)
      BY <1>8, <2>2, Levels DEF Level
    <2> QED
      BY <1>9, <2>1, <2>3 DEF Coupled
  <1>11. ASSUME NEW i \in opens', i = vi + 1
         PROVE  vIsArr'[Level(i)'] <=> vs'[i].kind = "array"
    <2>1. vs'[i].kind = CtnKind(inp[k])
      BY <1>11, OpenSpares
    <2>2. {j \in opens' : j < i} = opens
      <3>1. ~(vi + 1 < i) /\ \A j \in opens : j < i
        BY <1>8, <1>11
      <3> QED
        BY <1>1, <3>1
    <2>3. Level(i)' = depth
      BY <1>8, <2>2 DEF Level
    <2> QED
      BY <1>1, <1>9, <2>1, <2>3 DEF CtnKind, Opener
  <1> QED
    BY <1>1, <1>2, <1>6, <1>7, <1>9, <1>10, <1>11 DEF Coupled

(* Inside a container a comma or a closing unit, by the kind that both     *)
(* find: one in the slot, the other in the bit on top.                     *)
LEMMA CommaCoupled ==
  ASSUME IInv, Coupled, SameLanguage, AfterComma, Validate
  PROVE  Coupled'
  <1>1. /\ res = "run" /\ s = "after" /\ k <= NUnits /\ inp[k] = "," /\ ci # 0
        /\ k' = k + 1 /\ s' = (IF vs[ci].kind = "object" THEN "key" ELSE "value")
        /\ UNCHANGED <<vs, opens, depth, consumed, res>>
    BY DEF AfterComma, InCtn, Running, HasUnit
  <1>2. /\ vRes = "run" /\ vS = "after" /\ vK = k /\ vDepth > 0
        /\ V!TopArr <=> vs[ci].kind = "array"
        /\ vs[ci].kind \in {"array", "object"}
    BY <1>1, TopBit DEF Coupled
  <1>3. ~V!AfterRoot /\ ~V!AfterClose
    <2>1. ~V!AfterRoot
      BY <1>2 DEF V!AfterRoot
    <2>2. ~V!AfterClose
      BY <1>1, <1>2 DEF V!AfterClose
    <2> QED
      BY <2>1, <2>2
  <1>4. ~V!AfterFail
    BY <1>1, <1>2, SameUnits DEF V!AfterFail, V!HasUnit
  <1>5. V!AfterComma
    BY <1>2, <1>3, <1>4, ValidatorsState
  <1>6. /\ vK' = k' /\ vS' = s' /\ UNCHANGED <<vIsArr, vDepth, vConsumed, vRes>>
    BY <1>1, <1>2, <1>5 DEF V!AfterComma, V!Advance
  <1> QED
    BY <1>1, <1>6, SameLevels DEF Coupled

LEMMA CloseCoupled ==
  ASSUME IInv, Coupled, SameLanguage, AfterClose, Validate
  PROVE  Coupled'
  <1>1. /\ res = "run" /\ s = "after" /\ k <= NUnits /\ inp[k] = CloserOf(vs[ci].kind)
        /\ ci # 0 /\ k' = k + 1 /\ s' = s
        /\ opens' = opens \ {ci} /\ UNCHANGED <<consumed, res>>
        /\ vs' = [vs EXCEPT ![ci] = ClosedSlot]
    BY DEF AfterClose, InCtn, Running, HasUnit
  <1>2. /\ vRes = "run" /\ vS = "after" /\ vK = k /\ vDepth > 0 /\ vDepth = depth
        /\ V!TopArr <=> vs[ci].kind = "array"
        /\ vs[ci].kind \in {"array", "object"}
    BY <1>1, TopBit DEF Coupled
  <1>3. inp[k] = (IF V!TopArr THEN "]" ELSE "}")
    BY <1>1, <1>2 DEF CloserOf
  <1>4. ~V!AfterRoot /\ ~V!AfterComma
    <2>1. ~V!AfterRoot
      BY <1>2 DEF V!AfterRoot
    <2>2. ~V!AfterComma
      BY <1>2, <1>3 DEF V!AfterComma
    <2> QED
      BY <2>1, <2>2
  <1>5. ~V!AfterFail
    BY <1>1, <1>2, <1>3, SameUnits DEF V!AfterFail, V!HasUnit
  <1>6. V!AfterClose
    BY <1>2, <1>4, <1>5, ValidatorsState
  <1>7. /\ vK' = k' /\ vS' = s' /\ UNCHANGED <<vIsArr, vConsumed, vRes>>
        /\ vDepth' = depth - 1
    BY <1>1, <1>2, <1>6 DEF V!AfterClose, V!Advance
  <1>8. depth' = depth - 1
    <2>1. depth' = IF Counted THEN depth - 1 ELSE depth
      BY DEF AfterClose
    <2>2. Counted
      BY LimitAssumption DEF Counted, SameLanguage
    <2> QED
      BY <2>1, <2>2
  <1>9. ASSUME NEW i \in opens'
        PROVE  vIsArr'[Level(i)'] <=> vs'[i].kind = "array"
    <2>1. /\ i \in opens /\ i # ci /\ i \in Nat
          /\ ci \in opens /\ i <= ci
      BY <1>1, InSlab DEF IInv, TypeOK, OpenChain
    <2>2. vs'[i] = vs[i]
      BY <1>1, <2>1
    <2>3. {j \in opens' : j < i} = {j \in opens : j < i}
      <3>1. ~(ci < i)
        BY <2>1 DEF IInv, TypeOK
      <3> QED
        BY <1>1, <3>1
    <2>4. Level(i)' = Level(i)
      BY <2>3 DEF Level
    <2> QED
      BY <1>7, <2>1, <2>2, <2>4 DEF Coupled
  <1> QED
    BY <1>1, <1>2, <1>7, <1>8, <1>9 DEF Coupled

LEMMA RootCoupled ==
  ASSUME IInv, Coupled, SameLanguage, AfterRoot, Validate
  PROVE  Coupled'
  <1>1. /\ res = "run" /\ s = "after" /\ ci = 0 /\ consumed' = k
        /\ res' = IF Trailing THEN "trailing_garbage" ELSE "ok"
        /\ UNCHANGED <<opt, s, k, vs, depth, opens>>
    BY DEF AfterRoot, Running
  <1>2. vRes = "run" /\ vS = "after" /\ vK = k /\ vDepth = 0
    BY <1>1, Shared, Levels DEF Coupled
  <1>3. ~V!AfterComma /\ ~V!AfterClose /\ ~V!AfterFail
    BY <1>2 DEF V!AfterComma, V!AfterClose, V!AfterFail, V!InCtn
  <1>4. V!AfterRoot
    BY <1>2, <1>3, ValidatorsState
  <1>5. /\ vConsumed' = k /\ UNCHANGED <<vS, vK, vIsArr, vDepth>>
        /\ vRes' = res'
    BY <1>1, <1>2, <1>4, SameUnits DEF V!AfterRoot, Trailing
  <1> QED
    BY <1>1, <1>2, <1>5, SameLevels DEF Coupled

(* A text one of them refuses, the other refuses for the same reason.      *)
LEMMA FailCoupled ==
  ASSUME IInv, Coupled, SameLanguage, NEW e, Fail(e), V!Fail(e)
  PROVE  Coupled'
  BY SameLevels DEF Coupled, Fail, V!Fail

LEMMA ValueFailCoupled ==
  ASSUME IInv, Coupled, SameLanguage, ValueFail, Validate
  PROVE  Coupled'
  <1>1. vRes = "run" /\ vS = "value" /\ vK = k /\ vDepth = depth /\ res = "run" /\ s = "value"
    BY DEF ValueFail, Running, Coupled
  <1>2. /\ V!HasUnit <=> HasUnit
        /\ V!EmptyPair <=> EmptyPair
        /\ V!RoomDeeper <=> ~TooDeep
    BY <1>1, Shared, SameUnits DEF V!HasUnit, HasUnit, V!EmptyPair, EmptyPair, V!RoomDeeper
  <1>3. Room /\ Shallow
    BY Shared
  <1>4. CASE ~HasUnit
    <2>1. Fail("bad_syntax")
      BY <1>3, <1>4 DEF ValueFail, AtValue
    <2>2. V!Fail("bad_syntax")
      BY <1>1, <1>2, <1>4, ValidatorsState
         DEF V!ValueLeaf, V!ValueEmpty, V!ValueOpen, V!ValueFail
    <2> QED
      BY <2>1, <2>2, FailCoupled
  <1>5. CASE HasUnit /\ inp[k] \in Opener
    <2>1. ~EmptyPair /\ TooDeep /\ Fail("depth_exceeded")
      BY <1>3, <1>5 DEF ValueFail
    <2>2. ~V!ValueLeaf /\ ~V!ValueEmpty /\ ~V!ValueOpen
      BY <1>1, <1>2, <1>5, <2>1, SameUnits
         DEF V!ValueLeaf, V!ValueEmpty, V!ValueOpen, Leaf, Opener, Op
    <2>3. V!Fail("depth_exceeded")
      BY <1>1, <1>2, <1>5, <2>2, ValidatorsState, SameUnits DEF V!ValueFail
    <2> QED
      BY <2>1, <2>3, FailCoupled
  <1>6. CASE HasUnit /\ inp[k] \notin Opener
    <2> DEFINE e == CheckErr(inp[k])
    <2>1. e # "ok" /\ Fail(e)
      BY <1>3, <1>6, Shared DEF ValueFail, AtValue, HasUnit
    <2>2. ~V!ValueLeaf /\ ~V!ValueEmpty /\ ~V!ValueOpen
      BY <1>1, <1>6, <2>1, SameUnits DEF V!ValueLeaf, V!ValueEmpty, V!EmptyPair, V!ValueOpen
    <2>3. V!Fail(e)
      BY <1>1, <1>2, <1>6, <2>2, ValidatorsState, SameUnits DEF V!ValueFail
    <2> QED
      BY <2>1, <2>3, FailCoupled
  <1> QED
    BY <1>4, <1>5, <1>6

LEMMA AfterFailCoupled ==
  ASSUME IInv, Coupled, SameLanguage, AfterFail, Validate
  PROVE  Coupled'
  <1>1. /\ res = "run" /\ s = "after" /\ ci # 0 /\ Fail("bad_syntax")
        /\ HasUnit => inp[k] \notin {",", CloserOf(vs[ci].kind)}
    BY DEF AfterFail, InCtn, Running
  <1>2. /\ vRes = "run" /\ vS = "after" /\ vK = k /\ vDepth > 0
        /\ V!TopArr <=> vs[ci].kind = "array"
        /\ vs[ci].kind \in {"array", "object"}
        /\ V!HasUnit <=> HasUnit
    BY <1>1, TopBit, SameUnits DEF Coupled, V!HasUnit, HasUnit
  <1>3. ~V!AfterRoot /\ ~V!AfterComma
    <2>1. ~V!AfterRoot
      BY <1>2 DEF V!AfterRoot
    <2>2. ~V!AfterComma
      <3>1. CASE HasUnit
        BY <1>1, <1>2, <3>1 DEF V!AfterComma
      <3>2. CASE ~HasUnit
        BY <1>2, <3>2 DEF V!AfterComma
      <3> QED
        BY <3>1, <3>2
    <2> QED
      BY <2>1, <2>2
  <1>4. ~V!AfterClose
    BY <1>1, <1>2 DEF V!AfterClose, CloserOf
  <1>5. V!Fail("bad_syntax")
    BY <1>2, <1>3, <1>4, ValidatorsState DEF V!AfterFail
  <1> QED
    BY <1>1, <1>5, FailCoupled

LEMMA KeyFailCoupled ==
  ASSUME IInv, Coupled, SameLanguage, KeyFail, Validate
  PROVE  Coupled'
  <1>1. vRes = "run" /\ vS = "key" /\ vK = k /\ res = "run" /\ s = "key"
    BY DEF KeyFail, Running, Coupled
  <1>2. /\ V!IsKey <=> IsKey
        /\ V!HasColon <=> k < NUnits /\ inp[k + 1] = ":"
    BY <1>1, SameUnits DEF V!IsKey, IsKey, V!HasUnit, HasUnit, V!HasColon
  <1>3. Room /\ (IsKey => ReadErr(opt.raw, inp[k]) = CheckErr(inp[k]))
    BY Shared DEF IsKey, HasUnit
  <1> DEFINE e == IF IsKey /\ CheckErr(inp[k]) # "ok" THEN CheckErr(inp[k]) ELSE "bad_syntax"
  <1>4. Fail(e)
    BY <1>3 DEF KeyFail
  <1>5. ~(IsKey /\ CheckErr(inp[k]) = "ok" /\ k < NUnits /\ inp[k + 1] = ":")
    BY <1>3 DEF KeyFail
  <1>6. ~V!Key
    BY <1>1, <1>2, <1>5, SameUnits DEF V!Key
  <1>7. V!Fail(e)
    BY <1>1, <1>2, <1>6, ValidatorsState, SameUnits DEF V!KeyFail
  <1> QED
    BY <1>4, <1>7, FailCoupled

(* What has returned has returned on both sides.                           *)
LEMMA StepCoupled ==
  ASSUME IInv, Coupled, TwinNext
  PROVE  Coupled'
  <1>1. SameLanguage' = SameLanguage
    <2>1. UNCHANGED <<inp, opt>>
      BY DEF TwinNext, Next, Step, ValueLeaf, ValueEmpty, ValueOpen, ValueFail, AfterRoot,
        AfterComma, AfterClose, AfterFail, Key, KeyFail, PutChild, Fail, Returned, vars
    <2> QED
      BY <2>1 DEF SameLanguage
  <1>2. CASE ~SameLanguage
    BY <1>1, <1>2 DEF Coupled
  <1>3. CASE SameLanguage /\ Returned
    <2>1. res = vRes /\ res # "run" /\ UNCHANGED vars
      BY <1>3 DEF Coupled, Returned
    <2>2. UNCHANGED valVars
      BY <2>1 DEF TwinNext, Validate, V!Step, V!ValueLeaf, V!ValueEmpty, V!ValueOpen, V!ValueFail,
        V!AfterRoot, V!AfterComma, V!AfterClose, V!AfterFail, V!InCtn, V!Key, V!KeyFail, V!Running
    <2> QED
      BY <1>3, <2>1, <2>2, SameLevels DEF Coupled, vars, valVars
  <1>4. CASE SameLanguage /\ Step
    BY <1>4, LeafCoupled, EmptyCoupled, OpenCoupled, ValueFailCoupled, RootCoupled, CommaCoupled,
       CloseCoupled, AfterFailCoupled, KeyCoupled, KeyFailCoupled DEF Step, TwinNext
  <1> QED
    BY <1>2, <1>3, <1>4 DEF TwinNext, Next

-----------------------------------------------------------------------------
(* What is proved of the builder holds of it beside the validator.         *)
THEOREM TwinInvariance == TwinSpec => [](IInv /\ Coupled)
  <1>1. TwinInit => IInv /\ Coupled
    <2> SUFFICES ASSUME TwinInit PROVE IInv /\ Coupled
      OBVIOUS
    <2>1. IInv
      BY InitIInv DEF TwinInit
    <2>2. SameLanguage => V!VDepth = DepthLimit
      BY LimitAssumption DEF SameLanguage, V!VDepth
    <2>3. SameLanguage => vIsArr \in [0..(DepthLimit - 1) -> BOOLEAN]
      BY <2>2 DEF TwinInit, V!Start
    <2>4. Coupled
      BY <2>3 DEF Coupled, TwinInit, Init, V!Start
    <2> QED
      BY <2>1, <2>4
  <1>2. IInv /\ Coupled /\ [TwinNext]_<<vars, valVars>> => IInv' /\ Coupled'
    <2> SUFFICES ASSUME IInv, Coupled, [TwinNext]_<<vars, valVars>> PROVE IInv' /\ Coupled'
      OBVIOUS
    <2>1. [Next]_vars
      BY DEF TwinNext
    <2>2. IInv'
      BY <2>1, NextKeepsIInv
    <2>3. CASE UNCHANGED <<vars, valVars>>
      <3>1. SameLanguage' = SameLanguage
        BY <2>3 DEF vars, SameLanguage
      <3>2. CASE SameLanguage
        BY <2>2, <2>3, <3>2, SameLevels DEF vars, valVars, Coupled
      <3>3. CASE ~SameLanguage
        BY <2>2, <3>1, <3>3 DEF Coupled
      <3> QED
        BY <2>2, <3>2, <3>3
    <2> QED
      BY <2>2, <2>3, StepCoupled
  <1> QED
    BY <1>1, <1>2, PTL DEF TwinSpec

(* On every text without a number that overflows, for every depth limit    *)
(* and every combination of the other options, validate and parse read the *)
(* same units in the same states and give the same verdict, and the same   *)
(* error, at the same place.                                               *)
THEOREM ParseAndValidateAgree == TwinSpec => []TwinsAgree
  <1>1. Coupled => TwinsAgree
    BY DEF Coupled, TwinsAgree
  <1> QED
    BY TwinInvariance, <1>1, PTL

-----------------------------------------------------------------------------
(* What the writer relies on: an arena whose spans nest, and in which a    *)
(* container without a length has nothing behind it.                       *)
Ready ==
  /\ vi \in Nat /\ SlabCap \in Nat /\ vi <= SlabCap
  /\ \A i \in 1..vi :
       /\ i \in Nat /\ vs[i] \in Slot
       /\ GetNext(vs, i) \in (i + 1)..(vi + 1)
       /\ \A j \in (i + 1)..(GetNext(vs, i) - 1) : GetNext(vs, j) <= GetNext(vs, i)
       /\ NonEmpty(vs[i]) <=> GetNext(vs, i) > i + 1

(* The frames are those of the containers on path, from the outermost in,  *)
(* which are all those the writer is in: each ends further on, or, before  *)
(* closers are written, here.                                              *)
OnStack(path) ==
  /\ \A m, n \in 1..Len(stack) : m < n => path[m] < path[n]
  /\ \A n \in 1..Len(stack) :
       /\ NonEmpty(vs[path[n]])
       /\ stack[n].end = GetNext(vs, path[n])
       /\ cur <= GetNext(vs, path[n])
       /\ pc = "item" => cur < GetNext(vs, path[n])
  /\ \A c \in root..(cur - 1) :
       NonEmpty(vs[c]) /\ cur < GetNext(vs, c) => \E n \in 1..Len(stack) : path[n] = c

InPlace ==
  /\ root \in 1..vi
  /\ cur \in root..GetNext(vs, root)
  /\ pc = "item" => cur < GetNext(vs, root)
  /\ Len(stack) # 0 => top.end = stack[Len(stack)].end
  /\ \E path \in [1..Len(stack) -> root..(cur - 1)] : OnStack(path)

(* What the slots behind the writer were reserved, and what the closers of *)
(* the containers it is in will still take.                                *)
Cost(i) == SlotBound(vs[i]) + (IF indent = 0 THEN 0 ELSE PrettyCost(vs, root, indent, i))
Costs   == [i \in 1..SlabCap |-> Cost(i)]

CloserCosts == [l \in Nat |-> W!Newline(l - 1) + 1]

BytesSoFar ==
  w + SumOver(CloserCosts, 1, Len(stack)) <= SumOver(Costs, root, cur - 1)

RoomIs == room = BoundSlots(vs, root) + PrettyExtra(vs, root, indent)

Writing == InPlace /\ RoomIs /\ BytesSoFar

WriterInv ==
  /\ pc \in {"idle", "item", "close", "done"}
  /\ pc # "idle" => res = "ok"
  /\ stack \in Seq(W!Frame) /\ top \in W!Frame
  /\ Counted => Len(stack) <= Limit
  /\ w \in Int /\ indent \in Nat /\ room \in Nat
  /\ pc = "idle" => w = 0 /\ stack = <<>>
  /\ pc \in {"item", "close"} => Writing
  /\ pc = "done" => w <= room

-----------------------------------------------------------------------------
(* The writer's own reading of a slot is the builder's.                    *)
LEMMA WriterReads ==
  /\ \A v : W!IsCtn(v) = IsCtn(v) /\ W!NonEmpty(v) = NonEmpty(v)
  /\ \A v, i : W!GetNext(v, i) = GetNext(v, i)
  BY DEF W!IsCtn, IsCtn, W!NonEmpty, NonEmpty, W!GetNext, GetNext, W!SpanOf, SpanOf

LEMMA NextIs ==
  ASSUME Ready, NEW i \in 1..vi
  PROVE  /\ i \in Nat /\ i >= 1 /\ i <= vi /\ vi \in Nat
         /\ vs[i] \in Slot /\ vs[i].ofs \in Nat
         /\ GetNext(vs, i) \in Nat /\ i < GetNext(vs, i) /\ GetNext(vs, i) <= vi + 1
         /\ ~NonEmpty(vs[i]) => GetNext(vs, i) = i + 1
         /\ NonEmpty(vs[i]) => i + 1 < GetNext(vs, i)
  <1>1. i \in Nat /\ vi \in Nat /\ vs[i] \in Slot /\ GetNext(vs, i) \in (i + 1)..(vi + 1)
        /\ (NonEmpty(vs[i]) <=> GetNext(vs, i) > i + 1)
    BY DEF Ready
  <1>2. vs[i].ofs \in Nat
    BY <1>1 DEF Slot
  <1> QED
    BY <1>1, <1>2

LEMMA ParsedIsReady ==
  ASSUME BoundsInv, res = "ok"
  PROVE  /\ Ready
         /\ Counted => \A i \in 1..vi : Cardinality(Inside(vs, 1, i)) <= Limit
  <1>1. IInv /\ TreeInv /\ NestsWithin
    BY DEF BoundsInv, TreeInv
  <1>2. opens = {} /\ WellFormedArena(Slots)
    BY <1>1, FinishedTree
  <1>3. vi \in Nat /\ SlabCap \in Nat /\ vi <= SlabCap /\ vs \in [1..SlabCap -> Slot]
    BY <1>1, InSlab DEF IInv, TypeOK
  <1>4. \A i \in 1..vi :
          /\ GetNext(vs, i) \in (i + 1)..(vi + 1)
          /\ \A j \in (i + 1)..(GetNext(vs, i) - 1) : GetNext(vs, j) <= GetNext(vs, i)
    BY <1>1, <1>2 DEF IInv, ClosedSpansNest
  <1>5. ASSUME NEW i \in 1..vi
        PROVE  NonEmpty(vs[i]) <=> GetNext(vs, i) > i + 1
    <2>1. i \in Nat /\ vs[i] \in Slot /\ GetNext(vs, i) \in Nat /\ GetNext(vs, i) >= i + 1
      BY <1>3, <1>4
    <2>2. CASE ~IsCtn(vs[i])
      BY <2>1, <2>2 DEF NonEmpty, GetNext, SpanOf
    <2>3. CASE IsCtn(vs[i])
      <3>1. HoldsItsKids(vs, i)
        BY <1>1, <1>2, <2>3 DEF TreeInv, Settled
      <3>2. Cardinality(KidsIn(vs, i)) = IF vs[i].kind = "object" THEN 2 * vs[i].len ELSE vs[i].len
        BY <3>1 DEF HoldsItsKids
      <3>3. vs[i].len \in Nat /\ (vs[i].len = 0 <=> Cardinality(KidsIn(vs, i)) = 0)
        BY <2>1, <3>2 DEF Slot
      <3>4. KidsIn(vs, i) = {} <=> ~(GetNext(vs, i) > i + 1)
        <4>1. GetNext(vs, i) > i + 1 => i + 1 \in KidsIn(vs, i)
          BY <2>1 DEF KidsIn
        <4>2. ~(GetNext(vs, i) > i + 1) => KidsIn(vs, i) = {}
          BY <2>1 DEF KidsIn
        <4> QED
          BY <4>1, <4>2
      <3>5. KidsIn(vs, i) = {} <=> Cardinality(KidsIn(vs, i)) = 0
        <4>1. KidsIn(vs, i) \subseteq (i + 1)..(GetNext(vs, i) - 1)
          BY DEF KidsIn
        <4>2. IsFiniteSet((i + 1)..(GetNext(vs, i) - 1))
          BY <2>1, FS_Interval
        <4>3. IsFiniteSet(KidsIn(vs, i))
          BY <4>1, <4>2, FS_Subset
        <4> QED
          BY <4>3, FS_EmptySet
      <3> QED
        BY <2>3, <3>3, <3>4, <3>5 DEF NonEmpty
    <2> QED
      BY <2>2, <2>3
  <1>6. \A i \in 1..vi : Cover(i) = Inside(vs, 1, i)
    BY <1>2 DEF Cover, Inside
  <1> QED
    BY <1>1, <1>3, <1>4, <1>5, <1>6 DEF Ready, NestsWithin

-----------------------------------------------------------------------------
(* Sums of naturals grow.                                                  *)
LEMMA SumsGrow ==
  ASSUME NEW w0, NEW i \in Nat, i >= 1, NEW j \in Nat, j >= i - 1, NEW m \in Nat, m >= j,
         \A x \in i..m : w0[x] \in Nat
  PROVE  /\ SumOver(w0, i, j) \in Nat /\ SumOver(w0, i, m) \in Nat
         /\ SumOver(w0, i, j) <= SumOver(w0, i, m)
  <1> DEFINE a(x) == SumOver(w0, i, x)
             P(x) == a(x) \in Nat /\ (x >= j => a(j) <= a(x))
             Bad  == {x \in (i - 1)..m : ~P(x)}
  <1>1. /\ \A x \in Nat : x < i => a(x) = 0
        /\ \A x \in Nat : x >= i => a(x) = a(x - 1) + w0[x]
    BY SumIs
  <1> HIDE DEF a
  <1>2. ASSUME Bad # {} PROVE FALSE
    <2>1. PICK x \in Bad : \A n \in Bad : x <= n
      <3>1. Bad \in SUBSET Nat
        OBVIOUS
      <3> HIDE DEF Bad
      <3> QED
        BY <1>2, <3>1, LeastOf
    <2>2. x \in Nat /\ x >= i - 1 /\ x <= m /\ ~P(x)
      OBVIOUS
    <2>3. CASE x < i
      <3>1. a(x) = 0
        BY <1>1, <2>2, <2>3
      <3>2. x >= j => x = j
        BY <2>2, <2>3
      <3> QED
        BY <2>2, <3>1, <3>2
    <2>4. CASE x >= i
      <3>1. x - 1 \in Nat /\ x - 1 \in (i - 1)..m /\ ~(x <= x - 1) /\ x \in i..m
        BY <2>2, <2>4
      <3>2. x - 1 \notin Bad
        <4> HIDE DEF Bad
        <4> QED
          BY <2>1, <3>1
      <3>3. a(x - 1) \in Nat /\ (x - 1 >= j => a(j) <= a(x - 1))
        BY <3>1, <3>2
      <3>4. a(x) = a(x - 1) + w0[x] /\ w0[x] \in Nat
        BY <1>1, <2>2, <2>4, <3>1
      <3>5. x >= j => x = j \/ x - 1 >= j
        BY <2>2
      <3>6. a(x) \in Nat
        BY ONLY <3>3, <3>4
      <3>7. x - 1 >= j => a(j) <= a(x)
        <4>1. ASSUME x - 1 >= j PROVE a(j) <= a(x)
          <5>1. a(j) <= a(x - 1)
            BY <3>3, <4>1
          <5>2. CASE x - 1 = j
            BY ONLY <3>3, <3>4, <5>1, <5>2
          <5>3. CASE x - 1 # j
            <6>1. j \in (i - 1)..m /\ ~(x <= j)
              BY <2>2, <4>1
            <6>2. j \notin Bad
              <7> HIDE DEF Bad
              <7> QED
                BY <2>1, <6>1
            <6>3. a(j) \in Nat
              BY <6>1, <6>2
            <6> QED
              BY ONLY <3>3, <3>4, <5>1, <6>3
          <5> QED
            BY <5>2, <5>3
        <4> QED
          BY <4>1
      <3> QED
        BY <2>2, <3>5, <3>6, <3>7
    <2> QED
      BY <2>2, <2>3, <2>4
  <1>3. j \in (i - 1)..m /\ m \in (i - 1)..m
    OBVIOUS
  <1>4. P(j) /\ P(m)
    BY <1>2, <1>3
  <1> QED
    BY <1>4 DEF a

LEMMA InsideTyped ==
  ASSUME NEW v, NEW r, NEW i \in Nat, r \in Nat
  PROVE  IsFiniteSet(Inside(v, r, i)) /\ Cardinality(Inside(v, r, i)) \in Nat
  <1>1. Inside(v, r, i) \subseteq r..(i - 1)
    BY DEF Inside
  <1>2. IsFiniteSet(r..(i - 1))
    BY FS_Interval
  <1> QED
    BY <1>1, <1>2, FS_Subset, FS_CardinalityType

(* What a slot is reserved covers what it takes, in either form.           *)
LEMMA CostIs ==
  ASSUME Ready, root \in 1..vi, indent \in Nat, NEW i \in 1..SlabCap, i <= vi
  PROVE  /\ Cost(i) \in Nat /\ Costs[i] = Cost(i) /\ SlotBound(vs[i]) \in Nat
         /\ indent # 0 =>
              LET d == Cardinality(Inside(vs, root, i)) IN
              /\ PrettyCost(vs, root, indent, i) \in Nat
              /\ Cost(i) = SlotBound(vs[i]) +
                   (IF NonEmpty(vs[i]) THEN (1 + (d + 1) * indent) + 2 + (1 + d * indent)
                                       ELSE (1 + d * indent) + 2)
         /\ indent = 0 => Cost(i) = SlotBound(vs[i])
  <1> DEFINE d == Cardinality(Inside(vs, root, i))
             p == IF NonEmpty(vs[i]) THEN (1 + (d + 1) * indent) + 2 + (1 + d * indent)
                                     ELSE (1 + d * indent) + 2
  <1>1. i \in Nat /\ i \in 1..vi /\ vs[i] \in Slot /\ root \in Nat
    BY DEF Ready
  <1>2. SlotBound(vs[i]) \in Nat
    BY <1>1, ChargeIsBound
  <1>3. d \in Nat
    BY <1>1, InsideTyped
  <1>4. PrettyCost(vs, root, indent, i) = p
    BY DEF PrettyCost
  <1>5. p \in Nat
    <2>1. \A x, m \in Nat : (x + 1) * m \in Nat /\ x * m \in Nat
      OBVIOUS
    <2> HIDE DEF d
    <2> QED
      BY <1>3, <2>1
  <1> HIDE DEF p
  <1>6. Cost(i) = SlotBound(vs[i]) + (IF indent = 0 THEN 0 ELSE p)
    BY <1>4 DEF Cost
  <1>7. Costs[i] = Cost(i)
    BY DEF Costs
  <1> QED
    BY <1>2, <1>4, <1>5, <1>6, <1>7 DEF p

LEMMA RoomCovers ==
  ASSUME Ready, root \in 1..vi, indent \in Nat, RoomIs, DOMAIN vs = 1..SlabCap
  PROVE  SumOver(Costs, root, GetNext(vs, root) - 1) <= room
  <1> DEFINE e == GetNext(vs, root) - 1
             flat   == [i \in DOMAIN vs |-> SlotBound(vs[i])]
             pretty == [i \in DOMAIN vs |-> PrettyCost(vs, root, indent, i)]
             zero   == [i \in DOMAIN vs |-> 0]
  <1>1. /\ root \in Nat /\ root >= 1 /\ e \in Nat /\ e >= root - 1 /\ e <= vi
        /\ \A i \in root..e : i \in 1..vi /\ i \in 1..SlabCap /\ i <= vi
    BY DEF Ready
  <1>2. BoundSlots(vs, root) = 32 + SumOver(flat, root, e)
    BY DEF BoundSlots
  <1>3. 1 \in Nat /\ 0 \in Nat /\ 0 \in Int
    OBVIOUS
  <1>4. CASE indent = 0
    <2>1. \A i \in root..e : Costs[i] = SlotBound(vs[i]) /\ SlotBound(vs[i]) \in Nat
      BY <1>1, <1>4, CostIs
    <2>2. \A i \in root..e : flat[i] = SlotBound(vs[i])
      BY <1>1
    <2>3. Alike(Costs, flat, root, e, 0, 0)
      <3> HIDE DEF flat
      <3> QED
        BY <2>1, <2>2 DEF Alike
    <2> HIDE DEF flat, e
    <2>4. /\ SumOver(flat, root, e) \in Int
          /\ SumOver(Costs, root, e) = SumOver(flat, root, e) + (IF 0 \in root..e THEN 0 ELSE 0)
      BY <1>1, <1>3, <2>3, SumsAlike
    <2>5. PrettyExtra(vs, root, indent) = 0
      BY <1>4 DEF PrettyExtra
    <2> QED
      BY <1>2, <2>4, <2>5 DEF RoomIs, e
  <1>5. CASE indent # 0
    <2>1. \A i \in root..e : /\ SlotBound(vs[i]) \in Nat /\ PrettyCost(vs, root, indent, i) \in Nat
                             /\ Costs[i] = SlotBound(vs[i]) + PrettyCost(vs, root, indent, i)
      BY <1>1, <1>5, CostIs DEF Cost
    <2>2. \A i \in root..e : /\ flat[i] = SlotBound(vs[i])
                             /\ pretty[i] = PrettyCost(vs, root, indent, i)
      BY <1>1
    <2>3. PrettyExtra(vs, root, indent) = 8 + SumOver(pretty, root, e)
      BY <1>5 DEF PrettyExtra
    <2> HIDE DEF flat, pretty
    <2>4. Adds(Costs, flat, pretty, root, e, 1)
      BY <2>1, <2>2 DEF Adds
    <2> HIDE DEF e
    <2>5. /\ SumOver(flat, root, e) \in Nat /\ SumOver(pretty, root, e) \in Nat
          /\ SumOver(Costs, root, e) = SumOver(flat, root, e) + 1 * SumOver(pretty, root, e)
      BY <1>1, <1>3, <2>4, SumsAdd
    <2> QED
      BY <1>2, <2>3, <2>5 DEF RoomIs, e
  <1> QED
    BY <1>4, <1>5

-----------------------------------------------------------------------------
(* The frames are as many as the containers the next item stands in.       *)
LEMMA FramesAreCover ==
  ASSUME Ready, InPlace, Len(stack) \in Nat, pc = "item"
  PROVE  Len(stack) = Cardinality(Inside(vs, root, cur))
  <1> DEFINE S == 1..Len(stack)
             T == Inside(vs, root, cur)
  <1>1. PICK path \in [S -> root..(cur - 1)] : OnStack(path)
    BY DEF InPlace
  <1>2. root \in Nat /\ cur \in Nat
    BY DEF InPlace, Ready
  <1>3. path \in [S -> T]
    <2>1. \A n \in S : path[n] \in T
      BY <1>1 DEF OnStack, Inside
    <2> QED
      BY <1>1, <2>1
  <1>4. \A a, b \in S : path[a] = path[b] => a = b
    <2>1. \A n \in S : path[n] \in Int
      BY <1>1, <1>2
    <2>2. \A m, n \in S : m < n => path[m] < path[n]
      BY <1>1 DEF OnStack
    <2>3. \A m, n \in S : m = n \/ m < n \/ n < m
      OBVIOUS
    <2> QED
      BY <2>1, <2>2, <2>3
  <1>5. \A c \in T : \E n \in S : path[n] = c
    BY <1>1 DEF OnStack, Inside
  <1>6. IsFiniteSet(S) /\ Cardinality(S) = Len(stack)
    <2>1. 1 \in Int /\ Len(stack) \in Int /\ (1 > Len(stack) => Len(stack) = 0)
          /\ Len(stack) - 1 + 1 = Len(stack)
      OBVIOUS
    <2> QED
      BY <2>1, FS_Interval
  <1> HIDE DEF S, T
  <1>7. path \in Bijection(S, T)
    BY <1>3, <1>4, <1>5 DEF Bijection, Injection, Surjection, IsInjective
  <1>8. ExistsBijection(S, T)
    BY <1>7 DEF ExistsBijection
  <1>9. Cardinality(T) = Cardinality(S)
    BY <1>6, <1>8, FS_Bijection
  <1> QED
    BY <1>6, <1>9 DEF T

(* A writer inside a value of the document has no more frames than the     *)
(* parser had levels.                                                      *)
LEMMA FramesWithin ==
  ASSUME Ready, InPlace, Len(stack) \in Nat, pc = "item", Limit \in Nat,
         \A i \in 1..vi : Cardinality(Inside(vs, 1, i)) <= Limit
  PROVE  Len(stack) <= Limit
  <1>1. /\ root \in Nat /\ root >= 1 /\ cur \in Nat /\ cur \in 1..vi
    BY DEF InPlace, Ready
  <1>2. Inside(vs, root, cur) \subseteq Inside(vs, 1, cur)
    BY <1>1 DEF Inside
  <1>3. IsFiniteSet(Inside(vs, 1, cur)) /\ Cardinality(Inside(vs, 1, cur)) \in Nat
    BY <1>1, InsideTyped
  <1>4. Cardinality(Inside(vs, root, cur)) <= Cardinality(Inside(vs, 1, cur))
    BY <1>2, <1>3, FS_Subset
  <1>5. Len(stack) = Cardinality(Inside(vs, root, cur))
    BY FramesAreCover
  <1> QED
    BY <1>1, <1>3, <1>4, <1>5

-----------------------------------------------------------------------------
(* Where the writer is, step by step.                                      *)
LEMMA BeginPlace ==
  ASSUME Ready, NEW r \in 1..vi, root' = r, cur' = r, stack' = <<>>, pc' = "item",
         vs' = vs, vi' = vi
  PROVE  InPlace'
  <1>1. r \in Nat /\ GetNext(vs, r) \in Nat /\ r < GetNext(vs, r)
    BY DEF Ready
  <1>2. GetNext(vs, root)' = GetNext(vs, r)
    BY DEF GetNext, SpanOf
  <1>3. Len(stack') = 0
    OBVIOUS
  <1>5. cur' \in root'..GetNext(vs, root)' /\ cur' < GetNext(vs, root)'
    BY <1>1, <1>2
  <1>4. \E path \in [1..Len(stack') -> root'..(cur' - 1)] : OnStack(path)'
    <2>1. 1..Len(stack') = {} /\ root'..(cur' - 1) = {}
      BY <1>1, <1>3
    <2>2. [i \in {} |-> 0] \in [1..Len(stack') -> root'..(cur' - 1)]
      BY <2>1
    <2>3. ASSUME NEW path PROVE OnStack(path)'
      BY <2>1 DEF OnStack
    <2> QED
      BY <2>2, <2>3
  <1> QED
    BY ONLY <1>3, <1>4, <1>5, root' = r, vi' = vi, r \in 1..vi DEF InPlace

LEMMA OpenFrames ==
  ASSUME stack \in Seq(W!Frame), top \in W!Frame, vs[cur].ofs \in Nat, cur \in Nat, W!Open
  PROVE  /\ stack' \in Seq(W!Frame) /\ top' \in W!Frame
         /\ Len(stack) \in Nat /\ Len(stack') = Len(stack) + 1
         /\ top'.end = GetNext(vs, cur)
         /\ stack'[Len(stack) + 1].end = GetNext(vs, cur)
         /\ \A n \in 1..Len(stack) : stack'[n].end = stack[n].end
  <1> DEFINE f == [end |-> W!GetNext(vs, cur), obj |-> vs[cur].kind = "object",
                   key |-> vs[cur].kind = "object"]
             synced == IF W!Sp = 0 THEN stack ELSE [stack EXCEPT ![W!Sp].key = W!Flipped.key]
  <1>1. f \in W!Frame /\ f.end = GetNext(vs, cur)
    <2>1. W!GetNext(vs, cur) = GetNext(vs, cur) /\ GetNext(vs, cur) \in Nat
      BY WriterReads DEF GetNext, SpanOf
    <2> QED
      BY <2>1 DEF W!Frame
  <1>2. Len(stack) \in Nat /\ W!Sp = Len(stack)
    BY DEF W!Sp
  <1>3. /\ synced \in Seq(W!Frame) /\ Len(synced) = Len(stack)
        /\ \A n \in 1..Len(stack) : synced[n].end = stack[n].end
    <2>1. CASE Len(stack) = 0
      BY <1>2, <2>1
    <2>2. CASE Len(stack) # 0
      <3>1. W!Flipped.key \in BOOLEAN
        BY <1>2, <2>2 DEF W!Flipped, W!Frame
      <3>2. stack[Len(stack)] \in W!Frame /\ Len(stack) \in 1..Len(stack)
        BY <1>2, <2>2
      <3>3. [stack[Len(stack)] EXCEPT !.key = W!Flipped.key] \in W!Frame
        BY <3>1, <3>2 DEF W!Frame
      <3>4. synced = [stack EXCEPT ![Len(stack)] = [stack[Len(stack)] EXCEPT !.key = W!Flipped.key]]
        BY <1>2, <2>2
      <3>5. [stack[Len(stack)] EXCEPT !.key = W!Flipped.key].end = stack[Len(stack)].end
        BY <3>2 DEF W!Frame
      <3> HIDE DEF synced
      <3> QED
        BY <1>2, <3>2, <3>3, <3>4, <3>5
    <2> QED
      BY <1>2, <2>1, <2>2
  <1>4. stack' = Append(synced, f) /\ top' = f
    BY DEF W!Open
  <1> HIDE DEF f, synced
  <1> QED
    BY <1>1, <1>2, <1>3, <1>4

LEMMA OpenPlace ==
  ASSUME Ready, InPlace, stack \in Seq(W!Frame), top \in W!Frame, W!Open, vi' = vi
  PROVE  InPlace'
  <1> DEFINE n1 == Len(stack)
  <1>1. PICK path \in [1..n1 -> root..(cur - 1)] : OnStack(path)
    BY DEF InPlace
  <1>2. /\ pc = "item" /\ NonEmpty(vs[cur]) /\ cur' = cur + 1 /\ pc' = pc /\ vs' = vs
        /\ root' = root
    BY WriterReads DEF W!Open, W!outVars
  <1>3. /\ root \in 1..vi /\ root \in Nat /\ cur \in Nat /\ root <= cur /\ cur \in 1..vi
        /\ cur < GetNext(vs, root) /\ GetNext(vs, root) \in Nat /\ GetNext(vs, cur) \in Nat
        /\ cur + 1 < GetNext(vs, cur) /\ vs[cur].ofs \in Nat /\ vi \in Nat
        /\ \A c \in root..cur : c \in 1..vi /\ c \in Nat
    <2>1. root \in 1..vi /\ root \in Nat /\ cur \in Nat /\ root <= cur /\ cur < GetNext(vs, root)
          /\ GetNext(vs, root) \in root..(vi + 1)
      BY <1>2 DEF InPlace, Ready
    <2>2. cur \in 1..vi /\ vi \in Nat
      BY <2>1 DEF Ready
    <2>3. \A c \in root..cur : c \in 1..vi /\ c \in Nat
      BY <2>1, <2>2
    <2> QED
      BY <1>2, <2>1, <2>2, <2>3 DEF Ready, Slot
  <1>4. /\ Len(stack) \in Nat /\ Len(stack') = Len(stack) + 1
        /\ top'.end = GetNext(vs, cur)
        /\ stack'[Len(stack) + 1].end = GetNext(vs, cur)
        /\ \A n \in 1..Len(stack) : stack'[n].end = stack[n].end
    BY <1>3, OpenFrames
  <1>5. ASSUME NEW c \in root..(cur - 1), cur < GetNext(vs, c)
        PROVE  cur + 1 < GetNext(vs, c)
    <2>0. c \in root..cur /\ c < cur
      BY <1>3
    <2>3. c \in 1..vi
      BY <1>3, <2>0
    <2>4. c \in Nat /\ GetNext(vs, c) \in Nat
      BY <2>3, NextIs
    <2>1. c \in 1..vi /\ cur \in (c + 1)..(GetNext(vs, c) - 1) /\ GetNext(vs, c) \in Nat
      BY <1>3, <1>5, <2>0, <2>3, <2>4
    <2>2. GetNext(vs, cur) <= GetNext(vs, c)
      BY <2>1 DEF Ready
    <2> QED
      BY <1>3, <2>1, <2>2
  <1>6. cur + 1 < GetNext(vs, root)
    <2>1. CASE root = cur
      BY <1>3, <2>1
    <2>2. CASE root # cur
      <3>1. root \in root..(cur - 1)
        BY <1>3, <2>2
      <3> QED
        BY <1>3, <1>5, <3>1
    <2> QED
      BY <2>1, <2>2
  <1>7. PICK q : q = [n \in 1..(n1 + 1) |-> IF n = n1 + 1 THEN cur ELSE path[n]]
    OBVIOUS
  <1>8. /\ q \in [1..(n1 + 1) -> root..cur] /\ q[n1 + 1] = cur
        /\ \A n \in 1..n1 : q[n] = path[n] /\ path[n] \in root..(cur - 1) /\ path[n] < cur
    <2>1. \A n \in 1..n1 : path[n] \in root..(cur - 1) /\ path[n] \in root..cur /\ path[n] < cur
      BY <1>1, <1>3
    <2>2. /\ n1 \in Nat /\ cur \in root..cur /\ n1 + 1 \in 1..(n1 + 1)
          /\ \A n \in 1..(n1 + 1) : n = n1 + 1 \/ n \in 1..n1
          /\ \A n \in 1..n1 : n \in 1..(n1 + 1) /\ n # n1 + 1
      BY <1>3, <1>4
    <2> HIDE DEF n1
    <2> QED
      BY <1>7, <2>1, <2>2
  <1>9. \A n \in 1..(n1 + 1) : n = n1 + 1 \/ n \in 1..n1
    BY <1>4
  <1>10. \A m, n \in 1..(n1 + 1) : m < n => q[m] < q[n]
    <2>1. \A m, n \in 1..n1 : m < n => q[m] < q[n]
      BY <1>1, <1>8 DEF OnStack
    <2>2. \A m \in 1..n1 : q[m] < q[n1 + 1]
      BY <1>8
    <2>3. \A m \in 1..(n1 + 1) : ~(n1 + 1 < m)
      BY <1>4
    <2> QED
      BY <1>9, <2>1, <2>2, <2>3
  <1>11. \A n \in 1..(n1 + 1) :
           NonEmpty(vs[q[n]]) /\ stack'[n].end = GetNext(vs, q[n]) /\ cur + 1 < GetNext(vs, q[n])
    <2>1. ASSUME NEW n \in 1..n1
          PROVE  NonEmpty(vs[q[n]]) /\ stack'[n].end = GetNext(vs, q[n]) /\ cur + 1 < GetNext(vs, q[n])
      <3>1. NonEmpty(vs[path[n]]) /\ stack[n].end = GetNext(vs, path[n]) /\ cur < GetNext(vs, path[n])
        BY <1>1, <1>2 DEF OnStack
      <3> QED
        BY <1>4, <1>5, <1>8, <3>1
    <2> QED
      BY <1>2, <1>3, <1>4, <1>8, <1>9, <2>1
  <1>12. ASSUME NEW c \in root..cur, NonEmpty(vs[c]), cur + 1 < GetNext(vs, c)
         PROVE  \E n \in 1..(n1 + 1) : q[n] = c
    <2>1. CASE c = cur
      BY <1>4, <1>8, <2>1
    <2>2. CASE c # cur
      <3>1. c \in root..(cur - 1) /\ c \in 1..vi
        BY ONLY <1>3, <1>12, <2>2
      <3>2. GetNext(vs, c) \in Nat
        BY <3>1 DEF Ready
      <3>3. cur < GetNext(vs, c)
        BY <1>3, <1>12, <3>2
      <3>4. PICK n \in 1..n1 : path[n] = c
        BY <1>1, <1>12, <3>1, <3>3 DEF OnStack
      <3>5. n \in 1..(n1 + 1) /\ q[n] = c
        BY <1>4, <1>8, <3>4
      <3> QED
        BY <3>5
    <2> QED
      BY <2>1, <2>2
  <1>13. \A i : GetNext(vs, i)' = GetNext(vs', i) /\ GetNext(vs', i) = GetNext(vs, i)
    BY <1>2 DEF GetNext, SpanOf
  <1>14. cur' - 1 = cur /\ Len(stack') = n1 + 1
    BY <1>2, <1>3, <1>4
  <1>15. OnStack(q)'
    <2>1. \A n \in 1..(n1 + 1) : cur + 1 <= GetNext(vs, q[n])
      <3>1. \A n \in 1..(n1 + 1) : q[n] \in 1..vi
        BY <1>3, <1>8
      <3>2. \A n \in 1..(n1 + 1) : GetNext(vs, q[n]) \in Nat
        BY <3>1, NextIs
      <3>3. \A x \in Nat : cur + 1 < x => cur + 1 <= x
        BY <1>3
      <3> QED
        BY <1>11, <3>2, <3>3
    <2> QED
      BY ONLY <1>2, <1>10, <1>11, <1>12, <1>14, <2>1 DEF OnStack, GetNext, SpanOf
  <1>16. \E p \in [1..Len(stack') -> root'..(cur' - 1)] : OnStack(p)'
    BY <1>2, <1>8, <1>14, <1>15
  <1>17. GetNext(vs', root') = GetNext(vs, root)
    BY <1>2 DEF GetNext, SpanOf
  <1>18. cur' \in root'..GetNext(vs', root')
    BY <1>2, <1>3, <1>6, <1>17
  <1>19. Len(stack') # 0 => top'.end = stack'[Len(stack')].end
    BY <1>4
  <1> QED
    BY <1>2, <1>3, <1>6, <1>16, <1>17, <1>18, <1>19 DEF InPlace

(* An item without anything inside is followed by the next slot.           *)
LEMMA ItemPlace ==
  ASSUME Ready, InPlace, Len(stack) \in Nat, pc = "item", ~NonEmpty(vs[cur]), cur' = cur + 1,
         pc' = "close", stack' = stack, Len(stack) # 0 => top'.end = top.end,
         root' = root, vs' = vs, vi' = vi
  PROVE  InPlace'
  <1> DEFINE n1 == Len(stack)
  <1>1. PICK path \in [1..n1 -> root..(cur - 1)] : OnStack(path)
    BY DEF InPlace
  <1>2. root \in 1..vi /\ cur \in root..GetNext(vs, root) /\ cur < GetNext(vs, root)
        /\ (Len(stack) # 0 => top.end = stack[Len(stack)].end)
    BY DEF InPlace
  <1>3. /\ root \in Nat /\ cur \in Nat /\ root <= cur /\ GetNext(vs, root) \in Nat
        /\ vi \in Nat /\ \A c \in root..cur : c \in 1..vi
    <2>1. root \in Nat /\ vi \in Nat /\ GetNext(vs, root) \in Nat /\ GetNext(vs, root) <= vi + 1
      BY <1>2, NextIs
    <2> QED
      BY <1>2, <2>1
  <1>4. \A c \in root..cur : GetNext(vs, c) \in Nat
    BY <1>3, NextIs
  <1>5. ~(cur + 1 < GetNext(vs, cur))
    <2>0. cur \in root..cur
      BY <1>3
    <2>1. cur \in 1..vi
      BY <1>3, <2>0
    <2>2. GetNext(vs, cur) = cur + 1
      BY <2>1, NextIs
    <2> QED
      BY <1>3, <2>2
  <1>6. \A i : GetNext(vs, i)' = GetNext(vs', i) /\ GetNext(vs', i) = GetNext(vs, i)
    BY DEF GetNext, SpanOf
  <1>7. \A n \in 1..n1 : path[n] \in root..cur /\ path[n] \in root..(cur - 1)
    BY <1>1, <1>3
  <1>8. \A n \in 1..n1 : cur + 1 <= GetNext(vs, path[n])
    <2>1. \A n \in 1..n1 : cur < GetNext(vs, path[n]) /\ GetNext(vs, path[n]) \in Nat
      BY <1>1, <1>4, <1>7 DEF OnStack
    <2>2. \A x \in Nat : cur < x => cur + 1 <= x
      BY <1>3
    <2> QED
      BY <2>1, <2>2
  <1>9. ASSUME NEW c \in root..cur, NonEmpty(vs[c]), cur + 1 < GetNext(vs, c)
        PROVE  \E n \in 1..n1 : path[n] = c
    <2>1. c # cur
      BY <1>5, <1>9
    <2>2. c \in root..(cur - 1) /\ cur < GetNext(vs, c)
      BY <1>3, <1>4, <1>9, <2>1
    <2> QED
      BY <1>1, <1>9, <2>2 DEF OnStack
  <1>10. cur' - 1 = cur
    BY <1>3
  <1>11. OnStack(path)'
    <2>1. /\ \A m, n \in 1..n1 : m < n => path[m] < path[n]
          /\ \A n \in 1..n1 : NonEmpty(vs[path[n]]) /\ stack[n].end = GetNext(vs, path[n])
      BY <1>1 DEF OnStack
    <2>2. /\ cur' = cur + 1 /\ pc' # "item" /\ stack' = stack /\ root' = root /\ vs' = vs
      OBVIOUS
    <2> QED
      BY ONLY <1>8, <1>9, <1>10, <2>1, <2>2 DEF OnStack, GetNext, SpanOf
  <1>12. path \in [1..Len(stack') -> root'..(cur' - 1)]
    <2>1. path \in [1..n1 -> root..cur]
      BY <1>1, <1>7
    <2> QED
      BY <1>10, <2>1
  <1>13. \E p \in [1..Len(stack') -> root'..(cur' - 1)] : OnStack(p)'
    BY <1>11, <1>12
  <1>14. cur' \in root'..GetNext(vs', root')
    BY <1>2, <1>3, <1>6
  <1>15. Len(stack') # 0 => top'.end = stack'[Len(stack')].end
    BY <1>2
  <1> QED
    BY <1>2, <1>13, <1>14, <1>15 DEF InPlace

(* The containers around one that ends here or later end no sooner.        *)
LEMMA OutersEnd ==
  ASSUME Ready, root \in 1..vi, cur \in root..GetNext(vs, root), NEW c \in root..(cur - 1),
         NEW d \in root..(cur - 1), c <= d, cur <= GetNext(vs, c)
  PROVE  GetNext(vs, d) <= GetNext(vs, c)
  <1>1. root \in Nat /\ vi \in Nat /\ GetNext(vs, root) \in Nat /\ GetNext(vs, root) <= vi + 1
    BY NextIs
  <1>2. c \in 1..vi /\ d \in 1..vi /\ c \in Nat /\ d \in Nat /\ d < cur /\ cur \in Nat
    BY <1>1
  <1>3. GetNext(vs, c) \in Nat
    BY <1>2, NextIs
  <1>4. CASE c = d
    BY <1>3, <1>4
  <1>5. CASE c # d
    <2>1. d \in (c + 1)..(GetNext(vs, c) - 1)
      BY <1>2, <1>3, <1>5
    <2> QED
      BY <1>2, <2>1 DEF Ready
  <1> QED
    BY <1>4, <1>5

LEMMA CloseTopPlace ==
  ASSUME Ready, InPlace, stack \in Seq(W!Frame), W!CloseTop, vi' = vi
  PROVE  /\ InPlace' /\ stack' \in Seq(W!Frame) /\ Len(stack) \in Nat \ {0}
         /\ Len(stack') = Len(stack) - 1
  <1> DEFINE n1 == Len(stack)
  <1>1. PICK path \in [1..n1 -> root..(cur - 1)] : OnStack(path)
    BY DEF InPlace
  <1>2. /\ n1 # 0 /\ cur = top.end /\ pc' = pc /\ pc = "close" /\ cur' = cur /\ vs' = vs
        /\ root' = root /\ stack' = SubSeq(stack, 1, n1 - 1)
        /\ top' = IF n1 > 1 THEN stack[n1 - 1] ELSE top
    BY DEF W!CloseTop, W!Sp, W!Front, W!outVars
  <1>3. /\ n1 \in Nat /\ n1 - 1 \in Nat /\ Len(stack') = n1 - 1 /\ stack' \in Seq(W!Frame)
        /\ \A n \in 1..(n1 - 1) : stack'[n] = stack[n] /\ n \in 1..n1 /\ n < n1
        /\ n1 \in 1..n1
    <2>1. n1 \in Nat /\ n1 # 0
      BY <1>2
    <2>2. stack' = SubSeq(stack, 1, n1 - 1)
      BY <1>2
    <2> HIDE DEF n1
    <2>3. n1 - 1 \in Nat /\ n1 \in 1..n1 /\ \A n \in 1..(n1 - 1) : n \in 1..n1 /\ n < n1
      BY ONLY <2>1
    <2>4. Len(stack) = n1
      BY DEF n1
    <2>5. \A n \in 1..n1 : stack[n] \in W!Frame
      BY <2>4
    <2>6. stack' = [n \in 1..(n1 - 1) |-> stack[n]]
      BY ONLY <2>2, <2>3, <2>4, <2>1, stack \in Seq(W!Frame)
    <2>7. stack' \in [1..(n1 - 1) -> W!Frame]
      BY ONLY <2>3, <2>5, <2>6
    <2>8. stack' \in Seq(W!Frame) /\ Len(stack') = n1 - 1
      BY ONLY <2>3, <2>7
    <2> QED
      BY ONLY <2>1, <2>3, <2>6, <2>8
  <1>4. cur = GetNext(vs, path[n1])
    BY <1>1, <1>2, <1>3 DEF InPlace, OnStack
  <1>5. ~(cur < GetNext(vs, path[n1]))
    <2>1. cur \in Int
      BY <1>1, <1>3 DEF InPlace
    <2> QED
      BY <1>4, <2>1
  <1>6. PICK q : q = [n \in 1..(n1 - 1) |-> path[n]]
    OBVIOUS
  <1>7. /\ q \in [1..(n1 - 1) -> root..(cur - 1)]
        /\ \A n \in 1..(n1 - 1) : q[n] = path[n]
    <2> HIDE DEF n1
    <2> QED
      BY <1>1, <1>3, <1>6
  <1>8. ASSUME NEW c \in root..(cur - 1), NonEmpty(vs[c]), cur < GetNext(vs, c)
        PROVE  \E n \in 1..(n1 - 1) : q[n] = c
    <2>1. PICK n \in 1..n1 : path[n] = c
      BY <1>1, <1>8 DEF OnStack
    <2>2. n # n1
      BY <1>5, <1>8, <2>1
    <2>3. n \in 1..(n1 - 1)
      BY <1>3, <2>2
    <2> QED
      BY <1>7, <2>1, <2>3
  <1>9. OnStack(q)'
    <2>1. /\ \A m, n \in 1..(n1 - 1) : m < n => q[m] < q[n]
          /\ \A n \in 1..(n1 - 1) : /\ NonEmpty(vs[q[n]]) /\ stack'[n].end = GetNext(vs, q[n])
                                    /\ cur <= GetNext(vs, q[n])
      BY <1>1, <1>3, <1>7 DEF OnStack
    <2>2. pc' # "item"
      BY <1>2
    <2>3. cur' = cur /\ root' = root /\ vs' = vs /\ Len(stack') = n1 - 1
      BY <1>2, <1>3
    <2> QED
      BY ONLY <1>8, <2>1, <2>2, <2>3 DEF OnStack, GetNext, SpanOf
  <1>10. \E p \in [1..Len(stack') -> root'..(cur' - 1)] : OnStack(p)'
    BY <1>2, <1>3, <1>7, <1>9
  <1>11. Len(stack') # 0 => top'.end = stack'[Len(stack')].end
    <2> HIDE DEF n1
    <2> QED
      BY <1>2, <1>3
  <1>12. GetNext(vs', root') = GetNext(vs, root)
    BY <1>2 DEF GetNext, SpanOf
  <1>13. root' \in 1..vi' /\ cur' \in root'..GetNext(vs', root') /\ pc' # "item"
    BY <1>2, <1>12 DEF InPlace
  <1> QED
    BY <1>2, <1>3, <1>10, <1>11, <1>13 DEF InPlace

LEMMA NextItemPlace ==
  ASSUME Ready, InPlace, Len(stack) \in Nat, W!NextItem, vi' = vi
  PROVE  InPlace'
  <1> DEFINE n1 == Len(stack)
  <1>1. PICK path \in [1..n1 -> root..(cur - 1)] : OnStack(path)
    BY DEF InPlace
  <1>2. /\ n1 # 0 /\ cur # top.end /\ pc' = "item"
        /\ UNCHANGED <<vs, root, cur, stack, top>>
    BY DEF W!NextItem, W!Sp, W!outVars
  <1>3. /\ root \in 1..vi /\ cur \in root..GetNext(vs, root) /\ n1 \in 1..n1
        /\ top.end = stack[n1].end
    BY <1>2 DEF InPlace
  <1>4. root \in Nat /\ vi \in Nat /\ GetNext(vs, root) \in Nat /\ cur \in Nat
        /\ GetNext(vs, root) <= vi + 1 /\ \A c \in root..(cur - 1) : c \in 1..vi
    <2>1. root \in Nat /\ vi \in Nat /\ GetNext(vs, root) \in Nat /\ GetNext(vs, root) <= vi + 1
      BY <1>3, NextIs
    <2> QED
      BY <1>3, <2>1
  <1>5. \A n \in 1..n1 : /\ path[n] \in root..(cur - 1) /\ cur <= GetNext(vs, path[n])
                         /\ GetNext(vs, path[n]) \in Nat
    <2>1. \A n \in 1..n1 : path[n] \in 1..vi
      BY <1>1, <1>4
    <2> QED
      BY <1>1, <2>1, NextIs DEF OnStack
  <1>6. cur < GetNext(vs, path[n1])
    <2>1. cur # GetNext(vs, path[n1])
      BY <1>1, <1>2, <1>3 DEF OnStack
    <2>2. cur <= GetNext(vs, path[n1]) /\ GetNext(vs, path[n1]) \in Nat
      BY <1>3, <1>5
    <2> QED
      BY <1>4, <2>1, <2>2
  <1>7. ASSUME NEW n \in 1..n1 PROVE cur < GetNext(vs, path[n])
    <2>1. path[n] <= path[n1]
      <3>1. n = n1 \/ n < n1
        OBVIOUS
      <3>2. n < n1 => path[n] < path[n1]
        BY <1>1, <1>3 DEF OnStack
      <3>3. path[n] \in Int /\ path[n1] \in Int
        BY <1>3, <1>5
      <3> QED
        BY <3>1, <3>2, <3>3
    <2>2. GetNext(vs, path[n1]) <= GetNext(vs, path[n])
      BY <1>3, <1>5, <2>1, OutersEnd
    <2>3. GetNext(vs, path[n1]) \in Nat /\ GetNext(vs, path[n]) \in Nat
      BY <1>3, <1>5
    <2> QED
      BY <1>4, <1>6, <2>2, <2>3
  <1>8. cur < GetNext(vs, root)
    <2>1. root \in root..(cur - 1) /\ root <= path[n1]
      BY <1>3, <1>4, <1>5
    <2>2. GetNext(vs, path[n1]) <= GetNext(vs, root)
      <3>1. cur <= GetNext(vs, root)
        BY <1>3, <1>4
      <3> QED
        BY <1>3, <1>5, <2>1, <3>1, OutersEnd
    <2>3. GetNext(vs, path[n1]) \in Nat
      BY <1>3, <1>5
    <2> QED
      BY <1>4, <1>6, <2>2, <2>3
  <1>9. OnStack(path)'
    <2>1. /\ \A m, n \in 1..n1 : m < n => path[m] < path[n]
          /\ \A n \in 1..n1 : /\ NonEmpty(vs[path[n]]) /\ stack[n].end = GetNext(vs, path[n])
                              /\ cur <= GetNext(vs, path[n])
          /\ \A c \in root..(cur - 1) :
               NonEmpty(vs[c]) /\ cur < GetNext(vs, c) => \E n \in 1..n1 : path[n] = c
      BY <1>1 DEF OnStack
    <2> QED
      BY ONLY <1>2, <1>7, <2>1 DEF OnStack, GetNext, SpanOf
  <1>10. \E p \in [1..Len(stack') -> root'..(cur' - 1)] : OnStack(p)'
    BY <1>2, <1>1, <1>9
  <1>11. GetNext(vs', root') = GetNext(vs, root)
    BY <1>2 DEF GetNext, SpanOf
  <1> QED
    BY <1>2, <1>3, <1>8, <1>10, <1>11 DEF InPlace

-----------------------------------------------------------------------------
(* The bytes, step by step.                                                *)
LEMMA NewlineIs ==
  ASSUME indent \in Nat, NEW d \in Nat
  PROVE  /\ d * indent \in Nat /\ d * indent <= (d + 1) * indent /\ (d + 1) * indent \in Nat
         /\ W!Newline(d) \in Nat
         /\ indent # 0 => W!Newline(d) = 1 + d * indent
         /\ indent = 0 => W!Newline(d) = 0
  <1>1. \A x, m \in Nat : x * m \in Nat /\ x * m <= (x + 1) * m /\ (x + 1) * m \in Nat
    OBVIOUS
  <1>2. d * indent \in Nat /\ d * indent <= (d + 1) * indent /\ (d + 1) * indent \in Nat
    BY <1>1
  <1> QED
    BY <1>2 DEF W!Newline

LEMMA ClosersAdd ==
  ASSUME indent \in Nat, NEW d \in Nat
  PROVE  /\ SumOver(CloserCosts, 1, d) \in Nat
         /\ SumOver(CloserCosts, 1, d + 1) = SumOver(CloserCosts, 1, d) + (W!Newline(d) + 1)
  <1>1. \A l \in 1..(d + 1) : CloserCosts[l] \in Nat
    <2> TAKE l \in 1..(d + 1)
    <2>1. l \in Nat /\ l - 1 \in Nat
      OBVIOUS
    <2>2. W!Newline(l - 1) \in Nat
      BY <2>1, NewlineIs
    <2> QED
      BY <2>1, <2>2 DEF CloserCosts
  <1>2. CloserCosts[d + 1] = W!Newline(d) + 1
    <2>1. d + 1 \in Nat /\ (d + 1) - 1 = d
      OBVIOUS
    <2> QED
      BY <2>1 DEF CloserCosts
  <1>3. 1 \in Nat /\ 1 >= 1 /\ d + 1 \in Nat /\ d + 1 >= d /\ d >= 1 - 1 /\ d + 1 >= 1
        /\ (d + 1) - 1 = d
    OBVIOUS
  <1>4. SumOver(CloserCosts, 1, d) \in Nat
    BY ONLY <1>1, <1>3, d \in Nat, SumsGrow
  <1>5. SumOver(CloserCosts, 1, d + 1) = SumOver(CloserCosts, 1, (d + 1) - 1) + CloserCosts[d + 1]
    BY <1>3, SumIs
  <1> QED
    BY <1>2, <1>3, <1>4, <1>5

(* One slot further on, one more slot's share.                             *)
LEMMA CostsAdd ==
  ASSUME Ready, root \in 1..vi, indent \in Nat, cur \in root..vi
  PROVE  /\ SumOver(Costs, root, cur - 1) \in Nat /\ Cost(cur) \in Nat
         /\ SumOver(Costs, root, cur) = SumOver(Costs, root, cur - 1) + Cost(cur)
  <1>1. /\ root \in Nat /\ root >= 1 /\ vi \in Nat /\ cur \in Nat /\ cur - 1 \in Nat
        /\ cur - 1 >= root - 1 /\ cur >= cur - 1 /\ cur >= root
        /\ \A i \in root..cur : i \in 1..SlabCap /\ i <= vi
    BY DEF Ready
  <1>2. \A i \in root..cur : Costs[i] = Cost(i) /\ Costs[i] \in Nat
    BY <1>1, CostIs
  <1>3. SumOver(Costs, root, cur - 1) \in Nat
    <2>1. \A i \in root..cur : Costs[i] \in Nat
      BY <1>2
    <2> QED
      BY ONLY <1>1, <2>1, SumsGrow
  <1>4. SumOver(Costs, root, cur) = SumOver(Costs, root, cur - 1) + Costs[cur]
    BY ONLY <1>1, SumIs
  <1>5. cur \in root..cur
    BY <1>1
  <1> QED
    BY <1>2, <1>3, <1>4, <1>5

LEMMA SameCosts ==
  ASSUME UNCHANGED <<inp, opt, vs, vi, root, indent>>
  PROVE  /\ Costs' = Costs /\ CloserCosts' = CloserCosts
         /\ Ready' = Ready /\ Counted' = Counted /\ Limit' = Limit /\ SlabCap' = SlabCap
         /\ room' = room => RoomIs' = RoomIs
  <1>1. SlabCap' = SlabCap
    BY DEF SlabCap, NUnits
  <1>2. Costs' = Costs
    BY <1>1 DEF Costs, Cost, SlotBound, PrettyCost, Inside, NonEmpty, IsCtn, GetNext, SpanOf
  <1>3. CloserCosts' = CloserCosts
    BY DEF CloserCosts, W!Newline
  <1>4. Ready' = Ready
    BY <1>1 DEF Ready, NonEmpty, IsCtn, GetNext, SpanOf
  <1>5. room' = room => RoomIs' = RoomIs
    BY DEF RoomIs
  <1> QED
    BY <1>1, <1>2, <1>3, <1>4, <1>5 DEF Counted, Limit

(* What is left of an item's share when it has no more to give.            *)
LEMMA ItemFits ==
  ASSUME Ready, InPlace, Len(stack) \in Nat, pc = "item", indent \in Nat,
         NEW d, d = Len(stack)
  PROVE  /\ cur \in root..vi /\ root \in 1..vi /\ W!LineStart \in Nat
         /\ NonEmpty(vs[cur]) => Cost(cur) >= (W!LineStart + 1) + (W!Newline(d) + 1)
         /\ ~NonEmpty(vs[cur]) => Cost(cur) >= W!LineStart + SlotBound(vs[cur])
         /\ ~NonEmpty(vs[cur]) /\ indent # 0 => Cost(cur) >= W!LineStart + SlotBound(vs[cur]) + 2
  <1>1. root \in 1..vi /\ cur \in root..GetNext(vs, root) /\ cur < GetNext(vs, root)
    BY DEF InPlace
  <1>2. cur \in 1..vi /\ cur \in root..vi /\ cur \in 1..SlabCap /\ cur <= vi
    <2>1. GetNext(vs, root) \in Nat /\ GetNext(vs, root) <= vi + 1 /\ vi \in Nat /\ root \in Nat
          /\ root >= 1
      BY <1>1, NextIs
    <2>2. SlabCap \in Nat /\ vi <= SlabCap
      BY DEF Ready
    <2> QED
      BY <1>1, <2>1, <2>2
  <1>3. Cardinality(Inside(vs, root, cur)) = d
    BY FramesAreCover
  <1>4. /\ W!Newline(d) \in Nat /\ d * indent \in Nat /\ d * indent <= (d + 1) * indent
        /\ (d + 1) * indent \in Nat
        /\ indent # 0 => W!Newline(d) = 1 + d * indent
        /\ indent = 0 => W!Newline(d) = 0
    BY NewlineIs
  <1>5. W!LineStart = 0 \/ W!LineStart = W!Newline(d)
    BY DEF W!LineStart, W!Sp
  <1>6. /\ SlotBound(vs[cur]) \in Nat
        /\ indent = 0 => Cost(cur) = SlotBound(vs[cur])
        /\ indent # 0 /\ NonEmpty(vs[cur]) =>
             Cost(cur) = SlotBound(vs[cur]) + ((1 + (d + 1) * indent) + 2 + (1 + d * indent))
        /\ indent # 0 /\ ~NonEmpty(vs[cur]) =>
             Cost(cur) = SlotBound(vs[cur]) + ((1 + d * indent) + 2)
    BY <1>1, <1>2, <1>3, CostIs
  <1>7. NonEmpty(vs[cur]) => SlotBound(vs[cur]) = 12
    <2>1. vs[cur] \in Slot
      BY <1>2, NextIs
    <2> QED
      BY <2>1, ChargeIsBound DEF NonEmpty
  <1> DEFINE c == Cost(cur)
             b == SlotBound(vs[cur])
             x == d * indent
             y == (d + 1) * indent
             nl == W!Newline(d)
             ls == W!LineStart
  <1> HIDE DEF c, b, x, y, nl, ls
  <1>8. /\ nl \in Nat /\ x \in Nat /\ x <= y /\ y \in Nat /\ b \in Nat
        /\ indent # 0 => nl = 1 + x
        /\ indent = 0 => nl = 0
        /\ ls = 0 \/ ls = nl
    BY <1>4, <1>5, <1>6 DEF x, y, nl, ls, b
  <1>9. /\ NonEmpty(vs[cur]) => b = 12
        /\ indent = 0 => c = b
        /\ indent # 0 /\ NonEmpty(vs[cur]) => c = b + ((1 + y) + 2 + (1 + x))
        /\ indent # 0 /\ ~NonEmpty(vs[cur]) => c = b + ((1 + x) + 2)
    BY <1>6, <1>7 DEF x, y, b, c
  <1>10. ls \in Nat /\ ls <= nl
    BY ONLY <1>8
  <1>11. NonEmpty(vs[cur]) => c >= (ls + 1) + (nl + 1)
    BY ONLY <1>8, <1>9, <1>10
  <1>12. ~NonEmpty(vs[cur]) => c >= ls + b
    BY ONLY <1>8, <1>9, <1>10
  <1>13. ~NonEmpty(vs[cur]) /\ indent # 0 => c >= ls + b + 2
    BY ONLY <1>8, <1>9, <1>10
  <1> QED
    BY <1>1, <1>2, <1>10, <1>11, <1>12, <1>13 DEF c, b, nl, ls

LEMMA OpenBytes ==
  ASSUME Ready, InPlace, BytesSoFar, stack \in Seq(W!Frame), top \in W!Frame, indent \in Nat,
         w \in Int, W!Open, UNCHANGED vars
  PROVE  BytesSoFar' /\ w' \in Int
  <1> DEFINE d == Len(stack)
  <1>1. /\ pc = "item" /\ NonEmpty(vs[cur]) /\ w' = w + W!LineStart + 1 /\ cur' = cur + 1
        /\ root' = root /\ indent' = indent
    BY WriterReads DEF W!Open, W!outVars
  <1>2. d \in Nat
    OBVIOUS
  <1>3. /\ cur \in root..vi /\ root \in 1..vi /\ W!LineStart \in Nat
        /\ Cost(cur) >= (W!LineStart + 1) + (W!Newline(d) + 1)
    BY <1>1, <1>2, ItemFits
  <1>4. Len(stack') = d + 1
    <2>1. cur \in 1..vi
      BY <1>3 DEF Ready
    <2>2. vs[cur].ofs \in Nat /\ cur \in Nat
      BY <2>1, NextIs
    <2> QED
      BY <2>2, OpenFrames
  <1>5. /\ SumOver(Costs, root, cur - 1) \in Nat /\ Cost(cur) \in Nat
        /\ SumOver(Costs, root, cur) = SumOver(Costs, root, cur - 1) + Cost(cur)
    BY <1>3, CostsAdd
  <1>6. /\ SumOver(CloserCosts, 1, d) \in Nat /\ W!Newline(d) \in Nat
        /\ SumOver(CloserCosts, 1, d + 1) = SumOver(CloserCosts, 1, d) + (W!Newline(d) + 1)
    BY <1>2, ClosersAdd, NewlineIs
  <1>7. w + SumOver(CloserCosts, 1, d) <= SumOver(Costs, root, cur - 1)
    BY DEF BytesSoFar
  <1>8. w' + SumOver(CloserCosts, 1, d + 1) <= SumOver(Costs, root, cur)
    <2> HIDE DEF d
    <2> QED
      BY ONLY <1>1, <1>3, <1>5, <1>6, <1>7, w \in Int
  <1>9. /\ SumOver(CloserCosts, 1, Len(stack))' = SumOver(CloserCosts, 1, d + 1)
        /\ SumOver(Costs, root, cur - 1)' = SumOver(Costs, root, cur)
    <2>1. Costs' = Costs /\ CloserCosts' = CloserCosts
      BY <1>1, SameCosts DEF vars
    <2>2. cur' - 1 = cur
      BY <1>1, <1>3, NextIs
    <2> QED
      BY <1>1, <1>4, <2>1, <2>2
  <1> QED
    BY <1>1, <1>3, <1>8, <1>9 DEF BytesSoFar

LEMMA ItemBytes ==
  ASSUME Ready, InPlace, BytesSoFar, Len(stack) \in Nat, indent \in Nat, w \in Int,
         W!Empty \/ W!Scalar, UNCHANGED vars
  PROVE  /\ BytesSoFar' /\ w' \in Int
         /\ pc = "item" /\ pc' = "close" /\ ~NonEmpty(vs[cur]) /\ cur' = cur + 1
         /\ stack' = stack /\ top' = W!Flipped /\ root' = root /\ indent' = indent /\ room' = room
  <1> DEFINE d == Len(stack)
  <1>1. /\ pc = "item" /\ pc' = "close" /\ ~NonEmpty(vs[cur])
        /\ stack' = stack /\ top' = W!Flipped /\ root' = root /\ indent' = indent /\ room' = room
    BY WriterReads DEF W!Empty, W!Scalar, W!outVars, NonEmpty
  <1>2. /\ cur \in root..vi /\ root \in 1..vi /\ W!LineStart \in Nat
        /\ Cost(cur) >= W!LineStart + SlotBound(vs[cur])
        /\ indent # 0 => Cost(cur) >= W!LineStart + SlotBound(vs[cur]) + 2
    BY <1>1, ItemFits
  <1>3. cur \in 1..vi /\ vs[cur] \in Slot /\ cur \in Nat /\ GetNext(vs, cur) = cur + 1
    <2>1. cur \in 1..vi
      BY <1>2 DEF Ready
    <2> QED
      BY <1>1, <2>1, NextIs
  <1>4. cur' = cur + 1
    BY <1>3, WriterReads DEF W!Empty, W!Scalar
  <1>5. SlotBound(vs[cur]) \in Nat
    BY <1>3, ChargeIsBound
  <1>6. \E n \in Nat : /\ w' = w + W!LineStart + n
                       /\ n <= SlotBound(vs[cur]) + (IF indent # 0 THEN 2 ELSE 0)
    <2>1. CASE W!Empty
      <3>1. IsCtn(vs[cur]) /\ w' = w + W!LineStart + 3
        BY <2>1, WriterReads DEF W!Empty
      <3>2. SlotBound(vs[cur]) = 12
        BY <1>3, <3>1, ChargeIsBound
      <3> QED
        BY <3>1, <3>2
    <2>2. CASE W!Scalar
      <3> DEFINE e == IF W!IsKeyNow /\ indent # 0 THEN 2 ELSE 1
                 u == W!Width(vs[cur])
      <3>1. w' = w + W!LineStart + u + e
        BY <2>2 DEF W!Scalar
      <3>2. vs[cur].len \in Nat /\ vs[cur].len * 6 \in Nat
        <4>1. vs[cur].len \in Nat
          BY <1>3 DEF Slot
        <4>2. \A x \in Nat : x * 6 \in Nat
          OBVIOUS
        <4> QED
          BY <4>1, <4>2
      <3>3. u \in Nat /\ u + 1 <= SlotBound(vs[cur])
        <4> DEFINE a == vs[cur].len
                   b == vs[cur].len * 6
        <4>1. a \in Nat /\ b \in Nat
          BY <3>2
        <4>2. CASE vs[cur].kind = "string"
          <5>1. /\ u = (IF vs[cur].sub = "noesc" THEN a ELSE b) + 2
                /\ SlotBound(vs[cur]) = (IF vs[cur].sub = "noesc" THEN a ELSE b) + 4
            BY <4>2 DEF W!Width, SlotBound
          <5> HIDE DEF a, b, u
          <5> QED
            BY <4>1, <5>1
        <4>3. CASE vs[cur].kind = "raw"
          <5>1. u = a /\ SlotBound(vs[cur]) = a + 12
            BY <4>3 DEF W!Width, SlotBound
          <5> HIDE DEF a, u
          <5> QED
            BY <4>1, <5>1
        <4>4. CASE vs[cur].kind = "number"
          BY <4>4 DEF W!Width, SlotBound
        <4>5. CASE vs[cur].kind \notin {"string", "raw", "number"}
          BY <4>5 DEF W!Width, SlotBound
        <4> QED
          BY <4>2, <4>3, <4>4, <4>5
      <3>4. e \in Nat /\ e <= 1 + (IF indent # 0 THEN 2 ELSE 0)
        OBVIOUS
      <3> HIDE DEF u, e
      <3>5. u + e \in Nat /\ u + e <= SlotBound(vs[cur]) + (IF indent # 0 THEN 2 ELSE 0)
        BY <1>5, <3>3, <3>4
      <3>6. w' = w + W!LineStart + (u + e)
        BY <1>2, <3>1, <3>3, <3>4
      <3> QED
        BY <3>5, <3>6
    <2> QED
      BY <2>1, <2>2
  <1>7. /\ SumOver(Costs, root, cur - 1) \in Nat /\ Cost(cur) \in Nat
        /\ SumOver(Costs, root, cur) = SumOver(Costs, root, cur - 1) + Cost(cur)
    BY <1>2, CostsAdd
  <1>8. SumOver(CloserCosts, 1, d) \in Nat
    BY ClosersAdd
  <1>9. w + SumOver(CloserCosts, 1, d) <= SumOver(Costs, root, cur - 1)
    BY DEF BytesSoFar
  <1>10. w' \in Int /\ w' <= w + Cost(cur)
    <2>1. PICK n \in Nat : /\ w' = w + W!LineStart + n
                           /\ n <= SlotBound(vs[cur]) + (IF indent # 0 THEN 2 ELSE 0)
      BY <1>6
    <2>2. CASE indent = 0
      BY ONLY <1>2, <1>5, <1>7, <2>1, <2>2, w \in Int
    <2>3. CASE indent # 0
      BY ONLY <1>2, <1>5, <1>7, <2>1, <2>3, w \in Int
    <2> QED
      BY <2>2, <2>3
  <1>11. w' + SumOver(CloserCosts, 1, d) <= SumOver(Costs, root, cur)
    <2> HIDE DEF d
    <2> QED
      BY ONLY <1>7, <1>8, <1>9, <1>10, w \in Int
  <1>12. /\ SumOver(CloserCosts, 1, Len(stack))' = SumOver(CloserCosts, 1, d)
         /\ SumOver(Costs, root, cur - 1)' = SumOver(Costs, root, cur)
    <2>1. Costs' = Costs /\ CloserCosts' = CloserCosts
      BY <1>1, SameCosts DEF vars
    <2>2. cur' - 1 = cur
      BY <1>3, <1>4
    <2> QED
      BY <1>1, <2>1, <2>2
  <1> QED
    BY <1>1, <1>4, <1>10, <1>11, <1>12 DEF BytesSoFar

LEMMA CloseTopBytes ==
  ASSUME BytesSoFar, Len(stack) \in Nat \ {0}, Len(stack') = Len(stack) - 1,
         indent \in Nat, w \in Int, W!CloseTop, UNCHANGED vars
  PROVE  BytesSoFar' /\ w' \in Int
  <1> DEFINE d == Len(stack) - 1
  <1>1. w' = w - 1 + W!Newline(Len(stack) - 1) + 2 /\ UNCHANGED <<cur, root, indent>>
    BY DEF W!CloseTop, W!Sp, W!outVars
  <1>2. d \in Nat /\ d + 1 = Len(stack)
    OBVIOUS
  <1>3. /\ SumOver(CloserCosts, 1, d) \in Nat /\ W!Newline(d) \in Nat
        /\ SumOver(CloserCosts, 1, d + 1) = SumOver(CloserCosts, 1, d) + (W!Newline(d) + 1)
    BY <1>2, ClosersAdd, NewlineIs
  <1>4. w' = w + (W!Newline(d) + 1)
    BY <1>1, <1>3
  <1>5. w + SumOver(CloserCosts, 1, d + 1) <= SumOver(Costs, root, cur - 1)
    BY <1>2 DEF BytesSoFar
  <1>6. w' + SumOver(CloserCosts, 1, d) = w + SumOver(CloserCosts, 1, d + 1) /\ w' \in Int
    <2> HIDE DEF d
    <2> QED
      BY ONLY <1>3, <1>4, w \in Int
  <1>7. /\ SumOver(CloserCosts, 1, Len(stack))' = SumOver(CloserCosts, 1, d)
        /\ SumOver(Costs, root, cur - 1)' = SumOver(Costs, root, cur - 1)
    <2>1. Costs' = Costs /\ CloserCosts' = CloserCosts
      BY <1>1, SameCosts DEF vars
    <2> QED
      BY <1>1, <2>1
  <1> QED
    BY <1>5, <1>6, <1>7 DEF BytesSoFar

-----------------------------------------------------------------------------
(* That the frames stay within the limit, of the state after a step.       *)
FramesLimited ==
  Ready /\ InPlace /\ Len(stack) \in Nat /\ pc = "item" /\ Limit \in Nat
    /\ (\A i \in 1..vi : Cardinality(Inside(vs, 1, i)) <= Limit)
  => Len(stack) <= Limit

LEMMA FramesAreLimited == FramesLimited
  BY FramesWithin DEF FramesLimited

LEMMA FramesStayLimited == FramesLimited'
  BY FramesAreLimited, PTL

CallInv == opt \in Options /\ BoundsInv /\ WriterInv

LEMMA LimitIs ==
  ASSUME IInv
  PROVE  Counted => Limit \in Nat
  BY LimitAssumption DEF Limit, IInv, TypeOK, OptionType

LEMMA InitCall ==
  ASSUME CallInit
  PROVE  CallInv
  <1>1. BoundsInv
    BY InitBounds DEF CallInit
  <1>2. Counted => Limit \in Nat
    BY <1>1, LimitIs DEF BoundsInv, TreeInv
  <1>3. WriterInv
    BY <1>2 DEF CallInit, WriterInv, W!NoFrame, W!Frame
  <1> QED
    BY <1>1, <1>3 DEF CallInv, CallInit, Init

(* While the text is read nothing is written.                              *)
LEMMA ParseKeepsWriter ==
  ASSUME IInv, WriterInv, CallParse
  PROVE  WriterInv'
  <1>1. res = "run" /\ opt' = opt
    BY DEF CallParse, Step, ValueLeaf, ValueEmpty, ValueOpen, ValueFail, AfterRoot, AfterComma,
           AfterClose, AfterFail, Key, KeyFail, Running, AtValue, InCtn, Fail, PutChild
  <1>2. UNCHANGED outVars /\ pc = "idle"
    BY <1>1 DEF CallParse, WriterInv
  <1>3. Counted' = Counted /\ Limit' = Limit
    BY <1>1 DEF Counted, Limit
  <1> QED
    BY <1>2, <1>3 DEF WriterInv, outVars

LEMMA StillKeepsWriter ==
  ASSUME WriterInv, UNCHANGED <<vars, outVars>>
  PROVE  WriterInv'
  <1>1. UNCHANGED <<inp, opt, vs, vi, root, indent>>
    BY DEF vars, outVars
  <1>2. /\ Costs' = Costs /\ CloserCosts' = CloserCosts /\ Counted' = Counted /\ Limit' = Limit
        /\ room' = room => RoomIs' = RoomIs
    BY <1>1, SameCosts
  <1>3. BytesSoFar' = BytesSoFar
    BY <1>2 DEF BytesSoFar, vars, outVars
  <1>4. InPlace' = InPlace
    BY DEF InPlace, OnStack, NonEmpty, IsCtn, GetNext, SpanOf, vars, outVars
  <1>5. Writing' = Writing
    BY <1>2, <1>3, <1>4 DEF Writing, outVars
  <1> QED
    BY <1>2, <1>5 DEF WriterInv, vars, outVars

(* What was written is within the room, closers to come or not.            *)
LEMMA BytesWithin ==
  ASSUME IInv, Ready, InPlace, RoomIs, BytesSoFar, Len(stack) \in Nat, indent \in Nat,
         w \in Int, room \in Nat
  PROVE  w <= room
  <1>1. root \in 1..vi /\ cur \in root..GetNext(vs, root)
    BY DEF InPlace
  <1>2. /\ root \in Nat /\ root >= 1 /\ vi \in Nat /\ GetNext(vs, root) \in Nat
        /\ root < GetNext(vs, root) /\ GetNext(vs, root) <= vi + 1 /\ vi <= SlabCap
        /\ SlabCap \in Nat
    BY <1>1, NextIs DEF Ready
  <1> DEFINE e == GetNext(vs, root) - 1
  <1>3. /\ cur - 1 \in Nat /\ cur - 1 >= root - 1 /\ e \in Nat /\ e >= cur - 1
        /\ \A i \in root..e : i \in 1..SlabCap /\ i <= vi
    BY <1>1, <1>2
  <1>4. \A i \in root..e : Costs[i] \in Nat
    BY <1>1, <1>3, CostIs
  <1>5. DOMAIN vs = 1..SlabCap
    BY DEF IInv, TypeOK
  <1>6. SumOver(Costs, root, e) <= room
    BY <1>1, <1>5, RoomCovers
  <1> HIDE DEF e
  <1>7. /\ SumOver(Costs, root, cur - 1) \in Nat /\ SumOver(Costs, root, e) \in Nat
        /\ SumOver(Costs, root, cur - 1) <= SumOver(Costs, root, e)
    BY ONLY <1>2, <1>3, <1>4, SumsGrow
  <1>8. SumOver(CloserCosts, 1, Len(stack)) \in Nat
    BY ClosersAdd
  <1>9. w + SumOver(CloserCosts, 1, Len(stack)) <= SumOver(Costs, root, cur - 1)
    BY DEF BytesSoFar
  <1> QED
    BY ONLY <1>6, <1>7, <1>8, <1>9, w \in Int, room \in Nat

(* Writing starts with as much room as the walks say, whether they are     *)
(* taken or were added up by the parser.                                   *)
LEMMA BeginKeepsWriter ==
  ASSUME BoundsInv, WriterInv, res = "ok", UNCHANGED vars, NEW r \in 1..vi, NEW ind \in Nat,
         W!Begin(r, ind, BoundSlots(vs, r) + PrettyExtra(vs, r, ind))
  PROVE  WriterInv'
  <1>1. Ready /\ IInv
    BY ParsedIsReady DEF BoundsInv, TreeInv
  <1>2. /\ pc' = "item" /\ root' = r /\ indent' = ind /\ cur' = r /\ stack' = <<>>
        /\ top' = W!NoFrame /\ w' = 0
        /\ room' = BoundSlots(vs, r) + PrettyExtra(vs, r, ind)
    BY DEF W!Begin
  <1>3. UNCHANGED <<inp, opt, vs, vi, res>> /\ Counted' = Counted /\ Limit' = Limit
    BY DEF vars, Counted, Limit
  <1>4. InPlace'
    BY <1>1, <1>2, <1>3, BeginPlace
  <1>5. RoomIs'
    BY <1>2, <1>3 DEF RoomIs
  <1>6. r \in Nat /\ r >= 1 /\ r - 1 \in Nat /\ r - 1 < r
    BY <1>1, NextIs
  <1>7. BytesSoFar'
    <2>1. \A u : SumOver(u, 1, 0) = 0
      <3>1. 1 \in Nat /\ 1 >= 1 /\ 0 \in Nat /\ 0 < 1
        OBVIOUS
      <3> QED
        BY <3>1, SumIs
    <2>2. \A u : SumOver(u, r, r - 1) = 0
      BY <1>6, SumIs
    <2>3. Len(stack') = 0 /\ cur' - 1 = r - 1
      BY <1>2
    <2>4. /\ SumOver(CloserCosts, 1, Len(stack))' = SumOver(CloserCosts', 1, 0)
          /\ SumOver(Costs, root, cur - 1)' = SumOver(Costs', r, r - 1)
      BY <1>2, <2>3
    <2>5. /\ SumOver(CloserCosts, 1, Len(stack))' = 0
          /\ SumOver(Costs, root, cur - 1)' = 0
      BY <2>1, <2>2, <2>4
    <2> QED
      BY <1>2, <2>5 DEF BytesSoFar
  <1>8. room' \in Nat
    <2>1. ASSUME NEW f, \A i \in r..(GetNext(vs, r) - 1) : f[i] \in Nat
          PROVE  SumOver(f, r, GetNext(vs, r) - 1) \in Nat
      <3>1. GetNext(vs, r) - 1 \in Nat /\ GetNext(vs, r) - 1 >= r - 1
        BY <1>1, <1>6, NextIs
      <3>2. GetNext(vs, r) - 1 >= GetNext(vs, r) - 1
        BY <3>1
      <3> QED
        BY <1>6, <2>1, <3>1, <3>2, SumsGrow
    <2>2. \A i \in r..(GetNext(vs, r) - 1) :
            /\ i \in DOMAIN vs /\ SlotBound(vs[i]) \in Nat
            /\ ind # 0 => PrettyCost(vs, r, ind, i) \in Nat
      <3> TAKE i \in r..(GetNext(vs, r) - 1)
      <3>1. i \in 1..vi /\ i \in Nat /\ r \in Nat
        BY <1>1, <1>6, NextIs
      <3>2. vs \in [1..SlabCap -> Slot] /\ SlabCap \in Nat /\ vi <= SlabCap /\ vi \in Nat
        BY <1>1, InSlab DEF IInv, TypeOK
      <3>3. i \in DOMAIN vs /\ vs[i] \in Slot
        BY <3>1, <3>2
      <3>4. Cardinality(Inside(vs, r, i)) \in Nat
        BY <3>1, InsideTyped
      <3>5. PrettyCost(vs, r, ind, i) \in Nat
        <4>1. \A x, m \in Nat : (x + 1) * m \in Nat /\ x * m \in Nat
          OBVIOUS
        <4>2. PICK x \in Nat : x = Cardinality(Inside(vs, r, i))
          BY <3>4
        <4>3. PrettyCost(vs, r, ind, i) = IF NonEmpty(vs[i])
                                            THEN (1 + (x + 1) * ind) + 2 + (1 + x * ind)
                                            ELSE (1 + x * ind) + 2
          BY <4>2 DEF PrettyCost
        <4> QED
          BY <4>1, <4>3
      <3> QED
        BY <3>3, <3>5, ChargeIsBound
    <2>3. BoundSlots(vs, r) \in Nat
      <3> DEFINE f == [i \in DOMAIN vs |-> SlotBound(vs[i])]
      <3>1. \A i \in r..(GetNext(vs, r) - 1) : f[i] \in Nat
        BY <2>2
      <3>2. BoundSlots(vs, r) = 32 + SumOver(f, r, GetNext(vs, r) - 1)
        BY DEF BoundSlots
      <3> HIDE DEF f
      <3> QED
        BY <2>1, <3>1, <3>2
    <2>4. PrettyExtra(vs, r, ind) \in Nat
      <3> DEFINE f == [i \in DOMAIN vs |-> PrettyCost(vs, r, ind, i)]
      <3>1. CASE ind = 0
        BY <3>1 DEF PrettyExtra
      <3>2. CASE ind # 0
        <4>1. \A i \in r..(GetNext(vs, r) - 1) : f[i] \in Nat
          BY <2>2, <3>2
        <4>2. PrettyExtra(vs, r, ind) = 8 + SumOver(f, r, GetNext(vs, r) - 1)
          BY <3>2 DEF PrettyExtra
        <4> HIDE DEF f
        <4> QED
          BY <2>1, <4>1, <4>2
      <3> QED
        BY <3>1, <3>2
    <2> QED
      BY <1>2, <2>3, <2>4
  <1>9. Counted => Limit \in Nat
    BY <1>1, LimitIs
  <1>10. W!NoFrame \in W!Frame
    BY DEF W!NoFrame, W!Frame
  <1> QED
    BY <1>2, <1>3, <1>4, <1>5, <1>7, <1>8, <1>9, <1>10 DEF WriterInv, Writing

LEMMA WriteKeepsWriter ==
  ASSUME BoundsInv, BoundsInv', WriterInv, CallWrite
  PROVE  WriterInv'
  <1>1. UNCHANGED vars /\ W!Step
    BY DEF CallWrite
  <1>2. pc \in {"item", "close"}
    BY <1>1 DEF W!Step, W!Open, W!Empty, W!Scalar, W!CloseTop, W!NextItem, W!Finish
  <1>3. /\ res = "ok" /\ Writing /\ stack \in Seq(W!Frame) /\ top \in W!Frame
        /\ w \in Int /\ indent \in Nat /\ room \in Nat /\ (Counted => Len(stack) <= Limit)
    BY <1>2 DEF WriterInv
  <1>4. Ready /\ IInv /\ InPlace /\ RoomIs /\ BytesSoFar /\ Len(stack) \in Nat
    BY <1>3, ParsedIsReady DEF BoundsInv, TreeInv, Writing
  <1>5. UNCHANGED <<inp, opt, vs, vi, res>>
    BY <1>1 DEF vars
  <1>6. UNCHANGED <<root, indent, room>>
    BY <1>1 DEF W!Step, W!Open, W!Empty, W!Scalar, W!CloseTop, W!NextItem, W!Finish, W!outVars
  <1>7. Ready' /\ RoomIs' /\ Counted' = Counted /\ Limit' = Limit
    BY <1>4, <1>5, <1>6, SameCosts
  <1>8. CASE W!Open
    <2>1. InPlace' /\ BytesSoFar' /\ w' \in Int
      BY <1>1, <1>3, <1>4, <1>5, <1>8, OpenPlace, OpenBytes
    <2>2. cur \in 1..vi /\ pc' = "item"
      <3>1. pc = "item" /\ pc' = "item"
        BY <1>8 DEF W!Open
      <3> QED
        BY <1>3, <1>4, <3>1, ItemFits DEF Ready
    <2>3. stack' \in Seq(W!Frame) /\ top' \in W!Frame /\ Len(stack') \in Nat
      <3>1. vs[cur].ofs \in Nat /\ cur \in Nat
        BY <1>4, <2>2, NextIs
      <3> QED
        BY <1>3, <1>8, <3>1, OpenFrames
    <2>4. Counted' => Len(stack') <= Limit'
      <3>1. ASSUME Counted PROVE Len(stack') <= Limit'
        <4>1. Limit' \in Nat
          BY <1>4, <1>7, <3>1, LimitIs
        <4>2. \A i \in 1..vi : Cardinality(Inside(vs, 1, i)) <= Limit
          BY <1>3, <3>1, ParsedIsReady
        <4>3. (\A i \in 1..vi : Cardinality(Inside(vs, 1, i)) <= Limit)'
          BY <1>5, <1>7, <4>2 DEF Inside, NonEmpty, IsCtn, GetNext, SpanOf
        <4> QED
          BY <1>7, <2>1, <2>2, <2>3, <4>1, <4>3, FramesStayLimited DEF FramesLimited
      <3> QED
        BY <1>7, <3>1
    <2> QED
      BY <1>3, <1>5, <1>6, <1>7, <2>1, <2>2, <2>3, <2>4 DEF WriterInv, Writing
  <1>9. CASE W!Empty \/ W!Scalar
    <2>1. /\ BytesSoFar' /\ w' \in Int
          /\ pc = "item" /\ pc' = "close" /\ ~NonEmpty(vs[cur]) /\ cur' = cur + 1
          /\ stack' = stack /\ top' = W!Flipped /\ root' = root
      BY <1>1, <1>3, <1>4, <1>9, ItemBytes
    <2>2. W!Flipped \in W!Frame /\ W!Flipped.end = top.end
      BY <1>3 DEF W!Flipped, W!Frame
    <2>3. InPlace'
      BY <1>4, <1>5, <2>1, <2>2, ItemPlace
    <2> QED
      BY <1>3, <1>5, <1>6, <1>7, <2>1, <2>2, <2>3 DEF WriterInv, Writing
  <1>10. CASE W!CloseTop
    <2>1. /\ InPlace' /\ stack' \in Seq(W!Frame) /\ Len(stack) \in Nat \ {0}
          /\ Len(stack') = Len(stack) - 1
      BY <1>3, <1>4, <1>5, <1>10, CloseTopPlace
    <2>2. BytesSoFar' /\ w' \in Int
      BY <1>1, <1>3, <1>4, <1>10, <2>1, CloseTopBytes
    <2>3. pc' = "close" /\ top' \in W!Frame
      <3>1. pc' = "close" /\ top' = IF Len(stack) > 1 THEN stack[Len(stack) - 1] ELSE top
        BY <1>10 DEF W!CloseTop, W!Sp
      <3>2. Len(stack) > 1 => stack[Len(stack) - 1] \in W!Frame
        BY <1>3, <1>4
      <3> QED
        BY <1>3, <3>1, <3>2
    <2>4. Counted' => Len(stack') <= Limit'
      <3>1. Counted => Limit \in Nat
        BY <1>4, LimitIs
      <3> QED
        BY <1>3, <1>7, <2>1, <3>1
    <2> QED
      BY <1>3, <1>5, <1>6, <1>7, <2>1, <2>2, <2>3, <2>4 DEF WriterInv, Writing
  <1>11. CASE W!NextItem
    <2>1. InPlace'
      BY <1>4, <1>5, <1>11, NextItemPlace
    <2>2. pc' = "item" /\ UNCHANGED <<cur, stack, top, w>>
      BY <1>11 DEF W!NextItem
    <2>3. BytesSoFar'
      <3>1. Costs' = Costs /\ CloserCosts' = CloserCosts
        BY <1>5, <1>6, SameCosts
      <3> QED
        BY <1>4, <1>6, <2>2, <3>1 DEF BytesSoFar
    <2> QED
      BY <1>3, <1>5, <1>6, <1>7, <2>1, <2>2, <2>3 DEF WriterInv, Writing
  <1>12. CASE W!Finish
    <2>1. /\ pc' = "done" /\ UNCHANGED <<stack, top>>
          /\ w' = w \/ w' = w - 1
      BY <1>12 DEF W!Finish
    <2>2. w <= room
      BY <1>3, <1>4, BytesWithin
    <2>3. w' \in Int /\ w' <= room
      BY <1>3, <2>1, <2>2
    <2> QED
      BY <1>3, <1>5, <1>6, <1>7, <2>1, <2>3 DEF WriterInv
  <1> QED
    BY <1>1, <1>8, <1>9, <1>10, <1>11, <1>12 DEF W!Step

LEMMA NextKeepsCall ==
  ASSUME CallInv, [CallNext]_allVars
  PROVE  CallInv'
  <1>1. BoundsInv /\ WriterInv /\ IInv
    BY DEF CallInv, BoundsInv, TreeInv
  <1>2. [Next]_vars
    BY DEF CallNext, CallStep, CallDone, CallValidate, CallParse, WriteDoc, WriteVal, CallWrite,
           allVars, Next
  <1>3. BoundsInv' /\ opt' \in Options
    <2>1. opt' = opt
      BY <1>2 DEF Next, Step, Returned, vars, ValueLeaf, ValueEmpty, ValueOpen, ValueFail,
             AfterRoot, AfterComma, AfterClose, AfterFail, Key, KeyFail, Fail, PutChild
    <2> QED
      BY <1>1, <1>2, <2>1, NextKeepsBounds DEF CallInv
  <1>4. CASE UNCHANGED <<vars, outVars>>
    BY <1>1, <1>3, <1>4, StillKeepsWriter DEF CallInv
  <1>5. CASE CallParse
    BY <1>1, <1>3, <1>5, ParseKeepsWriter DEF CallInv
  <1>6. CASE CallWrite
    BY <1>1, <1>3, <1>6, WriteKeepsWriter DEF CallInv
  <1>7. CASE WriteDoc
    <2>1. PICK ind \in Indents :
            W!Begin(1, ind, WriteBound(vs, IF opt.bounds THEN wb ELSE [wb EXCEPT !.flat = 0], ind))
      BY <1>7 DEF WriteDoc
    <2>2. res = "ok" /\ UNCHANGED vars /\ ind \in Nat
      BY <1>7, IndentsAssumption DEF WriteDoc
    <2>3. 1 \in 1..vi
      <3>1. vi >= 1 /\ vi \in Nat
        BY <1>1, <2>2, InSlab DEF BoundsInv, TreeInv, Paired, Answered, IInv, TypeOK
      <3> QED
        BY <3>1
    <2>4. wb \in Bounds
      BY <1>1 DEF IInv, TypeOK
    <2> DEFINE parts == IF opt.bounds THEN wb ELSE [wb EXCEPT !.flat = 0]
    <2>5. WriteBound(vs, parts, ind) = BoundSlots(vs, 1) + PrettyExtra(vs, 1, ind)
      <3>1. CASE opt.bounds
        <4>1. wb.flat = BoundSlots(vs, 1) /\ (ind # 0 => wb.pc + ind * wb.pk = PrettyExtra(vs, 1, ind))
          BY <1>1, <2>2, <3>1, FinishedBounds
        <4>2. ind = 0 => PrettyExtra(vs, 1, ind) = 0
          BY DEF PrettyExtra
        <4>3. parts = wb
          BY <3>1
        <4> HIDE DEF parts
        <4> QED
          BY ONLY <4>1, <4>2, <4>3 DEF WriteBound
      <3>2. CASE ~opt.bounds
        <4>1. parts.flat = 0
          BY <2>4, <3>2 DEF Bounds
        <4> HIDE DEF parts
        <4> QED
          BY <4>1 DEF WriteBound
      <3> QED
        BY <3>1, <3>2
    <2>6. W!Begin(1, ind, BoundSlots(vs, 1) + PrettyExtra(vs, 1, ind))
      BY <2>1, <2>5
    <2> QED
      BY <1>1, <1>3, <2>2, <2>3, <2>6, BeginKeepsWriter DEF CallInv
  <1>8. CASE WriteVal
    <2>1. PICK r \in 2..vi, ind \in Indents :
            W!Begin(r, ind, BoundSlots(vs, r) + PrettyExtra(vs, r, ind))
      BY <1>8 DEF WriteVal
    <2>2. res = "ok" /\ UNCHANGED vars /\ ind \in Nat /\ r \in 1..vi
      BY <1>8, <2>1, IndentsAssumption DEF WriteVal
    <2> QED
      BY <1>1, <1>3, <2>1, <2>2, BeginKeepsWriter DEF CallInv
  <1> QED
    BY <1>4, <1>5, <1>6, <1>7, <1>8 DEF CallNext, CallStep, CallDone, CallValidate, allVars

-----------------------------------------------------------------------------
(* What is proved of the builder holds of it among the other calls, and    *)
(* with it the writer's invariant.                                         *)
THEOREM CallInvariance == CallSpec => []CallInv
  BY InitCall, NextKeepsCall, PTL DEF CallSpec

(* Whatever document the parser made and whichever value of it is written, *)
(* minified or at any indent, no byte is ever put behind the room reserved *)
(* before the first, though every scalar be as long as it can, a separator *)
(* be written before it is taken back, and nothing on the way be checked.  *)
THEOREM RoomIsEnough == CallSpec => []BytesFit
  <1>1. CallInv => BytesFit
    <2> SUFFICES ASSUME CallInv PROVE w <= room
      BY DEF BytesFit
    <2>1. WriterInv /\ BoundsInv
      BY DEF CallInv
    <2>2. CASE pc = "idle"
      BY <2>1, <2>2 DEF WriterInv
    <2>3. CASE pc \in {"item", "close"}
      <3>1. Writing /\ res = "ok"
        BY <2>1, <2>3 DEF WriterInv
      <3>2. Ready /\ IInv
        BY <2>1, <3>1, ParsedIsReady DEF BoundsInv, TreeInv
      <3> QED
        BY <2>1, <3>1, <3>2, BytesWithin DEF Writing, WriterInv
    <2>4. CASE pc = "done"
      BY <2>1, <2>4 DEF WriterInv
    <2> QED
      BY <2>1, <2>2, <2>3, <2>4 DEF WriterInv
  <1> QED
    BY CallInvariance, <1>1, PTL

(* The writer's stack, which no push checks, holds every frame it is given *)
(* as long as the depth of documents is counted at all: when a limit is    *)
(* compiled in, or the document comes from the fixed parser, which takes   *)
(* no limit larger than the stack (FixedDepthAssumption).                  *)
THEOREM FramesAreEnough == CallSpec => [](Counted => FramesFit)
  <1>1. CallInv => (Counted => FramesFit)
    <2> SUFFICES ASSUME CallInv, Counted PROVE Len(stack) <= W!WDepth
      BY DEF FramesFit
    <2>1. Len(stack) <= Limit /\ IInv /\ Len(stack) \in Nat
      BY DEF CallInv, WriterInv, BoundsInv, TreeInv
    <2>2. Limit \in Nat /\ W!WDepth \in Nat
      BY <2>1, LimitIs, LimitAssumption, FallbackAssumption DEF W!WDepth
    <2>3. Limit <= W!WDepth
      <3>1. CASE opt.fixed
        <4>1. opt \in Options
          BY DEF CallInv
        <4> QED
          BY <3>1, <4>1, FixedDepthAssumption DEF Limit, W!WDepth
      <3>2. CASE ~opt.fixed
        BY <2>2, <3>2, LimitAssumption DEF Counted, Limit, W!WDepth
      <3> QED
        BY <3>1, <3>2
    <2> QED
      BY <2>1, <2>2, <2>3
  <1> QED
    BY CallInvariance, <1>1, PTL
=============================================================================
