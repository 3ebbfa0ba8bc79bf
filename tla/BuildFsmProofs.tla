--------------------------- MODULE BuildFsmProofs ---------------------------
(***************************************************************************)
(* What the builder guarantees for every text, every combination of        *)
(* options and every depth limit.  The inductive invariant is stated in    *)
(* three parts, each resting on the one before.  IInv is about the slab    *)
(* and the chain of open containers: it adds to the properties of BuildFsm *)
(* that a growing arena uses fewer slots than units were consumed, that a  *)
(* container outside any other is the first slot, and that the pretty      *)
(* bound's own depth counter counts the open containers.  TreeInv is about *)
(* what closed and open containers hold, BoundsInv about the sums.         *)
(***************************************************************************)
EXTENDS BuildFsm, ArenaLemmas, FiniteSetTheorems, TLAPS

SlotsBehindUnits == IF opt.fixed THEN vi <= opt.cap ELSE vi < k
RootFirst        == ci = 0 => s = "after" \/ (s = "value" /\ vi = 0)
PairDepth        == opt.bounds => wb.pdepth = Cardinality(opens)

IInv ==
  /\ TypeOK
  /\ SlotsBehindUnits
  /\ RootFirst
  /\ OpenChain
  /\ DepthIsOpens
  /\ PairDepth
  /\ ClosedSpansNest

-----------------------------------------------------------------------------
(* The slots and the charges of the model have the types declared.         *)
LEMMA LeafSlotType ==
  ASSUME NEW raw \in BOOLEAN, NEW t \in Token, NEW at \in Nat
  PROVE  /\ LeafSlot(raw, t, at) \in Slot
         /\ ~IsCtn(LeafSlot(raw, t, at))
  BY DEF LeafSlot, Slot, Kind, Sub, IsCtn, TextLen, Token, Number, String, Op

LEMMA EmptyCtnType ==
  ASSUME NEW t \in Token
  PROVE  /\ EmptyCtn(CtnKind(t)) \in Slot
         /\ EmptyCtn(CtnKind(t)).ofs = 1
  BY DEF EmptyCtn, CtnKind, Slot, Kind, Sub

LEMMA ChargeType ==
  ASSUME wb \in Bounds, opt \in OptionType, NEW v \in Slot, NEW d \in Nat
  PROVE  /\ Charge(v, d) \in Bounds
         /\ Charge(v, d).pdepth = wb.pdepth
  <1>1. FlatCharge(v) \in Nat
    BY DEF FlatCharge, Slot
  <1>2. CASE opt.bounds
    <2>1. Charge(v, d) = [flat |-> wb.flat + FlatCharge(v), pc |-> wb.pc + 3,
                          pk |-> wb.pk + d, pdepth |-> wb.pdepth]
      BY <1>2 DEF Charge, Bounds
    <2> QED
      BY <1>1, <2>1 DEF Bounds
  <1>3. CASE ~opt.bounds
    BY <1>3 DEF Charge
  <1> QED
    BY <1>2, <1>3 DEF OptionType

LEMMA LocateType ==
  ASSUME rng \in [1..SlabCap -> SourceRange], NEW b \in Nat, NEW e \in Nat
  PROVE  Locate(b, e) \in [1..SlabCap -> SourceRange]
  BY DEF Locate, SourceRange

(* The verdicts of the readers are errors or "ok".                         *)
LEMMA ReadErrType ==
  ASSUME NEW raw \in BOOLEAN, NEW t \in Token
  PROVE  ReadErr(raw, t) \in Error \cup {"ok"}
  BY DEF ReadErr, CheckErr, Error, Token

(* Every slot in use and every open container lies inside the slab.        *)
LEMMA InSlab ==
  ASSUME IInv
  PROVE  /\ NUnits \in Nat /\ SlabCap \in Nat
         /\ vi <= SlabCap
         /\ opens \subseteq 1..SlabCap
         /\ IsFiniteSet(opens)
         /\ ci # 0 => ci \in opens /\ ci \in 1..vi /\ ci \in 1..SlabCap
  <1>1. NUnits \in Nat /\ SlabCap \in Nat
    BY DEF IInv, TypeOK, NUnits, SlabCap, OptionType
  <1>2. vi <= SlabCap
    BY <1>1 DEF IInv, TypeOK, SlotsBehindUnits, SlabCap
  <1>3. opens \subseteq 1..SlabCap
    BY <1>1, <1>2 DEF IInv, TypeOK
  <1>4. IsFiniteSet(opens)
    <2>1. IsFiniteSet(1..vi)
      BY FS_Interval DEF IInv, TypeOK
    <2> QED
      BY <2>1, FS_Subset DEF IInv, TypeOK
  <1>5. ci # 0 => ci \in opens
    BY DEF IInv, OpenChain
  <1> QED
    BY <1>1, <1>2, <1>3, <1>4, <1>5 DEF IInv, TypeOK

-----------------------------------------------------------------------------
LEMMA InitIInv == Init => IInv
  <1> SUFFICES ASSUME Init PROVE IInv
    OBVIOUS
  <1> USE InputsAssumption, OptionsAssumption, LimitAssumption
  <1>1. inp \in Seq(Token) /\ opt \in OptionType /\ NUnits \in Nat /\ SlabCap \in Nat
    BY DEF Init, NUnits, SlabCap, OptionType
  <1>2. TypeOK
    <2>1. vs \in [1..SlabCap -> Slot]
      BY DEF Init, Unset, Slot, Kind, Sub
    <2>2. rng \in [1..SlabCap -> SourceRange] /\ wb \in Bounds
      BY DEF Init, NoRange, SourceRange, WbStart, Bounds
    <2>3. opens \subseteq 1..vi
      BY DEF Init
    <2> QED
      BY <1>1, <2>1, <2>2, <2>3 DEF Init, TypeOK, Error
  <1>3. Cardinality(opens) = 0
    BY FS_EmptySet DEF Init
  <1>4. SlotsBehindUnits /\ RootFirst /\ OpenChain /\ ClosedSpansNest
    BY <1>1 DEF Init, SlotsBehindUnits, RootFirst, OpenChain, ClosedSpansNest, OptionType
  <1>5. DepthIsOpens
    BY <1>1, <1>3 DEF Init, DepthIsOpens, Counted, Limit, OptionType
  <1>6. PairDepth
    BY <1>3 DEF Init, PairDepth, WbStart
  <1> QED
    BY <1>2, <1>4, <1>5, <1>6 DEF IInv

(* A call that returns an error changes nothing else.                      *)
LEMMA FailKeepsIInv ==
  ASSUME IInv, NEW e \in Error, Fail(e)
  PROVE  IInv'
  BY DEF Fail, IInv, TypeOK, SlotsBehindUnits, RootFirst, OpenChain, DepthIsOpens, PairDepth,
         ClosedSpansNest, NUnits, SlabCap, Counted, Limit, IsCtn, GetNext, SpanOf

(* A slot that spans itself only, put after the others.                    *)
LEMMA PutChildKeepsIInv ==
  ASSUME IInv, NEW v \in Slot, NEW e \in Nat,
         IsCtn(v) => v.ofs = 1,
         PutChild(v, e), Room,
         k <= NUnits, k' \in (k + 1)..(NUnits + 1), s' \in {"value", "after", "key"},
         ci = 0 => s' = "after"
  PROVE  IInv'
  <1>1. /\ NUnits' = NUnits /\ SlabCap' = SlabCap
        /\ inp' = inp /\ opt' = opt /\ ci' = ci /\ depth' = depth /\ opens' = opens
        /\ vi' = vi + 1 /\ vs' = [vs EXCEPT ![vi + 1] = v]
    BY DEF PutChild, NUnits, SlabCap
  <1>2. vi + 1 \in 1..SlabCap
    BY SMTT(30), InSlab DEF IInv, TypeOK, SlotsBehindUnits, SlabCap, Room, OptionType
  <1>3. \A i \in 1..vi : vs'[i] = vs[i]
    BY <1>1, <1>2, InSlab DEF IInv, TypeOK
  <1>4. vs'[vi + 1] = v
    BY <1>1, <1>2 DEF IInv, TypeOK
  <1>5. TypeOK'
    <2>1. vs' \in [1..SlabCap -> Slot]
      BY <1>1, <1>2 DEF IInv, TypeOK
    <2>2. wb' \in Bounds /\ wb'.pdepth = wb.pdepth
      BY ChargeType DEF PutChild, IInv, TypeOK, Bounds
    <2>3. rng' \in [1..SlabCap -> SourceRange]
      BY LocateType DEF PutChild, IInv, TypeOK
    <2>4. opens' \subseteq 1..vi'
      BY <1>1 DEF IInv, TypeOK
    <2> QED
      BY <1>1, <2>1, <2>2, <2>3, <2>4, InSlab DEF PutChild, IInv, TypeOK
  <1>6. SlotsBehindUnits'
    BY <1>1, InSlab DEF IInv, TypeOK, SlotsBehindUnits, Room, OptionType
  <1>7. OpenChain'
    BY <1>1, <1>3 DEF IInv, TypeOK, OpenChain, IsCtn
  <1>8. DepthIsOpens'
    BY <1>1 DEF IInv, DepthIsOpens, Counted, Limit
  <1>9. PairDepth'
    BY <1>1, ChargeType DEF PutChild, IInv, TypeOK, PairDepth, Bounds
  <1>10. ClosedSpansNest'
    <2>1. \A i \in 1..vi : GetNext(vs', i) = GetNext(vs, i)
      BY <1>3 DEF GetNext, SpanOf, IsCtn
    <2>2. GetNext(vs', vi + 1) = vi + 2
      BY <1>4 DEF GetNext, SpanOf, IInv, TypeOK
    <2>3. SUFFICES ASSUME NEW i \in 1..(vi + 1), i \notin opens
                   PROVE  /\ GetNext(vs', i) \in (i + 1)..(vi + 2)
                          /\ \A j \in (i + 1)..(GetNext(vs', i) - 1) :
                               j \notin opens /\ GetNext(vs', j) <= GetNext(vs', i)
      BY <1>1 DEF ClosedSpansNest, GetNext, SpanOf, IsCtn, IInv, TypeOK
    <2>4. CASE i = vi + 1
      BY <2>2, <2>4 DEF IInv, TypeOK
    <2>5. CASE i \in 1..vi
      BY <2>1, <2>5, <2>3 DEF IInv, TypeOK, ClosedSpansNest
    <2> QED
      BY <2>4, <2>5 DEF IInv, TypeOK
  <1> QED
    BY <1>1, <1>5, <1>6, <1>7, <1>8, <1>9, <1>10 DEF IInv, RootFirst

-----------------------------------------------------------------------------
LEMMA ValueLeafKeepsIInv == IInv /\ ValueLeaf => IInv'
  <1> SUFFICES ASSUME IInv, ValueLeaf PROVE IInv'
    OBVIOUS
  <1> DEFINE v == LeafSlot(opt.raw, inp[k], k)
  <1>1. inp[k] \in Token /\ opt.raw \in BOOLEAN /\ k \in Nat /\ k + 1 \in Nat
    BY DEF ValueLeaf, AtValue, HasUnit, IInv, TypeOK, NUnits, OptionType
  <1>2. v \in Slot /\ ~IsCtn(v)
    BY <1>1, LeafSlotType
  <1>3. /\ k <= NUnits /\ Room /\ PutChild(v, k + 1)
        /\ k' = k + 1 /\ s' = "after"
    BY DEF ValueLeaf, AtValue, HasUnit
  <1>4. k' \in (k + 1)..(NUnits + 1)
    BY <1>1, <1>3, InSlab
  <1> HIDE DEF v
  <1> QED
    BY <1>1, <1>2, <1>3, <1>4, PutChildKeepsIInv

LEMMA ValueEmptyKeepsIInv == IInv /\ ValueEmpty => IInv'
  <1> SUFFICES ASSUME IInv, ValueEmpty PROVE IInv'
    OBVIOUS
  <1> DEFINE v == EmptyCtn(CtnKind(inp[k]))
  <1>1. inp[k] \in Token /\ k \in Nat /\ k + 2 \in Nat
    BY DEF ValueEmpty, AtValue, HasUnit, IInv, TypeOK, NUnits
  <1>2. v \in Slot /\ v.ofs = 1
    BY <1>1, EmptyCtnType
  <1>3. /\ k < NUnits /\ Room /\ PutChild(v, k + 2)
        /\ k' = k + 2 /\ s' = "after"
    BY DEF ValueEmpty, AtValue, EmptyPair
  <1>4. k <= NUnits /\ k' \in (k + 1)..(NUnits + 1)
    BY <1>1, <1>3, InSlab
  <1> HIDE DEF v
  <1> QED
    BY <1>1, <1>2, <1>3, <1>4, PutChildKeepsIInv

LEMMA KeyKeepsIInv == IInv /\ Key => IInv'
  <1> SUFFICES ASSUME IInv, Key PROVE IInv'
    OBVIOUS
  <1> DEFINE v == LeafSlot(opt.raw, inp[k], k)
  <1>1. inp[k] \in Token /\ opt.raw \in BOOLEAN /\ k \in Nat /\ k + 1 \in Nat
    BY DEF Key, IsKey, HasUnit, IInv, TypeOK, NUnits, OptionType
  <1>2. v \in Slot /\ ~IsCtn(v)
    BY <1>1, LeafSlotType
  <1>3. /\ k < NUnits /\ Room /\ PutChild(v, k + 1)
        /\ k' = k + 2 /\ s' = "value" /\ ci # 0
    BY DEF Key, Running, IInv, RootFirst
  <1>4. k <= NUnits /\ k' \in (k + 1)..(NUnits + 1)
    BY <1>1, <1>3, InSlab
  <1> HIDE DEF v
  <1> QED
    BY <1>1, <1>2, <1>3, <1>4, PutChildKeepsIInv

(* A container opens: its slot joins the chain as the new innermost, and   *)
(* the count stashed in its parent leaves the parent's offset alone.       *)
LEMMA ValueOpenKeepsIInv == IInv /\ ValueOpen => IInv'
  <1> SUFFICES ASSUME IInv, ValueOpen PROVE IInv'
    OBVIOUS
  <1> DEFINE new == OpenSlot(inp[k])
  <1>1. /\ inp[k] \in Opener /\ k \in Nat /\ k <= NUnits /\ Room /\ ~TooDeep
        /\ NUnits' = NUnits /\ SlabCap' = SlabCap /\ inp' = inp /\ opt' = opt
        /\ vi' = vi + 1 /\ ci' = vi + 1 /\ k' = k + 1 /\ ctnLen' = 0
        /\ opens' = opens \cup {vi + 1} /\ consumed' = consumed /\ res' = res
        /\ vs' = [StashCount EXCEPT ![vi + 1] = new]
    <2>1. NUnits' = NUnits /\ SlabCap' = SlabCap /\ inp' = inp /\ opt' = opt
      BY DEF ValueOpen, NUnits, SlabCap
    <2>2. k \in Nat
      BY InSlab DEF IInv, TypeOK
    <2> QED
      BY <2>1, <2>2 DEF ValueOpen, AtValue, HasUnit
  <1>2. vi + 1 \in 1..SlabCap /\ vi \in Nat
    BY <1>1, InSlab DEF IInv, TypeOK, SlotsBehindUnits, SlabCap, Room, OptionType
  <1>3. new \in Slot /\ IsCtn(new) /\ new.ofs = IF ci = 0 THEN 0 ELSE vi + 1 - ci
    <2>1. (IF ci = 0 THEN 0 ELSE vi + 1 - ci) \in Nat
      BY <1>2, InSlab
    <2> QED
      BY <2>1 DEF OpenSlot, CtnKind, Slot, Kind, Sub, IsCtn
  <1> HIDE DEF new
  <1>4. /\ StashCount \in [1..SlabCap -> Slot]
        /\ \A i \in 1..SlabCap : StashCount[i].kind = vs[i].kind /\ StashCount[i].ofs = vs[i].ofs
    <2>1. vs \in [1..SlabCap -> Slot] /\ ctnLen + 1 \in Nat
      BY DEF IInv, TypeOK
    <2>2. CASE ci = 0
      BY <2>1, <2>2 DEF StashCount
    <2>3. CASE ci # 0
      <3> DEFINE stashed == [vs[ci] EXCEPT !.len = ctnLen + 1]
      <3>1. ci \in 1..SlabCap
        BY <2>3, InSlab
      <3>2. stashed \in Slot /\ stashed.kind = vs[ci].kind /\ stashed.ofs = vs[ci].ofs
        BY <2>1, <3>1 DEF Slot
      <3>3. StashCount = [vs EXCEPT ![ci] = stashed]
        BY <2>3 DEF StashCount
      <3> HIDE DEF stashed
      <3> QED
        BY <2>1, <3>1, <3>2, <3>3
    <2> QED
      BY <2>2, <2>3
  <1>5. /\ vs' \in [1..SlabCap -> Slot]
        /\ vs'[vi + 1] = new
        /\ \A i \in 1..vi : vs'[i].kind = vs[i].kind /\ vs'[i].ofs = vs[i].ofs
    BY <1>1, <1>2, <1>3, <1>4, InSlab
  <1>6. /\ opens \subseteq 1..vi /\ vi + 1 \notin opens
        /\ Cardinality(opens') = Cardinality(opens) + 1
    <2>1. opens \subseteq 1..vi /\ vi + 1 \notin opens
      BY <1>2 DEF IInv, TypeOK
    <2> QED
      BY <2>1, <1>1, InSlab, FS_AddElement
  <1>7. wb' \in Bounds /\ (opt.bounds => wb'.pdepth = wb.pdepth + 1)
    <2>1. wb \in Bounds /\ opt \in OptionType /\ wb.pdepth + 1 \in Nat
      BY DEF IInv, TypeOK, Bounds
    <2>2. Charge(new, wb.pdepth + 1) \in Bounds /\ Charge(new, wb.pdepth + 1).pdepth = wb.pdepth
      BY <2>1, <1>3, ChargeType
    <2>3. wb' = IF opt.bounds
                  THEN [Charge(new, wb.pdepth + 1) EXCEPT !.pdepth = @ + 1]
                  ELSE wb
      BY DEF ValueOpen, new
    <2> HIDE DEF Charge
    <2> QED
      BY <2>1, <2>2, <2>3 DEF Bounds
  <1>8. TypeOK'
    <2>1. rng' \in [1..SlabCap -> SourceRange]
      <3>1. rng' = Locate(k, 0) /\ rng \in [1..SlabCap -> SourceRange]
        BY DEF ValueOpen, IInv, TypeOK
      <3> QED
        BY <3>1, <1>1, LocateType
    <2>2. s' \in {"value", "after", "key"} /\ depth' \in Nat
      <3>1. s' = (IF inp[k] = "{" THEN "key" ELSE "value")
        BY DEF ValueOpen
      <3>2. depth' = (IF Counted THEN depth + 1 ELSE depth)
        BY DEF ValueOpen
      <3>3. depth \in Nat
        BY DEF IInv, TypeOK
      <3>4. s' \in {"value", "after", "key"}
        BY <3>1
      <3> QED
        BY <3>2, <3>3, <3>4
    <2>3. opens' \subseteq 1..vi'
      BY <1>1, <1>2, <1>6
    <2>4. k' \in 1..(NUnits + 1) /\ vi' \in Nat /\ ci' \in Nat /\ ctnLen' \in Nat
      BY <1>1, <1>2, InSlab
    <2> QED
      BY <1>1, <1>5, <1>7, <2>1, <2>2, <2>3, <2>4 DEF IInv, TypeOK
  <1>9. SlotsBehindUnits'
    BY <1>1, <1>2, InSlab DEF IInv, TypeOK, SlotsBehindUnits, Room, OptionType
  <1>10. OpenChain'
    <2>1. ci' \in opens' /\ \A j \in opens' : j <= ci'
      BY <1>1, <1>2, <1>6
    <2>2. ASSUME NEW i \in opens
          PROVE  /\ IsCtn(vs'[i])
                 /\ IF vs'[i].ofs = 0
                      THEN i = 1
                      ELSE /\ i - vs'[i].ofs \in opens'
                           /\ vs'[i].ofs > 0
                           /\ \A j \in opens' : j < i => j <= i - vs'[i].ofs
      BY <1>1, <1>2, <1>5, <1>6 DEF IInv, OpenChain, IsCtn
    <2>3. CASE ci = 0
      <3>1. opens = {} /\ vi = 0
        <4>1. opens = {}
          BY <2>3, <1>6 DEF IInv, OpenChain
        <4>2. vi = 0
          BY <2>3 DEF ValueOpen, AtValue, Running, IInv, RootFirst
        <4> QED
          BY <4>1, <4>2
      <3> QED
        BY <3>1, <1>1, <1>3, <1>5, <2>1, <2>2, <2>3 DEF OpenChain
    <2>4. CASE ci # 0
      <3>1. ci \in opens /\ ci \in 1..vi /\ \A j \in opens : j <= ci
        BY <2>4, <1>6, InSlab DEF IInv, OpenChain
      <3> QED
        BY <3>1, <1>1, <1>2, <1>3, <1>5, <1>6, <2>1, <2>2, <2>4 DEF OpenChain
    <2> QED
      BY <2>3, <2>4
  <1>11. DepthIsOpens'
    <2>1. Counted' = Counted /\ Limit' = Limit
      BY <1>1 DEF Counted, Limit
    <2>2. Counted => depth' = depth + 1 /\ depth + 1 <= Limit
      <3>1. Limit \in Nat /\ depth \in Nat
        BY LimitAssumption DEF Limit, IInv, TypeOK, OptionType
      <3>2. depth' = IF Counted THEN depth + 1 ELSE depth
        BY DEF ValueOpen
      <3> QED
        BY <3>1, <3>2, <1>1 DEF TooDeep
    <2> QED
      BY <2>1, <2>2, <1>6 DEF DepthIsOpens, IInv
  <1>12. PairDepth' /\ RootFirst'
    BY <1>1, <1>2, <1>6, <1>7 DEF PairDepth, RootFirst, IInv
  <1>13. ClosedSpansNest'
    <2>1. \A i \in 1..vi : GetNext(vs', i) = GetNext(vs, i)
      BY <1>5 DEF GetNext, SpanOf, IsCtn
    <2>2. SUFFICES ASSUME NEW i \in 1..vi, i \notin opens
                   PROVE  /\ GetNext(vs', i) \in (i + 1)..(vi + 2)
                          /\ \A j \in (i + 1)..(GetNext(vs', i) - 1) :
                               j \notin opens' /\ GetNext(vs', j) <= GetNext(vs', i)
      BY <1>1, <1>2 DEF ClosedSpansNest, GetNext, SpanOf, IsCtn
    <2>3. /\ GetNext(vs, i) \in (i + 1)..(vi + 1)
          /\ \A j \in (i + 1)..(GetNext(vs, i) - 1) :
               j \notin opens /\ GetNext(vs, j) <= GetNext(vs, i)
      BY <2>2 DEF IInv, ClosedSpansNest
    <2>4. GetNext(vs', i) = GetNext(vs, i) /\ GetNext(vs, i) \in (i + 1)..(vi + 1)
      BY <2>1, <2>3
    <2>5. ASSUME NEW j \in (i + 1)..(GetNext(vs, i) - 1)
          PROVE  j \notin opens' /\ GetNext(vs', j) <= GetNext(vs, i)
      <3>1. j \in 1..vi /\ j # vi + 1
        BY <2>4, <1>2
      <3> QED
        BY <3>1, <2>1, <2>3, <1>1
    <2> QED
      BY <1>2, <2>4, <2>5
  <1> QED
    BY <1>8, <1>9, <1>10, <1>11, <1>12, <1>13 DEF IInv

-----------------------------------------------------------------------------
LEMMA AfterRootKeepsIInv == IInv /\ AfterRoot => IInv'
  <1> SUFFICES ASSUME IInv, AfterRoot PROVE IInv'
    OBVIOUS
  <1>1. consumed' \in 0..(NUnits + 1) /\ res' \in Error \cup {"run", "ok"}
    BY InSlab DEF AfterRoot, IInv, TypeOK, Error
  <1> QED
    BY <1>1 DEF AfterRoot, IInv, TypeOK, SlotsBehindUnits, RootFirst, OpenChain,
      DepthIsOpens, PairDepth, ClosedSpansNest, NUnits, SlabCap, Counted, Limit,
      IsCtn, GetNext, SpanOf

LEMMA AfterCommaKeepsIInv == IInv /\ AfterComma => IInv'
  <1> SUFFICES ASSUME IInv, AfterComma PROVE IInv'
    OBVIOUS
  <1>1. k' = k + 1 /\ k \in Nat /\ k <= NUnits /\ ci # 0 /\ NUnits \in Nat
    <2>1. k \in Nat /\ NUnits \in Nat
      BY InSlab DEF IInv, TypeOK
    <2> QED
      BY <2>1 DEF AfterComma, InCtn, HasUnit
  <1>2. s' \in {"value", "after", "key"}
    <2>1. s' = IF vs[ci].kind = "object" THEN "key" ELSE "value"
      BY DEF AfterComma
    <2> QED
      BY <2>1
  <1>3. k' \in 1..(NUnits + 1) /\ NUnits' = NUnits /\ SlabCap' = SlabCap
    <2>1. NUnits' = NUnits /\ SlabCap' = SlabCap
      BY DEF AfterComma, NUnits, SlabCap
    <2> QED
      BY <1>1, <2>1
  <1>4. TypeOK'
    BY <1>2, <1>3 DEF AfterComma, IInv, TypeOK
  <1>5. SlotsBehindUnits' /\ RootFirst'
    <2>1. vi \in Nat /\ opt \in OptionType
      BY DEF IInv, TypeOK
    <2>2. vi' = vi /\ opt' = opt /\ ci' = ci
      BY DEF AfterComma
    <2> QED
      BY <1>1, <2>1, <2>2 DEF IInv, SlotsBehindUnits, RootFirst, OptionType
  <1> QED
    BY <1>4, <1>5 DEF AfterComma, IInv, OpenChain, DepthIsOpens, PairDepth, ClosedSpansNest,
      Counted, Limit, IsCtn, GetNext, SpanOf

(* A container closes: its slot leaves the chain, whose next slot out      *)
(* becomes the innermost, and covers every slot written since.             *)
LEMMA AfterCloseKeepsIInv == IInv /\ AfterClose => IInv'
  <1> SUFFICES ASSUME IInv, AfterClose PROVE IInv'
    OBVIOUS
  <1> DEFINE back == vs[ci].ofs
  <1>1. /\ k \in Nat /\ k <= NUnits /\ ci # 0 /\ s' = s /\ s = "after"
        /\ k' = k + 1 /\ vi' = vi /\ opens' = opens \ {ci}
        /\ vs' = [vs EXCEPT ![ci] = ClosedSlot]
        /\ ci' = IF back = 0 THEN 0 ELSE ci - back
        /\ ctnLen' = IF back = 0 THEN ctnLen ELSE vs[ci - back].len
    BY InSlab DEF AfterClose, InCtn, Running, HasUnit, IInv, TypeOK
  <1>2. NUnits' = NUnits /\ SlabCap' = SlabCap /\ inp' = inp /\ opt' = opt
    BY DEF AfterClose, NUnits, SlabCap
  <1>3. /\ ci \in opens /\ ci \in 1..vi /\ ci \in 1..SlabCap
        /\ vi \in Nat /\ vi <= SlabCap /\ SlabCap \in Nat /\ NUnits \in Nat
        /\ opens \subseteq 1..vi
        /\ vs \in [1..SlabCap -> Slot] /\ vs[ci] \in Slot
    BY <1>1, InSlab DEF IInv, TypeOK
  <1>4. /\ \A j \in opens : j <= ci
        /\ IsCtn(vs[ci])
        /\ back = 0 => ci = 1
        /\ back # 0 => /\ ci - back \in opens
                       /\ \A j \in opens : j < ci => j <= ci - back
    BY <1>3 DEF IInv, OpenChain
  <1>5. /\ ClosedSlot \in Slot
        /\ ClosedSlot.kind = vs[ci].kind /\ ClosedSlot.ofs = vi + 1 - ci
    <2>1. vi + 1 - ci \in Nat
      BY <1>3
    <2>2. (IF vs[ci].kind = "object" THEN ctnLen \div 2 ELSE ctnLen) \in Nat
      BY DEF IInv, TypeOK
    <2> QED
      BY <1>3, <2>1, <2>2 DEF ClosedSlot, Slot
  <1>6. /\ vs' \in [1..SlabCap -> Slot]
        /\ vs'[ci] = ClosedSlot
        /\ \A i \in 1..SlabCap : i # ci => vs'[i] = vs[i]
    BY <1>1, <1>3, <1>5
  <1>7. /\ IsFiniteSet(opens) /\ Cardinality(opens) \in Nat /\ Cardinality(opens) > 0
        /\ Cardinality(opens') = Cardinality(opens) - 1
    <2>1. IsFiniteSet(opens)
      BY InSlab
    <2>2. Cardinality(opens) \in Nat /\ Cardinality(opens') = Cardinality(opens) - 1
      BY <1>1, <1>3, <2>1, FS_RemoveElement, FS_CardinalityType
    <2>3. Cardinality(opens) # 0
      BY <1>3, <2>1, FS_EmptySet
    <2> QED
      BY <2>1, <2>2, <2>3
  <1>8. wb' \in Bounds /\ (opt.bounds => wb'.pdepth = wb.pdepth - 1)
    <2>1. CASE opt.bounds
      <3>1. /\ wb \in Bounds /\ wb.pdepth \in Nat /\ wb.pdepth > 0
            /\ wb.pk \in Nat /\ wb.pc \in Nat /\ wb.flat \in Nat
        BY <2>1, <1>7 DEF IInv, PairDepth, TypeOK, Bounds
      <3>2. wb' = [flat |-> wb.flat, pc |-> wb.pc + 1, pk |-> wb.pk + wb.pdepth - 1,
                   pdepth |-> wb.pdepth - 1]
        BY <2>1, <3>1 DEF AfterClose, Bounds
      <3> QED
        BY <3>1, <3>2 DEF Bounds
    <2>2. CASE ~opt.bounds
      BY <2>2 DEF AfterClose, IInv, TypeOK
    <2> QED
      BY <2>1, <2>2
  <1>9. depth' \in Nat /\ (Counted => depth' = depth - 1)
    BY <1>7 DEF AfterClose, IInv, TypeOK, DepthIsOpens
  <1>10. TypeOK'
    <2>1. rng' \in [1..SlabCap -> SourceRange]
      <3>1. rng' = IF opt.located THEN [rng EXCEPT ![ci].e = k + 1] ELSE rng
        BY DEF AfterClose
      <3>2. rng \in [1..SlabCap -> SourceRange]
        BY DEF IInv, TypeOK
      <3> QED
        BY <3>1, <3>2, <1>1, <1>3 DEF SourceRange
    <2>2. ci' \in Nat /\ ctnLen' \in Nat
      <3>1. CASE back = 0
        BY <3>1, <1>1 DEF IInv, TypeOK
      <3>2. CASE back # 0
        <4>1. ci - back \in 1..SlabCap
          <5>1. ci - back \in opens
            BY <3>2, <1>4
          <5> QED
            BY <5>1, InSlab
        <4>2. vs[ci - back] \in Slot
          BY <4>1, <1>3
        <4> QED
          BY <3>2, <4>1, <4>2, <1>1 DEF Slot
      <3> QED
        BY <3>1, <3>2
    <2>3. opens' \subseteq 1..vi' /\ k' \in 1..(NUnits + 1)
      BY <1>1, <1>3
    <2>4. consumed' = consumed /\ res' = res
      BY DEF AfterClose
    <2> QED
      BY <1>1, <1>2, <1>6, <1>8, <1>9, <2>1, <2>2, <2>3, <2>4 DEF IInv, TypeOK
  <1>11. SlotsBehindUnits' /\ RootFirst'
    BY <1>1, <1>2, <1>3 DEF IInv, SlotsBehindUnits, RootFirst
  <1>12. OpenChain'
    <2>1. ASSUME NEW i \in opens'
          PROVE  /\ i \in opens /\ i < ci /\ vs'[i] = vs[i]
      BY <1>1, <1>3, <1>4, <1>6
    <2>2. IF opens' = {} THEN ci' = 0 ELSE ci' \in opens' /\ \A j \in opens' : j <= ci'
      <3>1. CASE back = 0
        BY <3>1, <1>1, <1>3, <1>4, <2>1
      <3>2. CASE back # 0
        <4>1. ci - back \in opens'
          BY <3>2, <1>1, <1>3, <1>4 DEF Slot
        <4> QED
          BY <3>2, <4>1, <1>1, <1>4, <2>1
      <3> QED
        BY <3>1, <3>2
    <2>3. ASSUME NEW i \in opens'
          PROVE  /\ IsCtn(vs'[i])
                 /\ IF vs'[i].ofs = 0
                      THEN i = 1
                      ELSE /\ i - vs'[i].ofs \in opens'
                           /\ vs'[i].ofs > 0
                           /\ \A j \in opens' : j < i => j <= i - vs'[i].ofs
      <3>1. i \in opens /\ i < ci /\ vs'[i] = vs[i]
        BY <2>1, <2>3
      <3>4. vs[i] \in Slot
        <4>1. i \in 1..SlabCap
          BY <3>1, <1>3
        <4> QED
          BY <4>1, <1>3
      <3>2. /\ IsCtn(vs[i])
            /\ IF vs[i].ofs = 0
                 THEN i = 1
                 ELSE /\ i - vs[i].ofs \in opens
                      /\ vs[i].ofs > 0
                      /\ \A j \in opens : j < i => j <= i - vs[i].ofs
        BY <3>1 DEF IInv, OpenChain
      <3>3. vs[i].ofs \in Nat /\ i \in Nat
        BY <3>1, <3>4, <1>3 DEF Slot
      <3> QED
        BY <3>1, <3>2, <3>3, <1>1, <1>3
    <2> QED
      BY <2>2, <2>3 DEF OpenChain
  <1>13. DepthIsOpens' /\ PairDepth'
    <2>1. Counted' = Counted /\ Limit' = Limit
      BY <1>2 DEF Counted, Limit
    <2>2. Limit \in Nat
      BY LimitAssumption DEF Limit, IInv, TypeOK, OptionType
    <2> QED
      BY <2>1, <2>2, <1>2, <1>7, <1>8, <1>9 DEF IInv, DepthIsOpens, PairDepth
  <1>14. ClosedSpansNest'
    <2>1. \A i \in 1..vi : i # ci => GetNext(vs', i) = GetNext(vs, i)
      BY <1>3, <1>6 DEF GetNext, SpanOf
    <2>2. GetNext(vs', ci) = vi + 1
      BY <1>3, <1>4, <1>5, <1>6 DEF GetNext, SpanOf, IsCtn
    <2>3. SUFFICES ASSUME NEW i \in 1..vi, i \notin opens \/ i = ci
                   PROVE  /\ GetNext(vs', i) \in (i + 1)..(vi + 1)
                          /\ \A j \in (i + 1)..(GetNext(vs', i) - 1) :
                               j \notin opens' /\ GetNext(vs', j) <= GetNext(vs', i)
      BY <1>1, <1>3 DEF ClosedSpansNest, GetNext, SpanOf, IsCtn
    <2>4. CASE i = ci
      <3>1. ASSUME NEW j \in (ci + 1)..vi
            PROVE  j \notin opens' /\ GetNext(vs', j) <= vi + 1
        <4>1. j \in 1..vi /\ j # ci /\ j \notin opens
          BY <1>3, <1>4
        <4>2. GetNext(vs, j) \in (j + 1)..(vi + 1)
          BY <4>1 DEF IInv, ClosedSpansNest
        <4>3. GetNext(vs', j) = GetNext(vs, j)
          BY <4>1, <2>1
        <4> QED
          BY <4>1, <4>2, <4>3, <1>1, <1>3
      <3> QED
        BY <3>1, <2>2, <2>4, <1>3
    <2>5. CASE i # ci
      <3>1. /\ i \notin opens
            /\ GetNext(vs', i) = GetNext(vs, i)
            /\ GetNext(vs, i) \in (i + 1)..(vi + 1)
            /\ \A j \in (i + 1)..(GetNext(vs, i) - 1) :
                 j \notin opens /\ GetNext(vs, j) <= GetNext(vs, i)
        BY <2>1, <2>3, <2>5 DEF IInv, ClosedSpansNest
      <3>2. ASSUME NEW j \in (i + 1)..(GetNext(vs, i) - 1)
            PROVE  j \notin opens' /\ GetNext(vs', j) <= GetNext(vs, i)
        <4>1. j \notin opens /\ j # ci /\ j \in 1..vi
          BY <3>1, <1>3
        <4> QED
          BY <4>1, <3>1, <2>1, <1>1
      <3> QED
        BY <3>1, <3>2
    <2> QED
      BY <2>4, <2>5
  <1> QED
    BY <1>10, <1>11, <1>12, <1>13, <1>14 DEF IInv

-----------------------------------------------------------------------------
(* What a failing step reports is an error.                                *)
LEMMA FailsWithError ==
  ASSUME IInv, ValueFail \/ AfterFail \/ KeyFail
  PROVE  \E e \in Error : Fail(e)
  <1>1. CASE ValueFail
    <2>1. CASE AtValue /\ inp[k] \notin Opener /\ ReadErr(opt.raw, inp[k]) # "ok"
               /\ Fail(ReadErr(opt.raw, inp[k]))
      <3>1. inp[k] \in Token /\ opt.raw \in BOOLEAN
        BY <2>1, InSlab DEF AtValue, HasUnit, IInv, TypeOK, NUnits, OptionType
      <3> QED
        BY <2>1, <3>1, ReadErrType
    <2>2. CASE Fail("bad_syntax") \/ Fail("oom") \/ Fail("depth_exceeded")
      BY <2>2 DEF Error
    <2> QED
      BY <1>1, <2>1, <2>2 DEF ValueFail
  <1>2. CASE KeyFail
    <2>1. CASE IsKey /\ Room /\ ReadErr(opt.raw, inp[k]) # "ok"
               /\ Fail(ReadErr(opt.raw, inp[k]))
      <3>1. inp[k] \in Token /\ opt.raw \in BOOLEAN
        BY <2>1, InSlab DEF IsKey, HasUnit, IInv, TypeOK, NUnits, OptionType
      <3> QED
        BY <2>1, <3>1, ReadErrType
    <2>2. CASE Fail("bad_syntax") \/ Fail("oom")
      BY <2>2 DEF Error
    <2> QED
      BY <1>2, <2>1, <2>2 DEF KeyFail
  <1>3. CASE AfterFail
    BY <1>3 DEF AfterFail, Error
  <1> QED
    BY <1>1, <1>2, <1>3

LEMMA NextKeepsIInv == IInv /\ [Next]_vars => IInv'
  <1> SUFFICES ASSUME IInv, [Next]_vars PROVE IInv'
    OBVIOUS
  <1>1. CASE UNCHANGED vars
    BY <1>1 DEF vars, IInv, TypeOK, SlotsBehindUnits, RootFirst, OpenChain, DepthIsOpens,
      PairDepth, ClosedSpansNest, NUnits, SlabCap, Counted, Limit, IsCtn, GetNext, SpanOf
  <1>2. CASE Step
    BY <1>2, ValueLeafKeepsIInv, ValueEmptyKeepsIInv, ValueOpenKeepsIInv,
       FailsWithError, FailKeepsIInv, AfterRootKeepsIInv, AfterCommaKeepsIInv,
       AfterCloseKeepsIInv, KeyKeepsIInv DEF Step
  <1> QED
    BY <1>1, <1>2 DEF Next, Returned

-----------------------------------------------------------------------------
(* The count of the children.  A slot put after the others is a child of   *)
(* the innermost container and of no other: every other one is covered.    *)
LEMMA LastIsInInnermost ==
  ASSUME IInv, NEW i \in opens
  PROVE  (\A m \in (i + 1)..vi : m \notin opens /\ GetNext(vs, m) <= vi + 1) <=> i = ci
  <1>1. /\ vi \in Nat /\ opens \subseteq 1..vi
        /\ ci \in opens /\ \A j \in opens : j <= ci
    BY DEF IInv, TypeOK, OpenChain
  <1>2. CASE i = ci
    <2>1. ASSUME NEW m \in (i + 1)..vi PROVE m \notin opens /\ GetNext(vs, m) <= vi + 1
      <3>1. m \in 1..vi /\ m \notin opens
        BY <1>1, <1>2
      <3> QED
        BY <1>1, <3>1 DEF IInv, ClosedSpansNest
    <2> QED
      BY <1>2, <2>1
  <1>3. CASE i # ci
    <2>1. ci \in (i + 1)..vi
      BY <1>1, <1>3
    <2> QED
      BY <1>1, <1>3, <2>1
  <1> QED
    BY <1>2, <1>3

LEMMA OneMoreChild ==
  ASSUME IInv, NEW i \in opens, vi' = vi + 1,
         opens' = opens \/ opens' = opens \cup {vi + 1},
         \A m \in 1..vi : GetNext(vs', m) = GetNext(vs, m)
  PROVE  ChildrenSoFar(i)' = IF i = ci THEN ChildrenSoFar(i) \cup {vi + 1} ELSE ChildrenSoFar(i)
  <1>1. vi \in Nat /\ i \in 1..vi
    BY DEF IInv, TypeOK
  <1>2. ASSUME NEW j \in (i + 1)..(vi + 1)
        PROVE  (\A m \in (i + 1)..(j - 1) : m \notin opens' /\ GetNext(vs', m) <= j)
               <=> (\A m \in (i + 1)..(j - 1) : m \notin opens /\ GetNext(vs, m) <= j)
    <2>1. \A m \in (i + 1)..(j - 1) : m \in 1..vi /\ m # vi + 1
      BY <1>1
    <2>2. \A m \in (i + 1)..(j - 1) : (m \in opens' <=> m \in opens) /\ GetNext(vs', m) = GetNext(vs, m)
      BY <2>1
    <2> QED
      BY <2>2
  <1>3. ASSUME NEW j \in (i + 1)..vi
        PROVE  j \in ChildrenSoFar(i)' <=> j \in ChildrenSoFar(i)
    <2>1. j \in (i + 1)..(vi + 1)
      BY <1>1
    <2> QED
      BY <1>1, <1>2, <2>1 DEF ChildrenSoFar
  <1>4. vi + 1 \in ChildrenSoFar(i)' <=> i = ci
    <2>1. vi + 1 \in (i + 1)..(vi + 1) /\ (vi + 1) - 1 = vi
      BY <1>1
    <2>2. vi + 1 \in ChildrenSoFar(i)' <=> \A m \in (i + 1)..vi : m \notin opens' /\ GetNext(vs', m) <= vi + 1
      BY <2>1 DEF ChildrenSoFar
    <2> QED
      BY <1>2, <2>1, <2>2, LastIsInInnermost
  <1>5. /\ \A j \in ChildrenSoFar(i)' : j \in (i + 1)..vi \/ j = vi + 1
        /\ \A j \in ChildrenSoFar(i) : j \in (i + 1)..vi
    BY <1>1 DEF ChildrenSoFar
  <1> QED
    BY <1>3, <1>4, <1>5

(* The children of a container are some of the slots in use.               *)
LEMMA ChildrenAreFinite ==
  ASSUME IInv, NEW i \in opens
  PROVE  IsFiniteSet(ChildrenSoFar(i)) /\ vi + 1 \notin ChildrenSoFar(i)
  <1>1. ChildrenSoFar(i) \subseteq (i + 1)..vi /\ vi \in Nat /\ i \in Nat
    BY DEF ChildrenSoFar, IInv, TypeOK
  <1>2. IsFiniteSet((i + 1)..vi)
    BY <1>1, FS_Interval
  <1> QED
    BY <1>1, <1>2, FS_Subset

LEMMA PutChildCounts ==
  ASSUME IInv, LiveCounts, NEW v \in Slot, NEW e, PutChild(v, e), Room
  PROVE  LiveCounts'
  <1>1. /\ ci' = ci /\ opens' = opens /\ ctnLen' = ctnLen + 1
        /\ vi' = vi + 1 /\ vs' = [vs EXCEPT ![vi + 1] = v]
    BY DEF PutChild
  <1>2. \A m \in 1..vi : vs'[m] = vs[m]
    BY <1>1, InSlab DEF IInv, TypeOK
  <1>3. \A m \in 1..vi : GetNext(vs', m) = GetNext(vs, m)
    BY <1>2 DEF GetNext, SpanOf, IsCtn
  <1>4. ASSUME NEW i \in opens
        PROVE  Cardinality(ChildrenSoFar(i)') = IF i = ci THEN ctnLen' ELSE vs'[i].len
    <2>1. ChildrenSoFar(i)' = IF i = ci THEN ChildrenSoFar(i) \cup {vi + 1} ELSE ChildrenSoFar(i)
      BY <1>1, <1>3, OneMoreChild
    <2>2. Cardinality(ChildrenSoFar(i)) = IF i = ci THEN ctnLen ELSE vs[i].len
      BY DEF LiveCounts
    <2>3. vs'[i] = vs[i]
      BY <1>2 DEF IInv, TypeOK
    <2> QED
      BY <1>1, <2>1, <2>2, <2>3, ChildrenAreFinite, FS_AddElement
  <1> QED
    BY <1>1, <1>4 DEF LiveCounts

LEMMA ValueOpenCounts ==
  ASSUME IInv, LiveCounts, ValueOpen
  PROVE  LiveCounts'
  <1> DEFINE new == OpenSlot(inp[k])
  <1>1. /\ vi' = vi + 1 /\ ci' = vi + 1 /\ ctnLen' = 0
        /\ opens' = opens \cup {vi + 1}
        /\ vs' = [StashCount EXCEPT ![vi + 1] = new]
        /\ vi \in Nat /\ opens \subseteq 1..vi /\ ctnLen \in Nat
        /\ vs \in [1..SlabCap -> Slot] /\ vi <= SlabCap /\ SlabCap \in Nat
    BY InSlab DEF ValueOpen, IInv, TypeOK
  <1> HIDE DEF new
  <1>2. ASSUME NEW m \in 1..vi
        PROVE  /\ vs'[m].kind = vs[m].kind /\ vs'[m].ofs = vs[m].ofs
               /\ vs'[m].len = IF m = ci THEN ctnLen + 1 ELSE vs[m].len
    <2>1. m \in 1..SlabCap /\ m # vi + 1
      BY <1>1
    <2>2. vs'[m] = StashCount[m]
      <3>1. DOMAIN StashCount = 1..SlabCap
        BY <1>1 DEF StashCount
      <3> QED
        BY <1>1, <2>1, <3>1
    <2>3. CASE ci = 0
      BY <2>1, <2>2, <2>3 DEF StashCount
    <2>4. CASE ci # 0
      <3>1. StashCount = [vs EXCEPT ![ci].len = ctnLen + 1]
        BY <2>4 DEF StashCount
      <3>2. vs[m] \in Slot
        BY <1>1, <2>1
      <3> QED
        BY <1>1, <2>1, <2>2, <3>1, <3>2 DEF Slot
    <2> QED
      BY <2>3, <2>4
  <1>3. \A m \in 1..vi : GetNext(vs', m) = GetNext(vs, m)
    BY <1>2 DEF GetNext, SpanOf, IsCtn
  <1>4. ASSUME NEW i \in opens
        PROVE  Cardinality(ChildrenSoFar(i)') = vs'[i].len /\ i # ci'
    <2>1. ChildrenSoFar(i)' = IF i = ci THEN ChildrenSoFar(i) \cup {vi + 1} ELSE ChildrenSoFar(i)
      BY <1>1, <1>3, OneMoreChild
    <2>2. Cardinality(ChildrenSoFar(i)) = IF i = ci THEN ctnLen ELSE vs[i].len
      BY DEF LiveCounts
    <2>3. i \in 1..vi /\ i # ci'
      BY <1>1
    <2>4. Cardinality(ChildrenSoFar(i) \cup {vi + 1}) = Cardinality(ChildrenSoFar(i)) + 1
      BY ChildrenAreFinite, FS_AddElement
    <2> QED
      BY <1>2, <2>1, <2>2, <2>3, <2>4
  <1>5. ASSUME NEW i \in opens', i = vi + 1
        PROVE  Cardinality(ChildrenSoFar(i)') = 0
    <2>1. ChildrenSoFar(i)' = {}
      BY <1>1, <1>5 DEF ChildrenSoFar
    <2> QED
      BY <2>1, FS_EmptySet
  <1> QED
    BY <1>1, <1>4, <1>5 DEF LiveCounts

(* What closes stops being looked into, and covers what it held.           *)
LEMMA CloseIs ==
  ASSUME IInv, AfterClose
  PROVE  /\ ci \in opens /\ ci \in 1..vi /\ ci \in 1..SlabCap /\ vi \in Nat
         /\ opens \subseteq 1..vi /\ vi <= SlabCap /\ SlabCap \in Nat
         /\ vs \in [1..SlabCap -> Slot] /\ vs[ci] \in Slot /\ IsCtn(vs[ci])
         /\ \A j \in opens : j <= ci
         /\ vi' = vi /\ opens' = opens \ {ci} /\ s = "after" /\ s' = s /\ res' = res
         /\ res = "run" /\ opt' = opt
         /\ vs' = [vs EXCEPT ![ci] = ClosedSlot]
         /\ vs'[ci] = ClosedSlot /\ ClosedSlot.kind = vs[ci].kind
         /\ ClosedSlot.len = IF vs[ci].kind = "object" THEN ctnLen \div 2 ELSE ctnLen
         /\ \A m \in 1..vi : m # ci => vs'[m] = vs[m] /\ GetNext(vs', m) = GetNext(vs, m)
         /\ GetNext(vs', ci) = vi + 1
         /\ IF vs[ci].ofs = 0
              THEN ci = 1 /\ ci' = 0
              ELSE /\ ci' = ci - vs[ci].ofs /\ ci' \in opens /\ ci' < ci
                   /\ ctnLen' = vs[ci'].len
  <1>1. /\ ci # 0 /\ s = "after" /\ res = "run"
        /\ vi' = vi /\ opens' = opens \ {ci} /\ s' = s /\ res' = res /\ opt' = opt
        /\ vs' = [vs EXCEPT ![ci] = ClosedSlot]
        /\ ci' = IF vs[ci].ofs = 0 THEN 0 ELSE ci - vs[ci].ofs
        /\ ctnLen' = IF vs[ci].ofs = 0 THEN ctnLen ELSE vs[ci - vs[ci].ofs].len
    BY ONLY AfterClose DEF AfterClose, InCtn, Running
  <1>2. /\ ci \in opens /\ ci \in 1..vi /\ ci \in 1..SlabCap /\ vi \in Nat
        /\ opens \subseteq 1..vi /\ vi <= SlabCap /\ SlabCap \in Nat
        /\ vs \in [1..SlabCap -> Slot] /\ vs[ci] \in Slot
    BY <1>1, InSlab DEF IInv, TypeOK
  <1>3. /\ \A j \in opens : j <= ci
        /\ IsCtn(vs[ci])
        /\ IF vs[ci].ofs = 0 THEN ci = 1 ELSE ci - vs[ci].ofs \in opens /\ vs[ci].ofs > 0
    BY <1>2 DEF IInv, OpenChain
  <1>4. /\ ClosedSlot.kind = vs[ci].kind /\ ClosedSlot.ofs = vi + 1 - ci
        /\ ClosedSlot.len = IF vs[ci].kind = "object" THEN ctnLen \div 2 ELSE ctnLen
    BY <1>2 DEF ClosedSlot, Slot
  <1>5. vs'[ci] = ClosedSlot /\ \A m \in 1..vi : m # ci => vs'[m] = vs[m]
    BY <1>1, <1>2
  <1>6. GetNext(vs', ci) = vi + 1
    BY <1>2, <1>3, <1>4, <1>5 DEF GetNext, SpanOf, IsCtn
  <1>7. \A m \in 1..vi : m # ci => GetNext(vs', m) = GetNext(vs, m)
    BY <1>5 DEF GetNext, SpanOf
  <1>8. IF vs[ci].ofs = 0
          THEN ci = 1 /\ ci' = 0
          ELSE /\ ci' = ci - vs[ci].ofs /\ ci' \in opens /\ ci' < ci
               /\ ctnLen' = vs[ci'].len
    <2>1. vs[ci].ofs \in Nat /\ ci \in Nat
      BY <1>2 DEF Slot
    <2> QED
      BY <1>1, <1>3, <2>1
  <1> QED
    BY <1>1, <1>2, <1>3, <1>4, <1>5, <1>6, <1>7, <1>8

LEMMA CloseKeepsChildren ==
  ASSUME IInv, AfterClose, NEW i \in opens'
  PROVE  /\ i \in opens /\ i \in 1..vi /\ i < ci /\ vs'[i] = vs[i]
         /\ ChildrenSoFar(i)' = ChildrenSoFar(i)
  <1>1. i \in opens /\ i \in 1..vi /\ i < ci /\ vs'[i] = vs[i]
    BY CloseIs
  <1>2. ASSUME NEW j \in (i + 1)..vi
        PROVE  j \in ChildrenSoFar(i)' <=> j \in ChildrenSoFar(i)
    <2>1. CASE j <= ci
      <3>1. \A m \in (i + 1)..(j - 1) : m \in 1..vi /\ m # ci
        BY <1>1, <2>1, CloseIs
      <3>2. \A m \in (i + 1)..(j - 1) : (m \in opens' <=> m \in opens) /\ GetNext(vs', m) = GetNext(vs, m)
        BY <3>1, CloseIs
      <3>3. vi' = vi
        BY CloseIs
      <3> QED
        BY <3>2, <3>3 DEF ChildrenSoFar
    <2>2. CASE ~(j <= ci)
      <3>1. /\ ci \in (i + 1)..(j - 1) /\ ~(vi + 1 <= j)
            /\ vi' = vi /\ GetNext(vs', ci) = vi + 1 /\ ci \in opens
        BY <1>1, <2>2, CloseIs
      <3> QED
        BY <3>1 DEF ChildrenSoFar
    <2> QED
      BY <2>1, <2>2
  <1>3. ChildrenSoFar(i)' \subseteq (i + 1)..vi /\ ChildrenSoFar(i) \subseteq (i + 1)..vi
    BY CloseIs DEF ChildrenSoFar
  <1> QED
    BY <1>1, <1>2, <1>3

LEMMA AfterCloseCounts ==
  ASSUME IInv, LiveCounts, AfterClose
  PROVE  LiveCounts'
  <1> SUFFICES ASSUME NEW i \in opens'
               PROVE  Cardinality(ChildrenSoFar(i)') = IF i = ci' THEN ctnLen' ELSE vs'[i].len
    BY DEF LiveCounts
  <1>1. i \in opens /\ i \in Nat /\ i # 0 /\ i # ci /\ vs'[i] = vs[i] /\ ChildrenSoFar(i)' = ChildrenSoFar(i)
    BY CloseKeepsChildren, CloseIs
  <1>2. i = ci' => ctnLen' = vs[i].len
    BY <1>1, CloseIs
  <1> QED
    BY <1>1, <1>2 DEF LiveCounts

LEMMA NextKeepsCounts ==
  ASSUME IInv, LiveCounts, [Next]_vars
  PROVE  LiveCounts'
  <1>1. CASE UNCHANGED <<vs, vi, ci, ctnLen, opens>>
    BY <1>1 DEF LiveCounts, ChildrenSoFar, GetNext, SpanOf, IsCtn
  <1>2. CASE ValueLeaf \/ Key
    <2> DEFINE v == LeafSlot(opt.raw, inp[k], k)
    <2>1. k <= NUnits /\ Room /\ PutChild(v, k + 1)
      BY <1>2 DEF ValueLeaf, Key, IsKey, AtValue, HasUnit
    <2>2. v \in Slot
      BY <2>1, LeafSlotType DEF IInv, TypeOK, NUnits, OptionType
    <2> HIDE DEF v
    <2> QED
      BY <2>1, <2>2, PutChildCounts
  <1>3. CASE ValueEmpty
    <2> DEFINE v == EmptyCtn(CtnKind(inp[k]))
    <2>1. k <= NUnits /\ Room /\ PutChild(v, k + 2)
      BY <1>3 DEF ValueEmpty, AtValue, HasUnit
    <2>2. v \in Slot
      BY <2>1, EmptyCtnType DEF IInv, TypeOK, NUnits
    <2> HIDE DEF v
    <2> QED
      BY <2>1, <2>2, PutChildCounts
  <1>4. CASE ValueOpen
    BY <1>4, ValueOpenCounts
  <1>5. CASE AfterClose
    BY <1>5, AfterCloseCounts
  <1>6. CASE ValueFail \/ AfterRoot \/ AfterComma \/ AfterFail \/ KeyFail
    BY <1>1, <1>6 DEF ValueFail, AfterRoot, AfterComma, AfterFail, KeyFail, Fail
  <1>7. CASE UNCHANGED vars
    BY <1>1, <1>7 DEF vars
  <1> QED
    BY <1>2, <1>3, <1>4, <1>5, <1>6, <1>7 DEF Next, Step, Returned

-----------------------------------------------------------------------------
(* What a closed container is said to hold, it holds.  Its children are    *)
(* the slots in its span that nothing between covers, which is what        *)
(* ChildrenOf says of a finished arena and ChildrenSoFar of an open        *)
(* container; they stay as they are, and so does everything in the span.   *)
KidsIn(v, i) ==
  {j \in (i + 1)..(GetNext(v, i) - 1) : \A m \in (i + 1)..(j - 1) : GetNext(v, m) <= j}

(* Among the children K of an object every other one, from the first, is a *)
(* key.                                                                    *)
KeysAreStrings(v, K) == \A j \in K : Rank(K, j) % 2 = 1 => v[j].kind = "string"

HoldsItsKids(v, i) ==
  /\ Cardinality(KidsIn(v, i)) = IF v[i].kind = "object" THEN 2 * v[i].len ELSE v[i].len
  /\ v[i].kind = "object" => KeysAreStrings(v, KidsIn(v, i))

Settled ==
  \A i \in (1..vi) \ opens : vs[i].kind # "none" /\ (IsCtn(vs[i]) => HoldsItsKids(vs, i))

(* An open object has a key for every value, but for the one whose value   *)
(* comes next, and a container waits for a comma only after a child.       *)
ObjectSoFar(i) ==
  LET n == IF i = ci THEN ctnLen ELSE vs[i].len IN
  /\ n % 2 = IF i = ci /\ s = "value" THEN 1 ELSE 0
  /\ KeysAreStrings(vs, ChildrenSoFar(i))

Paired ==
  /\ s = "key" => ci # 0 /\ vs[ci].kind = "object"
  /\ s = "after" => IF ci = 0 THEN vi >= 1 /\ GetNext(vs, 1) = vi + 1 ELSE ctnLen >= 1
  /\ \A i \in opens : i # ci => vs[i].len >= 1
  /\ \A i \in opens : vs[i].kind = "object" => ObjectSoFar(i)

Answered == res = "ok" => ci = 0 /\ s = "after"

TreeInv == IInv /\ LiveCounts /\ Settled /\ Paired /\ Answered

(* A slot is put after the others: the ones before it keep their kinds and *)
(* spans, and only the innermost container's count may change.             *)
Grows(v) ==
  /\ vi' = vi + 1 /\ vi + 1 \in 1..SlabCap
  /\ vs'[vi + 1] = v
  /\ \A m \in 1..vi : vs'[m].kind = vs[m].kind /\ vs'[m].ofs = vs[m].ofs
  /\ \A m \in 1..vi : m # ci => vs'[m] = vs[m]
  /\ \/ opens' = opens /\ (IsCtn(v) => v.ofs = 1 /\ v.len = 0)
     \/ opens' = opens \cup {vi + 1} /\ IsCtn(v)

LEMMA PutChildGrows ==
  ASSUME IInv, NEW v \in Slot, NEW e, PutChild(v, e), Room, IsCtn(v) => v.ofs = 1 /\ v.len = 0
  PROVE  Grows(v) /\ \A m \in 1..vi : vs'[m] = vs[m]
  <1>1. vi + 1 \in 1..SlabCap /\ vs \in [1..SlabCap -> Slot] /\ vi \in Nat
    <2>1. /\ vi \in Nat /\ k \in 1..(NUnits + 1) /\ NUnits \in Nat
          /\ SlotsBehindUnits /\ vs \in [1..SlabCap -> Slot] /\ opt \in OptionType
      BY InSlab DEF IInv, TypeOK
    <2> QED
      BY <2>1 DEF SlotsBehindUnits, SlabCap, Room, OptionType
  <1>2. vs' = [vs EXCEPT ![vi + 1] = v] /\ vi' = vi + 1 /\ opens' = opens
    BY DEF PutChild
  <1>3. vs'[vi + 1] = v
    BY <1>1, <1>2
  <1>4. \A m \in 1..vi : vs'[m] = vs[m]
    BY <1>1, <1>2
  <1> QED
    BY <1>1, <1>2, <1>3, <1>4 DEF Grows

LEMMA OpenGrows ==
  ASSUME IInv, ValueOpen
  PROVE  /\ Grows(OpenSlot(inp[k]))
         /\ ci # 0 => vs'[ci] = [vs[ci] EXCEPT !.len = ctnLen + 1]
  <1> DEFINE new == OpenSlot(inp[k])
  <1>1. /\ vi' = vi + 1 /\ opens' = opens \cup {vi + 1}
        /\ vs' = [StashCount EXCEPT ![vi + 1] = new]
        /\ vi \in Nat /\ vs \in [1..SlabCap -> Slot]
    <2>1. vi \in Nat /\ vs \in [1..SlabCap -> Slot]
      BY DEF IInv, TypeOK
    <2>2. /\ vi' = vi + 1 /\ opens' = opens \cup {vi + 1}
          /\ vs' = [StashCount EXCEPT ![vi + 1] = new]
      BY ONLY ValueOpen DEF ValueOpen, new
    <2> QED
      BY <2>1, <2>2
  <1>2. IsCtn(new)
    BY DEF OpenSlot, CtnKind, IsCtn
  <1>3. vi + 1 \in 1..SlabCap /\ SlabCap \in Nat
    <2>1. /\ vi \in Nat /\ k \in 1..(NUnits + 1) /\ k <= NUnits /\ NUnits \in Nat
          /\ SlotsBehindUnits /\ opt \in OptionType /\ Room
      <3>1. Room /\ k <= NUnits
        BY ONLY ValueOpen DEF ValueOpen, AtValue, HasUnit
      <3> QED
        BY <3>1, InSlab DEF IInv, TypeOK
    <2> QED
      BY <2>1 DEF SlotsBehindUnits, SlabCap, Room, OptionType
  <1> HIDE DEF new
  <1>4. CASE ci = 0
    <2>1. StashCount = vs
      BY <1>4 DEF StashCount
    <2>2. vs'[vi + 1] = new /\ \A m \in 1..vi : vs'[m] = vs[m]
      BY <1>1, <1>3, <2>1
    <2> QED
      BY <1>1, <1>2, <1>3, <1>4, <2>2 DEF Grows, new
  <1>5. CASE ci # 0
    <2> DEFINE c == [vs[ci] EXCEPT !.len = ctnLen + 1]
    <2>1. StashCount = [vs EXCEPT ![ci] = c] /\ ci \in 1..vi /\ ci \in 1..SlabCap
      BY <1>5, InSlab DEF StashCount
    <2>2. c.kind = vs[ci].kind /\ c.ofs = vs[ci].ofs
      BY <1>1, <2>1 DEF Slot
    <2> HIDE DEF c
    <2>3. /\ vs'[vi + 1] = new /\ vs'[ci] = c
          /\ \A m \in 1..vi : m # ci => vs'[m] = vs[m]
      BY <1>1, <1>3, <2>1
    <2> QED
      BY <1>1, <1>2, <1>3, <2>2, <2>3 DEF Grows, new, c
  <1> QED
    BY <1>4, <1>5

LEMMA SpansStay ==
  ASSUME NEW v, Grows(v)
  PROVE  \A m \in 1..vi : GetNext(vs', m) = GetNext(vs, m)
  BY DEF Grows, GetNext, SpanOf, IsCtn

LEMMA SameKids ==
  ASSUME NEW u, NEW w, NEW i \in Nat, GetNext(w, i) \in Nat,
         \A m \in i..(GetNext(w, i) - 1) : GetNext(u, m) = GetNext(w, m),
         GetNext(u, i) = GetNext(w, i)
  PROVE  KidsIn(u, i) = KidsIn(w, i)
  <1>1. ASSUME NEW j \in (i + 1)..(GetNext(w, i) - 1)
        PROVE  j \in KidsIn(u, i) <=> j \in KidsIn(w, i)
    <2>1. \A m \in (i + 1)..(j - 1) : m \in i..(GetNext(w, i) - 1)
      OBVIOUS
    <2> QED
      BY <2>1 DEF KidsIn
  <1>2. /\ KidsIn(u, i) \subseteq (i + 1)..(GetNext(w, i) - 1)
        /\ KidsIn(w, i) \subseteq (i + 1)..(GetNext(w, i) - 1)
    BY DEF KidsIn
  <1> QED
    BY <1>1, <1>2

LEMMA GrowKeepsSettled ==
  ASSUME IInv, Settled, NEW v, Grows(v), v.kind # "none"
  PROVE  Settled'
  <1>1. vi \in Nat /\ opens \subseteq 1..vi /\ vi' = vi + 1
    BY DEF IInv, TypeOK, Grows
  <1>2. ASSUME NEW i \in (1..vi) \ opens
        PROVE  vs'[i].kind # "none" /\ (IsCtn(vs'[i]) => HoldsItsKids(vs', i))
    <2>1. i \in Nat /\ i # ci /\ vs'[i] = vs[i] /\ vs[i].kind # "none"
      <3>1. ci # 0 => ci \in opens
        BY InSlab
      <3> QED
        BY <1>1, <3>1 DEF Grows, Settled
    <2>2. GetNext(vs, i) \in (i + 1)..(vi + 1)
      BY DEF IInv, ClosedSpansNest
    <2>3. KidsIn(vs', i) = KidsIn(vs, i)
      <3>1. \A m \in i..(GetNext(vs, i) - 1) : GetNext(vs', m) = GetNext(vs, m)
        BY <1>1, <2>1, <2>2, SpansStay
      <3>2. GetNext(vs, i) \in Nat /\ GetNext(vs', i) = GetNext(vs, i)
        BY <1>1, <2>2, SpansStay
      <3> QED
        BY <2>1, <3>1, <3>2, SameKids
    <2>4. \A j \in KidsIn(vs, i) : vs'[j].kind = vs[j].kind
      <3>1. KidsIn(vs, i) \subseteq 1..vi
        BY <1>1, <2>1, <2>2 DEF KidsIn
      <3> QED
        BY <3>1 DEF Grows
    <2>5. IsCtn(vs[i]) => HoldsItsKids(vs, i)
      BY DEF Settled
    <2> QED
      BY <2>1, <2>3, <2>4, <2>5 DEF HoldsItsKids, KeysAreStrings
  <1>3. ASSUME vi + 1 \notin opens', IsCtn(v)
        PROVE  HoldsItsKids(vs', vi + 1)
    <2>1. v.ofs = 1 /\ v.len = 0 /\ vs'[vi + 1] = v
      BY <1>3 DEF Grows
    <2>2. GetNext(vs', vi + 1) = vi + 2
      BY <1>1, <1>3, <2>1 DEF GetNext, SpanOf
    <2>3. KidsIn(vs', vi + 1) = {}
      BY <1>1, <2>2 DEF KidsIn
    <2> QED
      BY <2>1, <2>3, FS_EmptySet DEF HoldsItsKids, KeysAreStrings
  <1>4. \A i \in (1..vi') \ opens' : i \in (1..vi) \ opens \/ (i = vi + 1 /\ vi + 1 \notin opens')
    BY <1>1 DEF Grows
  <1> QED
    BY <1>2, <1>3, <1>4 DEF Settled, Grows

(* A member greater than the others comes last and moves none of them.     *)
LEMMA OneMoreRank ==
  ASSUME NEW S, IsFiniteSet(S), NEW x \in Int, \A j \in S : j \in Int /\ j < x
  PROVE  /\ \A j \in S : Rank(S \cup {x}, j) = Rank(S, j)
         /\ Rank(S \cup {x}, x) = Cardinality(S) + 1
  <1>1. ASSUME NEW j \in S PROVE Rank(S \cup {x}, j) = Rank(S, j)
    <2>1. {m \in S \cup {x} : m <= j} = {m \in S : m <= j}
      OBVIOUS
    <2> QED
      BY <2>1 DEF Rank
  <1>2. {m \in S \cup {x} : m <= x} = S \cup {x} /\ x \notin S
    OBVIOUS
  <1> QED
    BY <1>1, <1>2, FS_AddElement DEF Rank

(* The new slot is a key when one is due.                                  *)
LEMMA GrowKeepsKeys ==
  ASSUME IInv, LiveCounts, NEW v, Grows(v), NEW i \in opens,
         KeysAreStrings(vs, ChildrenSoFar(i)),
         i = ci => v.kind = "string" \/ (ctnLen + 1) % 2 = 0
  PROVE  KeysAreStrings(vs', ChildrenSoFar(i)')
  <1> DEFINE K == ChildrenSoFar(i)
  <1>1. K \subseteq 1..vi /\ IsFiniteSet(K) /\ vi \in Nat
    BY ChildrenAreFinite DEF ChildrenSoFar, IInv, TypeOK
  <1>2. ChildrenSoFar(i)' = IF i = ci THEN K \cup {vi + 1} ELSE K
    BY SpansStay, OneMoreChild DEF Grows
  <1>3. /\ \A j \in K : vs'[j].kind = vs[j].kind
        /\ vs'[vi + 1] = v
    BY <1>1 DEF Grows
  <1>4. \A j \in K : Rank(K, j) % 2 = 1 => vs[j].kind = "string"
    BY DEF KeysAreStrings
  <1>5. Cardinality(K) = IF i = ci THEN ctnLen ELSE vs[i].len
    BY DEF LiveCounts
  <1> HIDE DEF K
  <1>6. CASE i # ci
    BY <1>2, <1>3, <1>4, <1>6 DEF KeysAreStrings
  <1>7. CASE i = ci
    <2>1. /\ \A j \in K : Rank(K \cup {vi + 1}, j) = Rank(K, j)
          /\ Rank(K \cup {vi + 1}, vi + 1) = ctnLen + 1
      <3>1. vi + 1 \in Int /\ \A j \in K : j \in Int /\ j < vi + 1
        BY <1>1
      <3> QED
        BY <1>1, <1>5, <1>7, <3>1, OneMoreRank
    <2>2. ASSUME NEW j \in K \cup {vi + 1}, Rank(K \cup {vi + 1}, j) % 2 = 1
          PROVE  vs'[j].kind = "string"
      <3>1. CASE j \in K
        BY <1>3, <1>4, <2>1, <2>2, <3>1
      <3>2. CASE j = vi + 1
        BY <1>3, <1>7, <2>1, <2>2, <3>2
      <3> QED
        BY <3>1, <3>2
    <2> QED
      BY <1>2, <1>7, <2>2 DEF KeysAreStrings
  <1> QED
    BY <1>6, <1>7

LEMMA ParityTurns ==
  \A n \in Nat : /\ (n + 1) % 2 = 1 <=> n % 2 = 0
                 /\ (n + 1) % 2 = 0 <=> n % 2 = 1
                 /\ n % 2 = 0 => 2 * (n \div 2) = n
  OBVIOUS

LEMMA PutChildKeepsTree ==
  ASSUME TreeInv, NEW v \in Slot, v.kind # "none", NEW e, PutChild(v, e), Room,
         IsCtn(v) => v.ofs = 1 /\ v.len = 0,
         \/ s = "value" /\ s' = "after"
         \/ s = "key" /\ s' = "value" /\ v.kind = "string",
         res = "run"
  PROVE  Settled' /\ Paired' /\ Answered'
  <1>1. IInv /\ LiveCounts /\ Settled /\ Paired
    BY DEF TreeInv
  <1>2. Grows(v) /\ \A m \in 1..vi : vs'[m] = vs[m]
    BY <1>1, PutChildGrows
  <1>3. Settled'
    BY <1>1, <1>2, GrowKeepsSettled
  <1>4. Answered'
    BY DEF PutChild, Answered
  <1>5. /\ ci' = ci /\ ctnLen' = ctnLen + 1 /\ opens' = opens /\ vi' = vi + 1
        /\ vi \in Nat /\ ctnLen \in Nat /\ opens \subseteq 1..vi
    BY <1>1 DEF PutChild, IInv, TypeOK
  <1>6. ASSUME s' = "after", ci = 0 PROVE vi' >= 1 /\ GetNext(vs', 1) = vi' + 1
    <2>1. vi = 0
      BY <1>1, <1>6 DEF IInv, RootFirst
    <2>2. vs'[1] = v
      BY <1>2, <2>1 DEF Grows
    <2> QED
      BY <1>5, <2>1, <2>2 DEF GetNext, SpanOf
  <1>7. ASSUME NEW i \in opens, vs'[i].kind = "object"
        PROVE  ObjectSoFar(i)'
    <2>1. i \in 1..vi /\ vs'[i] = vs[i] /\ vs[i].kind = "object"
      BY <1>2, <1>5, <1>7
    <2>2. ObjectSoFar(i)
      BY <1>1, <2>1 DEF Paired
    <2>3. i = ci => v.kind = "string" \/ (ctnLen + 1) % 2 = 0
      BY <1>5, <2>2, ParityTurns DEF ObjectSoFar
    <2>4. KeysAreStrings(vs', ChildrenSoFar(i)')
      BY <1>1, <1>2, <2>2, <2>3, GrowKeepsKeys DEF ObjectSoFar
    <2>5. (IF i = ci THEN ctnLen + 1 ELSE vs[i].len) % 2 = IF i = ci /\ s' = "value" THEN 1 ELSE 0
      BY <1>5, <2>2, ParityTurns DEF ObjectSoFar
    <2> QED
      BY <1>5, <2>1, <2>4, <2>5 DEF ObjectSoFar
  <1>8. \A i \in opens : i # ci => vs'[i].len >= 1
    BY <1>1, <1>2, <1>5 DEF Paired
  <1>9. s' = "key" => FALSE
    OBVIOUS
  <1>10. Paired'
    BY <1>5, <1>6, <1>7, <1>8, <1>9 DEF Paired
  <1> QED
    BY <1>3, <1>4, <1>10

LEMMA OpenKeepsTree ==
  ASSUME TreeInv, ValueOpen
  PROVE  Settled' /\ Paired' /\ Answered'
  <1> DEFINE new == OpenSlot(inp[k])
             obj == inp[k] = "{"
  <1>1. IInv /\ LiveCounts /\ Settled /\ Paired
    BY DEF TreeInv
  <1>2. /\ Grows(new)
        /\ ci # 0 => vs'[ci] = [vs[ci] EXCEPT !.len = ctnLen + 1]
    BY <1>1, OpenGrows
  <1>3. /\ new.kind = (IF obj THEN "object" ELSE "array")
        /\ new.kind # "none"
    BY DEF OpenSlot, CtnKind
  <1>4. /\ ci' = vi + 1 /\ ctnLen' = 0 /\ opens' = opens \cup {vi + 1} /\ vi' = vi + 1
        /\ s' = (IF obj THEN "key" ELSE "value")
        /\ s = "value" /\ res' = "run"
    BY ONLY ValueOpen DEF ValueOpen, AtValue, Running
  <1>5. vi \in Nat /\ ctnLen \in Nat /\ opens \subseteq 1..vi /\ vs \in [1..SlabCap -> Slot]
    BY <1>1 DEF IInv, TypeOK
  <1> HIDE DEF new, obj
  <1>6. Settled'
    BY <1>1, <1>2, <1>3, GrowKeepsSettled
  <1>7. vs'[vi + 1] = new
    BY <1>2 DEF Grows
  <1>8. s' = "key" => ci' # 0 /\ vs'[ci'].kind = "object"
    BY <1>3, <1>4, <1>5, <1>7
  <1>9. s' # "after"
    BY <1>4
  <1>10. ASSUME NEW i \in opens
         PROVE  /\ vs'[i].len >= 1
                /\ vs'[i].kind = "object" => ObjectSoFar(i)'
    <2>1. i \in 1..vi /\ vs'[i].kind = vs[i].kind /\ i # ci'
      BY <1>2, <1>4, <1>5 DEF Grows
    <2>2. vs'[i].len = IF i = ci THEN ctnLen + 1 ELSE vs[i].len
      <3>1. CASE i = ci
        <4>1. vs[ci] \in Slot /\ ci # 0
          BY <1>1, <1>5, <3>1, InSlab
        <4> QED
          BY <1>2, <3>1, <4>1 DEF Slot
      <3>2. CASE i # ci
        BY <1>2, <2>1, <3>2 DEF Grows
      <3> QED
        BY <3>1, <3>2
    <2>3. vs'[i].len >= 1
      BY <1>1, <1>5, <2>2 DEF Paired
    <2>4. ASSUME vs'[i].kind = "object" PROVE ObjectSoFar(i)'
      <3>1. ObjectSoFar(i)
        BY <1>1, <2>1, <2>4 DEF Paired
      <3>2. i = ci => (ctnLen + 1) % 2 = 0
        BY <1>4, <1>5, <3>1, ParityTurns DEF ObjectSoFar
      <3>3. KeysAreStrings(vs', ChildrenSoFar(i)')
        BY <1>1, <1>2, <3>1, <3>2, GrowKeepsKeys DEF ObjectSoFar
      <3>4. vs'[i].len % 2 = 0
        BY <2>2, <3>1, <3>2 DEF ObjectSoFar
      <3> QED
        BY <2>1, <3>3, <3>4 DEF ObjectSoFar
    <2> QED
      BY <2>3, <2>4
  <1>11. ASSUME NEW i, i = vi + 1 PROVE ObjectSoFar(i)' \/ vs'[i].kind # "object"
    <2>1. SUFFICES ASSUME vs'[i].kind = "object" PROVE ObjectSoFar(i)'
      OBVIOUS
    <2>2. s' # "value"
      BY <1>3, <1>4, <1>7, <1>11, <2>1
    <2>3. ChildrenSoFar(i)' = {}
      BY <1>4, <1>5, <1>11 DEF ChildrenSoFar
    <2>4. 0 % 2 = 0
      OBVIOUS
    <2> QED
      BY <1>4, <1>11, <2>2, <2>3, <2>4 DEF ObjectSoFar, KeysAreStrings
  <1>12. Paired'
    BY <1>4, <1>8, <1>9, <1>10, <1>11 DEF Paired
  <1>13. Answered'
    BY <1>4 DEF Answered
  <1> QED
    BY <1>6, <1>12, <1>13

LEMMA CloseKeepsTree ==
  ASSUME TreeInv, AfterClose
  PROVE  Settled' /\ Paired' /\ Answered'
  <1>1. IInv /\ LiveCounts /\ Settled /\ Paired
    BY DEF TreeInv
  <1>2. \A m \in 1..vi : vs'[m].kind = vs[m].kind
    BY <1>1, CloseIs
  <1>3. ASSUME NEW i \in 1..vi, i \notin opens
        PROVE  vs'[i].kind # "none" /\ (IsCtn(vs'[i]) => HoldsItsKids(vs', i))
    <2>1. i # ci /\ vs'[i] = vs[i] /\ i \in Nat /\ vi \in Nat
      BY <1>1, <1>3, CloseIs
    <2>2. /\ GetNext(vs, i) \in (i + 1)..(vi + 1)
          /\ \A j \in (i + 1)..(GetNext(vs, i) - 1) : j \notin opens
      BY <1>1, <1>3 DEF IInv, ClosedSpansNest
    <2>3. ASSUME NEW m \in i..(GetNext(vs, i) - 1)
          PROVE  m \in 1..vi /\ GetNext(vs', m) = GetNext(vs, m)
      <3>1. m \in 1..vi /\ m # ci
        BY <1>1, <2>1, <2>2, CloseIs
      <3> QED
        BY <1>1, <3>1, CloseIs
    <2>4. KidsIn(vs', i) = KidsIn(vs, i)
      <3>1. GetNext(vs, i) \in Nat /\ GetNext(vs', i) = GetNext(vs, i)
        BY <1>1, <2>1, <2>2, CloseIs
      <3> QED
        BY <2>1, <2>3, <3>1, SameKids
    <2>5. \A j \in KidsIn(vs, i) : vs'[j].kind = vs[j].kind
      <3>1. KidsIn(vs, i) \subseteq 1..vi
        BY <2>1, <2>2 DEF KidsIn
      <3> QED
        BY <1>2, <3>1
    <2>6. vs[i].kind # "none" /\ (IsCtn(vs[i]) => HoldsItsKids(vs, i))
      BY <1>1, <1>3 DEF Settled
    <2> QED
      BY <2>1, <2>4, <2>5, <2>6 DEF HoldsItsKids, KeysAreStrings
  <1>4. HoldsItsKids(vs', ci)
    <2>1. KidsIn(vs', ci) = ChildrenSoFar(ci)
      <3>1. ASSUME NEW j \in (ci + 1)..vi
            PROVE  j \in KidsIn(vs', ci) <=> j \in ChildrenSoFar(ci)
        <4>1. \A m \in (ci + 1)..(j - 1) : m \notin opens /\ GetNext(vs', m) = GetNext(vs, m)
          <5> TAKE m \in (ci + 1)..(j - 1)
          <5>1. m \in 1..vi /\ m > ci
            BY <1>1, CloseIs
          <5> QED
            BY <1>1, <5>1, CloseIs
        <4>2. GetNext(vs', ci) = vi + 1 /\ vi \in Nat
          BY <1>1, CloseIs
        <4> QED
          BY <4>1, <4>2 DEF KidsIn, ChildrenSoFar
      <3>2. KidsIn(vs', ci) \subseteq (ci + 1)..vi /\ ChildrenSoFar(ci) \subseteq (ci + 1)..vi
        BY <1>1, CloseIs DEF KidsIn, ChildrenSoFar
      <3> QED
        BY <3>1, <3>2
    <2>2. Cardinality(ChildrenSoFar(ci)) = ctnLen /\ ctnLen \in Nat
      BY <1>1, CloseIs DEF LiveCounts, IInv, TypeOK
    <2>3. vs[ci].kind = "object" => ctnLen % 2 = 0 /\ KeysAreStrings(vs, ChildrenSoFar(ci))
      BY <1>1, CloseIs DEF Paired, ObjectSoFar
    <2>4. /\ vs'[ci].kind = vs[ci].kind
          /\ vs'[ci].len = IF vs[ci].kind = "object" THEN ctnLen \div 2 ELSE ctnLen
      BY <1>1, CloseIs
    <2>5. \A j \in ChildrenSoFar(ci) : vs'[j].kind = vs[j].kind
      <3>1. ChildrenSoFar(ci) \subseteq 1..vi
        BY <1>1, CloseIs DEF ChildrenSoFar
      <3> QED
        BY <1>2, <3>1
    <2>6. vs[ci].kind = "object" => 2 * vs'[ci].len = ctnLen
      BY <2>2, <2>3, <2>4, ParityTurns
    <2> QED
      BY <2>1, <2>2, <2>3, <2>4, <2>5, <2>6 DEF HoldsItsKids, KeysAreStrings
  <1>5. Settled'
    <2>1. vs'[ci].kind # "none"
      BY <1>1, CloseIs DEF IsCtn
    <2>2. \A i \in (1..vi') \ opens' : i \in 1..vi /\ (i \notin opens \/ i = ci)
      BY <1>1, CloseIs
    <2> QED
      BY <1>3, <1>4, <2>1, <2>2 DEF Settled
  <1>6. ASSUME NEW i \in opens'
        PROVE  /\ vs'[i].len >= 1
               /\ vs'[i].kind = "object" => ObjectSoFar(i)'
    <2>1. /\ i \in opens /\ i # ci /\ i # 0 /\ vs'[i] = vs[i] /\ i \in 1..vi
          /\ ChildrenSoFar(i)' = ChildrenSoFar(i)
      BY <1>1, CloseIs, CloseKeepsChildren
    <2>2. vs[i].len >= 1 /\ (vs[i].kind = "object" => ObjectSoFar(i))
      BY <1>1, <2>1 DEF Paired
    <2>3. i = ci' => ctnLen' = vs[i].len
      BY <1>1, <2>1, CloseIs
    <2>4. \A j \in ChildrenSoFar(i) : vs'[j].kind = vs[j].kind
      <3>1. ChildrenSoFar(i) \subseteq 1..vi
        BY <1>1, <2>1, CloseIs DEF ChildrenSoFar
      <3> QED
        BY <1>2, <3>1
    <2>5. s' = "after"
      BY <1>1, CloseIs
    <2> QED
      BY <2>1, <2>2, <2>3, <2>4, <2>5 DEF ObjectSoFar, KeysAreStrings
  <1>7. /\ s' = "after" /\ res' = "run"
        /\ IF ci' = 0 THEN vi' >= 1 /\ GetNext(vs', 1) = vi' + 1 ELSE ctnLen' >= 1
    <2>1. CASE vs[ci].ofs = 0
      BY <1>1, <2>1, CloseIs
    <2>2. CASE vs[ci].ofs # 0
      <3>1. ci' \in opens' /\ ci' # 0 /\ ctnLen' = vs[ci'].len /\ vs'[ci'] = vs[ci'] /\ s' = "after" /\ res' = "run"
        BY <1>1, <2>2, CloseIs
      <3> QED
        BY <1>6, <3>1
    <2> QED
      BY <2>1, <2>2
  <1> QED
    BY <1>5, <1>6, <1>7 DEF Paired, Answered

(* The steps that write no slot.                                           *)
LEMMA OthersKeepTree ==
  ASSUME TreeInv, ValueFail \/ AfterRoot \/ AfterComma \/ AfterFail \/ KeyFail \/ UNCHANGED vars
  PROVE  Settled' /\ Paired' /\ Answered'
  <1>1. IInv /\ Settled /\ Paired /\ Answered
    BY DEF TreeInv
  <1>2. /\ UNCHANGED <<vs, vi, ci, ctnLen, opens>>
        /\ \/ UNCHANGED s
           \/ s = "after" /\ ci # 0 /\ s' = IF vs[ci].kind = "object" THEN "key" ELSE "value"
    <2>1. CASE AfterComma
      BY ONLY <2>1 DEF AfterComma, InCtn, Running
    <2>2. CASE AfterRoot
      BY ONLY <2>2 DEF AfterRoot
    <2>3. CASE ValueFail \/ AfterFail \/ KeyFail
      BY ONLY <2>3 DEF ValueFail, AfterFail, KeyFail, Fail
    <2>4. CASE UNCHANGED vars
      BY ONLY <2>4 DEF vars
    <2> QED
      BY <2>1, <2>2, <2>3, <2>4
  <1>3. Settled'
    BY <1>1, <1>2 DEF Settled, IsCtn
  <1>4. Answered'
    <2>1. CASE AfterComma
      BY ONLY <2>1 DEF AfterComma, InCtn, Running, Answered
    <2>2. CASE AfterRoot
      BY ONLY <2>2 DEF AfterRoot, Running, Answered
    <2>3. CASE ValueFail \/ AfterFail \/ KeyFail
      <3>1. \E e \in Error : Fail(e)
        BY <1>1, <2>3, FailsWithError
      <3>2. res' # "ok"
        BY ONLY <3>1 DEF Fail, Error
      <3> QED
        BY <3>2 DEF Answered
    <2>4. CASE UNCHANGED vars
      BY ONLY <2>4, <1>1 DEF vars, Answered
    <2> QED
      BY <2>1, <2>2, <2>3, <2>4
  <1>5. Paired'
    <2>1. ASSUME NEW i \in opens, vs[i].kind = "object" PROVE ObjectSoFar(i)'
      <3>1. ObjectSoFar(i) /\ ChildrenSoFar(i)' = ChildrenSoFar(i)
        BY <1>1, <1>2, <2>1 DEF Paired, ChildrenSoFar, GetNext, SpanOf, IsCtn
      <3>2. i = ci => (s' = "value" <=> s = "value")
        BY <1>2, <2>1
      <3> QED
        BY <1>2, <3>1, <3>2 DEF ObjectSoFar, KeysAreStrings
    <2>2. GetNext(vs', 1) = GetNext(vs, 1)
      BY <1>2 DEF GetNext, SpanOf, IsCtn
    <2> QED
      BY <1>1, <1>2, <2>1, <2>2 DEF Paired
  <1> QED
    BY <1>3, <1>4, <1>5

LEMMA NextKeepsTree ==
  ASSUME TreeInv, [Next]_vars
  PROVE  TreeInv'
  <1>1. IInv /\ LiveCounts
    BY DEF TreeInv
  <1>2. IInv' /\ LiveCounts'
    BY <1>1, NextKeepsIInv, NextKeepsCounts
  <1>3. CASE ValueLeaf \/ Key
    <2> DEFINE v == LeafSlot(opt.raw, inp[k], k)
    <2>1. /\ k <= NUnits /\ Room /\ PutChild(v, k + 1) /\ res = "run"
          /\ \/ s = "value" /\ s' = "after"
             \/ s = "key" /\ s' = "value" /\ inp[k] \in {"str", "esc", "badstr"} /\ ReadErr(opt.raw, inp[k]) = "ok"
      BY ONLY <1>3 DEF ValueLeaf, Key, IsKey, AtValue, HasUnit, Running, String, v
    <2>2. inp[k] \in Token /\ opt.raw \in BOOLEAN /\ k \in Nat
      BY <1>1, <2>1, InSlab DEF IInv, TypeOK, NUnits, OptionType
    <2>3. v \in Slot /\ ~IsCtn(v)
      BY <2>2, LeafSlotType
    <2>4. v.kind # "none"
      BY ONLY <2>2 DEF LeafSlot, v
    <2>5. s = "key" => v.kind = "string"
      <3>1. inp[k] = "badstr" => ReadErr(opt.raw, inp[k]) # "ok"
        BY ONLY TRUE DEF ReadErr, CheckErr
      <3>2. /\ inp[k] = "str" => v.kind = "string"
            /\ inp[k] = "esc" => v.kind = "string"
        BY ONLY TRUE DEF LeafSlot, Number, v
      <3> QED
        BY <2>1, <3>1, <3>2
    <2> HIDE DEF v
    <2>6. \/ s = "value" /\ s' = "after"
          \/ s = "key" /\ s' = "value" /\ v.kind = "string"
      BY <2>1, <2>5
    <2>7. k + 1 \in Nat
      BY <2>2
    <2> QED
      BY <1>2, <2>1, <2>3, <2>4, <2>6, PutChildKeepsTree DEF TreeInv
  <1>4. CASE ValueEmpty
    <2> DEFINE v == EmptyCtn(CtnKind(inp[k]))
    <2>1. k <= NUnits /\ Room /\ PutChild(v, k + 2) /\ res = "run" /\ s = "value" /\ s' = "after"
      BY ONLY <1>4 DEF ValueEmpty, AtValue, HasUnit, Running, v
    <2>2. v \in Slot
      BY <1>1, <2>1, EmptyCtnType, InSlab DEF IInv, TypeOK, NUnits
    <2>3. v.kind # "none" /\ v.ofs = 1 /\ v.len = 0
      BY ONLY TRUE DEF EmptyCtn, CtnKind, v
    <2> HIDE DEF v
    <2> QED
      BY <1>2, <2>1, <2>2, <2>3, PutChildKeepsTree DEF TreeInv
  <1>5. CASE ValueOpen
    BY <1>2, <1>5, OpenKeepsTree DEF TreeInv
  <1>6. CASE AfterClose
    BY <1>2, <1>6, CloseKeepsTree DEF TreeInv
  <1>7. CASE ValueFail \/ AfterRoot \/ AfterComma \/ AfterFail \/ KeyFail \/ UNCHANGED vars
    BY <1>2, <1>7, OthersKeepTree DEF TreeInv
  <1> QED
    BY <1>3, <1>4, <1>5, <1>6, <1>7 DEF Next, Step, Returned

LEMMA InitTree == Init => TreeInv
  <1> SUFFICES ASSUME Init PROVE TreeInv
    OBVIOUS
  <1>1. IInv
    BY InitIInv
  <1>2. vi = 0 /\ opens = {} /\ s = "value" /\ res # "ok"
    BY DEF Init
  <1> QED
    BY <1>1, <1>2 DEF TreeInv, LiveCounts, Settled, Paired, Answered

LEMMA TreeInvariance == Spec => []TreeInv
  BY InitTree, NextKeepsTree, PTL DEF Spec

-----------------------------------------------------------------------------
(* The slots in use, taken alone, are the same slots.                      *)
LEMMA SlotsAre ==
  ASSUME IInv
  PROVE  /\ Slots \in Seq(Slot) /\ Len(Slots) = vi /\ DOMAIN Slots = 1..vi /\ vi \in Nat
         /\ \A i \in 1..vi : Slots[i] = vs[i] /\ GetNext(Slots, i) = GetNext(vs, i)
  <1>1. vs \in [1..SlabCap -> Slot] /\ vi \in Nat /\ vi <= SlabCap /\ SlabCap \in Nat
    BY InSlab DEF IInv, TypeOK
  <1>2. Slots = [i \in 1..vi |-> vs[i]]
    BY <1>1 DEF Slots
  <1>3. Slots \in [1..vi -> Slot]
    BY <1>1, <1>2
  <1>4. Slots \in Seq(Slot) /\ Len(Slots) = vi
    BY <1>1, <1>3
  <1>5. \A i \in 1..vi : Slots[i] = vs[i]
    BY <1>2
  <1> QED
    BY <1>1, <1>3, <1>4, <1>5 DEF GetNext, SpanOf

LEMMA KidsAreChildren ==
  ASSUME NEW v, WellNested(v), NEW c \in DOMAIN v, IsCtn(v[c])
  PROVE  ChildrenOf(v, c) = KidsIn(v, c)
  <1>1. DOMAIN v = 1..Len(v) /\ Len(v) \in Nat /\ c \in Nat /\ c >= 1
        /\ GetNext(v, c) \in Nat /\ GetNext(v, c) <= Len(v) + 1
    BY SlotIs
  <1>2. \A j \in (c + 1)..(GetNext(v, c) - 1) : j \in DOMAIN v /\ Encloses(v, c, j)
    BY <1>1 DEF Encloses
  <1>3. ASSUME NEW j \in ChildrenOf(v, c) PROVE j \in KidsIn(v, c)
    <2>1. j \in (c + 1)..(GetNext(v, c) - 1)
      BY <1>1 DEF ChildrenOf, Encloses
    <2>2. ASSUME NEW m \in (c + 1)..(j - 1), ~(GetNext(v, m) <= j) PROVE FALSE
      <3>1. m \in DOMAIN v /\ m \in Nat /\ j \in Nat /\ m < j
            /\ m \in (c + 1)..(GetNext(v, c) - 1)
        BY <1>1, <2>1
      <3>2. GetNext(v, m) \in Nat /\ (~IsCtn(v[m]) => GetNext(v, m) = m + 1)
        BY <3>1, SlotIs
      <3>3. Encloses(v, m, j)
        BY <2>2, <3>1, <3>2 DEF Encloses
      <3> QED
        BY <1>2, <3>1, <3>3 DEF ChildrenOf
    <2> QED
      BY <2>1, <2>2 DEF KidsIn
  <1>4. ASSUME NEW j \in KidsIn(v, c) PROVE j \in ChildrenOf(v, c)
    <2>1. j \in (c + 1)..(GetNext(v, c) - 1) /\ \A m \in (c + 1)..(j - 1) : GetNext(v, m) <= j
      BY DEF KidsIn
    <2>2. ASSUME NEW d \in DOMAIN v, Encloses(v, c, d), Encloses(v, d, j) PROVE FALSE
      <3>1. d \in (c + 1)..(j - 1) /\ j < GetNext(v, d) /\ GetNext(v, d) \in Nat /\ j \in Nat
        BY <1>1, <2>1, <2>2, SlotIs DEF Encloses
      <3> QED
        BY <2>1, <3>1
    <2> QED
      BY <1>2, <2>1, <2>2 DEF ChildrenOf
  <1> QED
    BY <1>3, <1>4

LEMMA FinishedTree ==
  ASSUME TreeInv, res = "ok"
  PROVE  WellFormedArena(Slots) /\ opens = {} /\ \A i \in 1..vi : vs[i].kind # "none"
  <1>1. IInv /\ Settled /\ ci = 0 /\ s = "after" /\ vi >= 1 /\ GetNext(vs, 1) = vi + 1
    BY DEF TreeInv, Answered, Paired
  <1>2. opens = {}
    <2>1. \A i \in opens : i \in Nat /\ i >= 1
      BY <1>1 DEF IInv, TypeOK
    <2> QED
      BY <1>1, <2>1 DEF IInv, OpenChain
  <1>3. /\ Slots \in Seq(Slot) /\ Len(Slots) = vi /\ DOMAIN Slots = 1..vi /\ vi \in Nat
        /\ \A i \in 1..vi : Slots[i] = vs[i] /\ GetNext(Slots, i) = GetNext(vs, i)
    BY <1>1, SlotsAre
  <1>4. \A i \in 1..vi :
          /\ GetNext(vs, i) \in (i + 1)..(vi + 1)
          /\ \A j \in (i + 1)..(GetNext(vs, i) - 1) : GetNext(vs, j) <= GetNext(vs, i)
    BY <1>1, <1>2 DEF IInv, ClosedSpansNest
  <1>5. WellNested(Slots)
    <2>1. Slots # <<>>
      BY <1>1, <1>3
    <2>2. ASSUME NEW c \in DOMAIN Slots, IsCtn(Slots[c])
          PROVE  Slots[c].ofs >= 1 /\ GetNext(Slots, c) <= Len(Slots) + 1
      <3>1. Slots[c] \in Slot /\ c \in 1..vi
        BY <1>3
      <3>2. GetNext(Slots, c) = c + Slots[c].ofs /\ Slots[c].ofs \in Nat
        BY <2>2, <3>1 DEF GetNext, SpanOf, Slot
      <3> QED
        BY <1>3, <1>4, <3>1, <3>2
    <2>3. ASSUME NEW c \in DOMAIN Slots, NEW d \in DOMAIN Slots, Encloses(Slots, c, d)
          PROVE  GetNext(Slots, d) <= GetNext(Slots, c)
      <3>1. c \in 1..vi /\ d \in (c + 1)..(GetNext(vs, c) - 1)
        BY <1>3, <1>4, <2>3 DEF Encloses
      <3> QED
        BY <1>3, <1>4, <3>1
    <2> QED
      BY <1>1, <1>3, <2>1, <2>2, <2>3 DEF WellNested
  <1>6. ASSUME NEW c \in DOMAIN Slots, IsCtn(Slots[c])
        PROVE  CountsChildren(Slots, c) /\ Keyed(Slots, c)
    <2>1. c \in 1..vi /\ c \in Nat /\ Slots[c] = vs[c]
      BY <1>3
    <2>2. HoldsItsKids(vs, c)
      BY <1>1, <1>2, <1>6, <2>1 DEF Settled
    <2>3. KidsIn(vs, c) = KidsIn(Slots, c)
      <3>1. GetNext(vs, c) = GetNext(Slots, c) /\ GetNext(Slots, c) \in Nat
            /\ \A m \in c..(GetNext(Slots, c) - 1) : GetNext(vs, m) = GetNext(Slots, m)
        BY <1>3, <1>4, <2>1
      <3> QED
        BY <2>1, <3>1, SameKids
    <2>4. ChildrenOf(Slots, c) = KidsIn(vs, c) /\ ChildrenOf(Slots, c) \subseteq 1..vi
      BY <1>3, <1>5, <1>6, <2>3, KidsAreChildren, ChildrenFinite
    <2>5. \A j \in ChildrenOf(Slots, c) : Slots[j] = vs[j]
      BY <1>3, <2>4
    <2> QED
      BY <2>1, <2>2, <2>4, <2>5 DEF HoldsItsKids, KeysAreStrings, CountsChildren, Keyed
  <1>7. \A i \in 1..vi : vs[i].kind # "none"
    BY <1>1, <1>2 DEF Settled
  <1> QED
    BY <1>2, <1>5, <1>6, <1>7 DEF WellFormedArena

-----------------------------------------------------------------------------
(* The write bounds added up on the way.  The containers a slot stands in  *)
(* are known when it is written and never change: while one is open it     *)
(* holds whatever comes, and closing it draws the line behind the last     *)
(* slot.                                                                   *)
Cover(i) ==
  {c \in 1..(i - 1) : c \in opens \/ (NonEmpty(vs[c]) /\ i < GetNext(vs, c))}

Full(i) == i \notin opens /\ NonEmpty(vs[i])

FlatShare(i)   == SlotBound(vs[i])
LineShare(i)   == IF Full(i) THEN 4 ELSE 3
IndentShare(i) ==
  LET d == Cardinality(Cover(i)) IN
  IF i \in opens THEN d + 1 ELSE IF Full(i) THEN 2 * d + 1 ELSE d

FlatShares   == [i \in 1..SlabCap |-> FlatShare(i)]
LineShares   == [i \in 1..SlabCap |-> LineShare(i)]
IndentShares == [i \in 1..SlabCap |-> IndentShare(i)]

BoundsSoFar ==
  opt.bounds =>
    /\ wb.flat = 32 + SumOver(FlatShares, 1, vi)
    /\ wb.pc   = 8 + SumOver(LineShares, 1, vi)
    /\ wb.pk   = SumOver(IndentShares, 1, vi)

(* No slot stands in more containers than the limit allows.                *)
NestsWithin == Counted => \A i \in 1..vi : Cardinality(Cover(i)) <= Limit

BoundsInv == TreeInv /\ BoundsSoFar /\ NestsWithin

LEMMA SumGrows ==
  ASSUME NEW w, NEW u, NEW n \in Nat, \A i \in 1..n : w[i] \in Int /\ u[i] = w[i]
  PROVE  SumOver(u, 1, n + 1) = SumOver(w, 1, n) + u[n + 1]
  <1>1. Alike(u, w, 1, n, 0, 0)
    BY DEF Alike
  <1>2. SumOver(u, 1, n) = SumOver(w, 1, n)
    <2>1. SumOver(w, 1, n) \in Int /\ SumOver(u, 1, n) = SumOver(w, 1, n) + (IF 0 \in 1..n THEN 0 ELSE 0)
      BY <1>1, SumsAlike
    <2> QED
      BY <2>1
  <1>3. n + 1 \in Nat /\ n + 1 >= 1 /\ (n + 1) - 1 = n
    OBVIOUS
  <1>4. SumOver(u, 1, n + 1) = SumOver(u, 1, (n + 1) - 1) + u[n + 1]
    BY <1>3, SumIs
  <1> QED
    BY <1>2, <1>3, <1>4

LEMMA SumShifts ==
  ASSUME NEW w, NEW u, NEW n \in Nat, NEW m \in 1..n, NEW d \in Int, Alike(u, w, 1, n, m, d)
  PROVE  SumOver(u, 1, n) = SumOver(w, 1, n) + d
  <1>1. SumOver(u, 1, n) = SumOver(w, 1, n) + (IF m \in 1..n THEN d ELSE 0)
    BY SumsAlike
  <1> QED
    BY <1>1

LEMMA ChargeAdds ==
  ASSUME wb \in Bounds, opt.bounds, NEW v, NEW d
  PROVE  /\ Charge(v, d).flat = wb.flat + FlatCharge(v)
         /\ Charge(v, d).pc = wb.pc + 3
         /\ Charge(v, d).pk = wb.pk + d
  BY DEF Charge, Bounds

LEMMA ChargeIsBound ==
  ASSUME NEW v \in Slot
  PROVE  /\ FlatCharge(v) = SlotBound(v) /\ SlotBound(v) \in Nat
         /\ IsCtn(v) => SlotBound(v) = 12
  <1>1. v.len \in Nat
    BY DEF Slot
  <1>2. \A n \in Nat : 6 * n = n * 6 /\ n * 6 \in Nat
    OBVIOUS
  <1> QED
    BY <1>1, <1>2 DEF FlatCharge, SlotBound, IsCtn

LEMMA SharesTyped ==
  ASSUME IInv
  PROVE  \A i \in 1..SlabCap :
           /\ IsFiniteSet(Cover(i)) /\ Cardinality(Cover(i)) \in Nat
           /\ FlatShare(i) \in Nat /\ LineShare(i) \in Nat /\ IndentShare(i) \in Nat
  <1> TAKE i \in 1..SlabCap
  <1>1. vs[i] \in Slot /\ i \in Int
    BY InSlab DEF IInv, TypeOK
  <1>2. IsFiniteSet(Cover(i)) /\ Cardinality(Cover(i)) \in Nat
    <2>1. Cover(i) \subseteq 1..(i - 1)
      BY DEF Cover
    <2>2. IsFiniteSet(1..(i - 1))
      BY <1>1, FS_Interval
    <2> QED
      BY <2>1, <2>2, FS_Subset, FS_CardinalityType
  <1>3. FlatShare(i) \in Nat
    BY <1>1, ChargeIsBound DEF FlatShare
  <1>4. LineShare(i) \in Nat /\ IndentShare(i) \in Nat
    BY <1>2 DEF LineShare, IndentShare
  <1> QED
    BY <1>2, <1>3, <1>4

(* A slot put after the others stands in the open containers, and leaves   *)
(* what the others stand in and their shares alone.                        *)
LEMMA GrowCovers ==
  ASSUME IInv, NEW v, Grows(v)
  PROVE  /\ \A i \in 1..vi : Cover(i)' = Cover(i)
         /\ \A n : n = vi + 1 => Cover(n)' = opens
  <1>1. /\ vi \in Nat /\ opens \subseteq 1..vi
        /\ opens' \subseteq opens \cup {vi + 1} /\ opens \subseteq opens'
        /\ ci # 0 => ci \in opens
    BY InSlab DEF IInv, TypeOK, Grows
  <1>2. ASSUME NEW c \in 1..vi, NEW n
        PROVE  (c \in opens' \/ (NonEmpty(vs'[c]) /\ n < GetNext(vs', c)))
               <=> (c \in opens \/ (NonEmpty(vs[c]) /\ n < GetNext(vs, c)))
    <2>1. c \in opens' <=> c \in opens
      BY <1>1
    <2>2. GetNext(vs', c) = GetNext(vs, c)
      BY SpansStay
    <2>3. c \notin opens => vs'[c] = vs[c]
      BY <1>1 DEF Grows
    <2> QED
      BY <2>1, <2>2, <2>3
  <1>3. ASSUME NEW i \in 1..vi PROVE Cover(i)' = Cover(i)
    <2>1. \A c \in 1..(i - 1) : c \in 1..vi
      BY <1>1
    <2> QED
      BY <1>2, <2>1 DEF Cover
  <1>4. ASSUME NEW n, n = vi + 1 PROVE Cover(n)' = opens
    <2>1. n - 1 = vi
      BY <1>1, <1>4
    <2>2. ASSUME NEW c \in 1..vi PROVE c \notin opens => ~(n < GetNext(vs, c))
      BY <1>1, <1>4 DEF IInv, ClosedSpansNest
    <2> QED
      BY <1>1, <1>2, <2>1, <2>2 DEF Cover
  <1> QED
    BY <1>3, <1>4

LEMMA GrowKeepsBounds ==
  ASSUME IInv, IInv', BoundsSoFar, NestsWithin, NEW v \in Slot, Grows(v), opt' = opt,
         NonEmpty(v) => vi + 1 \in opens',
         SlabCap' = SlabCap,
         opt.bounds => /\ wb'.flat = wb.flat + SlotBound(v)
                       /\ wb'.pc = wb.pc + 3
                       /\ wb'.pk = wb.pk + Cardinality(opens) + (IF vi + 1 \in opens' THEN 1 ELSE 0)
  PROVE  BoundsSoFar' /\ NestsWithin'
  <1>1. /\ vi \in Nat /\ vi' = vi + 1 /\ vi + 1 \in 1..SlabCap /\ SlabCap \in Nat
        /\ opens \subseteq 1..vi /\ opens' \subseteq opens \cup {vi + 1} /\ opens \subseteq opens'
        /\ vs'[vi + 1] = v /\ (ci # 0 => ci \in opens)
        /\ Cardinality(opens) \in Nat
    BY InSlab, FS_CardinalityType DEF IInv, TypeOK, Grows
  <1>2. ASSUME NEW i \in 1..vi
        PROVE  /\ FlatShare(i)' = FlatShare(i) /\ LineShare(i)' = LineShare(i)
               /\ IndentShare(i)' = IndentShare(i)
               /\ FlatShare(i) \in Int /\ LineShare(i) \in Int /\ IndentShare(i) \in Int
    <2>1. Cover(i)' = Cover(i)
      BY GrowCovers
    <2>2. i \in opens' <=> i \in opens
      BY <1>1
    <2>3. i \notin opens => vs'[i] = vs[i]
      BY <1>1 DEF Grows
    <2>4. SlotBound(vs'[i]) = SlotBound(vs[i])
      <3>1. CASE i \in opens
        <4>1. i \in 1..SlabCap /\ i \in 1..SlabCap' /\ IsCtn(vs[i]) /\ IsCtn(vs'[i])
          BY <1>1, <3>1 DEF IInv, OpenChain, Grows, IsCtn
        <4>2. vs[i] \in Slot /\ vs'[i] \in Slot
          BY <4>1 DEF IInv, TypeOK
        <4> QED
          BY <4>1, <4>2, ChargeIsBound
      <3> QED
        BY <2>3, <3>1
    <2>5. i \in 1..SlabCap
      BY <1>1
    <2> QED
      BY <2>1, <2>2, <2>3, <2>4, <2>5, SharesTyped DEF FlatShare, LineShare, IndentShare, Full
  <1>3. ASSUME NEW n, n = vi + 1
        PROVE  /\ FlatShare(n)' = SlotBound(v) /\ LineShare(n)' = 3
               /\ IndentShare(n)' = Cardinality(opens) + (IF vi + 1 \in opens' THEN 1 ELSE 0)
    <2>1. Cover(n)' = opens
      BY <1>3, GrowCovers
    <2>2. vs'[n] = v
      BY <1>1, <1>3
    <2> QED
      BY <1>1, <1>3, <2>1, <2>2 DEF FlatShare, LineShare, IndentShare, Full
  <1>4. /\ \A i \in 1..SlabCap : /\ FlatShares[i] = FlatShare(i)
                                 /\ LineShares[i] = LineShare(i)
                                 /\ IndentShares[i] = IndentShare(i)
        /\ \A i \in 1..SlabCap : /\ FlatShares'[i] = FlatShare(i)'
                                 /\ LineShares'[i] = LineShare(i)'
                                 /\ IndentShares'[i] = IndentShare(i)'
    BY DEF FlatShares, LineShares, IndentShares
  <1>5. \A i \in 1..vi : /\ FlatShares[i] \in Int /\ FlatShares'[i] = FlatShares[i]
                         /\ LineShares[i] \in Int /\ LineShares'[i] = LineShares[i]
                         /\ IndentShares[i] \in Int /\ IndentShares'[i] = IndentShares[i]
    <2>1. \A i \in 1..vi : i \in 1..SlabCap
      BY <1>1
    <2> QED
      BY <1>2, <1>4, <2>1
  <1>6. /\ FlatShares'[vi + 1] = SlotBound(v) /\ LineShares'[vi + 1] = 3
        /\ IndentShares'[vi + 1] = Cardinality(opens) + (IF vi + 1 \in opens' THEN 1 ELSE 0)
    BY <1>1, <1>3, <1>4
  <1>7. /\ SumOver(FlatShares', 1, vi + 1) = SumOver(FlatShares, 1, vi) + SlotBound(v)
        /\ SumOver(LineShares', 1, vi + 1) = SumOver(LineShares, 1, vi) + 3
        /\ SumOver(IndentShares', 1, vi + 1) = SumOver(IndentShares, 1, vi)
             + (Cardinality(opens) + (IF vi + 1 \in opens' THEN 1 ELSE 0))
    BY <1>1, <1>5, <1>6, SumGrows
  <1>8. /\ SumOver(FlatShares, 1, vi) \in Int /\ SumOver(LineShares, 1, vi) \in Int
        /\ SumOver(IndentShares, 1, vi) \in Int
    <2>1. /\ Alike(FlatShares', FlatShares, 1, vi, 0, 0)
          /\ Alike(LineShares', LineShares, 1, vi, 0, 0)
          /\ Alike(IndentShares', IndentShares, 1, vi, 0, 0)
      BY <1>5 DEF Alike
    <2> QED
      BY <1>1, <2>1, SumsAlike
  <1>9. BoundsSoFar'
    <2>1. SUFFICES ASSUME opt.bounds
                   PROVE  /\ wb'.flat = 32 + SumOver(FlatShares', 1, vi + 1)
                          /\ wb'.pc = 8 + SumOver(LineShares', 1, vi + 1)
                          /\ wb'.pk = SumOver(IndentShares', 1, vi + 1)
      BY <1>1 DEF BoundsSoFar
    <2>2. /\ wb.flat = 32 + SumOver(FlatShares, 1, vi) /\ wb.pc = 8 + SumOver(LineShares, 1, vi)
          /\ wb.pk = SumOver(IndentShares, 1, vi)
      BY <2>1 DEF BoundsSoFar
    <2>3. SlotBound(v) \in Nat
      BY ChargeIsBound
    <2> QED
      BY <1>1, <1>7, <1>8, <2>1, <2>2, <2>3
  <1>10. NestsWithin'
    <2>1. SUFFICES ASSUME Counted, NEW i \in 1..(vi + 1)
                   PROVE  Cardinality(Cover(i)') <= Limit
      BY <1>1 DEF NestsWithin, Counted, Limit
    <2>2. CASE i \in 1..vi
      BY <2>1, <2>2, GrowCovers DEF NestsWithin
    <2>3. CASE i = vi + 1
      BY <2>1, <2>3, GrowCovers DEF IInv, DepthIsOpens
    <2> QED
      BY <1>1, <2>2, <2>3
  <1> QED
    BY <1>9, <1>10

(* A closing container holds something.                                    *)
LEMMA ClosesFull ==
  ASSUME TreeInv, AfterClose
  PROVE  NonEmpty(vs'[ci]) /\ IsCtn(vs'[ci])
  <1>1. IInv /\ Paired
    BY DEF TreeInv
  <1>2. /\ vs'[ci] = ClosedSlot /\ ClosedSlot.kind = vs[ci].kind /\ IsCtn(vs[ci])
        /\ ClosedSlot.len = IF vs[ci].kind = "object" THEN ctnLen \div 2 ELSE ctnLen
        /\ s = "after" /\ ci \in opens /\ ci # 0
    BY <1>1, CloseIs
  <1>3. ctnLen \in Nat /\ ctnLen >= 1 /\ (vs[ci].kind = "object" => ctnLen % 2 = 0)
    BY <1>1, <1>2 DEF Paired, ObjectSoFar, IInv, TypeOK
  <1>4. \A n \in Nat : n >= 1 /\ n % 2 = 0 => n \div 2 # 0
    OBVIOUS
  <1>5. ClosedSlot.len # 0
    BY <1>2, <1>3, <1>4
  <1> HIDE DEF ClosedSlot
  <1> QED
    BY <1>2, <1>5 DEF NonEmpty, IsCtn

LEMMA CloseCovers ==
  ASSUME TreeInv, AfterClose
  PROVE  /\ \A i \in 1..vi : Cover(i)' = Cover(i)
         /\ Cover(ci) = opens \ {ci}
  <1>1. IInv
    BY DEF TreeInv
  <1>2. NonEmpty(vs'[ci])
    BY ClosesFull
  <1>3. /\ ci \in opens /\ ci \in 1..vi /\ vi \in Nat /\ opens \subseteq 1..vi
        /\ \A j \in opens : j <= ci
        /\ opens' = opens \ {ci} /\ GetNext(vs', ci) = vi + 1
        /\ \A m \in 1..vi : m # ci => vs'[m] = vs[m] /\ GetNext(vs', m) = GetNext(vs, m)
    BY <1>1, CloseIs
  <1>4. ASSUME NEW i \in 1..vi PROVE Cover(i)' = Cover(i)
    <2>1. ASSUME NEW c \in 1..(i - 1)
          PROVE  (c \in opens' \/ (NonEmpty(vs'[c]) /\ i < GetNext(vs', c)))
                 <=> (c \in opens \/ (NonEmpty(vs[c]) /\ i < GetNext(vs, c)))
      <3>1. c \in 1..vi
        BY <1>3
      <3>2. CASE c = ci
        BY <1>2, <1>3, <3>2
      <3>3. CASE c # ci
        BY <1>3, <3>1, <3>3
      <3> QED
        BY <3>2, <3>3
    <2> QED
      BY <2>1 DEF Cover
  <1>5. ASSUME NEW c \in 1..(ci - 1), c \notin opens PROVE ~(ci < GetNext(vs, c))
    <2>1. c \in 1..vi /\ ci \in Nat
      BY <1>3
    <2>2. /\ GetNext(vs, c) \in (c + 1)..(vi + 1)
          /\ \A j \in (c + 1)..(GetNext(vs, c) - 1) : j \notin opens
      BY <1>1, <1>5, <2>1 DEF IInv, ClosedSpansNest
    <2> QED
      BY <1>3, <2>1, <2>2
  <1>6. Cover(ci) = opens \ {ci}
    <2>1. \A c \in opens \ {ci} : c \in Cover(ci)
      BY <1>3 DEF Cover
    <2>2. \A c \in Cover(ci) : c \in opens /\ c # ci
      BY <1>3, <1>5 DEF Cover
    <2> QED
      BY <2>1, <2>2
  <1> QED
    BY <1>4, <1>6

LEMMA CloseKeepsBounds ==
  ASSUME TreeInv, TreeInv', BoundsSoFar, NestsWithin, AfterClose
  PROVE  BoundsSoFar' /\ NestsWithin'
  <1>1. IInv /\ IInv'
    BY DEF TreeInv
  <1>2. /\ ci \in opens /\ ci \in 1..vi /\ ci \in 1..SlabCap /\ vi \in Nat /\ vi' = vi
        /\ vi <= SlabCap /\ SlabCap \in Nat
        /\ opens \subseteq 1..vi /\ opens' = opens \ {ci} /\ opt' = opt
        /\ vs[ci] \in Slot /\ IsCtn(vs[ci])
        /\ \A m \in 1..vi : m # ci => vs'[m] = vs[m]
    BY <1>1, CloseIs
  <1>3. SlabCap' = SlabCap /\ Counted' = Counted /\ Limit' = Limit
    BY ONLY AfterClose DEF AfterClose, SlabCap, NUnits, Counted, Limit
  <1>4. IsFiniteSet(opens) /\ Cardinality(opens) \in Nat /\ Cardinality(Cover(ci)) = Cardinality(opens) - 1
    BY <1>1, <1>2, InSlab, CloseCovers, FS_RemoveElement, FS_CardinalityType
  <1> DEFINE d == Cardinality(Cover(ci))
  <1>5. d \in Nat /\ d \in Int
    BY <1>1, <1>2, SharesTyped
  <1>6. ASSUME NEW i \in 1..vi
        PROVE  /\ FlatShare(i) \in Int /\ LineShare(i) \in Int /\ IndentShare(i) \in Int
               /\ FlatShare(i)' = FlatShare(i)
               /\ LineShare(i)' = LineShare(i) + (IF i = ci THEN 1 ELSE 0)
               /\ IndentShare(i)' = IndentShare(i) + (IF i = ci THEN d ELSE 0)
    <2>1. Cover(i)' = Cover(i)
      BY CloseCovers
    <2>2. i \in 1..SlabCap
      BY <1>2
    <2>3. /\ FlatShare(i) \in Int /\ LineShare(i) \in Int /\ IndentShare(i) \in Int
          /\ Cardinality(Cover(i)) \in Nat
      BY <1>1, <2>2, SharesTyped
    <2>4. CASE i # ci
      <3>1. vs'[i] = vs[i] /\ (i \in opens' <=> i \in opens)
        BY <1>2, <2>4
      <3> QED
        BY <2>1, <2>3, <2>4, <3>1 DEF FlatShare, LineShare, IndentShare, Full
    <2>5. CASE i = ci
      <3>1. NonEmpty(vs'[i]) /\ IsCtn(vs'[i]) /\ i \notin opens' /\ i \in opens /\ IsCtn(vs[i])
        BY <1>2, <2>5, ClosesFull
      <3>2. vs[i] \in Slot /\ vs'[i] \in Slot
        BY <1>1, <1>3, <2>2 DEF IInv, TypeOK
      <3>3. SlotBound(vs'[i]) = SlotBound(vs[i])
        BY <3>1, <3>2, ChargeIsBound
      <3>4. LineShare(i) = 3 /\ LineShare(i)' = 4
        BY <3>1 DEF LineShare, Full
      <3>5. IndentShare(i) = d + 1 /\ IndentShare(i)' = 2 * d + 1
        BY <2>1, <2>5, <3>1 DEF IndentShare, Full
      <3> HIDE DEF d
      <3> QED
        BY <1>5, <2>3, <2>5, <3>3, <3>4, <3>5 DEF FlatShare
    <2> QED
      BY <2>4, <2>5
  <1> HIDE DEF d
  <1>7. \A i \in 1..vi :
          /\ FlatShares[i] = FlatShare(i) /\ FlatShares'[i] = FlatShare(i)'
          /\ LineShares[i] = LineShare(i) /\ LineShares'[i] = LineShare(i)'
          /\ IndentShares[i] = IndentShare(i) /\ IndentShares'[i] = IndentShare(i)'
    <2>1. \A i \in 1..vi : i \in 1..SlabCap
      BY <1>2
    <2> QED
      BY <1>3, <2>1 DEF FlatShares, LineShares, IndentShares
  <1>8. /\ SumOver(FlatShares', 1, vi) = SumOver(FlatShares, 1, vi) + 0
        /\ SumOver(LineShares', 1, vi) = SumOver(LineShares, 1, vi) + 1
        /\ SumOver(IndentShares', 1, vi) = SumOver(IndentShares, 1, vi) + d
    <2>1. /\ Alike(FlatShares', FlatShares, 1, vi, ci, 0)
          /\ Alike(LineShares', LineShares, 1, vi, ci, 1)
          /\ Alike(IndentShares', IndentShares, 1, vi, ci, d)
      BY <1>5, <1>6, <1>7 DEF Alike
    <2>2. 0 \in Int /\ 1 \in Int
      OBVIOUS
    <2> HIDE DEF FlatShares, LineShares, IndentShares
    <2> QED
      BY <1>2, <1>5, <2>1, <2>2, SumShifts
  <1>9. /\ SumOver(FlatShares, 1, vi) \in Int /\ SumOver(LineShares, 1, vi) \in Int
        /\ SumOver(IndentShares, 1, vi) \in Int
    <2>1. /\ Alike(FlatShares, FlatShares, 1, vi, 0, 0)
          /\ Alike(LineShares, LineShares, 1, vi, 0, 0)
          /\ Alike(IndentShares, IndentShares, 1, vi, 0, 0)
      BY <1>6, <1>7 DEF Alike
    <2> QED
      BY <1>2, <2>1, SumsAlike
  <1>10. BoundsSoFar'
    <2>1. SUFFICES ASSUME opt.bounds
                   PROVE  /\ wb'.flat = 32 + SumOver(FlatShares', 1, vi)
                          /\ wb'.pc = 8 + SumOver(LineShares', 1, vi)
                          /\ wb'.pk = SumOver(IndentShares', 1, vi)
      BY <1>2 DEF BoundsSoFar
    <2>2. /\ wb.flat = 32 + SumOver(FlatShares, 1, vi) /\ wb.pc = 8 + SumOver(LineShares, 1, vi)
          /\ wb.pk = SumOver(IndentShares, 1, vi)
      BY <2>1 DEF BoundsSoFar
    <2>3. wb \in Bounds /\ wb.pdepth = d + 1 /\ wb.pk \in Nat /\ wb.pc \in Nat /\ wb.flat \in Nat
      <3>1. wb \in Bounds /\ wb.pdepth = Cardinality(opens)
        BY <1>1, <2>1 DEF IInv, PairDepth, TypeOK
      <3> QED
        BY <3>1, <1>4 DEF Bounds, d
    <2>4. wb'.flat = wb.flat /\ wb'.pc = wb.pc + 1 /\ wb'.pk = wb.pk + wb.pdepth - 1
      <3>1. wb' = [wb EXCEPT !.pc = @ + 1, !.pk = @ + wb.pdepth - 1, !.pdepth = @ - 1]
        BY ONLY AfterClose, <2>1 DEF AfterClose
      <3> QED
        BY <2>3, <3>1 DEF Bounds
    <2> QED
      BY ONLY <1>5, <1>8, <1>9, <2>2, <2>3, <2>4
  <1>11. NestsWithin'
    BY <1>2, <1>3, CloseCovers DEF NestsWithin
  <1> QED
    BY <1>10, <1>11

LEMMA NextKeepsBounds ==
  ASSUME BoundsInv, [Next]_vars
  PROVE  BoundsInv'
  <1>1. TreeInv /\ IInv /\ BoundsSoFar /\ NestsWithin
    BY DEF BoundsInv, TreeInv
  <1>2. TreeInv' /\ IInv'
    <2>1. TreeInv'
      BY <1>1, NextKeepsTree
    <2> QED
      BY <2>1 DEF TreeInv
  <1>3. /\ opt' = opt /\ SlabCap' = SlabCap /\ opt \in OptionType /\ wb \in Bounds
        /\ opt.bounds => wb.pdepth = Cardinality(opens)
    <2>1. inp' = inp /\ opt' = opt
      BY DEF Next, Step, Returned, vars, ValueLeaf, ValueEmpty, ValueOpen, ValueFail, AfterRoot,
             AfterComma, AfterClose, AfterFail, Key, KeyFail, Fail, PutChild
    <2> QED
      BY <1>1, <2>1 DEF SlabCap, NUnits, IInv, TypeOK, PairDepth
  <1>4. ASSUME NEW v \in Slot, NEW e, PutChild(v, e), Room, IsCtn(v) => v.ofs = 1 /\ v.len = 0
        PROVE  BoundsSoFar' /\ NestsWithin'
    <2>1. Grows(v)
      BY <1>1, <1>4, PutChildGrows
    <2>2. opens' = opens /\ wb' = Charge(v, wb.pdepth)
      BY ONLY <1>4 DEF PutChild
    <2>3. vi + 1 \notin opens /\ wb.pdepth \in Nat
      BY <1>1, <1>3 DEF IInv, TypeOK, Bounds
    <2>4. ~NonEmpty(v)
      BY <1>4 DEF NonEmpty
    <2>5. opt.bounds => /\ wb'.flat = wb.flat + SlotBound(v)
                        /\ wb'.pc = wb.pc + 3
                        /\ wb'.pk = wb.pk + wb.pdepth
      BY <1>3, <2>2, ChargeIsBound DEF Charge, Bounds
    <2>6. opt.bounds => wb'.pk = wb.pk + Cardinality(opens) + (IF vi + 1 \in opens' THEN 1 ELSE 0)
      BY <1>3, <2>2, <2>3, <2>5 DEF Bounds
    <2> QED
      BY <1>1, <1>2, <1>3, <1>4, <2>1, <2>4, <2>5, <2>6, GrowKeepsBounds
  <1>5. CASE ValueLeaf \/ Key
    <2> DEFINE v == LeafSlot(opt.raw, inp[k], k)
    <2>1. k <= NUnits /\ Room /\ PutChild(v, k + 1)
      BY ONLY <1>5 DEF ValueLeaf, Key, IsKey, AtValue, HasUnit, v
    <2>2. inp[k] \in Token /\ opt.raw \in BOOLEAN /\ k \in Nat
      BY <1>1, <2>1, InSlab DEF IInv, TypeOK, NUnits, OptionType
    <2>3. v \in Slot /\ ~IsCtn(v)
      BY <2>2, LeafSlotType
    <2> HIDE DEF v
    <2> QED
      BY <1>2, <1>4, <2>1, <2>3 DEF BoundsInv
  <1>6. CASE ValueEmpty
    <2> DEFINE v == EmptyCtn(CtnKind(inp[k]))
    <2>1. k <= NUnits /\ Room /\ PutChild(v, k + 2)
      BY ONLY <1>6 DEF ValueEmpty, AtValue, HasUnit, v
    <2>2. v \in Slot
      BY <1>1, <2>1, EmptyCtnType, InSlab DEF IInv, TypeOK, NUnits
    <2>3. v.ofs = 1 /\ v.len = 0
      BY ONLY TRUE DEF EmptyCtn, v
    <2> HIDE DEF v
    <2> QED
      BY <1>2, <1>4, <2>1, <2>2, <2>3 DEF BoundsInv
  <1>7. CASE ValueOpen
    <2> DEFINE v == OpenSlot(inp[k])
               ofs == IF ci = 0 THEN 0 ELSE vi + 1 - ci
    <2>1. Grows(v)
      BY <1>1, <1>7, OpenGrows
    <2>2. v \in Slot /\ IsCtn(v)
      <3>1. ofs \in Nat
        BY <1>1, InSlab DEF IInv, TypeOK
      <3>2. v = [kind |-> CtnKind(inp[k]), sub |-> "", len |-> 0, ofs |-> ofs]
        BY DEF OpenSlot
      <3> HIDE DEF v, ofs
      <3> QED
        BY <3>1, <3>2 DEF CtnKind, Slot, Kind, Sub, IsCtn
    <2>3. /\ opens' = opens \cup {vi + 1}
          /\ opt.bounds => wb' = [Charge(v, wb.pdepth + 1) EXCEPT !.pdepth = @ + 1]
      BY ONLY <1>7 DEF ValueOpen, v
    <2>4. wb.pdepth + 1 \in Nat
      BY <1>3 DEF Bounds
    <2> HIDE DEF v
    <2>5. opt.bounds => /\ wb'.flat = wb.flat + SlotBound(v)
                        /\ wb'.pc = wb.pc + 3
                        /\ wb'.pk = wb.pk + (wb.pdepth + 1)
      <3> DEFINE c == Charge(v, wb.pdepth + 1)
      <3>1. SUFFICES ASSUME opt.bounds
                     PROVE  wb'.flat = c.flat /\ wb'.pc = c.pc /\ wb'.pk = c.pk
        BY <1>3, <2>2, ChargeIsBound, ChargeAdds
      <3>2. c \in Bounds
        BY <1>3, <2>2, <2>4, ChargeType
      <3>3. wb' = [c EXCEPT !.pdepth = @ + 1]
        BY <2>3, <3>1
      <3> HIDE DEF c
      <3> QED
        BY <3>2, <3>3 DEF Bounds
    <2>6. opt.bounds => wb'.pk = wb.pk + Cardinality(opens) + (IF vi + 1 \in opens' THEN 1 ELSE 0)
      BY <1>3, <2>3, <2>5 DEF Bounds
    <2>7. BoundsSoFar' /\ NestsWithin'
      BY <1>1, <1>2, <1>3, <2>1, <2>2, <2>3, <2>5, <2>6, GrowKeepsBounds
    <2> QED
      BY <1>2, <2>7 DEF BoundsInv
  <1>8. CASE AfterClose
    BY <1>1, <1>2, <1>8, CloseKeepsBounds DEF BoundsInv
  <1>9. CASE ValueFail \/ AfterRoot \/ AfterComma \/ AfterFail \/ KeyFail \/ UNCHANGED vars
    <2>1. UNCHANGED <<vs, vi, opens, wb, opt>>
      BY ONLY <1>9 DEF ValueFail, AfterRoot, AfterComma, AfterFail, KeyFail, Fail, vars
    <2>2. \A i \in 1..SlabCap : Cover(i)' = Cover(i)
      BY <2>1 DEF Cover
    <2>3. /\ \A i \in 1..SlabCap : FlatShare(i)' = FlatShare(i)
          /\ \A i \in 1..SlabCap : LineShare(i)' = LineShare(i)
          /\ \A i \in 1..SlabCap : IndentShare(i)' = IndentShare(i)
      BY <2>1, <2>2 DEF FlatShare, LineShare, IndentShare, Full
    <2>4. FlatShares' = FlatShares /\ LineShares' = LineShares /\ IndentShares' = IndentShares
      BY <1>3, <2>3 DEF FlatShares, LineShares, IndentShares
    <2>5. BoundsSoFar'
      BY <1>1, <2>1, <2>4 DEF BoundsSoFar
    <2>6. NestsWithin'
      <3>1. \A i \in 1..vi : i \in 1..SlabCap
        BY <1>1, InSlab DEF IInv, TypeOK
      <3> QED
        BY <1>1, <2>1, <2>2, <3>1 DEF NestsWithin, Counted, Limit
    <2> QED
      BY <1>2, <2>5, <2>6 DEF BoundsInv
  <1> QED
    BY <1>5, <1>6, <1>7, <1>8, <1>9 DEF Next, Step, Returned

LEMMA InitBounds == Init => BoundsInv
  <1> SUFFICES ASSUME Init PROVE BoundsInv
    OBVIOUS
  <1>1. TreeInv
    BY InitTree
  <1>2. vi = 0 /\ wb = WbStart
    BY DEF Init
  <1>3. \A w : SumOver(w, 1, 0) = 0
    <2>1. 1 \in Nat /\ 1 >= 1 /\ 0 \in Nat /\ 0 < 1
      OBVIOUS
    <2> QED
      BY <2>1, SumIs
  <1>4. BoundsSoFar
    BY <1>2, <1>3 DEF BoundsSoFar, WbStart
  <1>5. NestsWithin
    BY <1>2 DEF NestsWithin
  <1> QED
    BY <1>1, <1>4, <1>5 DEF BoundsInv

LEMMA BoundsInvariance == Spec => []BoundsInv
  BY InitBounds, NextKeepsBounds, PTL DEF Spec

(* When nothing is open any more the shares are the walks' own summands.   *)
LEMMA FinishedBounds ==
  ASSUME BoundsInv, res = "ok", opt.bounds
  PROVE  /\ wb.flat = BoundSlots(vs, 1)
         /\ \A ind \in Nat \ {0} : wb.pc + ind * wb.pk = PrettyExtra(vs, 1, ind)
  <1>1. IInv /\ TreeInv /\ BoundsSoFar /\ Answered
    BY DEF BoundsInv, TreeInv
  <1>2. opens = {} /\ GetNext(vs, 1) = vi + 1 /\ vi >= 1
    BY <1>1, FinishedTree DEF TreeInv, Paired, Answered
  <1>3. /\ DOMAIN vs = 1..SlabCap /\ vi \in Nat /\ SlabCap \in Nat /\ vi <= SlabCap
        /\ GetNext(vs, 1) - 1 = vi /\ \A i \in 1..vi : i \in 1..SlabCap
    BY <1>1, <1>2, InSlab DEF IInv, TypeOK
  <1>4. wb.flat = BoundSlots(vs, 1)
    <2>1. FlatShares = [i \in DOMAIN vs |-> SlotBound(vs[i])]
      BY <1>3 DEF FlatShares, FlatShare
    <2>2. wb.flat = 32 + SumOver(FlatShares, 1, vi)
      BY <1>1 DEF BoundsSoFar
    <2> QED
      BY ONLY <1>3, <2>1, <2>2 DEF BoundSlots
  <1>5. \A i \in 1..vi : Cover(i) = Inside(vs, 1, i)
    BY <1>2 DEF Cover, Inside
  <1>6. \A i \in 1..SlabCap :
          Cardinality(Cover(i)) \in Nat /\ LineShare(i) \in Nat /\ IndentShare(i) \in Nat
    BY <1>1, SharesTyped
  <1>7. ASSUME NEW ind \in Nat \ {0}
        PROVE  wb.pc + ind * wb.pk = PrettyExtra(vs, 1, ind)
    <2> DEFINE h == [i \in DOMAIN vs |-> PrettyCost(vs, 1, ind, i)]
    <2>0. ind \in Nat /\ ind # 0
      OBVIOUS
    <2>1. ASSUME NEW i \in 1..vi PROVE h[i] = LineShares[i] + ind * IndentShares[i]
      <3> DEFINE d == Cardinality(Cover(i))
      <3>1. i \in 1..SlabCap /\ d \in Nat
        BY <1>3, <1>6
      <3>2. h[i] = PrettyCost(vs, 1, ind, i)
        BY <1>3
      <3>3. LineShares[i] = LineShare(i) /\ IndentShares[i] = IndentShare(i)
        BY <3>1 DEF LineShares, IndentShares
      <3>4. Cardinality(Inside(vs, 1, i)) = d
        BY <1>5
      <3>5. CASE NonEmpty(vs[i])
        <4>1. \A m, x \in Nat : (1 + (x + 1) * m) + 2 + (1 + x * m) = 4 + m * (2 * x + 1)
          OBVIOUS
        <4>2. LineShare(i) = 4 /\ IndentShare(i) = 2 * d + 1
          BY <1>2, <3>5 DEF LineShare, IndentShare, Full
        <4>3. PrettyCost(vs, 1, ind, i) = (1 + (d + 1) * ind) + 2 + (1 + d * ind)
          BY ONLY <3>4, <3>5 DEF PrettyCost
        <4> HIDE DEF d, h
        <4> QED
          BY ONLY <2>0, <3>1, <3>2, <3>3, <4>1, <4>2, <4>3
      <3>6. CASE ~NonEmpty(vs[i])
        <4>1. \A m, x \in Nat : (1 + x * m) + 2 = 3 + m * x
          OBVIOUS
        <4>2. LineShare(i) = 3 /\ IndentShare(i) = d
          BY <1>2, <3>6 DEF LineShare, IndentShare, Full
        <4>3. PrettyCost(vs, 1, ind, i) = (1 + d * ind) + 2
          BY ONLY <3>4, <3>6 DEF PrettyCost
        <4> HIDE DEF d, h
        <4> QED
          BY ONLY <2>0, <3>1, <3>2, <3>3, <4>1, <4>2, <4>3
      <3> QED
        BY <3>5, <3>6
    <2>2. \A i \in 1..vi : LineShares[i] \in Nat /\ IndentShares[i] \in Nat
      BY <1>3, <1>6 DEF LineShares, IndentShares
    <2>3. PrettyExtra(vs, 1, ind) = 8 + SumOver(h, 1, vi)
      BY <1>3, <2>0 DEF PrettyExtra
    <2> HIDE DEF h
    <2>4. Adds(h, LineShares, IndentShares, 1, vi, ind)
      BY <2>1, <2>2 DEF Adds
    <2>5. 1 \in Nat /\ 1 >= 1 /\ vi \in Nat /\ vi >= 1 - 1
      BY <1>3
    <2>6. /\ SumOver(LineShares, 1, vi) \in Nat /\ SumOver(IndentShares, 1, vi) \in Nat
          /\ SumOver(h, 1, vi) = SumOver(LineShares, 1, vi) + ind * SumOver(IndentShares, 1, vi)
      BY ONLY <2>0, <2>4, <2>5, SumsAdd
    <2>7. /\ wb.pc = 8 + SumOver(LineShares, 1, vi)
          /\ wb.pk = SumOver(IndentShares, 1, vi)
      BY <1>1 DEF BoundsSoFar
    <2>8. \A x, y, m \in Nat : 8 + (x + m * y) = (8 + x) + m * y
      OBVIOUS
    <2> QED
      BY ONLY <2>0, <2>3, <2>6, <2>7, <2>8
  <1> QED
    BY <1>4, <1>7

-----------------------------------------------------------------------------
(* The inductive invariant holds in every state of every run of the        *)
(* builder.                                                                *)
THEOREM Invariance == Spec => []IInv
  BY InitIInv, NextKeepsIInv, PTL DEF Spec

(* Every variable of build_t keeps its type: in particular no offset, no   *)
(* child count and no bound is ever taken below zero.                      *)
THEOREM TypeCorrect == Spec => []TypeOK
  <1>1. IInv => TypeOK
    BY DEF IInv
  <1> QED
    BY Invariance, <1>1, PTL

(* The builder never writes past its slab, whatever the text: sizing the   *)
(* growing one by the number of units before the first slot is written is  *)
(* enough, and the fixed one is checked before every slot.                 *)
THEOREM SlabNeverOverrun == Spec => []SlabInBounds
  <1>1. IInv => SlabInBounds
    BY InSlab DEF SlabInBounds
  <1> QED
    BY Invariance, <1>1, PTL

(* The back offsets written into the slots lead through the open           *)
(* containers, from the innermost to the root, and visit all of them.      *)
THEOREM BackOffsetsAreTheStack == Spec => []OpenChain
  <1>1. IInv => OpenChain
    BY DEF IInv
  <1> QED
    BY Invariance, <1>1, PTL

(* The depth counter counts the open containers and never passes the       *)
(* limit, compiled in or given.                                            *)
THEOREM DepthBounded == Spec => []DepthIsOpens
  <1>1. IInv => DepthIsOpens
    BY DEF IInv
  <1> QED
    BY Invariance, <1>1, PTL

(* Whatever the slots hold of a closed container, it covers a stretch of   *)
(* the arena whose containers are closed and inside it.                    *)
THEOREM SpansNest == Spec => []ClosedSpansNest
  <1>1. IInv => ClosedSpansNest
    BY DEF IInv
  <1> QED
    BY Invariance, <1>1, PTL

(* The child counts, kept for the innermost container in ctnLen and for    *)
(* the others in their slots, where closing a container picks its parent's *)
(* count up again, are at every moment those of the children written.      *)
THEOREM CountsAreLive == Spec => []LiveCounts
  <1>1. Init => LiveCounts
    BY DEF Init, LiveCounts
  <1> QED
    BY <1>1, Invariance, NextKeepsCounts, PTL DEF Spec
(* A document that parses is well formed, whatever the text it came from:  *)
(* every slot in use belongs to the root, containers nest and count their  *)
(* children, an object's in pairs whose first is a string, and no slot was *)
(* left unwritten.  The builder writes the slots of a container before it  *)
(* knows any of this.                                                      *)
THEOREM ArenaIsWellFormed == Spec => []ArenaWellFormed
  <1>1. TreeInv => ArenaWellFormed
    BY FinishedTree DEF ArenaWellFormed
  <1> QED
    BY TreeInvariance, <1>1, PTL

(* The bounds added up slot by slot, flat and pretty, are to the byte      *)
(* those of the walks over the finished arena, though a slot is charged    *)
(* before its container has a length and a closer after the slots it       *)
(* follows.                                                                *)
THEOREM BoundsAreTheWalks == Spec => []BoundsAgree
  <1>1. BoundsInv => BoundsAgree
    <2>1. \A ind \in 1..4 : ind \in Nat \ {0}
      OBVIOUS
    <2> QED
      BY <2>1, FinishedBounds DEF BoundsAgree
  <1> QED
    BY BoundsInvariance, <1>1, PTL
=============================================================================
