---------------------------- MODULE DocHeapProofs ---------------------------
(***************************************************************************)
(* Ownership of memory, for every number of documents and scratches, every *)
(* sequence of calls and whichever allocations fail: one owner for every   *)
(* block, a document that owns its storage keeps what was parsed, and one  *)
(* that borrows loses it only to a call on what it borrows from.           *)
(*                                                                         *)
(* A call changes the heap and its objects in several steps, between which *)
(* some blocks belong to nobody yet.  Sound says of the heap, the          *)
(* documents and the scratches at such a point, and of the blocks a call   *)
(* holds besides, that they fit together; a lemma for each step says how   *)
(* it keeps them so.  During adds which blocks a parse may have touched by *)
(* then; LInv says what is borrowed from whom, and StepTouches to StepView *)
(* what any step may do, from which the rest follows.                      *)
(***************************************************************************)
EXTENDS DocHeap, SetLemmas, TLAPS

Content == Nat \cup {Free}
Ref     == Blocks \cup {None}

Doc == [vals : Ref, pool : Ref, alias : {Buffer, None}, borrowed : BOOLEAN, gen : Nat]
Scr == {sc \in [blk : [Array -> Ref], cap : [Array -> Nat]] :
          \A a \in Array : sc.cap[a] > 0 => sc.blk[a] # None}

(* Who owns what, of documents ds and scratches ss: Owns, of any state.    *)
OwnedBy(ds, ss, f) ==
  IF f[1] \in Docs
    THEN IF ds[f[1]].borrowed THEN None ELSE ds[f[1]][f[2]]
    ELSE ss[f[1]].blk[f[2]]

(* The call in progress holds the blocks new besides, with content g.      *)
Typed(m, ds, ss, new) ==
  /\ m \in [Blocks -> Content]
  /\ ds \in [Docs -> Doc] /\ ss \in [Scratches -> Scr]
  /\ new \subseteq Blocks \ Caller
  /\ \A b \in Caller : m[b] # Free

NoneLost(m, ds, ss, new) ==
  \A b \in Blocks \ Caller :
    m[b] # Free <=> b \in new \/ \E f \in Fields : OwnedBy(ds, ss, f) = b

NoneShared(ds, ss, new) ==
  /\ \A f \in Fields : OwnedBy(ds, ss, f) \notin new \cup Caller
  /\ \A f, h \in Fields :
       OwnedBy(ds, ss, f) = OwnedBy(ds, ss, h) /\ OwnedBy(ds, ss, f) # None => f = h

Kept(m, ds, new, g) ==
  /\ \A b \in new : m[b] = g
  /\ \A d \in Docs : ~ds[d].borrowed =>
       /\ ds[d].vals # None => m[ds[d].vals] = ds[d].gen
       /\ ds[d].pool # None => m[ds[d].pool] = ds[d].gen

Sound(m, ds, ss, new, g) ==
  /\ Typed(m, ds, ss, new)
  /\ NoneLost(m, ds, ss, new)
  /\ NoneShared(ds, ss, new)
  /\ Kept(m, ds, new, g)

IInv == Sound(mem, docs, scr, {}, 0) /\ parses \in Nat

-----------------------------------------------------------------------------
(* The fields that may own a block, one by one.                            *)
FieldByField(ds, ss) ==
  /\ \A d \in Docs :
       /\ <<d, "vals">> \in Fields /\ <<d, "pool">> \in Fields
       /\ OwnedBy(ds, ss, <<d, "vals">>) = IF ds[d].borrowed THEN None ELSE ds[d].vals
       /\ OwnedBy(ds, ss, <<d, "pool">>) = IF ds[d].borrowed THEN None ELSE ds[d].pool
  /\ \A s \in Scratches, a \in Array :
       /\ <<s, a>> \in Fields
       /\ OwnedBy(ds, ss, <<s, a>>) = ss[s].blk[a]
       /\ \A d \in Docs : <<s, a>> # <<d, "vals">> /\ <<s, a>> # <<d, "pool">>
  /\ \A f \in Fields :
       \/ \E d \in Docs : f = <<d, "vals">> \/ f = <<d, "pool">>
       \/ \E s \in Scratches, a \in Array : f = <<s, a>>

LEMMA FieldOf == \A ds, ss : FieldByField(ds, ss)
  BY DocHeapAssumption DEF FieldByField, Fields, OwnedBy

(* What a document owns is no block of a scratch's, of the caller's or of  *)
(* the call's.                                                             *)
LEMMA OwnedApart ==
  ASSUME NEW m, NEW ds, NEW ss, NEW new, NEW g, Sound(m, ds, ss, new, g),
         NEW d \in Docs, ~ds[d].borrowed, NEW x \in {ds[d].vals, ds[d].pool}, x # None
  PROVE  /\ x \in Blocks \ Caller /\ x \notin new /\ m[x] # Free
         /\ \A s \in Scratches, a \in Array : ss[s].blk[a] # x
  <1>1. FieldByField(ds, ss)
    BY FieldOf
  <1>2. PICK f \in {<<d, "vals">>, <<d, "pool">>} : f \in Fields /\ OwnedBy(ds, ss, f) = x
    BY <1>1 DEF FieldByField
  <1>3. x \in Blocks \ Caller /\ x \notin new
    BY <1>2 DEF Sound, Typed, NoneLost, NoneShared, Kept, Doc, Ref
  <1>4. m[x] # Free
    BY <1>2, <1>3 DEF Sound, Typed, NoneLost, NoneShared, Kept
  <1>5. ASSUME NEW s \in Scratches, NEW a \in Array, ss[s].blk[a] = x PROVE FALSE
    <2>1. <<s, a>> \in Fields /\ OwnedBy(ds, ss, <<s, a>>) = x /\ <<s, a>> # f
      BY <1>1, <1>2, <1>5 DEF FieldByField
    <2> QED
      BY <1>2, <2>1 DEF Sound, Typed, NoneLost, NoneShared, Kept
  <1> QED
    BY <1>3, <1>4, <1>5

(* There is a block for every field and two more.                          *)
LEMMA FieldsFit ==
  IsFiniteSet(Fields) /\ Cardinality(Fields) \in Nat /\ Cardinality(Fields) + 2 <= MaxBlocks
  <1> USE DocHeapAssumption
  <1>1. IsFiniteSet({"vals", "pool"}) /\ Cardinality({"vals", "pool"}) = 2
    BY PairCounts
  <1>2. IsFiniteSet(Array) /\ Cardinality(Array) = 3
    <2>1. Array = {"vals", "pool"} \cup {"idx"} /\ "idx" \notin {"vals", "pool"}
      BY DEF Array
    <2>2. /\ IsFiniteSet({"vals", "pool"} \cup {"idx"})
          /\ Cardinality({"vals", "pool"} \cup {"idx"}) = Cardinality({"vals", "pool"}) + 1
      BY <1>1, <2>1, FS_AddElement
    <2> QED
      BY <1>1, <2>1, <2>2
  <1> DEFINE A == Docs \X {"vals", "pool"}
             B == Scratches \X Array
  <1>3. IsFiniteSet(A) /\ Cardinality(A) = Cardinality(Docs) * 2
    BY <1>1, FS_Product
  <1>4. IsFiniteSet(B) /\ Cardinality(B) = Cardinality(Scratches) * 3
    BY <1>2, FS_Product
  <1>5. Cardinality(Docs) \in Nat /\ Cardinality(Scratches) \in Nat
    BY FS_CardinalityType
  <1> HIDE DEF A, B
  <1>6. /\ IsFiniteSet(A \cup B) /\ Cardinality(A \cap B) \in Nat
        /\ Cardinality(A \cup B) = Cardinality(A) + Cardinality(B) - Cardinality(A \cap B)
    BY <1>3, <1>4, FS_Union, FS_Intersection, FS_CardinalityType
  <1>7. Fields = A \cup B
    BY DEF Fields, A, B
  <1>8. Cardinality(Fields) \in Nat
    BY <1>6, <1>7, FS_CardinalityType
  <1>9. Cardinality(Fields) <= 2 * Cardinality(Docs) + 3 * Cardinality(Scratches)
    BY <1>3, <1>4, <1>5, <1>6, <1>7, <1>8
  <1> QED
    BY <1>5, <1>6, <1>7, <1>8, <1>9

(* An allocation finds a free block while a call holds at most one.        *)
LEMMA NewBlockIsFree ==
  ASSUME NEW m, NEW ds, NEW ss, NEW new, NEW g, Sound(m, ds, ss, new, g),
         IsFiniteSet(new), Cardinality(new) <= 1
  PROVE  NewBlock(m) \in Blocks \ Caller /\ m[NewBlock(m)] = Free
  <1> DEFINE owner == [f \in Fields |-> OwnedBy(ds, ss, f)]
             owned == {owner[f] : f \in Fields}
             free  == {b \in Blocks : m[b] = Free}
  <1>1. IsFiniteSet(owned) /\ Cardinality(owned) <= Cardinality(Fields)
    <2>1. owner \in Surjection(Fields, owned)
      BY DEF Surjection
    <2> HIDE DEF owned, owner
    <2> QED
      BY <2>1, FieldsFit, FS_Surjection
  <1>2. ASSUME free \subseteq Caller PROVE FALSE
    <2>1. Blocks \ Caller \subseteq owned \cup new
      BY <1>2 DEF Sound, Typed, NoneLost, NoneShared, Kept
    <2>2. Blocks \ Caller = 2..(MaxBlocks + 1)
      BY DocHeapAssumption DEF Blocks, Caller, Buffer, Store
    <2> HIDE DEF owned
    <2>3. /\ IsFiniteSet(owned \cup new)
          /\ Cardinality(owned \cup new) <= Cardinality(Fields) + 1
      <3>1. /\ IsFiniteSet(owned \cup new) /\ Cardinality(owned \cap new) \in Nat
            /\ Cardinality(owned \cup new)
                 = Cardinality(owned) + Cardinality(new) - Cardinality(owned \cap new)
        BY <1>1, FS_Union, FS_Intersection, FS_CardinalityType
      <3> QED
        BY <1>1, <3>1, FieldsFit, FS_CardinalityType
    <2>4. Cardinality(2..(MaxBlocks + 1)) = MaxBlocks
      BY DocHeapAssumption, FS_Interval
    <2>5. Cardinality(2..(MaxBlocks + 1)) <= Cardinality(owned \cup new)
      BY <2>1, <2>2, <2>3, FS_Subset
    <2> QED
      BY <2>3, <2>4, <2>5, FieldsFit, FS_CardinalityType, DocHeapAssumption
  <1>3. free \cap Caller = {} /\ free # {} /\ free \subseteq Nat
    BY <1>2 DEF Sound, Typed, NoneLost, NoneShared, Kept, Blocks
  <1>4. NewBlock(m) \in free
    <2>1. NewBlock(m) = Min(free)
      BY DEF NewBlock
    <2> HIDE DEF free
    <2> QED
      BY <1>3, <2>1, LeastOf
  <1> QED
    BY <1>3, <1>4

-----------------------------------------------------------------------------
(* The steps of a call.  It takes a block for itself ...                   *)
LEMMA AllocIsSound ==
  ASSUME NEW m, NEW ds, NEW ss, NEW new, NEW g \in Nat, Sound(m, ds, ss, new, g),
         IsFiniteSet(new), Cardinality(new) <= 1
  PROVE  /\ Sound(Alloc(m, g), ds, ss, new \cup {NewBlock(m)}, g)
         /\ NewBlock(m) \in Blocks \ Caller /\ NewBlock(m) \notin new
         /\ \A b \in Blocks : m[b] # Free => Alloc(m, g)[b] = m[b]
  <1> DEFINE nb == NewBlock(m)
  <1>1. nb \in Blocks \ Caller /\ m[nb] = Free
    BY NewBlockIsFree
  <1>2. Alloc(m, g) = [m EXCEPT ![nb] = g] /\ g # Free
    BY DEF Alloc, Free
  <1> HIDE DEF nb
  <1>3. nb \notin new /\ \A f \in Fields : OwnedBy(ds, ss, f) # nb
    BY <1>1 DEF Sound, Typed, NoneLost, NoneShared, Kept
  <1>4. \A d \in Docs : ~ds[d].borrowed =>
          /\ ds[d].vals # None => ds[d].vals # nb /\ ds[d].vals \in Blocks
          /\ ds[d].pool # None => ds[d].pool # nb /\ ds[d].pool \in Blocks
    BY <1>1, OwnedApart
  <1>5. Sound(Alloc(m, g), ds, ss, new \cup {nb}, g)
    BY <1>1, <1>2, <1>3, <1>4 DEF Sound, Typed, NoneLost, NoneShared, Kept, Content
  <1> QED
    BY <1>1, <1>2, <1>3, <1>5 DEF nb, Sound, Typed, NoneLost, NoneShared, Kept

(* ... gives one back that is its own ...                                  *)
LEMMA GiveBackIsSound ==
  ASSUME NEW m, NEW ds, NEW ss, NEW new, NEW g \in Nat, Sound(m, ds, ss, new, g),
         NEW b \in new
  PROVE  Sound(Release(m, b), ds, ss, new \ {b}, g)
  <1>1. b \in Blocks \ Caller /\ b # None /\ m[b] # Free
    BY DEF Sound, Typed, NoneLost, NoneShared, Kept, Blocks, None, Free
  <1>2. Release(m, b) = [m EXCEPT ![b] = Free]
    BY <1>1 DEF Release, Sound, Typed, NoneLost, NoneShared, Kept
  <1>3. \A f \in Fields : OwnedBy(ds, ss, f) # b
    BY DEF Sound, Typed, NoneLost, NoneShared, Kept
  <1>4. \A d \in Docs : ~ds[d].borrowed =>
          /\ ds[d].vals # None => ds[d].vals # b /\ ds[d].vals \in Blocks
          /\ ds[d].pool # None => ds[d].pool # b /\ ds[d].pool \in Blocks
    BY OwnedApart
  <1> QED
    BY <1>1, <1>2, <1>3, <1>4 DEF Sound, Typed, NoneLost, NoneShared, Kept, Content

(* ... writes into storage of the caller or of a scratch ...               *)
LEMMA WriteIsSound ==
  ASSUME NEW m, NEW ds, NEW ss, NEW new, NEW g \in Nat, Sound(m, ds, ss, new, g),
         NEW b \in Blocks, NEW c \in Nat,
         b \in Caller \/ \E s \in Scratches, a \in Array : ss[s].blk[a] = b
  PROVE  Sound(Write(m, b, c), ds, ss, new, g)
  <1>1. Write(m, b, c) = [m EXCEPT ![b] = c] /\ c # Free
    BY DEF Write, Free
  <1>2. b # None
    BY DEF None, Blocks
  <1>3. b \notin new /\ m[b] # Free
    <2>1. CASE b \in Caller
      BY <2>1 DEF Sound, Typed, NoneLost, NoneShared, Kept
    <2>2. CASE b \notin Caller
      <3>1. PICK f \in Fields : OwnedBy(ds, ss, f) = b
        <4>1. FieldByField(ds, ss)
          BY FieldOf
        <4>2. PICK s \in Scratches, a \in Array : ss[s].blk[a] = b
          BY <2>2
        <4> QED
          BY <4>1, <4>2 DEF FieldByField
      <3> QED
        BY <2>2, <3>1 DEF Sound, Typed, NoneLost, NoneShared, Kept
    <2> QED
      BY <2>1, <2>2
  <1>4. \A d \in Docs : ~ds[d].borrowed =>
          /\ ds[d].vals # None => ds[d].vals # b /\ ds[d].vals \in Blocks
          /\ ds[d].pool # None => ds[d].pool # b /\ ds[d].pool \in Blocks
    BY OwnedApart
  <1> QED
    BY <1>1, <1>3, <1>4 DEF Sound, Typed, NoneLost, NoneShared, Kept, Content

(* What a change of one array of a scratch, or of one document, changes    *)
(* among the owners.                                                       *)
WithDoc(ds, d, dc) == [ds EXCEPT ![d] = dc]
WithArray(ss, s, a, x, c) == [ss EXCEPT ![s] = [@ EXCEPT !.blk[a] = x, !.cap[a] = c]]

ArrayIs(ds, ss, s, a, x, c) ==
  LET tt == WithArray(ss, s, a, x, c) IN
  /\ tt \in [Scratches -> Scr]
  /\ \A f \in Fields : OwnedBy(ds, tt, f) = IF f = <<s, a>> THEN x ELSE OwnedBy(ds, ss, f)

DocIs(ds, ss, d, dc) ==
  LET es == WithDoc(ds, d, dc) IN
  /\ es \in [Docs -> Doc]
  /\ \A f \in Fields : OwnedBy(es, ss, f)
       = IF f = <<d, "vals">> THEN (IF dc.borrowed THEN None ELSE dc.vals)
         ELSE IF f = <<d, "pool">> THEN (IF dc.borrowed THEN None ELSE dc.pool)
         ELSE OwnedBy(ds, ss, f)

LEMMA ScratchField ==
  ASSUME NEW ds, NEW ss \in [Scratches -> Scr], NEW s \in Scratches, NEW a \in Array,
         NEW x \in Ref, NEW c \in Nat, c > 0 => x # None
  PROVE  ArrayIs(ds, ss, s, a, x, c)
  <1> DEFINE sc == [ss[s] EXCEPT !.blk[a] = x, !.cap[a] = c]
             tt == WithArray(ss, s, a, x, c)
  <1>1. \A t \in Scratches :
          /\ ss[t].blk \in [Array -> Ref] /\ ss[t].cap \in [Array -> Nat]
          /\ \A b \in Array : ss[t].cap[b] > 0 => ss[t].blk[b] # None
    BY DEF Scr
  <1>2. sc \in Scr /\ sc.blk = [ss[s].blk EXCEPT ![a] = x]
    <2>1. /\ sc.blk = [ss[s].blk EXCEPT ![a] = x] /\ sc.cap = [ss[s].cap EXCEPT ![a] = c]
          /\ sc \in [blk : [Array -> Ref], cap : [Array -> Nat]]
      BY DEF Scr
    <2>2. \A b \in Array : sc.cap[b] > 0 => sc.blk[b] # None
      BY <1>1, <2>1
    <2> QED
      BY <2>1, <2>2 DEF Scr
  <1>3. tt \in [Scratches -> Scr] /\ tt[s] = sc /\ \A t \in Scratches \ {s} : tt[t] = ss[t]
    BY <1>2 DEF WithArray
  <1>4. FieldByField(ds, ss) /\ FieldByField(ds, tt)
    BY FieldOf
  <1> HIDE DEF sc, tt
  <1>5. ASSUME NEW f \in Fields
        PROVE  OwnedBy(ds, tt, f) = IF f = <<s, a>> THEN x ELSE OwnedBy(ds, ss, f)
    <2>1. CASE \E d \in Docs : f = <<d, "vals">> \/ f = <<d, "pool">>
      <3>1. OwnedBy(ds, tt, f) = OwnedBy(ds, ss, f) /\ f # <<s, a>>
        <4>1. PICK d \in Docs : f = <<d, "vals">> \/ f = <<d, "pool">>
          BY <2>1
        <4>2. f # <<s, a>>
          BY <1>4, <4>1 DEF FieldByField
        <4>3. f[1] \in Docs
          BY <4>1
        <4> QED
          BY <4>2, <4>3 DEF OwnedBy
      <3> QED
        BY <3>1
    <2>2. ASSUME NEW t \in Scratches, NEW b \in Array, f = <<t, b>>
          PROVE  OwnedBy(ds, tt, f) = IF f = <<s, a>> THEN x ELSE OwnedBy(ds, ss, f)
      <3>1. OwnedBy(ds, tt, f) = tt[t].blk[b] /\ OwnedBy(ds, ss, f) = ss[t].blk[b]
        BY <1>4, <2>2 DEF FieldByField
      <3>2. tt[t].blk[b] = IF t = s /\ b = a THEN x ELSE ss[t].blk[b]
        <4>1. CASE t = s
          BY <1>1, <1>2, <1>3, <4>1
        <4>2. CASE t # s
          BY <1>3, <4>2
        <4> QED
          BY <4>1, <4>2
      <3> QED
        BY <2>2, <3>1, <3>2
    <2> QED
      BY <1>4, <2>1, <2>2 DEF FieldByField
  <1> QED
    BY <1>2, <1>3, <1>5 DEF ArrayIs, tt

LEMMA DocField ==
  ASSUME NEW ds \in [Docs -> Doc], NEW ss, NEW d \in Docs, NEW dc \in Doc
  PROVE  DocIs(ds, ss, d, dc)
  <1> DEFINE es == WithDoc(ds, d, dc)
  <1>1. es \in [Docs -> Doc] /\ es[d] = dc /\ \A e \in Docs \ {d} : es[e] = ds[e]
    BY DEF WithDoc
  <1>2. FieldByField(ds, ss) /\ FieldByField(es, ss)
    BY FieldOf
  <1> HIDE DEF es
  <1>3. ASSUME NEW f \in Fields
        PROVE  OwnedBy(es, ss, f)
               = IF f = <<d, "vals">> THEN (IF dc.borrowed THEN None ELSE dc.vals)
                 ELSE IF f = <<d, "pool">> THEN (IF dc.borrowed THEN None ELSE dc.pool)
                 ELSE OwnedBy(ds, ss, f)
    <2>1. CASE f = <<d, "vals">> \/ f = <<d, "pool">>
      BY <1>1, <1>2, <2>1 DEF FieldByField
    <2>2. CASE \E e \in Docs \ {d} : f = <<e, "vals">> \/ f = <<e, "pool">>
      <3>1. PICK e \in Docs \ {d} : f = <<e, "vals">> \/ f = <<e, "pool">>
        BY <2>2
      <3>2. f # <<d, "vals">> /\ f # <<d, "pool">>
        BY <3>1
      <3>3. OwnedBy(es, ss, f) = OwnedBy(ds, ss, f)
        <4>1. f[1] \in Docs /\ es[f[1]] = ds[f[1]]
          BY <1>1, <3>1
        <4> QED
          BY <4>1 DEF OwnedBy
      <3> QED
        BY <3>2, <3>3
    <2>3. CASE \E s \in Scratches, a \in Array : f = <<s, a>>
      <3>1. PICK s \in Scratches, a \in Array : f = <<s, a>>
        BY <2>3
      <3>2. OwnedBy(es, ss, f) = ss[s].blk[a] /\ OwnedBy(ds, ss, f) = ss[s].blk[a]
        BY <1>2, <3>1 DEF FieldByField
      <3>3. f # <<d, "vals">> /\ f # <<d, "pool">>
        BY <1>2, <3>1 DEF FieldByField
      <3> QED
        BY <3>2, <3>3
    <2> QED
      BY <1>2, <2>1, <2>2, <2>3 DEF FieldByField
  <1> QED
    BY <1>1, <1>3 DEF DocIs, es

(* ... frees or replaces an array of a scratch ...                         *)
LEMMA FreeArrayIsSound ==
  ASSUME NEW m, NEW ds, NEW ss, NEW g \in Nat, Sound(m, ds, ss, {}, g),
         NEW s \in Scratches, NEW a \in Array
  PROVE  /\ Sound(Release(m, ss[s].blk[a]), ds, WithArray(ss, s, a, None, 0), {}, g)
         /\ ss[s].blk[a] # None =>
              /\ ss[s].blk[a] \in Blocks
              /\ Release(m, ss[s].blk[a]) = [m EXCEPT ![ss[s].blk[a]] = Free]
  <1> DEFINE tt == WithArray(ss, s, a, None, 0)
             b  == ss[s].blk[a]
  <1>1. /\ tt \in [Scratches -> Scr]
        /\ \A f \in Fields : OwnedBy(ds, tt, f) = IF f = <<s, a>> THEN None ELSE OwnedBy(ds, ss, f)
    <2>1. ss \in [Scratches -> Scr] /\ None \in Ref /\ 0 \in Nat /\ (0 > 0 => None # None)
      BY DEF Sound, Typed, Ref
    <2>2. ArrayIs(ds, ss, s, a, None, 0)
      BY <2>1, ScratchField, Zenon
    <2> QED
      BY <2>2 DEF ArrayIs
  <1>2. <<s, a>> \in Fields /\ OwnedBy(ds, ss, <<s, a>>) = b
    <2>1. FieldByField(ds, ss)
      BY FieldOf
    <2> QED
      BY <2>1 DEF FieldByField
  <1>3. b \in Ref /\ b \notin Caller /\ (b # None => m[b] # Free)
    <2>1. b \in Ref
      BY DEF Sound, Typed, Scr
    <2>2. b \notin Caller
      BY <1>2 DEF Sound, NoneShared
    <2> QED
      BY <1>2, <2>1, <2>2 DEF Ref, Sound, NoneLost
  <1>4. \A d \in Docs : ~ds[d].borrowed =>
          /\ ds[d].vals # None => ds[d].vals # b /\ ds[d].vals \in Blocks
          /\ ds[d].pool # None => ds[d].pool # b /\ ds[d].pool \in Blocks
    BY OwnedApart
  <1> HIDE DEF tt, b
  <1>5. CASE b = None
    <2>1. Release(m, b) = m
      BY <1>5 DEF Release
    <2>2. \A f \in Fields : OwnedBy(ds, tt, f) = OwnedBy(ds, ss, f)
      BY <1>1, <1>2, <1>5
    <2> QED
      BY <1>1, <1>5, <2>1, <2>2 DEF Sound, Typed, NoneLost, NoneShared, Kept, tt, b
  <1>6. CASE b # None
    <2>1. b \in Blocks \ Caller /\ m[b] # Free
      BY <1>3, <1>6 DEF Ref
    <2>2. Release(m, b) = [m EXCEPT ![b] = Free]
      BY <2>1, <1>6 DEF Release, Sound, Typed, NoneLost, NoneShared, Kept
    <2>3. \A f \in Fields : OwnedBy(ds, tt, f) # b
      BY <1>1, <1>2, <1>6 DEF Sound, Typed, NoneLost, NoneShared, Kept
    <2>4. \A c \in Blocks \ {b} :
            (\E f \in Fields : OwnedBy(ds, tt, f) = c) <=> (\E f \in Fields : OwnedBy(ds, ss, f) = c)
      BY <1>1, <1>2 DEF None, Blocks
    <2>5. \A f, h \in Fields :
            OwnedBy(ds, tt, f) = OwnedBy(ds, tt, h) /\ OwnedBy(ds, tt, f) # None => f = h
      BY <1>1 DEF Sound, Typed, NoneLost, NoneShared, Kept
    <2>6. \A f \in Fields : OwnedBy(ds, tt, f) \notin Caller
      BY <1>1 DEF Sound, Typed, NoneLost, NoneShared, Kept, None, Caller, Buffer, Store
    <2>7. Typed(Release(m, b), ds, tt, {})
      BY <1>1, <2>1, <2>2 DEF Sound, Typed, Content
    <2>8. NoneLost(Release(m, b), ds, tt, {})
      BY <2>1, <2>2, <2>3, <2>4 DEF Sound, Typed, NoneLost
    <2>9. Kept(Release(m, b), ds, {}, g)
      BY <1>4, <2>1, <2>2 DEF Sound, Typed, Kept
    <2> QED
      BY <2>1, <2>2, <2>5, <2>6, <2>7, <2>8, <2>9 DEF Sound, NoneShared, tt, b
  <1> QED
    BY <1>5, <1>6

LEMMA GrowArrayIsSound ==
  ASSUME NEW m, NEW ds, NEW ss, NEW g \in Nat, Sound(m, ds, ss, {}, g),
         NEW s \in Scratches, NEW a \in Array, ss[s].blk[a] = None, NEW n \in Nat
  PROVE  /\ Sound(Alloc(m, Junk), ds, WithArray(ss, s, a, NewBlock(m), n), {}, g)
         /\ NewBlock(m) \in Blocks
  <1> DEFINE tt == WithArray(ss, s, a, NewBlock(m), n)
             b  == NewBlock(m)
  <1>1. b \in Blocks \ Caller /\ m[b] = Free
    BY NewBlockIsFree, FS_EmptySet
  <1>2. b # None
    BY <1>1 DEF Blocks, None
  <1>3. /\ tt \in [Scratches -> Scr]
        /\ \A f \in Fields : OwnedBy(ds, tt, f) = IF f = <<s, a>> THEN b ELSE OwnedBy(ds, ss, f)
    <2>1. ss \in [Scratches -> Scr] /\ b \in Ref /\ (n > 0 => b # None)
      BY <1>1, <1>2 DEF Sound, Typed, Ref
    <2>2. ArrayIs(ds, ss, s, a, b, n)
      BY <2>1, ScratchField, Zenon
    <2> QED
      BY <2>2 DEF ArrayIs
  <1>4. <<s, a>> \in Fields /\ OwnedBy(ds, ss, <<s, a>>) = None
    <2>1. FieldByField(ds, ss)
      BY FieldOf
    <2> QED
      BY <2>1 DEF FieldByField
  <1> HIDE DEF tt, b
  <1>5. \A f \in Fields : OwnedBy(ds, ss, f) # b
    BY <1>1 DEF Sound, Typed, NoneLost, NoneShared, Kept
  <1>6. \A d \in Docs : ~ds[d].borrowed =>
          /\ ds[d].vals # None => ds[d].vals # b /\ ds[d].vals \in Blocks
          /\ ds[d].pool # None => ds[d].pool # b /\ ds[d].pool \in Blocks
    BY <1>1, OwnedApart
  <1>7. Alloc(m, Junk) = [m EXCEPT ![b] = Junk] /\ Junk \in Nat /\ Junk # Free
    BY DEF Alloc, b, Junk, Free
  <1>8. \A c \in Blocks : (\E f \in Fields : OwnedBy(ds, tt, f) = c)
                           <=> c = b \/ \E f \in Fields : OwnedBy(ds, ss, f) = c
    BY <1>3, <1>4 DEF None, Blocks
  <1>9. \A f, h \in Fields :
          OwnedBy(ds, tt, f) = OwnedBy(ds, tt, h) /\ OwnedBy(ds, tt, f) # None => f = h
    BY <1>3, <1>5 DEF Sound, Typed, NoneLost, NoneShared, Kept
  <1>10. \A f \in Fields : OwnedBy(ds, tt, f) \notin Caller
    BY <1>1, <1>3 DEF Sound, Typed, NoneLost, NoneShared, Kept
  <1>11. Sound(Alloc(m, Junk), ds, tt, {}, g)
    BY <1>1, <1>3, <1>6, <1>7, <1>8, <1>9, <1>10 DEF Sound, Typed, NoneLost, NoneShared, Kept, Content
  <1> QED
    BY <1>1, <1>11 DEF tt, b

(* The three ways ensure can end: there was room, the allocation failed,   *)
(* or the array was replaced.                                              *)
EnsuredAs(r, m, sc, a, n, oom) ==
  LET freed == Release(m, sc.blk[a]) IN
  /\ n <= sc.cap[a] => r.ok = TRUE /\ r.mem = m /\ r.sc = sc
  /\ ~(n <= sc.cap[a]) /\ oom
       => r.ok = FALSE /\ r.mem = freed
          /\ r.sc = [sc EXCEPT !.blk[a] = None, !.cap[a] = 0]
  /\ ~(n <= sc.cap[a]) /\ ~oom
       => r.ok = TRUE /\ r.mem = Alloc(freed, Junk)
          /\ r.sc = [sc EXCEPT !.blk[a] = NewBlock(freed), !.cap[a] = n]

LEMMA EnsuredCases ==
  ASSUME NEW m, NEW sc, NEW a, NEW n, NEW oom
  PROVE  EnsuredAs(Ensured(m, sc, a, n, oom), m, sc, a, n, oom)
  <1> DEFINE freed == Release(m, sc.blk[a])
             none  == [sc EXCEPT !.blk[a] = None, !.cap[a] = 0]
             grown == [sc EXCEPT !.blk[a] = NewBlock(freed), !.cap[a] = n]
             r     == Ensured(m, sc, a, n, oom)
  <1>1. ASSUME NEW ok, NEW mm, NEW s2, r = Outcome(ok, mm, s2)
        PROVE  r.ok = ok /\ r.mem = mm /\ r.sc = s2
    BY <1>1 DEF Outcome
  <1>2. r = IF n <= sc.cap[a] THEN Outcome(TRUE, m, sc)
            ELSE IF oom THEN Outcome(FALSE, freed, none)
            ELSE Outcome(TRUE, Alloc(freed, Junk), grown)
    BY Zenon DEF Ensured, FreedFor
  <1> HIDE DEF r, freed, none, grown
  <1>3. n <= sc.cap[a] => r.ok = TRUE /\ r.mem = m /\ r.sc = sc
    <2>1. n <= sc.cap[a] => r = Outcome(TRUE, m, sc)
      BY <1>2, Zenon
    <2> QED
      BY <1>1, <2>1, Zenon
  <1>4. ~(n <= sc.cap[a]) /\ oom => r.ok = FALSE /\ r.mem = freed /\ r.sc = none
    <2>1. ~(n <= sc.cap[a]) /\ oom => r = Outcome(FALSE, freed, none)
      BY <1>2, Zenon
    <2> QED
      BY <1>1, <2>1, Zenon
  <1>5. ~(n <= sc.cap[a]) /\ ~oom
          => r.ok = TRUE /\ r.mem = Alloc(freed, Junk) /\ r.sc = grown
    <2>1. ~(n <= sc.cap[a]) /\ ~oom => r = Outcome(TRUE, Alloc(freed, Junk), grown)
      BY <1>2, Zenon
    <2> QED
      BY <1>1, <2>1, Zenon
  <1> QED
    BY <1>3, <1>4, <1>5, Zenon DEF EnsuredAs, r, freed, none, grown

(* ensure fails only when its allocation does.                             *)
LEMMA EnsureFailsOnlyOnWant ==
  ASSUME NEW m, NEW sc, NEW a, NEW n, NEW oom, ~Ensured(m, sc, a, n, oom).ok
  PROVE  oom
  <1> DEFINE r == Ensured(m, sc, a, n, oom)
  <1>1. EnsuredAs(r, m, sc, a, n, oom)
    BY EnsuredCases
  <1> HIDE DEF r
  <1>2. n <= sc.cap[a] \/ (~(n <= sc.cap[a]) /\ ~oom) => r.ok = TRUE
    BY <1>1, Zenon DEF EnsuredAs
  <1> QED
    BY <1>2, Zenon DEF r

(* scratch::ensure and its kin, whether the allocation fails or not.       *)
LEMMA EnsuredIsSound ==
  ASSUME NEW m, NEW ds, NEW ss, NEW g \in Nat, Sound(m, ds, ss, {}, g),
         NEW s \in Scratches, NEW a \in Array, NEW n \in Nat \ {0}, NEW oom \in BOOLEAN,
         NEW r, r = Ensured(m, ss[s], a, n, oom)
  PROVE  /\ Sound(r.mem, ds, [ss EXCEPT ![s] = r.sc], {}, g)
         /\ r.ok \in BOOLEAN
         /\ r.ok => r.sc.blk[a] \in Blocks
         /\ \A b \in Array \ {a} : r.sc.blk[b] = ss[s].blk[b]
  <1> DEFINE freed == Release(m, ss[s].blk[a])
             none  == [ss[s] EXCEPT !.blk[a] = None, !.cap[a] = 0]
             grown == [ss[s] EXCEPT !.blk[a] = NewBlock(freed), !.cap[a] = n]
             tt    == WithArray(ss, s, a, None, 0)
  <1>0. /\ n <= ss[s].cap[a] => r.ok = TRUE /\ r.mem = m /\ r.sc = ss[s]
        /\ ~(n <= ss[s].cap[a]) /\ oom => r.ok = FALSE /\ r.mem = freed /\ r.sc = none
        /\ ~(n <= ss[s].cap[a]) /\ ~oom
             => r.ok = TRUE /\ r.mem = Alloc(freed, Junk) /\ r.sc = grown
    <2>1. EnsuredAs(r, m, ss[s], a, n, oom)
      BY EnsuredCases
    <2> QED
      BY <2>1, Zenon DEF EnsuredAs
  <1>1. ss \in [Scratches -> Scr] /\ ss[s] \in Scr
    BY DEF Sound, Typed
  <1>2. Sound(freed, ds, tt, {}, g)
    BY FreeArrayIsSound
  <1>3. tt = [ss EXCEPT ![s] = none] /\ \A b \in Array \ {a} : none.blk[b] = ss[s].blk[b]
    BY <1>1 DEF WithArray, Scr
  <1>4. CASE n <= ss[s].cap[a]
    <2>2. [ss EXCEPT ![s] = ss[s]] = ss
      BY <1>1
    <2>3. ss[s].blk[a] \in Blocks
      BY <1>1, <1>4 DEF Scr, Ref
    <2>4. r.mem = m /\ r.sc = ss[s] /\ r.ok
      BY <1>4, <1>0, Zenon
    <2> QED
      BY <2>2, <2>3, <2>4
  <1>5. CASE ~(n <= ss[s].cap[a]) /\ oom
    <2>1. r.mem = freed /\ r.sc = none /\ r.ok = FALSE
      BY <1>5, <1>0, Zenon
    <2>2. ~r.ok /\ r.ok \in BOOLEAN
      BY <2>1
    <2> HIDE DEF freed, none, tt
    <2> QED
      BY <1>2, <1>3, <2>1, <2>2
  <1>6. CASE ~(n <= ss[s].cap[a]) /\ ~oom
    <2>1. r.mem = Alloc(freed, Junk) /\ r.sc = grown /\ r.ok = TRUE
      BY <1>6, <1>0, Zenon
    <2>2. r.mem = Alloc(freed, Junk) /\ r.sc = grown /\ r.ok /\ r.ok \in BOOLEAN
      BY <2>1
    <2>3. tt[s].blk[a] = None
      BY <1>1 DEF WithArray, Scr
    <2>4. WithArray(tt, s, a, NewBlock(freed), n) = [ss EXCEPT ![s] = grown]
      BY ZenonT(90), <1>1 DEF WithArray, Scr
    <2>5. /\ grown.blk[a] = NewBlock(freed)
          /\ \A b \in Array \ {a} : grown.blk[b] = ss[s].blk[b]
      BY <1>1 DEF Scr
    <2> HIDE DEF freed, none, grown, tt
    <2>6. /\ Sound(Alloc(freed, Junk), ds, WithArray(tt, s, a, NewBlock(freed), n), {}, g)
          /\ NewBlock(freed) \in Blocks
      BY <1>2, <2>3, GrowArrayIsSound
    <2> QED
      BY <2>2, <2>4, <2>5, <2>6
  <1> QED
    BY <1>4, <1>5, <1>6

-----------------------------------------------------------------------------
(* ... or exchanges what a document owns, Mine, for what dc is to own: the *)
(* blocks that dc takes are the document's or the call's, and the call is  *)
(* left with the rest, of content h.                                       *)
Mine(dc)  == IF dc.borrowed THEN {} ELSE {dc.vals, dc.pool} \ {None}
Apart(dc) == dc.vals = dc.pool => dc.vals = None \/ dc.borrowed

LEMMA DocApart ==
  ASSUME NEW m, NEW ds, NEW ss, NEW new, NEW g, Sound(m, ds, ss, new, g), NEW d \in Docs
  PROVE  /\ ds[d] \in Doc /\ Apart(ds[d])
         /\ Mine(ds[d]) \subseteq Blocks \ Caller /\ Mine(ds[d]) \cap new = {}
         /\ \A b \in Mine(ds[d]) : m[b] = ds[d].gen /\ m[b] # Free
  <1>1. ds[d] \in Doc
    BY DEF Sound, Typed
  <1>2. Apart(ds[d])
    <2>1. ASSUME ~ds[d].borrowed, ds[d].vals = ds[d].pool, ds[d].vals # None PROVE FALSE
      <3>1. FieldByField(ds, ss) /\ <<d, "vals">> # <<d, "pool">>
        BY FieldOf
      <3>2. /\ <<d, "vals">> \in Fields /\ OwnedBy(ds, ss, <<d, "vals">>) = ds[d].vals
            /\ <<d, "pool">> \in Fields /\ OwnedBy(ds, ss, <<d, "pool">>) = ds[d].pool
        BY <2>1, <3>1 DEF FieldByField
      <3> QED
        BY <2>1, <3>1, <3>2 DEF Sound, NoneShared
    <2> QED
      BY <2>1 DEF Apart
  <1>3. ASSUME NEW b \in Mine(ds[d])
        PROVE  b \in Blocks \ Caller /\ b \notin new /\ m[b] = ds[d].gen /\ m[b] # Free
    <2>1. ~ds[d].borrowed /\ b \in {ds[d].vals, ds[d].pool} /\ b # None
      BY DEF Mine
    <2>2. b \in Blocks \ Caller /\ b \notin new /\ m[b] # Free
      BY <2>1, OwnedApart
    <2> QED
      BY <2>1, <2>2 DEF Sound, Kept
  <1> QED
    BY <1>1, <1>2, <1>3

LEMMA ExchangeIsSound ==
  ASSUME NEW m, NEW ds, NEW ss, NEW new, NEW g, Sound(m, ds, ss, new, g), NEW d \in Docs,
         NEW dc \in Doc, Apart(dc), NEW rest, NEW h,
         Mine(dc) \subseteq new \cup Mine(ds[d]),
         rest = (new \cup Mine(ds[d])) \ Mine(dc),
         \A b \in Mine(dc) : m[b] = dc.gen,
         \A b \in rest : m[b] = h
  PROVE  Sound(m, WithDoc(ds, d, dc), ss, rest, h)
  <1> DEFINE es     == WithDoc(ds, d, dc)
             dv     == <<d, "vals">>
             dp     == <<d, "pool">>
             others == {OwnedBy(ds, ss, f) : f \in Fields \ {dv, dp}}
  <1>1. ds \in [Docs -> Doc]
    BY DEF Sound, Typed
  <1>2. DocIs(ds, ss, d, dc) /\ FieldByField(ds, ss) /\ dv # dp
    BY <1>1, DocField, FieldOf, Zenon
  <1>3. /\ ds[d] \in Doc /\ Mine(ds[d]) \subseteq Blocks \ Caller /\ Mine(ds[d]) \cap new = {}
        /\ \A b \in Mine(ds[d]) : m[b] # Free
    BY DocApart
  <1>4. /\ es \in [Docs -> Doc] /\ es[d] = dc /\ \A e \in Docs \ {d} : es[e] = ds[e]
        /\ dv \in Fields /\ dp \in Fields
        /\ \A f \in Fields \ {dv, dp} : OwnedBy(es, ss, f) = OwnedBy(ds, ss, f)
        /\ OwnedBy(es, ss, dv) = IF dc.borrowed THEN None ELSE dc.vals
        /\ OwnedBy(es, ss, dp) = IF dc.borrowed THEN None ELSE dc.pool
        /\ OwnedBy(ds, ss, dv) = IF ds[d].borrowed THEN None ELSE ds[d].vals
        /\ OwnedBy(ds, ss, dp) = IF ds[d].borrowed THEN None ELSE ds[d].pool
    <2>1. es[d] = dc /\ \A e \in Docs \ {d} : es[e] = ds[e]
      BY <1>1 DEF WithDoc
    <2>2. dv \in Fields /\ dp \in Fields
      BY <1>2 DEF FieldByField
    <2>3. /\ OwnedBy(ds, ss, dv) = IF ds[d].borrowed THEN None ELSE ds[d].vals
          /\ OwnedBy(ds, ss, dp) = IF ds[d].borrowed THEN None ELSE ds[d].pool
      BY <1>2 DEF FieldByField
    <2> HIDE DEF dv, dp, es
    <2> QED
      BY <1>2, <2>1, <2>2, <2>3 DEF DocIs, es, dv, dp
  <1> HIDE DEF es, dv, dp
  <1>5. \A b : b \in Blocks => b # None
    BY DEF Blocks, None
  <1>6. others \cap (new \cup Mine(ds[d]) \cup Caller) = {}
    BY <1>4, <1>5 DEF Sound, NoneShared, Mine, Caller, Buffer, Store, None
  <1>7. ASSUME NEW b \in Blocks
        PROVE  /\ (\E f \in Fields : OwnedBy(ds, ss, f) = b) <=> b \in others \cup Mine(ds[d])
               /\ (\E f \in Fields : OwnedBy(es, ss, f) = b) <=> b \in others \cup Mine(dc)
    <2>1. b # None
      BY <1>5
    <2>2. (\E f \in Fields : OwnedBy(ds, ss, f) = b) <=> b \in others \cup Mine(ds[d])
      BY <1>4, <2>1 DEF Mine
    <2>3. (\E f \in Fields : OwnedBy(es, ss, f) = b) <=> b \in others \cup Mine(dc)
      BY <1>4, <2>1 DEF Mine
    <2> QED
      BY <2>2, <2>3
  <1>8. new \subseteq Blocks \ Caller
    BY DEF Sound, Typed
  <1>9. Typed(m, es, ss, rest)
    BY <1>3, <1>4, <1>8 DEF Sound, Typed
  <1>10. NoneLost(m, es, ss, rest)
    <2> HIDE DEF others
    <2> SUFFICES ASSUME NEW b \in Blocks \ Caller
                 PROVE  m[b] # Free <=> b \in rest \/ \E f \in Fields : OwnedBy(es, ss, f) = b
      BY DEF NoneLost
    <2>1. m[b] # Free <=> b \in new \/ \E f \in Fields : OwnedBy(ds, ss, f) = b
      BY DEF Sound, NoneLost
    <2> QED
      BY <1>7, <2>1
  <1>11. NoneShared(es, ss, rest)
    <2>1. \A f \in Fields : OwnedBy(es, ss, f) \notin rest \cup Caller
      <3> SUFFICES ASSUME NEW f \in Fields PROVE OwnedBy(es, ss, f) \notin rest \cup Caller
        OBVIOUS
      <3>1. None \notin rest \cup Caller
        BY <1>3, <1>5, <1>8 DEF Caller, Buffer, Store, None
      <3>2. Mine(dc) \cap (rest \cup Caller) = {}
        BY <1>3, <1>8
      <3>3. OwnedBy(es, ss, f) \in others \cup Mine(dc) \cup {None}
        BY <1>4 DEF Mine
      <3>4. others \cap (rest \cup Caller) = {}
        BY <1>6
      <3> QED
        BY <3>1, <3>2, <3>3, <3>4
    <2>2. ASSUME NEW f \in Fields, NEW k \in Fields,
                 OwnedBy(es, ss, f) = OwnedBy(es, ss, k), OwnedBy(es, ss, f) # None
          PROVE  f = k
      <3>1. others \cap Mine(dc) = {}
        BY <1>6
      <3>2. \A j \in Fields : \/ j \in Fields \ {dv, dp} /\ OwnedBy(es, ss, j) \in others
                              \/ j \in {dv, dp} /\ OwnedBy(es, ss, j) \in Mine(dc) \cup {None}
        BY <1>4 DEF Mine
      <3>3. CASE f \notin {dv, dp}
        <4>1. k \notin {dv, dp}
          BY <2>2, <3>1, <3>2, <3>3
        <4> QED
          BY <1>4, <2>2, <3>3, <4>1 DEF Sound, NoneShared
      <3>4. CASE f \in {dv, dp}
        <4>1. k \in {dv, dp}
          BY <2>2, <3>1, <3>2, <3>4
        <4> QED
          BY <1>4, <2>2, <3>4, <4>1 DEF Apart
      <3> QED
        BY <3>3, <3>4
    <2> QED
      BY <2>1, <2>2 DEF NoneShared
  <1>12. Kept(m, es, rest, h)
    <2>1. \A e \in Docs \ {d} : es[e] = ds[e]
      BY <1>4
    <2>2. ~dc.borrowed => /\ dc.vals # None => m[dc.vals] = dc.gen
                          /\ dc.pool # None => m[dc.pool] = dc.gen
      BY DEF Mine
    <2> QED
      BY <1>4, <2>1, <2>2 DEF Sound, Kept
  <1> QED
    BY <1>9, <1>10, <1>11, <1>12 DEF Sound, es

(* What a document owned is released: doc::release.                        *)
LEMMA DropIsSound ==
  ASSUME NEW m, NEW ds, NEW ss, NEW g \in Nat, NEW dc \in Doc, Apart(dc),
         Sound(m, ds, ss, Mine(dc), g)
  PROVE  Sound(Dropped(m, dc), ds, ss, {}, g)
  <1>1. CASE dc.borrowed
    BY <1>1 DEF Dropped, Mine
  <1>2. CASE ~dc.borrowed
    <2> DEFINE v == Release(m, dc.vals)
    <2>1. Dropped(m, dc) = Release(v, dc.pool)
      BY <1>2 DEF Dropped
    <2>2. Sound(v, ds, ss, Mine(dc) \ {dc.vals}, g)
      <3>1. CASE dc.vals = None
        BY <3>1 DEF Release, Mine
      <3>2. CASE dc.vals # None
        <4>1. dc.vals \in Mine(dc)
          BY <1>2, <3>2 DEF Mine
        <4> QED
          BY <4>1, GiveBackIsSound
      <3> QED
        BY <3>1, <3>2
    <2> HIDE DEF v
    <2>3. CASE dc.pool = None
      <3>1. Mine(dc) \ {dc.vals} = {} /\ Release(v, dc.pool) = v
        BY <2>3 DEF Mine, Release
      <3> QED
        BY <2>1, <2>2, <3>1
    <2>4. CASE dc.pool # None
      <3>1. dc.pool \in Mine(dc) \ {dc.vals} /\ (Mine(dc) \ {dc.vals}) \ {dc.pool} = {}
        BY <1>2, <2>4 DEF Mine, Apart
      <3>2. Sound(Release(v, dc.pool), ds, ss, (Mine(dc) \ {dc.vals}) \ {dc.pool}, g)
        BY <2>2, <3>1, GiveBackIsSound
      <3> QED
        BY <2>1, <3>1, <3>2
    <2> QED
      BY <2>3, <2>4
  <1> QED
    BY <1>1, <1>2

(* What a call hands over, dc, takes the place of what d was: operator=.   *)
LEMMA ReplaceIsSound ==
  ASSUME NEW m, NEW ds, NEW ss, NEW g, NEW d \in Docs, NEW dc \in Doc, Apart(dc),
         Sound(m, ds, ss, Mine(dc), g), Mine(dc) # {} => dc.gen = g
  PROVE  Sound(Dropped(m, ds[d]), WithDoc(ds, d, dc), ss, {}, 0)
  <1> DEFINE old == ds[d]
             h   == old.gen
  <1>1. /\ old \in Doc /\ Apart(old) /\ Mine(old) \cap Mine(dc) = {}
        /\ \A b \in Mine(old) : m[b] = h
    BY DocApart
  <1>2. h \in Nat
    BY <1>1 DEF Doc
  <1>3. \A b \in Mine(dc) : m[b] = dc.gen
    BY DEF Sound, Kept
  <1>4. Mine(old) = (Mine(dc) \cup Mine(ds[d])) \ Mine(dc)
    BY <1>1
  <1> HIDE DEF h
  <1>5. Sound(m, WithDoc(ds, d, dc), ss, Mine(old), h)
    BY <1>1, <1>3, <1>4, ExchangeIsSound
  <1> HIDE DEF old
  <1>6. Sound(Dropped(m, old), WithDoc(ds, d, dc), ss, {}, h)
    BY <1>1, <1>2, <1>5, DropIsSound
  <1> QED
    BY <1>6 DEF old, Sound, Typed, NoneLost, NoneShared, Kept

LEMMA NoDocIsDoc == NoDoc \in Doc /\ Mine(NoDoc) = {} /\ Apart(NoDoc) /\ NoDoc.gen = 0
  BY DEF NoDoc, Doc, Mine, Apart, Ref

-----------------------------------------------------------------------------
(* The parsers, step by step, with the scratch they use.                   *)
WithScr(ss, s, sc) == [ss EXCEPT ![s] = sc]

(* The call in progress: its scratch, the arrays of it that it uses, the   *)
(* storage of the caller that it writes, and what it writes.  It touches   *)
(* no block but these and free ones.                                       *)
Call == [s : Scratches, uses : SUBSET Array, more : SUBSET Caller, g : Nat]

Fresh(g) == {Free, Junk, g}
Reach(c) == {b \in Blocks : mem[b] = Free} \cup {scr[c.s].blk[a] : a \in c.uses} \cup c.more

OnlyTouches(c, m) ==
  \A b \in Blocks :
    \/ m[b] = mem[b]
    \/ b \in Reach(c) /\ m[b] \in Fresh(c.g)

(* An array of the scratch is where it was, or has left its block, in      *)
(* which nothing older than the call is to be found.                       *)
ArraysLeft(c, m, sc) ==
  \A a \in Array :
    \/ sc.blk[a] = scr[c.s].blk[a]
    \/ /\ sc.blk[a] \in Reach(c) \cup {None}
       /\ scr[c.s].blk[a] # None => m[scr[c.s].blk[a]] \in Fresh(c.g)

During(c, m, sc, new) ==
  /\ Sound(m, docs, WithScr(scr, c.s, sc), new, c.g)
  /\ scr \in [Scratches -> Scr] /\ new \subseteq Reach(c)
  /\ OnlyTouches(c, m)
  /\ ArraysLeft(c, m, sc)

LEMMA TouchStep ==
  ASSUME NEW c \in Call, NEW m, NEW sc, NEW new, During(c, m, sc, new),
         NEW b \in Reach(c) \cap Blocks, NEW x \in Fresh(c.g), NEW m2, m2 = [m EXCEPT ![b] = x],
         NEW sc2, NEW rest, rest \subseteq Reach(c),
         Sound(m2, docs, WithScr(scr, c.s, sc2), rest, c.g),
         \A a \in Array :
           \/ sc2.blk[a] = sc.blk[a]
           \/ sc2.blk[a] \in Reach(c) \cup {None} /\ sc.blk[a] \in {b, None}
  PROVE  During(c, m2, sc2, rest)
  <1>1. c.s \in Scratches /\ scr \in [Scratches -> Scr] /\ m \in [Blocks -> Content]
    BY DEF Call, During, Sound, Typed
  <1>2. \A y \in Blocks : m2[y] = IF y = b THEN x ELSE m[y]
    BY <1>1
  <1>3. \A a \in Array : scr[c.s].blk[a] # None => scr[c.s].blk[a] \in Blocks
    BY <1>1 DEF Scr, Ref
  <1>4. OnlyTouches(c, m2)
    BY <1>2 DEF During, OnlyTouches
  <1>5. ArraysLeft(c, m2, sc2)
    BY <1>2, <1>3 DEF During, ArraysLeft
  <1> QED
    BY <1>1, <1>4, <1>5 DEF During

LEMMA AllocStep ==
  ASSUME NEW c \in Call, NEW m, NEW sc, NEW new, During(c, m, sc, new),
         IsFiniteSet(new), Cardinality(new) <= 1
  PROVE  /\ During(c, Alloc(m, c.g), sc, new \cup {NewBlock(m)})
         /\ NewBlock(m) \in Blocks \ Caller /\ NewBlock(m) \notin new
  <1> DEFINE nb == NewBlock(m)
             tt == WithScr(scr, c.s, sc)
  <1>1. c.g \in Nat /\ Sound(m, docs, tt, new, c.g)
    BY DEF Call, During
  <1> HIDE DEF tt
  <1>2. nb \in Blocks \ Caller /\ m[nb] = Free
    BY <1>1, NewBlockIsFree
  <1>3. Sound(Alloc(m, c.g), docs, tt, new \cup {nb}, c.g) /\ nb \notin new
    BY <1>1, AllocIsSound
  <1>4. nb \in Reach(c) /\ new \cup {nb} \subseteq Reach(c)
    BY <1>2 DEF During, OnlyTouches, Reach
  <1>5. Alloc(m, c.g) = [m EXCEPT ![nb] = c.g] /\ c.g \in Fresh(c.g)
    BY DEF Alloc, Fresh
  <1> HIDE DEF nb
  <1>6. During(c, Alloc(m, c.g), sc, new \cup {nb})
    BY <1>2, <1>3, <1>4, <1>5, TouchStep DEF tt
  <1> QED
    BY <1>2, <1>3, <1>6 DEF nb

LEMMA GiveBackStep ==
  ASSUME NEW c \in Call, NEW m, NEW sc, NEW new, During(c, m, sc, new), NEW b \in new
  PROVE  During(c, Release(m, b), sc, new \ {b})
  <1> DEFINE tt == WithScr(scr, c.s, sc)
  <1>1. c.g \in Nat /\ Sound(m, docs, tt, new, c.g)
    BY DEF Call, During
  <1> HIDE DEF tt
  <1>2. Sound(Release(m, b), docs, tt, new \ {b}, c.g)
    BY <1>1, GiveBackIsSound
  <1>3. b \in Blocks \ Caller /\ b # None /\ m[b] = c.g /\ c.g # Free
    BY <1>1 DEF Sound, Typed, Kept, Blocks, None, Free
  <1>4. Release(m, b) = [m EXCEPT ![b] = Free] /\ Free \in Fresh(c.g)
    BY <1>1, <1>3 DEF Release, Sound, Typed, Fresh
  <1>5. b \in Reach(c) /\ new \ {b} \subseteq Reach(c)
    BY DEF During
  <1>6. PICK m2, rest : m2 = Release(m, b) /\ rest = new \ {b}
    OBVIOUS
  <1>7. PICK x \in Fresh(c.g) : x = Free
    BY <1>4
  <1>8. /\ b \in Reach(c) \cap Blocks /\ m2 = [m EXCEPT ![b] = x] /\ rest \subseteq Reach(c)
        /\ Sound(m2, docs, WithScr(scr, c.s, sc), rest, c.g)
    BY <1>2, <1>3, <1>4, <1>5, <1>6, <1>7 DEF tt
  <1>9. During(c, m2, sc, rest)
    BY <1>8, TouchStep
  <1> QED
    BY <1>6, <1>9

LEMMA WriteStep ==
  ASSUME NEW c \in Call, NEW m, NEW sc, NEW new, During(c, m, sc, new),
         NEW b \in Blocks, b \in c.more \/ \E a \in c.uses : sc.blk[a] = b
  PROVE  During(c, Write(m, b, c.g), sc, new)
  <1> DEFINE tt == WithScr(scr, c.s, sc)
  <1>1. /\ c.g \in Nat /\ c.s \in Scratches /\ c.uses \subseteq Array /\ c.more \subseteq Caller
        /\ Sound(m, docs, tt, new, c.g) /\ tt[c.s] = sc
    BY DEF Call, During, WithScr
  <1>2. b # None
    BY DEF Blocks, None
  <1>3. b \in Reach(c)
    BY <1>1, <1>2 DEF During, ArraysLeft, Reach
  <1>4. b \in Caller \/ \E s \in Scratches, a \in Array : tt[s].blk[a] = b
    BY <1>1
  <1> HIDE DEF tt
  <1>5. Sound(Write(m, b, c.g), docs, tt, new, c.g)
    BY <1>1, <1>4, WriteIsSound
  <1>6. Write(m, b, c.g) = [m EXCEPT ![b] = c.g] /\ c.g \in Fresh(c.g) /\ new \subseteq Reach(c)
    BY DEF Write, Fresh, During
  <1> QED
    BY <1>3, <1>5, <1>6, TouchStep DEF tt

Ensures(c, sc, a, fault, r) ==
  /\ During(c, r.mem, r.sc, {})
  /\ r.ok \in BOOLEAN /\ (r.ok \/ fault = a)
  /\ r.ok => r.sc.blk[a] \in Blocks
  /\ \A b \in Array \ {a} : r.sc.blk[b] = sc.blk[b]

(* scratch::ensure, ensure_pool and ensure_vals.                           *)
LEMMA EnsureStep ==
  ASSUME NEW c \in Call, NEW m, NEW sc, During(c, m, sc, {}),
         NEW a \in c.uses, NEW n \in Nat \ {0}, NEW fault,
         NEW r, r = Ensured(m, sc, a, n, fault = a)
  PROVE  Ensures(c, sc, a, fault, r)
  <1> DEFINE s     == c.s
             g     == c.g
             tt    == WithScr(scr, s, sc)
             lack  == fault = a
             b     == sc.blk[a]
             freed == Release(m, b)
             none  == [sc EXCEPT !.blk[a] = None, !.cap[a] = 0]
             nb    == NewBlock(freed)
             grown == [sc EXCEPT !.blk[a] = nb, !.cap[a] = n]
  <1>1. /\ s \in Scratches /\ g \in Nat /\ a \in Array /\ scr \in [Scratches -> Scr]
        /\ tt[s] = sc /\ sc \in Scr /\ Sound(m, docs, tt, {}, g)
        /\ \A sc2 : [tt EXCEPT ![s] = sc2] = WithScr(scr, s, sc2)
    BY DEF Call, During, WithScr, Sound, Typed
  <1>2. r.ok \/ fault = a
    BY EnsureFailsOnlyOnWant, Zenon
  <1>3. /\ Sound(r.mem, docs, WithScr(scr, s, r.sc), {}, g)
        /\ r.ok \in BOOLEAN
        /\ r.ok => r.sc.blk[a] \in Blocks
        /\ \A x \in Array \ {a} : r.sc.blk[x] = sc.blk[x]
    <2>1. r = Ensured(m, tt[s], a, n, lack) /\ lack \in BOOLEAN
      BY <1>1
    <2> HIDE DEF tt, lack, s, g
    <2>2. /\ Sound(r.mem, docs, [tt EXCEPT ![s] = r.sc], {}, g)
          /\ r.ok \in BOOLEAN
          /\ r.ok => r.sc.blk[a] \in Blocks
          /\ \A x \in Array \ {a} : r.sc.blk[x] = tt[s].blk[x]
      BY <1>1, <2>1, EnsuredIsSound
    <2> QED
      BY <1>1, <2>2
  <1>4. \/ r.mem = m /\ r.sc = sc
        \/ r.mem = freed /\ r.sc = none
        \/ r.mem = Alloc(freed, Junk) /\ r.sc = grown
    <2>1. EnsuredAs(r, m, sc, a, n, fault = a)
      BY EnsuredCases
    <2> QED
      BY <2>1, Zenon DEF EnsuredAs
  <1>5. /\ none.blk = [sc.blk EXCEPT ![a] = None] /\ grown.blk = [sc.blk EXCEPT ![a] = nb]
        /\ sc.blk \in [Array -> Ref]
    BY <1>1 DEF Scr
  <1>6. /\ Sound(freed, docs, WithScr(scr, s, none), {}, g)
        /\ b # None => b \in Blocks /\ freed = [m EXCEPT ![b] = Free]
    <2>1. WithArray(tt, s, a, None, 0) = WithScr(scr, s, none)
      BY <1>1 DEF WithArray
    <2> HIDE DEF tt, s, g, none
    <2>2. /\ Sound(Release(m, tt[s].blk[a]), docs, WithArray(tt, s, a, None, 0), {}, g)
          /\ tt[s].blk[a] # None =>
               /\ tt[s].blk[a] \in Blocks
               /\ Release(m, tt[s].blk[a]) = [m EXCEPT ![tt[s].blk[a]] = Free]
      BY <1>1, FreeArrayIsSound
    <2> QED
      BY <1>1, <2>1, <2>2
  <1>7. {} \subseteq Reach(c) /\ Free \in Fresh(g) /\ Junk \in Fresh(g)
    BY DEF Fresh
  <1> HIDE DEF freed, none, grown, nb
  <1>8. During(c, freed, none, {})
    <2>1. CASE b = None
      <3>1. freed = m /\ \A x \in Array : none.blk[x] = sc.blk[x]
        BY <1>1, <1>5, <2>1 DEF Release, freed
      <3> QED
        BY <1>6, <3>1 DEF During, OnlyTouches, ArraysLeft
    <2>2. CASE b # None
      <3>1. b \in Reach(c)
        BY <1>1, <2>2 DEF During, ArraysLeft, Reach
      <3>2. \A x \in Array : \/ none.blk[x] = sc.blk[x]
                             \/ none.blk[x] \in Reach(c) \cup {None} /\ sc.blk[x] \in {b, None}
        BY <1>5
      <3> HIDE DEF b
      <3> QED
        BY <1>6, <1>7, <2>2, <3>1, <3>2, TouchStep
    <2> QED
      BY <2>1, <2>2
  <1>9. CASE r.mem = Alloc(freed, Junk) /\ r.sc = grown
    <2>1. nb \in Blocks /\ freed[nb] = Free
      BY <1>6, FS_EmptySet, NewBlockIsFree DEF nb
    <2>2. nb \in Reach(c)
      BY <1>8, <2>1 DEF During, OnlyTouches, Reach
    <2>3. Alloc(freed, Junk) = [freed EXCEPT ![nb] = Junk]
      BY DEF Alloc, nb
    <2>4. \A x \in Array : \/ grown.blk[x] = none.blk[x]
                           \/ grown.blk[x] \in Reach(c) \cup {None} /\ none.blk[x] \in {nb, None}
      BY <1>5, <2>2
    <2>5. Sound(Alloc(freed, Junk), docs, WithScr(scr, s, grown), {}, g)
      BY <1>3, <1>9
    <2> HIDE DEF b
    <2>6. PICK m2, rest : m2 = Alloc(freed, Junk) /\ rest = {}
      OBVIOUS
    <2>7. PICK x \in Fresh(g) : x = Junk
      BY <1>7
    <2>8. /\ nb \in Reach(c) \cap Blocks /\ m2 = [freed EXCEPT ![nb] = x] /\ rest \subseteq Reach(c)
          /\ Sound(m2, docs, WithScr(scr, s, grown), rest, g)
      BY <2>1, <2>2, <2>3, <2>5, <2>6, <2>7
    <2>9. During(c, m2, grown, rest)
      BY <1>8, <2>4, <2>8, TouchStep
    <2> QED
      BY <1>9, <2>6, <2>9, <1>2, <1>3 DEF Ensures
  <1> QED
    BY <1>2, <1>3, <1>4, <1>8, <1>9 DEF Ensures

(* The first ensure of every call, for the indexes.                        *)
LEMMA EnsureFirst ==
  ASSUME NEW c \in Call, "idx" \in c.uses, Sound(mem, docs, scr, {}, c.g),
         NEW n \in Nat \ {0}, NEW fault,
         NEW i, i = Ensured(mem, scr[c.s], "idx", n, fault = "idx")
  PROVE  Ensures(c, scr[c.s], "idx", fault, i)
  <1>1. scr \in [Scratches -> Scr] /\ WithScr(scr, c.s, scr[c.s]) = scr
    BY DEF Sound, Typed, WithScr
  <1>2. During(c, mem, scr[c.s], {})
    BY <1>1 DEF During, OnlyTouches, ArraysLeft
  <1> QED
    BY <1>2, EnsureStep

LEMMA EnsureIndex ==
  ASSUME NEW c \in Call, "idx" \in c.uses, Sound(mem, docs, scr, {}, c.g),
         NEW n \in Nat \ {0}, NEW fault,
         NEW i, i = Ensured(mem, scr[c.s], "idx", n, fault = "idx")
  PROVE  /\ During(c, i.mem, i.sc, {})
         /\ i.ok \in BOOLEAN /\ (i.ok \/ fault = "idx")
         /\ i.ok => i.sc.blk["idx"] \in Blocks
         /\ \A b \in Array \ {"idx"} : i.sc.blk[b] = scr[c.s].blk[b]
  <1>1. Ensures(c, scr[c.s], "idx", fault, i)
    BY EnsureFirst
  <1> QED
    BY <1>1 DEF Ensures

(* What a parser leaves: the document it returns owns what it allocated,   *)
(* or borrows arrays of the scratch.                                       *)
LentBy(dc, sc) == dc.vals = sc.blk["vals"] /\ dc.pool \in {None, sc.blk["pool"]}

ParseIsSound(c, r) ==
  /\ r.ok \in BOOLEAN
  /\ r.doc \in Doc /\ Apart(r.doc) /\ (r.ok => r.doc.gen = c.g)
  /\ r.doc.borrowed => LentBy(r.doc, r.sc)
  /\ During(c, r.mem, r.sc, IF r.ok THEN Mine(r.doc) ELSE {})

LEMMA FailedIsSound ==
  ASSUME NEW c, NEW m, NEW sc, During(c, m, sc, {})
  PROVE  ParseIsSound(c, Failed(m, sc))
  BY NoDocIsDoc DEF ParseIsSound, Failed, NoDoc

LEMMA ParsedIsSound ==
  ASSUME NEW c, NEW m, NEW sc, NEW dc \in Doc, Apart(dc), dc.gen = c.g,
         dc.borrowed => LentBy(dc, sc), During(c, m, sc, Mine(dc))
  PROVE  ParseIsSound(c, Parsed(m, sc, dc))
  BY DEF ParseIsSound, Parsed

LEMMA OwningIsSound ==
  ASSUME NEW c \in Call, "idx" \in c.uses, Sound(mem, docs, scr, {}, c.g),
         NEW n \in Nat \ {0}, NEW fault \in Fault
  PROVE  ParseIsSound(c, Owning(scr[c.s], c.g, n, fault))
  <1> DEFINE g     == c.g
             sc0   == scr[c.s]
             r     == Owning(sc0, g, n, fault)
             i     == Ensured(mem, sc0, "idx", n, fault = "idx")
             pool  == NewBlock(i.mem)
             read  == Write(Alloc(i.mem, g), i.sc.blk["idx"], g)
             vals  == NewBlock(read)
             both  == Alloc(read, g)
             dc    == [NoDoc EXCEPT !.vals = vals, !.pool = pool, !.gen = g]
             S(m, new) == During(c, m, i.sc, new)
  <1>1. r = CASE ~i.ok            -> Failed(i.mem, i.sc)
              [] fault = "pool"   -> Failed(i.mem, i.sc)
              [] fault = "scan"   -> Failed(Release(read, pool), i.sc)
              [] fault = "vals"   -> Failed(Release(read, pool), i.sc)
              [] fault = "build"  -> Failed(Release(Release(both, vals), pool), i.sc)
              [] OTHER            -> Parsed(both, i.sc, dc)
    BY DEF Owning
  <1>2. /\ S(i.mem, {}) /\ i.ok \in BOOLEAN /\ (i.ok \/ fault = "idx")
        /\ i.ok => i.sc.blk["idx"] \in Blocks
    BY EnsureIndex
  <1> HIDE DEF r, i
  <1>3. CASE ~i.ok \/ fault = "pool"
    <2>1. r = Failed(i.mem, i.sc)
      BY <1>1, <1>2, <1>3
    <2> QED
      BY <1>2, <2>1, FailedIsSound DEF r
  <1>4. CASE i.ok /\ fault # "pool"
    <2>1. S(Alloc(i.mem, g), {pool})
      BY <1>2, FS_EmptySet, AllocStep
    <2>2. S(read, {pool})
      BY <1>2, <1>4, <2>1, WriteStep
    <2> HIDE DEF read
    <2>3. S(Release(read, pool), {})
      BY <2>2, GiveBackStep
    <2>4. /\ S(both, {pool, vals})
          /\ vals \in Blocks \ Caller /\ vals # pool
      <3>1. IsFiniteSet({pool}) /\ Cardinality({pool}) <= 1
        BY OneCounts, Zenon
      <3>2. /\ S(both, {pool} \cup {vals})
            /\ vals \in Blocks \ Caller /\ vals \notin {pool}
        BY <2>2, <3>1, AllocStep
      <3> QED
        BY <3>2
    <2> HIDE DEF both, vals, pool
    <2>5. S(Release(Release(both, vals), pool), {})
      <3>1. S(Release(both, vals), {pool})
        <4>1. S(Release(both, vals), {pool, vals} \ {vals})
          BY <2>4, GiveBackStep
        <4> QED
          BY <2>4, <4>1
      <3> QED
        BY <3>1, GiveBackStep
    <2>6. dc \in Doc /\ Apart(dc) /\ dc.gen = g /\ Mine(dc) = {pool, vals} /\ ~dc.borrowed
      <3>1. pool \in Blocks \ Caller /\ \A b \in Blocks : b # None
        BY <2>1 DEF During, Sound, Typed, Blocks, None
      <3> QED
        BY <2>4, <3>1 DEF NoDoc, Doc, Ref, Apart, Mine, Call
    <2>7. ParseIsSound(c, Parsed(both, i.sc, dc))
      <3> HIDE DEF dc
      <3> QED
        BY <2>4, <2>6, ParsedIsSound
    <2> QED
      BY <1>1, <1>4, <2>3, <2>5, <2>7, FailedIsSound DEF r
  <1> QED
    BY <1>2, <1>3, <1>4

LEMMA ReusingIsSound ==
  ASSUME NEW c \in Call, Array \subseteq c.uses, Sound(mem, docs, scr, {}, c.g),
         NEW n \in Nat \ {0}, NEW fault \in Fault
  PROVE  ParseIsSound(c, Reusing(scr[c.s], c.g, n, fault))
  <1> DEFINE g     == c.g
             sc0   == scr[c.s]
             r     == Reusing(sc0, g, n, fault)
             i     == Ensured(mem, sc0, "idx", n, fault = "idx")
             p     == Ensured(i.mem, i.sc, "pool", n, fault = "pool")
             text  == Write(p.mem, p.sc.blk["pool"], g)
             read  == Write(text, p.sc.blk["idx"], g)
             v     == Ensured(read, p.sc, "vals", n, fault = "vals")
             built == Write(v.mem, v.sc.blk["vals"], g)
             dc    == [NoDoc EXCEPT !.vals = v.sc.blk["vals"], !.pool = v.sc.blk["pool"],
                                    !.borrowed = BorrowedFlag, !.gen = g]
             S(m, sc) == During(c, m, sc, {})
  <1>1. r = CASE ~i.ok           -> Failed(i.mem, i.sc)
              [] ~p.ok           -> Failed(p.mem, p.sc)
              [] fault = "scan"  -> Failed(read, p.sc)
              [] ~v.ok           -> Failed(v.mem, v.sc)
              [] fault = "build" -> Failed(built, v.sc)
              [] OTHER           -> Parsed(built, v.sc, dc)
    BY DEF Reusing
  <1>2. /\ S(i.mem, i.sc) /\ i.ok \in BOOLEAN /\ (i.ok \/ fault = "idx")
        /\ i.ok => i.sc.blk["idx"] \in Blocks
    BY EnsureIndex DEF Array
  <1>3. "idx" \in Array /\ "pool" \in Array /\ "vals" \in Array
    BY DEF Array
  <1> HIDE DEF r, i
  <1>4. Ensures(c, i.sc, "pool", fault, p)
    BY <1>2, <1>3, EnsureStep
  <1> HIDE DEF p
  <1>6. CASE ~i.ok
    <2>1. ~v.ok => fault = "vals"
      BY EnsureFailsOnlyOnWant, Zenon
    <2> HIDE DEF v
    <2>2. r = Failed(i.mem, i.sc)
      BY <1>1, <1>2, <1>4, <1>6, <2>1 DEF Ensures
    <2> QED
      BY <1>2, <2>2, FailedIsSound DEF r
  <1>7. CASE ~p.ok
    <2>1. ~v.ok => fault = "vals"
      BY EnsureFailsOnlyOnWant, Zenon
    <2> HIDE DEF v
    <2>2. r = Failed(p.mem, p.sc)
      BY <1>1, <1>2, <1>4, <1>7, <2>1 DEF Ensures
    <2> QED
      BY <1>4, <2>2, FailedIsSound DEF r, Ensures
  <1>8. CASE i.ok /\ p.ok
    <2>1. /\ p.sc.blk["idx"] \in Blocks /\ p.sc.blk["pool"] \in Blocks
          /\ S(p.mem, p.sc)
      BY <1>2, <1>3, <1>4, <1>8 DEF Ensures
    <2>2. S(text, p.sc)
      BY <1>3, <2>1, WriteStep
    <2> HIDE DEF text
    <2>3. S(read, p.sc)
      BY <1>3, <2>1, <2>2, WriteStep
    <2> HIDE DEF read
    <2>4. Ensures(c, p.sc, "vals", fault, v)
      BY <1>2, <1>3, <2>3, EnsureStep
    <2> HIDE DEF v
    <2>5. CASE fault = "scan"
      <3>1. r = Failed(read, p.sc)
        BY <1>1, <1>8, <2>4, <2>5 DEF Ensures
      <3> QED
        BY <2>3, <3>1, FailedIsSound DEF r
    <2>6. CASE ~v.ok
      <3>1. r = Failed(v.mem, v.sc)
        BY <1>1, <1>8, <2>4, <2>6 DEF Ensures
      <3> QED
        BY <2>4, <3>1, FailedIsSound DEF r, Ensures
    <2>7. CASE fault # "scan" /\ v.ok
      <3>1. v.sc.blk["vals"] \in Blocks /\ v.sc.blk["pool"] \in Blocks
        BY <1>3, <2>1, <2>4, <2>7 DEF Ensures
      <3>3. S(built, v.sc)
        <4>1. S(v.mem, v.sc)
          BY <2>4 DEF Ensures
        <4> QED
          BY <1>3, <3>1, <4>1, WriteStep
      <3>4. dc \in Doc /\ Apart(dc) /\ dc.gen = g /\ Mine(dc) = {} /\ LentBy(dc, v.sc)
        BY <3>1 DEF NoDoc, Doc, Ref, Apart, Mine, BorrowedFlag, LentBy, Call
      <3> HIDE DEF built, dc
      <3>5. ParseIsSound(c, Parsed(built, v.sc, dc))
        BY <3>3, <3>4, ParsedIsSound
      <3>6. ParseIsSound(c, Failed(built, v.sc))
        BY <3>3, FailedIsSound
      <3>7. r = Failed(built, v.sc) \/ r = Parsed(built, v.sc, dc)
        BY <1>1, <1>8, <2>7
      <3> QED
        BY <3>5, <3>6, <3>7 DEF r
    <2> QED
      BY <2>4, <2>5, <2>6, <2>7
  <1> QED
    BY <1>6, <1>7, <1>8, <1>4, <1>2 DEF Ensures

LEMMA InSituIsSound ==
  ASSUME NEW c \in Call, "idx" \in c.uses, Buffer \in c.more, Sound(mem, docs, scr, {}, c.g),
         NEW n \in Nat \ {0}, NEW fault \in Fault
  PROVE  ParseIsSound(c, InSitu(scr[c.s], c.g, n, fault))
  <1> DEFINE g     == c.g
             sc0   == scr[c.s]
             r     == InSitu(sc0, g, n, fault)
             i     == Ensured(mem, sc0, "idx", n, fault = "idx")
             read  == Write(i.mem, i.sc.blk["idx"], g)
             vals  == NewBlock(read)
             arena == Alloc(read, g)
             built == Write(arena, Buffer, g)
             dc    == [NoDoc EXCEPT !.vals = vals, !.alias = Buffer, !.gen = g]
             S(m, new) == During(c, m, i.sc, new)
  <1>1. r = CASE ~i.ok           -> Failed(i.mem, i.sc)
              [] fault \in {"scan", "vals"} -> Failed(read, i.sc)
              [] fault = "build" -> Failed(Release(built, vals), i.sc)
              [] OTHER           -> Parsed(built, i.sc, dc)
    BY DEF InSitu
  <1>2. /\ S(i.mem, {}) /\ i.ok \in BOOLEAN /\ (i.ok \/ fault = "idx")
        /\ i.ok => i.sc.blk["idx"] \in Blocks
    BY EnsureIndex
  <1> HIDE DEF r, i
  <1>3. CASE ~i.ok
    <2>1. r = Failed(i.mem, i.sc)
      BY <1>1, <1>2, <1>3
    <2> QED
      BY <1>2, <2>1, FailedIsSound DEF r
  <1>4. CASE i.ok
    <2>1. S(read, {})
      BY <1>2, <1>4, WriteStep
    <2> HIDE DEF read
    <2>2. S(arena, {vals}) /\ vals \in Blocks \ Caller
      <3>1. S(arena, {} \cup {vals}) /\ vals \in Blocks \ Caller
        BY <2>1, FS_EmptySet, AllocStep
      <3> QED
        BY <3>1
    <2> HIDE DEF arena, vals
    <2>3. S(built, {vals})
      <3>1. Buffer \in Blocks /\ Buffer \in Caller
        BY DocHeapAssumption DEF Blocks, Caller, Buffer
      <3> QED
        BY <2>2, <3>1, WriteStep
    <2>4. dc \in Doc /\ Apart(dc) /\ dc.gen = g /\ Mine(dc) = {vals} /\ ~dc.borrowed
      <3>1. \A b \in Blocks : b # None
        BY DEF Blocks, None
      <3> QED
        BY <2>2, <3>1 DEF NoDoc, Doc, Ref, Apart, Mine, Caller, Call
    <2> HIDE DEF built, dc
    <2>5. ParseIsSound(c, Parsed(built, i.sc, dc))
      BY <2>3, <2>4, ParsedIsSound
    <2>6. ParseIsSound(c, Failed(Release(built, vals), i.sc))
      <3>1. S(Release(built, vals), {vals} \ {vals})
        BY <2>3, GiveBackStep
      <3> QED
        BY <3>1, FailedIsSound
    <2>7. ParseIsSound(c, Failed(read, i.sc))
      BY <2>1, FailedIsSound
    <2>8. \/ r = Failed(read, i.sc) \/ r = Failed(Release(built, vals), i.sc)
          \/ r = Parsed(built, i.sc, dc)
      BY <1>1, <1>4
    <2> QED
      BY <2>5, <2>6, <2>7, <2>8 DEF r
  <1> QED
    BY <1>2, <1>3, <1>4

LEMMA InSituReusingIsSound ==
  ASSUME NEW c \in Call, {"idx", "vals"} \subseteq c.uses, Buffer \in c.more, Sound(mem, docs, scr, {}, c.g),
         NEW n \in Nat \ {0}, NEW fault \in Fault
  PROVE  ParseIsSound(c, InSituReusing(scr[c.s], c.g, n, fault))
  <1> DEFINE g     == c.g
             sc0   == scr[c.s]
             r     == InSituReusing(sc0, g, n, fault)
             i     == Ensured(mem, sc0, "idx", n, fault = "idx")
             read  == Write(i.mem, i.sc.blk["idx"], g)
             v     == Ensured(read, i.sc, "vals", n, fault = "vals")
             arena == Write(v.mem, v.sc.blk["vals"], g)
             built == Write(arena, Buffer, g)
             dc    == [NoDoc EXCEPT !.vals = v.sc.blk["vals"], !.alias = Buffer,
                                    !.borrowed = TRUE, !.gen = g]
             S(m, sc) == During(c, m, sc, {})
  <1>1. r = CASE ~i.ok           -> Failed(i.mem, i.sc)
              [] fault = "scan"  -> Failed(read, i.sc)
              [] ~v.ok           -> Failed(v.mem, v.sc)
              [] fault = "build" -> Failed(built, v.sc)
              [] OTHER           -> Parsed(built, v.sc, dc)
    BY DEF InSituReusing
  <1>2. /\ S(i.mem, i.sc) /\ i.ok \in BOOLEAN /\ (i.ok \/ fault = "idx")
        /\ i.ok => i.sc.blk["idx"] \in Blocks
    BY EnsureIndex
  <1>3. "vals" \in Array
    BY DEF Array
  <1> HIDE DEF r, i
  <1>4. CASE ~i.ok
    <2>1. ~v.ok => fault = "vals"
      BY EnsureFailsOnlyOnWant, Zenon
    <2> HIDE DEF v
    <2>2. r = Failed(i.mem, i.sc)
      BY <1>1, <1>2, <1>4, <2>1
    <2> QED
      BY <1>2, <2>2, FailedIsSound DEF r
  <1>5. CASE i.ok
    <2>1. S(read, i.sc)
      BY <1>2, <1>5, WriteStep
    <2> HIDE DEF read
    <2>2. Ensures(c, i.sc, "vals", fault, v)
      BY <1>2, <1>3, <2>1, EnsureStep
    <2> HIDE DEF v
    <2>3. CASE fault = "scan"
      <3>1. r = Failed(read, i.sc)
        BY <1>1, <1>5, <2>2, <2>3 DEF Ensures
      <3> QED
        BY <2>1, <3>1, FailedIsSound DEF r
    <2>4. CASE ~v.ok
      <3>1. r = Failed(v.mem, v.sc)
        BY <1>1, <1>5, <2>2, <2>4 DEF Ensures
      <3> QED
        BY <2>2, <3>1, FailedIsSound DEF r, Ensures
    <2>5. CASE fault # "scan" /\ v.ok
      <3>1. v.sc.blk["vals"] \in Blocks /\ S(v.mem, v.sc)
        BY <1>2, <2>2, <2>5 DEF Ensures
      <3>2. S(arena, v.sc)
        BY <1>3, <3>1, WriteStep
      <3> HIDE DEF arena
      <3>3. S(built, v.sc)
        <4>1. Buffer \in Blocks /\ Buffer \in Caller
          BY DocHeapAssumption DEF Blocks, Caller, Buffer
        <4> QED
          BY <3>2, <4>1, WriteStep
      <3>4. dc \in Doc /\ Apart(dc) /\ dc.gen = g /\ Mine(dc) = {} /\ LentBy(dc, v.sc)
        BY <3>1 DEF NoDoc, Doc, Ref, Apart, Mine, Caller, LentBy, Call
      <3> HIDE DEF built, dc
      <3>5. ParseIsSound(c, Parsed(built, v.sc, dc))
        BY <3>3, <3>4, ParsedIsSound
      <3>6. ParseIsSound(c, Failed(built, v.sc))
        BY <3>3, FailedIsSound
      <3>7. r = Failed(built, v.sc) \/ r = Parsed(built, v.sc, dc)
        BY <1>1, <1>5, <2>5
      <3> QED
        BY <3>5, <3>6, <3>7 DEF r
    <2> QED
      BY <2>2, <2>3, <2>4, <2>5 DEF Ensures
  <1> QED
    BY <1>2, <1>4, <1>5

(* The calls that use an array of a scratch, but for those that release    *)
(* it; what a parser in some mode, or an iteration, may touch.             *)
Users(a) ==
  CASE a = "idx"  -> Mode \cup {"iterate"}
    [] a = "pool" -> {"reuse"}
    [] a = "vals" -> {"reuse", "insitu_reuse"}

InPlace == {"insitu", "insitu_reuse"}

CallOf(s, mode, g) ==
  [s |-> s, uses |-> {a \in Array : mode \in Users(a)},
   more |-> IF mode \in InPlace THEN {Buffer} ELSE {}, g |-> g]

LEMMA CallOfMode ==
  ASSUME NEW s \in Scratches, NEW g \in Nat, NEW mode \in Mode \cup {"iterate"}
  PROVE  LET c == CallOf(s, mode, g) IN
         /\ c \in Call /\ c.s = s /\ c.g = g /\ "idx" \in c.uses
         /\ mode = "reuse" => Array \subseteq c.uses
         /\ mode = "insitu_reuse" => {"idx", "vals"} \subseteq c.uses
         /\ mode \in InPlace => Buffer \in c.more
  BY DEF CallOf, Call, Users, InPlace, Mode, Array, Caller

LEMMA ParseByIsSound ==
  ASSUME NEW g \in Nat, Sound(mem, docs, scr, {}, g), NEW s \in Scratches,
         NEW n \in Nat \ {0}, NEW fault \in Fault, NEW mode \in Mode
  PROVE  ParseIsSound(CallOf(s, mode, g), ParseBy(mode, scr[s], g, n, fault))
  <1> DEFINE c == CallOf(s, mode, g)
  <1>1. /\ c \in Call /\ c.s = s /\ c.g = g /\ "idx" \in c.uses
        /\ mode = "reuse" => Array \subseteq c.uses
        /\ mode = "insitu_reuse" => {"idx", "vals"} \subseteq c.uses
        /\ mode \in InPlace => Buffer \in c.more
    BY CallOfMode
  <1> HIDE DEF c
  <1>2. CASE mode = "own"
    <2>1. ParseBy(mode, scr[c.s], c.g, n, fault) = Owning(scr[c.s], c.g, n, fault)
      BY <1>2 DEF ParseBy
    <2> QED
      BY <1>1, <2>1, OwningIsSound DEF c
  <1>3. CASE mode = "reuse"
    <2>1. ParseBy(mode, scr[c.s], c.g, n, fault) = Reusing(scr[c.s], c.g, n, fault)
      BY <1>3 DEF ParseBy
    <2> QED
      BY <1>1, <1>3, <2>1, ReusingIsSound DEF c
  <1>4. CASE mode = "insitu"
    <2>1. ParseBy(mode, scr[c.s], c.g, n, fault) = InSitu(scr[c.s], c.g, n, fault)
      BY <1>4 DEF ParseBy
    <2> QED
      BY <1>1, <1>4, <2>1, InSituIsSound DEF c, InPlace
  <1>5. CASE mode = "insitu_reuse"
    <2>1. ParseBy(mode, scr[c.s], c.g, n, fault) = InSituReusing(scr[c.s], c.g, n, fault)
      BY <1>5 DEF ParseBy
    <2> QED
      BY <1>1, <1>5, <2>1, InSituReusingIsSound DEF c, InPlace
  <1> QED
    BY <1>2, <1>3, <1>4, <1>5 DEF Mode

-----------------------------------------------------------------------------
(* The calls.                                                              *)
LEMMA AnyContent ==
  ASSUME NEW m, NEW ds, NEW ss, NEW g, NEW h, Sound(m, ds, ss, {}, g)
  PROVE  Sound(m, ds, ss, {}, h)
  BY DEF Sound, Typed, NoneLost, NoneShared, Kept

LEMMA ParseRuns ==
  ASSUME IInv, NEW d \in Docs, NEW s \in Scratches, NEW mode \in Mode, NEW n \in Sizes,
         NEW fault \in Fault, Parse(d, s, mode, n, fault),
         NEW g, g = parses + 1, NEW r, r = ParseBy(mode, scr[s], g, n, fault)
  PROVE  /\ g \in Nat /\ parses' = g /\ ParseIsSound(CallOf(s, mode, g), r)
         /\ mem' = IF r.ok THEN Dropped(r.mem, docs[d]) ELSE r.mem
         /\ docs' = IF r.ok THEN WithDoc(docs, d, r.doc) ELSE docs
         /\ scr' = WithScr(scr, s, r.sc)
  <1>1. g \in Nat /\ n \in Nat \ {0} /\ parses' = g
    BY DocHeapAssumption DEF IInv, Parse, Serial
  <1>2. /\ mem' = IF r.ok THEN Dropped(r.mem, docs[d]) ELSE r.mem
        /\ docs' = IF r.ok THEN WithDoc(docs, d, r.doc) ELSE docs
        /\ scr' = WithScr(scr, s, r.sc)
    BY DEF Parse, WithDoc, WithScr
  <1>3. Sound(mem, docs, scr, {}, g)
    BY AnyContent DEF IInv
  <1> QED
    BY <1>1, <1>2, <1>3, ParseByIsSound

LEMMA ParseKeepsIInv ==
  ASSUME IInv, NEW d \in Docs, NEW s \in Scratches, NEW mode \in Mode, NEW n \in Sizes,
         NEW fault \in Fault, Parse(d, s, mode, n, fault)
  PROVE  IInv'
  <1> DEFINE g == parses + 1
             r == ParseBy(mode, scr[s], g, n, fault)
             c == CallOf(s, mode, g)
             tt == WithScr(scr, s, r.sc)
  <1>1. /\ g \in Nat /\ parses' = g /\ ParseIsSound(c, r)
        /\ mem' = IF r.ok THEN Dropped(r.mem, docs[d]) ELSE r.mem
        /\ docs' = IF r.ok THEN WithDoc(docs, d, r.doc) ELSE docs
        /\ scr' = tt
    BY ParseRuns
  <1>2. c.s = s /\ c.g = g
    BY DEF CallOf
  <1> HIDE DEF g, c, r
  <1>3. /\ r.doc \in Doc /\ Apart(r.doc) /\ (r.ok => r.doc.gen = g)
        /\ Sound(r.mem, docs, tt, IF r.ok THEN Mine(r.doc) ELSE {}, g)
    BY <1>1, <1>2 DEF ParseIsSound, During
  <1> HIDE DEF tt
  <1>4. CASE r.ok
    <2>1. Sound(Dropped(r.mem, docs[d]), WithDoc(docs, d, r.doc), tt, {}, 0)
      BY <1>3, <1>4, ReplaceIsSound
    <2> QED
      BY <1>1, <1>4, <2>1 DEF IInv
  <1>5. CASE ~r.ok
    <2>1. Sound(r.mem, docs, tt, {}, 0)
      BY <1>3, <1>5, AnyContent
    <2> QED
      BY <1>1, <1>5, <2>1 DEF IInv
  <1> QED
    BY <1>4, <1>5

(* A document that owns nothing of its own takes d's place.                *)
LEMMA EmptyIsSound ==
  ASSUME IInv, NEW d \in Docs, NEW dc \in Doc, Mine(dc) = {}, Apart(dc)
  PROVE  Sound(Dropped(mem, docs[d]), WithDoc(docs, d, dc), scr, {}, 0)
  <1>1. Sound(mem, docs, scr, Mine(dc), 0)
    BY DEF IInv
  <1> QED
    BY <1>1, ReplaceIsSound

LEMMA ParseFixedKeepsIInv ==
  ASSUME IInv, NEW d \in Docs, NEW outcome \in {"ok", "refused", "failed"}, ParseFixed(d, outcome)
  PROVE  IInv'
  <1> DEFINE g     == parses + 1
             dc    == IF outcome = "ok" THEN [NoDoc EXCEPT !.vals = Store, !.pool = Store,
                                                           !.borrowed = TRUE, !.gen = g]
                                        ELSE NoDoc
             freed == Dropped(mem, docs[d])
             es    == WithDoc(docs, d, dc)
  <1>1. /\ g \in Nat /\ parses' = g /\ docs' = es /\ scr' = scr
        /\ mem' = IF outcome = "refused" THEN freed ELSE Write(freed, Store, g)
    BY DEF IInv, ParseFixed, Serial, WithDoc
  <1>2. Store \in Blocks /\ Store \in Caller
    BY DocHeapAssumption DEF Blocks, Caller, Store
  <1>3. dc \in Doc /\ Mine(dc) = {} /\ Apart(dc)
    <2>1. CASE outcome = "ok"
      BY <1>1, <1>2, <2>1 DEF NoDoc, Doc, Ref, Mine, Apart
    <2>2. CASE outcome # "ok"
      BY <2>2, NoDocIsDoc
    <2> QED
      BY <2>1, <2>2
  <1> HIDE DEF g, dc
  <1>4. Sound(freed, es, scr, {}, 0)
    BY <1>3, EmptyIsSound
  <1> HIDE DEF freed, es
  <1>5. Sound(Write(freed, Store, g), es, scr, {}, 0)
    BY <1>1, <1>2, <1>4, WriteIsSound
  <1> QED
    BY <1>1, <1>4, <1>5 DEF IInv

LEMMA IterateRuns ==
  ASSUME IInv, NEW s \in Scratches, NEW n \in Sizes, NEW fault \in {"none", "idx", "scan"},
         Iterate(s, n, fault), NEW g, g = parses + 1,
         NEW i, i = Ensured(mem, scr[s], "idx", n, fault = "idx")
  PROVE  /\ g \in Nat /\ parses' = g /\ docs' = docs
         /\ During(CallOf(s, "iterate", g), mem', i.sc, {})
         /\ scr' = WithScr(scr, s, i.sc)
         /\ i.ok => i.sc.blk["idx"] \in Blocks
  <1> DEFINE c == CallOf(s, "iterate", g)
  <1>1. /\ g \in Nat /\ n \in Nat \ {0} /\ parses' = g /\ docs' = docs
        /\ scr' = WithScr(scr, s, i.sc)
        /\ mem' = IF i.ok THEN Write(i.mem, i.sc.blk["idx"], g) ELSE i.mem
    BY DocHeapAssumption DEF IInv, Iterate, Serial, WithScr
  <1>2. c \in Call /\ c.s = s /\ c.g = g /\ "idx" \in c.uses
    BY <1>1, CallOfMode
  <1>3. Sound(mem, docs, scr, {}, g)
    BY AnyContent DEF IInv
  <1> HIDE DEF c
  <1>4. /\ During(c, i.mem, i.sc, {}) /\ i.ok \in BOOLEAN
        /\ i.ok => i.sc.blk["idx"] \in Blocks
    <2>1. i = Ensured(mem, scr[c.s], "idx", n, fault = "idx") /\ Sound(mem, docs, scr, {}, c.g)
      BY <1>2, <1>3
    <2>2. n \in Nat \ {0}
      BY <1>1
    <2>3. Ensures(c, scr[c.s], "idx", fault, i)
      BY <1>2, <2>1, <2>2, EnsureFirst
    <2> QED
      BY <2>3 DEF Ensures
  <1>5. i.ok => During(c, Write(i.mem, i.sc.blk["idx"], g), i.sc, {})
    BY <1>2, <1>4, WriteStep
  <1> QED
    BY <1>1, <1>4, <1>5 DEF c

LEMMA IterateKeepsIInv ==
  ASSUME IInv, NEW s \in Scratches, NEW n \in Sizes, NEW fault \in {"none", "idx", "scan"},
         Iterate(s, n, fault)
  PROVE  IInv'
  <1> DEFINE i  == Ensured(mem, scr[s], "idx", n, fault = "idx")
             g  == parses + 1
             c  == CallOf(s, "iterate", g)
  <1>1. /\ g \in Nat /\ parses' = g /\ docs' = docs
        /\ During(c, mem', i.sc, {}) /\ scr' = WithScr(scr, s, i.sc)
    BY IterateRuns
  <1>2. c.s = s /\ c.g = g
    BY DEF CallOf
  <1> HIDE DEF c, i, g
  <1>3. Sound(mem', docs', scr', {}, g)
    BY <1>1, <1>2 DEF During
  <1>4. Sound(mem', docs', scr', {}, 0)
    BY <1>3, AnyContent
  <1> QED
    BY <1>1, <1>4 DEF IInv

LEMMA DropDocKeepsIInv ==
  ASSUME IInv, NEW d \in Docs, DropDoc(d)
  PROVE  IInv'
  <1>1. Sound(Dropped(mem, docs[d]), WithDoc(docs, d, NoDoc), scr, {}, 0)
    BY NoDocIsDoc, EmptyIsSound
  <1> QED
    BY <1>1 DEF IInv, DropDoc, WithDoc

LEMMA MoveDocKeepsIInv ==
  ASSUME IInv, NEW d \in Docs, NEW e \in Docs, MoveDoc(d, e)
  PROVE  IInv'
  <1> DEFINE dc == docs[d]
             h  == dc.gen
             es == WithDoc(docs, d, NoDoc)
  <1>1. d # e /\ docs \in [Docs -> Doc]
    BY DEF MoveDoc, IInv, Sound, Typed
  <1>2. es[e] = docs[e] /\ WithDoc(es, e, dc) = [docs EXCEPT ![e] = docs[d], ![d] = NoDoc]
    BY <1>1 DEF WithDoc
  <1>3. dc \in Doc /\ Apart(dc) /\ \A b \in Mine(dc) : mem[b] = h
    BY DocApart DEF IInv
  <1>4. Mine(dc) = ({} \cup Mine(docs[d])) \ Mine(NoDoc)
    BY NoDocIsDoc
  <1> HIDE DEF h
  <1>5. Sound(mem, es, scr, Mine(dc), h)
    <2>1. Mine(NoDoc) \subseteq {} \cup Mine(docs[d]) /\ \A b \in Mine(NoDoc) : mem[b] = NoDoc.gen
      BY NoDocIsDoc
    <2>2. Sound(mem, docs, scr, {}, 0)
      BY DEF IInv
    <2> QED
      BY <1>3, <1>4, <2>1, <2>2, NoDocIsDoc, ExchangeIsSound
  <1> HIDE DEF es, dc
  <1>6. Sound(Dropped(mem, es[e]), WithDoc(es, e, dc), scr, {}, 0)
    BY <1>3, <1>5, ReplaceIsSound DEF h
  <1> QED
    BY <1>2, <1>6 DEF IInv, MoveDoc

LEMMA EmptiedIsSound ==
  ASSUME NEW m, NEW ds, NEW ss, NEW g \in Nat, Sound(m, ds, ss, {}, g), NEW s \in Scratches
  PROVE  Sound(Emptied(m, ss[s]), ds, WithScr(ss, s, NoScr), {}, g)
  <1> DEFINE m1 == Release(m, ss[s].blk["idx"])
             m2 == Release(m1, ss[s].blk["pool"])
             m3 == Release(m2, ss[s].blk["vals"])
             t1 == WithArray(ss, s, "idx", None, 0)
             t2 == WithArray(t1, s, "pool", None, 0)
             t3 == WithArray(t2, s, "vals", None, 0)
  <1>1. Array = {"idx", "pool", "vals"} /\ ss \in [Scratches -> Scr]
    BY DEF Array, Sound, Typed
  <1>2. /\ ss[s] = [blk |-> ss[s].blk, cap |-> ss[s].cap]
        /\ ss[s].blk \in [Array -> Ref] /\ ss[s].cap \in [Array -> Nat]
    BY <1>1 DEF Scr
  <1>3. /\ t1[s].blk["pool"] = ss[s].blk["pool"]
        /\ t2[s].blk["vals"] = ss[s].blk["vals"]
    <2>1. t1[s].blk = [ss[s].blk EXCEPT !["idx"] = None]
      BY <1>1, <1>2 DEF WithArray
    <2>2. t1[s] = [blk |-> [ss[s].blk EXCEPT !["idx"] = None], cap |-> [ss[s].cap EXCEPT !["idx"] = 0]]
      BY <1>1, <1>2 DEF WithArray
    <2>3. t1 = [ss EXCEPT ![s] = t1[s]]
      BY <1>1 DEF WithArray
    <2>4. t2[s].blk = [t1[s].blk EXCEPT !["pool"] = None]
      BY <1>1, <2>2, <2>3 DEF WithArray
    <2> QED
      BY <1>1, <1>2, <2>1, <2>4
  <1>4. t3 = WithScr(ss, s, NoScr)
    <2>1. \A t \in Scratches \ {s} : t3[t] = ss[t]
      BY <1>1 DEF WithArray
    <2>2. t3[s] = [blk |-> [[[ss[s].blk EXCEPT !["idx"] = None] EXCEPT !["pool"] = None] EXCEPT !["vals"] = None],
                   cap |-> [[[ss[s].cap EXCEPT !["idx"] = 0] EXCEPT !["pool"] = 0] EXCEPT !["vals"] = 0]]
      BY <1>1, <1>2 DEF WithArray
    <2>3. t3[s] = NoScr
      BY <1>1, <1>2, <2>2 DEF NoScr
    <2>4. t3 \in [Scratches -> {t3[t] : t \in Scratches}]
      BY <1>1 DEF WithArray
    <2> QED
      BY <1>1, <2>1, <2>3, <2>4 DEF WithScr
  <1>5. Emptied(m, ss[s]) = m3
    BY DEF Emptied
  <1>6. "idx" \in Array /\ "pool" \in Array /\ "vals" \in Array
    BY <1>1
  <1>7. Sound(m1, ds, t1, {}, g)
    BY <1>6, FreeArrayIsSound
  <1> HIDE DEF m1, t1
  <1>8. Sound(m2, ds, t2, {}, g)
    BY <1>3, <1>6, <1>7, FreeArrayIsSound
  <1> HIDE DEF m2, t2
  <1>9. Sound(m3, ds, t3, {}, g)
    BY <1>3, <1>6, <1>8, FreeArrayIsSound
  <1> QED
    BY <1>4, <1>5, <1>9

LEMMA DropScratchKeepsIInv ==
  ASSUME IInv, NEW s \in Scratches, DropScratch(s)
  PROVE  IInv'
  <1>1. Sound(Emptied(mem, scr[s]), docs, WithScr(scr, s, NoScr), {}, 0)
    BY EmptiedIsSound DEF IInv
  <1> QED
    BY <1>1 DEF IInv, DropScratch, WithScr

(* Two scratches exchange what they own.                                   *)
Swapped(ss, s, t) == [ss EXCEPT ![s] = ss[t], ![t] = ss[s]]

LEMMA SwapIsSound ==
  ASSUME NEW m, NEW ds, NEW ss, NEW g \in Nat, Sound(m, ds, ss, {}, g),
         NEW s \in Scratches, NEW t \in Scratches, s # t
  PROVE  Sound(m, ds, Swapped(ss, s, t), {}, g)
  <1> DEFINE tt == Swapped(ss, s, t)
             other(x) == IF x = s THEN t ELSE IF x = t THEN s ELSE x
             Twin(f, h) ==
               \/ \E d \in Docs : f \in {<<d, "vals">>, <<d, "pool">>} /\ h = f
               \/ \E x \in Scratches, a \in Array : f = <<x, a>> /\ h = <<other(x), a>>
  <1>1. ss \in [Scratches -> Scr]
    BY DEF Sound, Typed
  <1>2. /\ tt \in [Scratches -> Scr]
        /\ \A x \in Scratches : other(x) \in Scratches /\ tt[x] = ss[other(x)] /\ other(other(x)) = x
    BY <1>1 DEF Swapped
  <1>3. FieldByField(ds, ss) /\ FieldByField(ds, tt)
    BY FieldOf
  <1> HIDE DEF tt, other
  <1>4. ASSUME NEW f \in Fields
        PROVE  \E h \in Fields : Twin(f, h) /\ OwnedBy(ds, tt, f) = OwnedBy(ds, ss, h)
    <2>1. CASE \E d \in Docs : f = <<d, "vals">> \/ f = <<d, "pool">>
      <3>1. PICK d \in Docs : f = <<d, "vals">> \/ f = <<d, "pool">>
        BY <2>1
      <3>2. f[1] \in Docs
        BY <3>1
      <3>3. OwnedBy(ds, tt, f) = OwnedBy(ds, ss, f)
        BY <3>2 DEF OwnedBy
      <3>4. Twin(f, f)
        BY <3>1
      <3> QED
        BY <3>3, <3>4
    <2>2. CASE \E x \in Scratches, a \in Array : f = <<x, a>>
      <3>1. PICK x \in Scratches, a \in Array : f = <<x, a>>
        BY <2>2
      <3>2. OwnedBy(ds, tt, f) = tt[x].blk[a]
        BY <1>3, <3>1 DEF FieldByField
      <3>3. <<other(x), a>> \in Fields /\ OwnedBy(ds, ss, <<other(x), a>>) = ss[other(x)].blk[a]
        BY <1>2, <1>3 DEF FieldByField
      <3>4. Twin(f, <<other(x), a>>)
        BY <3>1
      <3> QED
        BY <1>2, <3>2, <3>3, <3>4
    <2> QED
      BY <1>3, <2>1, <2>2 DEF FieldByField
  <1>5. ASSUME NEW f \in Fields
        PROVE  \E h \in Fields : OwnedBy(ds, ss, f) = OwnedBy(ds, tt, h)
    <2>1. CASE \E d \in Docs : f = <<d, "vals">> \/ f = <<d, "pool">>
      <3>1. PICK d \in Docs : f = <<d, "vals">> \/ f = <<d, "pool">>
        BY <2>1
      <3>2. f[1] \in Docs
        BY <3>1
      <3>3. OwnedBy(ds, tt, f) = OwnedBy(ds, ss, f)
        BY <3>2 DEF OwnedBy
      <3> QED
        BY <3>3
    <2>2. CASE \E x \in Scratches, a \in Array : f = <<x, a>>
      <3>1. PICK x \in Scratches, a \in Array : f = <<x, a>>
        BY <2>2
      <3>2. OwnedBy(ds, ss, f) = ss[x].blk[a]
        BY <1>3, <3>1 DEF FieldByField
      <3>3. /\ <<other(x), a>> \in Fields
            /\ OwnedBy(ds, tt, <<other(x), a>>) = tt[other(x)].blk[a]
        BY <1>2, <1>3 DEF FieldByField
      <3> QED
        BY <1>2, <3>2, <3>3
    <2> QED
      BY <1>3, <2>1, <2>2 DEF FieldByField
  <1>6. ASSUME NEW f \in Fields, NEW k \in Fields, NEW h, Twin(f, h), Twin(k, h)
        PROVE  f = k
    <2>1. \A x \in Scratches, a \in Array, d \in Docs :
            <<x, a>> # <<d, "vals">> /\ <<x, a>> # <<d, "pool">>
      BY <1>3 DEF FieldByField
    <2>2. CASE \E d \in Docs : f \in {<<d, "vals">>, <<d, "pool">>} /\ h = f
      BY <1>2, <1>6, <2>1, <2>2
    <2>3. CASE \E x \in Scratches, a \in Array : f = <<x, a>> /\ h = <<other(x), a>>
      <3>1. PICK x \in Scratches, a \in Array : f = <<x, a>> /\ h = <<other(x), a>>
        BY <2>3
      <3>2. PICK y \in Scratches, b \in Array : k = <<y, b>> /\ h = <<other(y), b>>
        BY <1>2, <1>6, <2>1, <3>1
      <3>3. a = b /\ other(x) = other(y)
        BY <3>1, <3>2
      <3>4. x = y
        BY <1>2, <3>3
      <3> QED
        BY <3>1, <3>2, <3>3, <3>4
    <2> QED
      BY <1>6, <2>2, <2>3
  <1> HIDE DEF Twin
  <1>7. \A b : (\E f \in Fields : OwnedBy(ds, tt, f) = b) <=> (\E f \in Fields : OwnedBy(ds, ss, f) = b)
    BY <1>4, <1>5
  <1>8. NoneShared(ds, tt, {})
    <2>1. \A f \in Fields : OwnedBy(ds, tt, f) \notin {} \cup Caller
      BY <1>4 DEF Sound, NoneShared
    <2>2. ASSUME NEW f \in Fields, NEW k \in Fields,
                 OwnedBy(ds, tt, f) = OwnedBy(ds, tt, k), OwnedBy(ds, tt, f) # None
          PROVE  f = k
      <3>1. PICK h \in Fields : Twin(f, h) /\ OwnedBy(ds, tt, f) = OwnedBy(ds, ss, h)
        BY <1>4
      <3>2. PICK j \in Fields : Twin(k, j) /\ OwnedBy(ds, tt, k) = OwnedBy(ds, ss, j)
        BY <1>4
      <3>3. h = j
        BY <2>2, <3>1, <3>2 DEF Sound, NoneShared
      <3> QED
        BY <1>6, <3>1, <3>2, <3>3
    <2> QED
      BY <2>1, <2>2 DEF NoneShared
  <1>9. NoneLost(m, ds, tt, {})
    BY <1>7 DEF Sound, NoneLost
  <1> QED
    BY <1>2, <1>8, <1>9 DEF Sound, Typed, tt

LEMMA MoveScratchKeepsIInv ==
  ASSUME IInv, NEW s \in Scratches, NEW t \in Scratches, MoveScratch(s, t)
  PROVE  IInv'
  <1> DEFINE tt == WithScr(scr, t, NoScr)
  <1>1. s # t /\ scr \in [Scratches -> Scr]
    BY DEF MoveScratch, IInv, Sound, Typed
  <1>2. Sound(Emptied(mem, scr[t]), docs, tt, {}, 0)
    BY EmptiedIsSound DEF IInv
  <1>3. Swapped(tt, s, t) = [scr EXCEPT ![t] = scr[s], ![s] = NoScr]
    BY <1>1 DEF Swapped, WithScr
  <1> HIDE DEF tt
  <1>4. Sound(Emptied(mem, scr[t]), docs, Swapped(tt, s, t), {}, 0)
    BY <1>1, <1>2, SwapIsSound
  <1> QED
    BY <1>3, <1>4 DEF IInv, MoveScratch

(* A mutation of a borrowing document: copies, which it takes for its own. *)
LEMMA DetachedIsSound ==
  ASSUME IInv, NEW d \in Docs, docs[d].borrowed, Alive(docs[d]), Intact(docs[d]),
         NEW grow \in BOOLEAN, NEW fault, NEW r, r = Detached(docs[d], grow, fault)
  PROVE  Sound(r.mem, WithDoc(docs, d, r.doc), scr, {}, 0)
  <1> DEFINE dc     == docs[d]
             g      == dc.gen
             wanted == dc.pool # None \/ grow
             np     == NewBlock(mem)
             pooled == Alloc(mem, g)
             copied == IF wanted THEN pooled ELSE mem
             ns     == NewBlock(copied)
             both   == Alloc(copied, g)
             own    == [dc EXCEPT !.vals = ns, !.borrowed = FALSE]
             mine   == IF wanted THEN [own EXCEPT !.pool = np, !.alias = None] ELSE own
             S(m, new) == Sound(m, docs, scr, new, g)
  <1>1. dc \in Doc /\ g \in Nat /\ docs \in [Docs -> Doc] /\ S(mem, {})
    BY AnyContent DEF IInv, Sound, Typed, Doc
  <1>2. mem[Text(dc)] = g /\ mem[dc.vals] = g
    BY DEF Intact, Holds
  <1>3. \/ r = Result(FALSE, mem, dc)
        \/ wanted /\ r = Result(FALSE, Release(pooled, np), dc)
        \/ ~wanted /\ r = Result(FALSE, mem, dc)
        \/ r = Result(TRUE, both, mine)
    BY <1>2 DEF Detached, GivenBack
  <1>4. S(pooled, {np}) /\ np \in Blocks \ Caller
    <2>1. S(pooled, {} \cup {np}) /\ np \in Blocks \ Caller
      BY <1>1, FS_EmptySet, AllocIsSound
    <2> QED
      BY <2>1
  <1>5. WithDoc(docs, d, dc) = docs
    BY <1>1 DEF WithDoc
  <1>6. \A b \in Blocks : b # None
    BY DEF Blocks, None
  <1>7. CASE r = Result(FALSE, mem, dc)
    <2>1. r.mem = mem /\ r.doc = dc
      BY <1>7 DEF Result
    <2> QED
      BY <1>5, <2>1 DEF IInv
  <1>8. CASE r = Result(FALSE, Release(pooled, np), dc)
    <2>1. r.mem = Release(pooled, np) /\ r.doc = dc
      BY <1>8 DEF Result
    <2> HIDE DEF pooled, np, dc, g
    <2>2. S(Release(pooled, np), {np} \ {np})
      BY <1>1, <1>4, GiveBackIsSound
    <2>3. Sound(Release(pooled, np), docs, scr, {}, 0)
      BY <2>2, AnyContent
    <2> QED
      BY <1>5, <2>1, <2>3
  <1>9. CASE r = Result(TRUE, both, mine)
    <2> DEFINE held == IF wanted THEN {np, ns} ELSE {ns}
    <2>1. r.mem = both /\ r.doc = mine
      BY <1>9 DEF Result
    <2>2. S(both, held) /\ ns \in Blocks \ Caller /\ (wanted => ns # np)
      <3>1. CASE wanted
        <4>1. copied = pooled
          BY <3>1
        <4> HIDE DEF copied, np
        <4>2. IsFiniteSet({np}) /\ Cardinality({np}) <= 1
          BY OneCounts, Zenon
        <4>3. S(copied, {np})
          BY <1>4, <4>1
        <4>4. S(both, {np} \cup {ns}) /\ ns \in Blocks \ Caller /\ ns \notin {np}
          BY <1>1, <4>2, <4>3, AllocIsSound
        <4> QED
          BY <3>1, <4>4
      <3>2. CASE ~wanted
        <4>1. copied = mem
          BY <3>2
        <4> HIDE DEF copied
        <4>2. S(both, {} \cup {ns}) /\ ns \in Blocks \ Caller
          BY <1>1, <4>1, FS_EmptySet, AllocIsSound
        <4> QED
          BY <3>2, <4>2
      <3> QED
        BY <3>1, <3>2
    <2> HIDE DEF copied, np, ns, both, pooled
    <2>3. mine \in Doc /\ Apart(mine) /\ Mine(mine) = held /\ mine.gen = g
      <3>1. CASE wanted
        BY <1>1, <1>4, <1>6, <2>2, <3>1 DEF Doc, Ref, Apart, Mine
      <3>2. CASE ~wanted
        BY <1>1, <1>6, <2>2, <3>2 DEF Doc, Ref, Apart, Mine
      <3> QED
        BY <3>1, <3>2
    <2>4. Mine(docs[d]) = {} /\ held = held \cup Mine(docs[d]) /\ {} = (held \cup Mine(docs[d])) \ held
      BY DEF Mine
    <2>5. \A b \in held : both[b] = g
      BY <2>2 DEF Sound, Kept
    <2> HIDE DEF mine, held, g
    <2>6. Sound(both, WithDoc(docs, d, mine), scr, {}, 0)
      BY <2>2, <2>3, <2>4, <2>5, ExchangeIsSound
    <2> QED
      BY <2>1, <2>6
  <1> QED
    BY <1>3, <1>7, <1>8, <1>9

(* A block of a document that owns its storage is replaced by a larger     *)
(* copy.                                                                   *)
LEMMA RegrownIsSound ==
  ASSUME IInv, NEW d \in Docs, ~docs[d].borrowed,
         NEW old \in {docs[d].vals, docs[d].pool},
         NEW dc \in Doc, Apart(dc), dc.gen = docs[d].gen,
         Mine(dc) = (Mine(docs[d]) \ {old}) \cup {NewBlock(mem)}
  PROVE  Sound(Release(Alloc(mem, docs[d].gen), old), WithDoc(docs, d, dc), scr, {}, 0)
  <1> DEFINE g    == docs[d].gen
             nb   == NewBlock(mem)
             m    == Alloc(mem, g)
             rest == {old} \ {None}
             es   == WithDoc(docs, d, dc)
  <1>1. docs[d] \in Doc /\ g \in Nat /\ Sound(mem, docs, scr, {}, g)
    BY AnyContent DEF IInv, Sound, Typed, Doc
  <1> HIDE DEF g
  <1>2. Sound(m, docs, scr, {nb}, g)
    <2>1. Sound(m, docs, scr, {} \cup {nb}, g)
      BY <1>1, FS_EmptySet, AllocIsSound
    <2> QED
      BY <2>1
  <1> HIDE DEF m
  <1>3. /\ Mine(docs[d]) \cap {nb} = {}
        /\ \A b \in Mine(docs[d]) : m[b] = g
    BY <1>2, DocApart DEF g
  <1>4. m[nb] = g /\ nb \in Blocks
    BY <1>2 DEF Sound, Typed, Kept
  <1>5. nb # None
    BY <1>4 DEF Blocks, None
  <1>6. rest = ({nb} \cup Mine(docs[d])) \ Mine(dc) /\ Mine(dc) \subseteq {nb} \cup Mine(docs[d])
    BY <1>3, <1>5 DEF Mine
  <1>7. (\A b \in Mine(dc) : m[b] = dc.gen) /\ (\A b \in rest : m[b] = g)
    BY <1>3, <1>4, <1>6 DEF g
  <1> HIDE DEF rest, nb
  <1>8. Sound(m, es, scr, rest, g)
    BY <1>2, <1>6, <1>7, ExchangeIsSound
  <1> HIDE DEF es
  <1>9. Sound(Release(m, old), es, scr, {}, g)
    <2>1. CASE old = None
      BY <1>8, <2>1 DEF Release, rest
    <2>2. CASE old # None
      <3>1. old \in rest /\ rest \ {old} = {}
        BY <2>2 DEF rest
      <3>2. Sound(Release(m, old), es, scr, rest \ {old}, g)
        BY <1>1, <1>8, <3>1, GiveBackIsSound
      <3> QED
        BY <3>1, <3>2
    <2> QED
      BY <2>1, <2>2
  <1>10. Sound(Release(m, old), es, scr, {}, 0)
    BY <1>9, AnyContent
  <1> QED
    BY <1>10 DEF m, g, es

LEMMA GrowTextKeepsIInv ==
  ASSUME IInv, NEW d \in Docs, GrowText(d)
  PROVE  IInv'
  <1> DEFINE dc == docs[d]
             nb == NewBlock(mem)
             gc == [dc EXCEPT !.pool = nb, !.alias = None]
  <1>1. PICK fits \in BOOLEAN, fault \in {"none", "pool", "vals"} : Mutate(d, OwnPool(dc, fits, fault))
    BY DEF GrowText
  <1> DEFINE r == OwnPool(dc, fits, fault)
  <1>2. /\ Alive(dc) /\ Intact(dc)
        /\ mem' = r.mem /\ docs' = WithDoc(docs, d, r.doc) /\ scr' = scr /\ parses' = parses
    BY <1>1 DEF Mutate, WithDoc
  <1>3. dc \in Doc /\ docs \in [Docs -> Doc] /\ Apart(dc)
    BY DocApart DEF IInv, Sound, Typed
  <1>4. Sound(r.mem, WithDoc(docs, d, r.doc), scr, {}, 0)
    <2>1. CASE dc.borrowed
      <3>1. r = Detached(dc, TRUE, fault)
        BY <2>1 DEF OwnPool
      <3> HIDE DEF r
      <3> QED
        BY <1>2, <2>1, <3>1, DetachedIsSound
    <2>2. CASE ~dc.borrowed /\ r = Result(r.ok, mem, dc)
      <3>1. r.mem = mem /\ r.doc = dc /\ WithDoc(docs, d, dc) = docs
        BY <1>3, <2>2 DEF Result, WithDoc
      <3> QED
        BY <3>1 DEF IInv
    <2>3. CASE ~dc.borrowed /\ r = Result(TRUE, Release(Alloc(mem, mem[Text(dc)]), dc.pool), gc)
      <3>1. r.mem = Release(Alloc(mem, dc.gen), dc.pool) /\ r.doc = gc
        BY <1>2, <2>3 DEF Result, Intact, Holds
      <3>2. nb \in Blocks \ Caller /\ mem[nb] = Free
        BY FS_EmptySet, NewBlockIsFree DEF IInv
      <3>3. nb # None /\ nb # dc.vals
        BY <1>2, <3>2 DEF Blocks, None, Intact, Holds, Free, IInv, Sound, Typed, Doc
      <3> HIDE DEF nb
      <3>4. gc \in Doc /\ gc.gen = dc.gen /\ Apart(gc)
            /\ Mine(gc) = (Mine(dc) \ {dc.pool}) \cup {nb}
        <4>1. /\ gc \in Doc /\ gc.gen = dc.gen /\ gc.vals = dc.vals /\ gc.pool = nb
              /\ ~gc.borrowed
          BY <1>3, <2>3, <3>2 DEF Doc, Ref
        <4> HIDE DEF gc
        <4> QED
          BY <1>2, <1>3, <2>3, <3>3, <4>1 DEF Apart, Mine, Alive
      <3> HIDE DEF gc
      <3> QED
        BY <2>3, <3>1, <3>4, RegrownIsSound DEF nb
    <2> QED
      BY <2>1, <2>2, <2>3 DEF OwnPool, Result
  <1> QED
    BY <1>2, <1>4 DEF IInv

LEMMA GrowSlotsKeepsIInv ==
  ASSUME IInv, NEW d \in Docs, GrowSlots(d)
  PROVE  IInv'
  <1> DEFINE dc == docs[d]
             nb == NewBlock(mem)
             gc == [dc EXCEPT !.vals = nb]
  <1>1. PICK fits \in BOOLEAN, fault \in {"none", "pool", "vals"} : Mutate(d, OwnVals(dc, fits, fault))
    BY DEF GrowSlots
  <1> DEFINE r == OwnVals(dc, fits, fault)
  <1>2. /\ Alive(dc) /\ Intact(dc)
        /\ mem' = r.mem /\ docs' = WithDoc(docs, d, r.doc) /\ scr' = scr /\ parses' = parses
    BY <1>1 DEF Mutate, WithDoc
  <1>3. dc \in Doc /\ docs \in [Docs -> Doc] /\ Apart(dc)
    BY DocApart DEF IInv, Sound, Typed
  <1>4. Sound(r.mem, WithDoc(docs, d, r.doc), scr, {}, 0)
    <2>1. CASE dc.borrowed
      <3>1. r = Detached(dc, FALSE, fault)
        BY <2>1 DEF OwnVals
      <3> HIDE DEF r
      <3> QED
        BY <1>2, <2>1, <3>1, DetachedIsSound
    <2>2. CASE ~dc.borrowed /\ r = Result(r.ok, mem, dc)
      <3>1. r.mem = mem /\ r.doc = dc /\ WithDoc(docs, d, dc) = docs
        BY <1>3, <2>2 DEF Result, WithDoc
      <3> QED
        BY <3>1 DEF IInv
    <2>3. CASE ~dc.borrowed /\ r = Result(TRUE, Release(Alloc(mem, mem[dc.vals]), dc.vals), gc)
      <3>1. r.mem = Release(Alloc(mem, dc.gen), dc.vals) /\ r.doc = gc
        BY <1>2, <2>3 DEF Result, Intact, Holds
      <3>2. nb \in Blocks \ Caller /\ mem[nb] = Free
        BY FS_EmptySet, NewBlockIsFree DEF IInv
      <3>3. nb # None /\ nb # dc.pool
        <4>1. dc.pool # None => mem[dc.pool] # Free
          BY <2>3, OwnedApart DEF IInv
        <4> QED
          BY <3>2, <4>1 DEF Blocks, None
      <3> HIDE DEF nb
      <3>4. gc \in Doc /\ gc.gen = dc.gen /\ Apart(gc)
            /\ Mine(gc) = (Mine(dc) \ {dc.vals}) \cup {nb}
        <4>1. /\ gc \in Doc /\ gc.gen = dc.gen /\ gc.vals = nb /\ gc.pool = dc.pool
              /\ ~gc.borrowed
          BY <1>3, <2>3, <3>2 DEF Doc, Ref
        <4> HIDE DEF gc
        <4> QED
          BY <1>2, <1>3, <2>3, <3>3, <4>1 DEF Apart, Mine, Alive
      <3> HIDE DEF gc
      <3> QED
        BY <2>3, <3>1, <3>4, RegrownIsSound DEF nb
    <2> QED
      BY <2>1, <2>2, <2>3 DEF OwnVals, Result
  <1> QED
    BY <1>2, <1>4 DEF IInv

-----------------------------------------------------------------------------
LEMMA InitIInv == Init => IInv
  <1> SUFFICES ASSUME Init PROVE IInv
    OBVIOUS
  <1>1. /\ mem \in [Blocks -> Content] /\ docs \in [Docs -> Doc] /\ scr \in [Scratches -> Scr]
        /\ \A b \in Caller : mem[b] # Free
        /\ \A b \in Blocks \ Caller : mem[b] = Free
    <2>1. Caller \subseteq Blocks
      BY DocHeapAssumption DEF Caller, Buffer, Store, Blocks
    <2>2. NoScr \in Scr
      BY DEF NoScr, Scr, Ref
    <2>3. docs \in [Docs -> Doc] /\ scr \in [Scratches -> Scr]
      BY <2>2, NoDocIsDoc DEF Init
    <2> QED
      BY <2>1, <2>3 DEF Init, Content, Junk, Free
  <1>2. \A f \in Fields : OwnedBy(docs, scr, f) = None
    <2>1. FieldByField(docs, scr)
      BY FieldOf
    <2>2. \A d \in Docs : ~docs[d].borrowed /\ docs[d].vals = None /\ docs[d].pool = None
      BY DEF Init, NoDoc
    <2>3. \A s \in Scratches, a \in Array : scr[s].blk[a] = None
      BY DEF Init, NoScr
    <2> SUFFICES ASSUME NEW f \in Fields PROVE OwnedBy(docs, scr, f) = None
      OBVIOUS
    <2>4. CASE \E d \in Docs : f = <<d, "vals">> \/ f = <<d, "pool">>
      BY <2>1, <2>2, <2>4 DEF FieldByField
    <2>5. CASE \E s \in Scratches, a \in Array : f = <<s, a>>
      BY <2>1, <2>3, <2>5 DEF FieldByField
    <2> QED
      BY <2>1, <2>4, <2>5 DEF FieldByField
  <1>3. None \notin Blocks /\ None \notin Caller
    BY DEF None, Blocks, Caller, Buffer, Store
  <1>4. Kept(mem, docs, {}, 0)
    BY DEF Init, NoDoc, Kept
  <1>5. Typed(mem, docs, scr, {}) /\ NoneLost(mem, docs, scr, {}) /\ NoneShared(docs, scr, {})
    BY <1>1, <1>2, <1>3 DEF Typed, NoneLost, NoneShared
  <1> QED
    BY <1>4, <1>5 DEF IInv, Sound, Init

LEMMA NextKeepsIInv == IInv /\ [Next]_vars => IInv'
  <1> SUFFICES ASSUME IInv, [Next]_vars PROVE IInv'
    OBVIOUS
  <1>1. CASE \E d \in Docs, s \in Scratches, mode \in Mode, n \in Sizes, f \in Fault :
               Parse(d, s, mode, n, f)
    BY <1>1, ParseKeepsIInv
  <1>2. CASE \E d \in Docs, outcome \in {"ok", "refused", "failed"} : ParseFixed(d, outcome)
    BY <1>2, ParseFixedKeepsIInv
  <1>3. CASE \E s \in Scratches, n \in Sizes, f \in {"none", "idx", "scan"} : Iterate(s, n, f)
    BY <1>3, IterateKeepsIInv
  <1>4. CASE \E d, e \in Docs : MoveDoc(d, e)
    BY <1>4, MoveDocKeepsIInv
  <1>5. CASE \E d \in Docs : DropDoc(d)
    BY <1>5, DropDocKeepsIInv
  <1>6. CASE \E s, t \in Scratches : MoveScratch(s, t)
    BY <1>6, MoveScratchKeepsIInv
  <1>7. CASE \E s \in Scratches : DropScratch(s)
    BY <1>7, DropScratchKeepsIInv
  <1>8. CASE \E d \in Docs : GrowText(d)
    BY <1>8, GrowTextKeepsIInv
  <1>9. CASE \E d \in Docs : GrowSlots(d)
    BY <1>9, GrowSlotsKeepsIInv
  <1>10. CASE UNCHANGED vars
    BY <1>10 DEF IInv, Sound, Typed, NoneLost, NoneShared, Kept, OwnedBy, vars
  <1> QED
    BY <1>1, <1>2, <1>3, <1>4, <1>5, <1>6, <1>7, <1>8, <1>9, <1>10 DEF Next

(* The heap, the documents and the scratches fit together after every call *)
(* of parse.hpp, doc.hpp and mutate.hpp that the model has, whichever of   *)
(* its steps fails.                                                        *)
THEOREM Invariance == Spec => []IInv
  BY InitIInv, NextKeepsIInv, PTL DEF Spec

(* Every block has exactly one owner, in every state: doc::release,        *)
(* scratch::release, the parsers' failure paths and doc::__detach free     *)
(* each block once and lose none.                                          *)
THEOREM BlocksHaveOneOwner == Spec => []OneOwner
  <1>1. IInv => OneOwner
    <2> SUFFICES ASSUME IInv PROVE OneOwner
      OBVIOUS
    <2>1. \A f : Owns(f) = OwnedBy(docs, scr, f)
      BY DEF Owns, OwnedBy
    <2>2. \A b \in Blocks : mem[b] # Corrupt
      BY DEF IInv, Sound, Typed, Content, Corrupt, Free
    <2>3. \A f, g \in Fields : Owns(f) = Owns(g) /\ Owns(f) # None => f = g
      BY <2>1 DEF IInv, Sound, NoneShared
    <2>4. \A f \in Fields : Owns(f) \in Blocks \cup {None} /\ Owns(f) \notin Caller
      <3>1. FieldByField(docs, scr)
        BY FieldOf
      <3>2. /\ \A d \in Docs : docs[d].vals \in Ref /\ docs[d].pool \in Ref
            /\ \A s \in Scratches, a \in Array : scr[s].blk[a] \in Ref
        BY DEF IInv, Sound, Typed, Doc, Scr
      <3>3. ASSUME NEW f \in Fields PROVE Owns(f) \in Ref
        <4>1. CASE \E d \in Docs : f = <<d, "vals">> \/ f = <<d, "pool">>
          <5>1. PICK d \in Docs : f = <<d, "vals">> \/ f = <<d, "pool">>
            BY <4>1
          <5>2. OwnedBy(docs, scr, f) \in {None, docs[d].vals, docs[d].pool}
            BY <3>1, <5>1 DEF FieldByField
          <5> QED
            BY <2>1, <3>2, <5>2 DEF Ref
        <4>2. CASE \E s \in Scratches, a \in Array : f = <<s, a>>
          BY <2>1, <3>1, <3>2, <4>2 DEF FieldByField, Ref
        <4> QED
          BY <3>1, <4>1, <4>2 DEF FieldByField
      <3> QED
        BY <2>1, <3>3 DEF Ref, IInv, Sound, NoneShared
    <2>5. None \notin Blocks
      BY DEF None, Blocks
    <2>6. \A b \in Blocks \ Caller : mem[b] # Free <=> \E f \in Fields : Owns(f) = b
      BY <2>1 DEF IInv, Sound, NoneLost
    <2>7. {Owns(f) : f \in Fields} \ {None} = {b \in Blocks \ Caller : mem[b] # Free}
      BY <2>4, <2>5, <2>6
    <2> QED
      BY <2>2, <2>3, <2>7 DEF OneOwner
  <1> QED
    BY <1>1, Invariance, PTL

(* A document that does not borrow keeps what was parsed into it for as    *)
(* long as it lives: no other call frees or overwrites its arena or pool.  *)
THEOREM OwnedContentsStay == Spec => []OwnersKeep
  <1>1. IInv => OwnersKeep
    BY DEF IInv, Sound, Kept, OwnersKeep, Holds, Alive
  <1> QED
    BY <1>1, Invariance, PTL
-----------------------------------------------------------------------------
(* What is borrowed.  An intact document that borrows has its arena, and   *)
(* the pool it may have, from one scratch, or both from the caller.        *)
Lent(dc, ss) ==
  \/ dc.vals = Store /\ dc.pool = Store
  \/ \E s \in Scratches : LentBy(dc, ss[s])

(* No two documents, nor a document and the view, are of one parse: a      *)
(* block that has lost the content it was lent with never has it again.    *)
GensAreParses ==
  /\ \A d \in Docs : Alive(docs[d]) => docs[d].gen \in 1..parses
  /\ \A d, e \in Docs :
       Alive(docs[d]) /\ Alive(docs[e]) /\ docs[d].gen = docs[e].gen => d = e
  /\ view # NoView =>
       /\ view.gen \in 1..parses /\ view.idx \in Blocks
       /\ \A d \in Docs : Alive(docs[d]) => docs[d].gen # view.gen

BorrowsAreLent ==
  /\ \A d \in Docs :
       Alive(docs[d]) /\ docs[d].borrowed /\ Intact(docs[d]) => Lent(docs[d], scr)
  /\ view # NoView /\ ViewIntact => \E s \in Scratches : scr[s].blk["idx"] = view.idx

LInv == IInv /\ GensAreParses /\ BorrowsAreLent

(* What a step may do, whichever it is.  It changes a block that is free,  *)
(* that a document owns, or that its call uses, and leaves in it nothing,  *)
(* a parse newer than all, or a copy that a document owns from then on ... *)
Newer(x) == x \in {Free, Corrupt, Junk} \/ x > parses

Used(b) ==
  \/ b = Buffer /\ call'[1] \in InPlace
  \/ b = Store /\ call' = <<"fixed">>
  \/ \E s \in Scratches, a \in Array :
       scr[s].blk[a] = b /\ call' \in (Users(a) \cup {"release"}) \X {s}

StepTouches ==
  \A b \in Blocks : mem'[b] # mem[b] =>
    /\ \/ Newer(mem'[b])
       \/ \E d \in Docs : Alive(docs'[d]) /\ ~docs'[d].borrowed /\ docs'[d].gen = mem'[b]
    /\ mem[b] = Free \/ (\E d \in Docs : b \in Mine(docs[d])) \/ Used(b)

(* ... leaves the arrays of a scratch together, but for those that lose    *)
(* what they held ...                                                      *)
StepLends ==
  \A s \in Scratches : \E t \in Scratches : \A a \in Array :
    \/ scr'[t].blk[a] = scr[s].blk[a]
    \/ scr[s].blk[a] # None => Newer(mem'[scr[s].blk[a]])

(* ... and makes documents from those there were or from a new parse.      *)
StepDocs ==
  /\ \A d \in Docs : Alive(docs'[d]) =>
       \/ \E e \in Docs : /\ Alive(docs[e]) /\ docs'[d].gen = docs[e].gen
                          /\ docs'[d] = docs[e] \/ ~docs'[d].borrowed
       \/ /\ docs'[d].gen = parses + 1 /\ parses' = parses + 1
          /\ docs'[d].borrowed => Lent(docs'[d], scr')
  /\ \A d, e \in Docs :
       Alive(docs'[d]) /\ Alive(docs'[e]) /\ docs'[d].gen = docs'[e].gen => d = e

StepView ==
  \/ view' = view
  \/ view' = NoView
  \/ /\ docs' = docs /\ parses' = parses + 1
     /\ view'.gen = parses' /\ view'.idx \in Blocks
     /\ \E s \in Scratches : scr'[s].blk["idx"] = view'.idx

StepIs ==
  /\ StepTouches /\ StepLends /\ StepDocs /\ StepView
  /\ parses' \in {parses, parses + 1}

LEMMA StepKeepsGens ==
  ASSUME IInv, GensAreParses, StepIs
  PROVE  GensAreParses'
  <1>1. parses \in Nat /\ parses' \in Nat /\ parses' >= parses
    BY DEF IInv, StepIs
  <1>2. ASSUME NEW d \in Docs, Alive(docs'[d])
        PROVE  \/ docs'[d].gen = parses' /\ parses' = parses + 1
               \/ docs'[d].gen \in 1..parses /\ (view # NoView => docs'[d].gen # view.gen)
    BY <1>2 DEF GensAreParses, StepIs, StepDocs
  <1>3. \A d \in Docs : Alive(docs'[d]) => docs'[d].gen \in 1..parses'
    BY <1>1, <1>2
  <1>4. ASSUME view' # NoView
        PROVE  /\ view'.gen \in 1..parses' /\ view'.idx \in Blocks
               /\ \A d \in Docs : Alive(docs'[d]) => docs'[d].gen # view'.gen
    <2>1. CASE view' = view
      BY <1>1, <1>2, <1>4, <2>1 DEF GensAreParses
    <2>2. CASE docs' = docs /\ parses' = parses + 1 /\ view'.gen = parses' /\ view'.idx \in Blocks
      BY <1>1, <2>2 DEF GensAreParses
    <2> QED
      BY <1>4, <2>1, <2>2 DEF StepIs, StepView
  <1> QED
    BY <1>3, <1>4 DEF GensAreParses, StepIs, StepDocs, Alive

LEMMA StepKeepsLent ==
  ASSUME LInv, IInv', GensAreParses', StepIs
  PROVE  BorrowsAreLent'
  <1>1. ASSUME NEW x \in 1..parses PROVE ~Newer(x)
    BY <1>1 DEF LInv, IInv, Newer, Free, Corrupt, Junk
  <1>2. ASSUME NEW d \in Docs, Alive(docs'[d]), docs'[d].borrowed, Intact(docs[d])'
        PROVE  Lent(docs'[d], scr')
    <2> DEFINE dc == docs'[d]
    <2>1. CASE docs'[d].borrowed => Lent(docs'[d], scr')
      BY <1>2, <2>1
    <2>2. CASE \E e \in Docs : Alive(docs[e]) /\ docs'[d] = docs[e]
      <3>1. PICK e \in Docs : Alive(docs[e]) /\ dc = docs[e]
        BY <2>2
      <3>2. dc.gen \in 1..parses /\ dc \in Doc
        BY <3>1 DEF LInv, GensAreParses, IInv, Sound, Typed
      <3>3. /\ dc.vals \in Blocks /\ mem'[dc.vals] = dc.gen
            /\ Text(dc) \in Blocks /\ mem'[Text(dc)] = dc.gen
        <4>1. /\ dc.vals # None /\ mem'[dc.vals] = dc.gen
              /\ Text(dc) # None /\ mem'[Text(dc)] = dc.gen
          BY <1>2 DEF Intact, Holds, Alive, Text
        <4>2. Caller \subseteq Blocks
          BY DocHeapAssumption DEF Caller, Buffer, Store, Blocks
        <4> QED
          BY <3>2, <4>1, <4>2 DEF Doc, Ref, Text, Caller
      <3>4. ASSUME NEW b \in Blocks, mem'[b] = dc.gen PROVE mem[b] = dc.gen
        <4>1. ~Newer(mem'[b])
          BY <1>1, <3>2, <3>4
        <4>2. \A x \in Docs : ~(Alive(docs'[x]) /\ ~docs'[x].borrowed /\ docs'[x].gen = mem'[b])
          BY <1>2, <3>4 DEF StepIs, StepDocs
        <4> QED
          BY <3>4, <4>1, <4>2 DEF StepIs, StepTouches
      <3>5. Intact(docs[e])
        BY <3>1, <3>3, <3>4 DEF Intact, Holds, Blocks, None
      <3>6. Lent(dc, scr)
        BY <1>2, <3>1, <3>5 DEF LInv, BorrowsAreLent
      <3>7. CASE \E s \in Scratches : LentBy(dc, scr[s])
        <4>1. PICK s \in Scratches : LentBy(dc, scr[s])
          BY <3>7
        <4>2. PICK t \in Scratches : \A a \in Array :
                \/ scr'[t].blk[a] = scr[s].blk[a]
                \/ scr[s].blk[a] # None => Newer(mem'[scr[s].blk[a]])
          BY DEF StepIs, StepLends
        <4>3. ~Newer(dc.gen) /\ dc.vals # None
          BY <1>1, <3>2, <3>3 DEF Blocks, None
        <4>4. scr'[t].blk["vals"] = dc.vals
          BY <3>3, <4>1, <4>2, <4>3 DEF LentBy, Array
        <4>5. dc.pool # None => scr'[t].blk["pool"] = dc.pool
          BY <3>3, <4>1, <4>2, <4>3 DEF LentBy, Array, Text
        <4> QED
          BY <4>4, <4>5 DEF Lent, LentBy
      <3> QED
        BY <3>6, <3>7 DEF Lent
    <2> QED
      BY <1>2, <2>1, <2>2 DEF StepIs, StepDocs
  <1>3. ASSUME view' # NoView, ViewIntact'
        PROVE  \E s \in Scratches : scr'[s].blk["idx"] = view'.idx
    <2>1. CASE view' = view
      <3> DEFINE b == view.idx
      <3>1. /\ b \in Blocks /\ mem'[b] = view.gen /\ view.gen \in 1..parses
            /\ \A d \in Docs : Alive(docs'[d]) => docs'[d].gen # view.gen
        BY <1>3, <2>1 DEF ViewIntact, Holds, LInv, GensAreParses, Alive
      <3>2. ~Newer(mem'[b]) /\ b # None
        BY <1>1, <3>1 DEF Blocks, None
      <3>3. mem[b] = view.gen
        BY <3>1, <3>2 DEF StepIs, StepTouches
      <3>4. ViewIntact
        BY <3>2, <3>3 DEF ViewIntact, Holds
      <3>5. PICK s \in Scratches : scr[s].blk["idx"] = b
        BY <1>3, <2>1, <3>4 DEF LInv, BorrowsAreLent
      <3>6. \E t \in Scratches : scr'[t].blk["idx"] = b
        BY <3>2, <3>5 DEF StepIs, StepLends, Array
      <3> QED
        BY <2>1, <3>6
    <2> QED
      BY <1>3, <2>1 DEF StepIs, StepView
  <1> QED
    BY <1>2, <1>3 DEF BorrowsAreLent, Alive

(* A block that loses what was borrowed with it was used by the call.      *)
LEMMA StepLosesByUse ==
  ASSUME LInv, IInv', StepIs,
         NEW b \in Blocks, mem[b] \in 1..parses, mem'[b] # mem[b],
         \A d \in Docs : b \notin Mine(docs[d])
  PROVE  Used(b)
  BY DEF StepIs, StepTouches, LInv, IInv, Free

LEMMA ArrayOfOne ==
  ASSUME IInv, NEW s \in Scratches, NEW a \in Array, scr[s].blk[a] # None,
         Used(scr[s].blk[a])
  PROVE  call' \in (Users(a) \cup {"release"}) \X {s}
  <1> DEFINE b == scr[s].blk[a]
  <1>1. FieldByField(docs, scr)
    BY FieldOf
  <1>2. b \notin Caller /\ <<s, a>> \in Fields /\ OwnedBy(docs, scr, <<s, a>>) = b
    BY <1>1 DEF IInv, Sound, NoneShared, FieldByField
  <1>3. PICK t \in Scratches, x \in Array :
          scr[t].blk[x] = b /\ call' \in (Users(x) \cup {"release"}) \X {t}
    BY <1>2 DEF Used, Caller
  <1>4. <<t, x>> \in Fields /\ OwnedBy(docs, scr, <<t, x>>) = b
    BY <1>1, <1>3 DEF FieldByField
  <1>5. <<t, x>> = <<s, a>>
    BY <1>2, <1>4 DEF IInv, Sound, NoneShared
  <1>6. t = s /\ x = a
    BY <1>5
  <1> QED
    BY <1>3, <1>6

LEMMA LentApart ==
  ASSUME IInv, NEW b, b \in Caller \/ \E s \in Scratches, a \in Array : scr[s].blk[a] = b,
         NEW d \in Docs
  PROVE  b \notin Mine(docs[d])
  <1> SUFFICES ASSUME b \in Mine(docs[d]) PROVE FALSE
    OBVIOUS
  <1>1. ~docs[d].borrowed /\ b \in {docs[d].vals, docs[d].pool} /\ b # None
    BY DEF Mine
  <1>2. b \in Blocks \ Caller /\ \A s \in Scratches, a \in Array : scr[s].blk[a] # b
    BY <1>1, OwnedApart DEF IInv
  <1> QED
    BY <1>2

LEMMA CallerUsed ==
  ASSUME IInv, NEW b \in Caller, Used(b)
  PROVE  \/ b = Buffer /\ call'[1] \in InPlace
         \/ b = Store /\ call' = <<"fixed">>
  <1>1. FieldByField(docs, scr)
    BY FieldOf
  <1>2. \A s \in Scratches, a \in Array : scr[s].blk[a] # b
    <2> SUFFICES ASSUME NEW s \in Scratches, NEW a \in Array PROVE scr[s].blk[a] # b
      OBVIOUS
    <2>1. <<s, a>> \in Fields /\ OwnedBy(docs, scr, <<s, a>>) = scr[s].blk[a]
      BY <1>1 DEF FieldByField
    <2> QED
      BY <2>1 DEF IInv, Sound, NoneShared
  <1> QED
    BY <1>2 DEF Used

LEMMA StepLosesByReuse ==
  ASSUME LInv, IInv', StepIs
  PROVE  LosesByReuse
  <1>1. ASSUME NEW d \in Docs, docs'[d] = docs[d], Intact(docs[d]), ~Intact(docs[d])'
        PROVE  LET dc == docs[d] IN
               \/ dc.borrowed /\ UsesFor(dc.vals, "vals", {"reuse", "insitu_reuse", "release"})
               \/ dc.alias = Buffer /\ call'[1] \in {"insitu", "insitu_reuse"}
               \/ dc.pool = Store /\ call' = <<"fixed">>
    <2> DEFINE dc == docs[d]
    <2>1. /\ Alive(dc) /\ dc.vals # None /\ mem[dc.vals] = dc.gen
          /\ Text(dc) # None /\ mem[Text(dc)] = dc.gen
          /\ mem'[dc.vals] # dc.gen \/ mem'[Text(dc)] # dc.gen
      BY <1>1 DEF Intact, Holds, Alive, Text
    <2>2. /\ dc \in Doc /\ dc.gen \in 1..parses /\ dc.vals \in Blocks /\ Text(dc) \in Blocks
      <3>1. Caller \subseteq Blocks
        BY DocHeapAssumption DEF Caller, Buffer, Store, Blocks
      <3> QED
        BY <2>1, <3>1 DEF LInv, GensAreParses, IInv, Sound, Typed, Doc, Ref, Text, Caller
    <2>3. CASE ~dc.borrowed
      <3>1. /\ mem'[dc.vals] = dc.gen
            /\ dc.pool # None => mem'[dc.pool] = dc.gen
        BY <1>1, <2>1, <2>3 DEF IInv, Sound, Kept
      <3>2. dc.pool = None /\ Text(dc) = dc.alias /\ mem'[dc.alias] # dc.gen
        BY <2>1, <3>1 DEF Text
      <3>3. dc.alias = Buffer /\ Used(dc.alias)
        <4>1. dc.alias = Buffer /\ dc.alias \in Caller
          BY <2>1, <2>2, <3>2 DEF Doc, Caller
        <4>2. \A e \in Docs : dc.alias \notin Mine(docs[e])
          BY <4>1, LentApart DEF LInv
        <4> QED
          BY <2>1, <2>2, <3>2, <4>1, <4>2, StepLosesByUse
      <3> QED
        BY <3>3, CallerUsed DEF LInv, Caller, Buffer, Store, InPlace
    <2>4. CASE dc.borrowed /\ dc.vals = Store /\ dc.pool = Store
      <3>1. Text(dc) = Store /\ mem'[Store] # dc.gen /\ Store \in Caller
        BY <2>1, <2>4 DEF Text, Store, None, Caller
      <3>2. \A e \in Docs : Store \notin Mine(docs[e])
        BY <3>1, LentApart DEF LInv
      <3>3. Used(Store)
        BY <2>1, <2>2, <2>4, <3>1, <3>2, StepLosesByUse
      <3> QED
        BY <2>4, <3>1, <3>3, CallerUsed DEF LInv, Buffer, Store
    <2>5. ASSUME dc.borrowed, NEW s \in Scratches, LentBy(dc, scr[s])
          PROVE  \/ UsesFor(dc.vals, "vals", {"reuse", "insitu_reuse", "release"})
                 \/ dc.alias = Buffer /\ call'[1] \in {"insitu", "insitu_reuse"}
      <3>1. scr[s].blk["vals"] = dc.vals /\ "vals" \in Array /\ "pool" \in Array
        BY <2>5 DEF LentBy, Array
      <3>2. ASSUME call' \in {"reuse", "insitu_reuse", "release"} \X {s}
            PROVE  UsesFor(dc.vals, "vals", {"reuse", "insitu_reuse", "release"})
        BY <3>1, <3>2 DEF UsesFor
      <3>3. CASE mem'[dc.vals] # dc.gen
        <4>1. \A e \in Docs : dc.vals \notin Mine(docs[e])
          BY <3>1, LentApart DEF LInv
        <4>2. Used(dc.vals)
          BY <2>1, <2>2, <3>3, <4>1, StepLosesByUse
        <4>3. call' \in (Users("vals") \cup {"release"}) \X {s}
          BY <2>1, <3>1, <4>2, ArrayOfOne DEF LInv
        <4> QED
          BY <3>2, <4>3 DEF Users
      <3>4. CASE mem'[Text(dc)] # dc.gen /\ dc.pool # None
        <4>1. Text(dc) = scr[s].blk["pool"]
          BY <2>5, <3>4 DEF Text, LentBy
        <4>2. \A e \in Docs : Text(dc) \notin Mine(docs[e])
          BY <3>1, <4>1, LentApart DEF LInv
        <4>3. Used(Text(dc))
          BY <2>1, <2>2, <3>4, <4>2, StepLosesByUse
        <4>4. call' \in (Users("pool") \cup {"release"}) \X {s}
          BY <2>1, <3>1, <4>1, <4>3, ArrayOfOne DEF LInv
        <4> QED
          BY <3>2, <4>4 DEF Users
      <3>5. CASE mem'[Text(dc)] # dc.gen /\ dc.pool = None
        <4>1. dc.alias = Buffer /\ Text(dc) = Buffer /\ Buffer \in Caller
          BY <2>1, <2>2, <3>5 DEF Doc, Text, Caller
        <4>2. \A e \in Docs : Buffer \notin Mine(docs[e])
          BY <4>1, LentApart DEF LInv
        <4>3. Used(Buffer)
          BY <2>1, <2>2, <3>5, <4>1, <4>2, StepLosesByUse
        <4> QED
          BY <4>1, <4>3, CallerUsed DEF LInv, Buffer, Store, InPlace
      <3> QED
        BY <2>1, <3>3, <3>4, <3>5
    <2>6. dc.borrowed => Lent(dc, scr)
      BY <1>1, <2>1 DEF LInv, BorrowsAreLent
    <2> QED
      BY <2>3, <2>4, <2>5, <2>6 DEF Lent
  <1>2. ASSUME view' = view, ViewIntact, ~ViewIntact'
        PROVE  UsesFor(view.idx, "idx", Mode \cup {"iterate", "release"})
    <2> DEFINE b == view.idx
    <2>1. view # NoView /\ b # None /\ mem[b] = view.gen /\ mem'[b] # mem[b]
      BY <1>2 DEF ViewIntact, Holds
    <2>2. mem[b] \in 1..parses /\ b \in Blocks
      BY <2>1 DEF LInv, GensAreParses
    <2>3. PICK s \in Scratches : scr[s].blk["idx"] = b
      BY <1>2, <2>1 DEF LInv, BorrowsAreLent
    <2>4. \A e \in Docs : b \notin Mine(docs[e])
      BY <2>3, LentApart DEF LInv, Array
    <2>5. Used(b)
      BY <2>1, <2>2, <2>4, StepLosesByUse
    <2>6. call' \in (Users("idx") \cup {"release"}) \X {s}
      BY <2>1, <2>3, <2>5, ArrayOfOne DEF LInv, Array
    <2>7. Users("idx") = Mode \cup {"iterate"}
      BY DEF Users
    <2> QED
      BY <2>3, <2>6, <2>7 DEF UsesFor
  <1> QED
    BY <1>1, <1>2 DEF LosesByReuse

-----------------------------------------------------------------------------
(* What is freed is what was to be freed.                                  *)
LEMMA ReleaseTouches ==
  ASSUME NEW m, DOMAIN m = Blocks, NEW b \in Ref
  PROVE  /\ DOMAIN Release(m, b) = Blocks
         /\ \A y \in Blocks : IF y = b THEN Release(m, b)[y] \in {Free, Corrupt}
                                       ELSE Release(m, b)[y] = m[y]
  BY DEF Release, Ref, Blocks, None

LEMMA DroppedTouches ==
  ASSUME NEW m, DOMAIN m = Blocks, NEW dc \in Doc
  PROVE  \A y \in Blocks : \/ Dropped(m, dc)[y] = m[y]
                           \/ Dropped(m, dc)[y] \in {Free, Corrupt} /\ y \in Mine(dc)
  <1>1. CASE dc.borrowed
    BY <1>1 DEF Dropped
  <1>2. CASE ~dc.borrowed
    <2> DEFINE v == Release(m, dc.vals)
               w == Release(v, dc.pool)
    <2>1. dc.vals \in Ref /\ dc.pool \in Ref
      BY DEF Doc
    <2>2. DOMAIN v = Blocks /\ \A y \in Blocks : IF y = dc.vals THEN v[y] \in {Free, Corrupt}
                                                                 ELSE v[y] = m[y]
      BY <2>1, ReleaseTouches
    <2> HIDE DEF v
    <2>3. \A y \in Blocks : IF y = dc.pool THEN w[y] \in {Free, Corrupt} ELSE w[y] = v[y]
      BY <2>1, <2>2, ReleaseTouches
    <2>4. Dropped(m, dc) = w
      BY <1>2 DEF Dropped, v
    <2>5. \A y \in Blocks : y \in {dc.vals, dc.pool} => y \in Mine(dc)
      BY <1>2 DEF Mine, Blocks, None
    <2> HIDE DEF w
    <2> QED
      BY <2>2, <2>3, <2>4, <2>5
  <1> QED
    BY <1>1, <1>2

LEMMA EmptiedTouches ==
  ASSUME NEW m, DOMAIN m = Blocks, NEW sc \in Scr
  PROVE  \A y \in Blocks :
           IF \E a \in Array : sc.blk[a] = y THEN Emptied(m, sc)[y] \in {Free, Corrupt}
                                             ELSE Emptied(m, sc)[y] = m[y]
  <1> DEFINE m1 == Release(m, sc.blk["idx"])
             m2 == Release(m1, sc.blk["pool"])
             m3 == Release(m2, sc.blk["vals"])
  <1>1. /\ Array = {"idx", "pool", "vals"} /\ Emptied(m, sc) = m3
        /\ sc.blk["idx"] \in Ref /\ sc.blk["pool"] \in Ref /\ sc.blk["vals"] \in Ref
    BY DEF Array, Emptied, Scr
  <1>2. DOMAIN m1 = Blocks /\ \A y \in Blocks : IF y = sc.blk["idx"] THEN m1[y] \in {Free, Corrupt}
                                                                     ELSE m1[y] = m[y]
    BY <1>1, ReleaseTouches
  <1> HIDE DEF m1
  <1>3. DOMAIN m2 = Blocks /\ \A y \in Blocks : IF y = sc.blk["pool"] THEN m2[y] \in {Free, Corrupt}
                                                                      ELSE m2[y] = m1[y]
    BY <1>1, <1>2, ReleaseTouches
  <1> HIDE DEF m2
  <1>4. \A y \in Blocks : IF y = sc.blk["vals"] THEN m3[y] \in {Free, Corrupt} ELSE m3[y] = m2[y]
    BY <1>1, <1>3, ReleaseTouches
  <1> HIDE DEF m3
  <1> QED
    BY <1>1, <1>2, <1>3, <1>4

(* What the states of LInv are made of.                                    *)
LEMMA LInvTypes ==
  ASSUME LInv
  PROVE  /\ DOMAIN mem = Blocks /\ docs \in [Docs -> Doc] /\ scr \in [Scratches -> Scr]
         /\ parses \in Nat
         /\ \A d \in Docs : Alive(docs[d]) => docs[d].gen \in 1..parses
         /\ \A d, e \in Docs :
              Alive(docs[d]) /\ Alive(docs[e]) /\ docs[d].gen = docs[e].gen => d = e
  BY DEF LInv, IInv, Sound, Typed, GensAreParses

(* A document replaced by one of this parse, or by none.                   *)
LEMMA ReplacedDocs ==
  ASSUME LInv, NEW d \in Docs, NEW dc, docs' = WithDoc(docs, d, dc),
         Alive(dc) => /\ dc.gen = parses + 1 /\ parses' = parses + 1
                      /\ dc.borrowed => Lent(dc, scr')
  PROVE  StepDocs
  <1>1. /\ docs'[d] = dc /\ \A e \in Docs \ {d} : docs'[e] = docs[e]
    BY LInvTypes DEF WithDoc
  <1>2. \A e \in Docs : Alive(docs'[e]) =>
          \/ e # d /\ docs'[e] = docs[e] /\ docs'[e].gen \in 1..parses
          \/ e = d /\ docs'[e].gen = parses + 1
    BY <1>1, LInvTypes
  <1>3. \A e, f \in Docs :
          Alive(docs'[e]) /\ Alive(docs'[f]) /\ docs'[e].gen = docs'[f].gen => e = f
    BY <1>2, LInvTypes
  <1> QED
    BY <1>1, <1>3 DEF StepDocs

LEMMA UnchangedDocs ==
  ASSUME LInv, docs' = docs
  PROVE  StepDocs
  BY LInvTypes DEF StepDocs

LEMMA UnchangedScr ==
  ASSUME scr' = scr
  PROVE  StepLends
  BY DEF StepLends

(* A call over a scratch, as far as the heap and its arrays go.            *)
LEMMA DuringTouches ==
  ASSUME LInv, NEW s \in Scratches, NEW mode \in Mode \cup {"iterate"}, NEW m, NEW sc, NEW new,
         During(CallOf(s, mode, parses + 1), m, sc, new),
         scr' = WithScr(scr, s, sc), call' = <<mode, s>>,
         \A b \in Blocks : \/ mem'[b] = m[b]
                           \/ mem'[b] \in {Free, Corrupt} /\ \E d \in Docs : b \in Mine(docs[d])
  PROVE  StepTouches /\ StepLends
  <1> DEFINE g == parses + 1
             c == CallOf(s, mode, g)
  <1>1. /\ c.s = s /\ c.g = g /\ c.uses = {a \in Array : mode \in Users(a)}
        /\ c.more = IF mode \in InPlace THEN {Buffer} ELSE {}
    BY DEF CallOf
  <1> HIDE DEF c
  <1>2. During(c, m, sc, new) /\ parses \in Nat
    BY LInvTypes DEF c
  <1>3. \A x \in Fresh(g) \cup {Free, Corrupt} : Newer(x)
    BY <1>2 DEF Fresh, Newer
  <1>4. ASSUME NEW b \in Reach(c) PROVE mem[b] = Free \/ Used(b)
    <2>1. CASE \E a \in c.uses : scr[s].blk[a] = b
      BY <1>1, <2>1 DEF Used
    <2>2. CASE b \in c.more
      BY <1>1, <2>2 DEF Used, InPlace
    <2> QED
      BY <1>1, <2>1, <2>2 DEF Reach
  <1>5. StepTouches
    <2> SUFFICES ASSUME NEW b \in Blocks, mem'[b] # mem[b]
                 PROVE  /\ Newer(mem'[b])
                        /\ mem[b] = Free \/ (\E d \in Docs : b \in Mine(docs[d])) \/ Used(b)
      BY DEF StepTouches
    <2>1. CASE mem'[b] = m[b]
      BY <1>1, <1>2, <1>3, <1>4, <2>1 DEF During, OnlyTouches
    <2>2. CASE mem'[b] \in {Free, Corrupt} /\ \E d \in Docs : b \in Mine(docs[d])
      BY <1>3, <2>2
    <2> QED
      BY <2>1, <2>2
  <1>6. StepLends
    <2> SUFFICES ASSUME NEW t \in Scratches, NEW a \in Array
                 PROVE  \/ scr'[t].blk[a] = scr[t].blk[a]
                        \/ scr[t].blk[a] # None => Newer(mem'[scr[t].blk[a]])
      BY DEF StepLends
    <2>1. CASE t # s
      BY LInvTypes, <2>1 DEF WithScr
    <2>2. CASE t = s
      <3>1. scr'[t] = sc
        BY LInvTypes, <2>2 DEF WithScr
      <3>2. scr[s].blk[a] \in Ref
        BY LInvTypes DEF Scr
      <3>3. \/ sc.blk[a] = scr[s].blk[a]
            \/ scr[s].blk[a] # None => m[scr[s].blk[a]] \in Fresh(g)
        BY <1>1, <1>2 DEF During, ArraysLeft
      <3> QED
        BY <1>3, <2>2, <3>1, <3>2, <3>3 DEF Ref
    <2> QED
      BY <2>1, <2>2
  <1> QED
    BY <1>5, <1>6

LEMMA ParseIsStep ==
  ASSUME LInv, NEW d \in Docs, NEW s \in Scratches, NEW mode \in Mode, NEW n \in Sizes,
         NEW fault \in Fault, Parse(d, s, mode, n, fault)
  PROVE  StepIs
  <1> DEFINE g == parses + 1
             r == ParseBy(mode, scr[s], g, n, fault)
             c == CallOf(s, mode, g)
  <1>1. /\ g \in Nat /\ parses' = g /\ ParseIsSound(c, r)
        /\ mem' = IF r.ok THEN Dropped(r.mem, docs[d]) ELSE r.mem
        /\ docs' = IF r.ok THEN WithDoc(docs, d, r.doc) ELSE docs
        /\ scr' = WithScr(scr, s, r.sc)
    BY ParseRuns DEF LInv
  <1>2. call' = <<mode, s>> /\ view' = view
    BY DEF Parse
  <1>3. c.g = g
    BY DEF CallOf
  <1>4. PICK new : During(c, r.mem, r.sc, new)
    BY <1>1 DEF ParseIsSound
  <1>5. /\ r.ok => r.doc.gen = g
        /\ r.doc.borrowed => LentBy(r.doc, r.sc)
    BY <1>1, <1>3 DEF ParseIsSound
  <1> HIDE DEF r
  <1>6. StepTouches /\ StepLends
    <2>1. DOMAIN r.mem = Blocks
      BY <1>4 DEF During, Sound, Typed
    <2>2. \A b \in Blocks : \/ mem'[b] = r.mem[b]
                            \/ mem'[b] \in {Free, Corrupt} /\ \E e \in Docs : b \in Mine(docs[e])
      <3>1. docs[d] \in Doc
        BY LInvTypes
      <3> QED
        BY <1>1, <2>1, <3>1, DroppedTouches
    <2> QED
      BY <1>1, <1>2, <1>4, <2>2, DuringTouches
  <1>7. StepDocs
    <2>1. CASE r.ok
      <3>1. r.doc.borrowed => Lent(r.doc, scr')
        <4>1. scr'[s] = r.sc
          BY <1>1, LInvTypes DEF WithScr
        <4> QED
          BY <1>5, <4>1 DEF Lent
      <3> QED
        BY <1>1, <1>5, <2>1, <3>1, ReplacedDocs
    <2>2. CASE ~r.ok
      BY <1>1, <2>2, UnchangedDocs
    <2> QED
      BY <2>1, <2>2
  <1> QED
    BY <1>1, <1>2, <1>6, <1>7 DEF StepIs, StepView

LEMMA IterateIsStep ==
  ASSUME LInv, NEW s \in Scratches, NEW n \in Sizes, NEW fault \in {"none", "idx", "scan"},
         Iterate(s, n, fault)
  PROVE  StepIs
  <1> DEFINE g == parses + 1
             i == Ensured(mem, scr[s], "idx", n, fault = "idx")
  <1>1. /\ g \in Nat /\ parses' = g /\ docs' = docs
        /\ During(CallOf(s, "iterate", g), mem', i.sc, {}) /\ scr' = WithScr(scr, s, i.sc)
        /\ i.ok => i.sc.blk["idx"] \in Blocks
    BY IterateRuns DEF LInv
  <1>2. /\ call' = <<"iterate", s>>
        /\ view' = IF i.ok /\ fault = "none" THEN [idx |-> i.sc.blk["idx"], gen |-> parses']
                                             ELSE NoView
    BY DEF Iterate
  <1> HIDE DEF i
  <1>3. StepTouches /\ StepLends
    BY <1>1, <1>2, DuringTouches
  <1>4. StepView
    <2>1. scr'[s] = i.sc
      BY <1>1, LInvTypes DEF WithScr
    <2> QED
      BY <1>1, <1>2, <2>1 DEF StepView
  <1> QED
    BY <1>1, <1>3, <1>4, UnchangedDocs DEF StepIs

(* Calls that release what a document owned, or a scratch.                 *)
LEMMA DroppedIsStep ==
  ASSUME LInv, NEW d \in Docs, scr' = scr, view' = view,
         parses' \in {parses, parses + 1}, StepDocs,
         NEW m, m = Dropped(mem, docs[d]),
         \/ mem' = m
         \/ mem' = Write(m, Store, parses + 1) /\ call' = <<"fixed">>
  PROVE  StepIs
  <1>1. parses \in Nat /\ DOMAIN mem = Blocks /\ docs[d] \in Doc
    BY LInvTypes
  <1>2. \A b \in Blocks : \/ m[b] = mem[b]
                          \/ m[b] \in {Free, Corrupt} /\ b \in Mine(docs[d])
    BY <1>1, DroppedTouches
  <1>3. \A b \in Blocks : \/ mem'[b] = m[b]
                          \/ b = Store /\ mem'[b] = parses + 1 /\ call' = <<"fixed">>
    <2>1. DOMAIN m = Blocks
      <3>1. docs[d].vals \in Ref /\ docs[d].pool \in Ref
        BY <1>1 DEF Doc
      <3> QED
        BY <1>1, <3>1, ReleaseTouches DEF Dropped
    <2> QED
      BY <2>1 DEF Write
  <1>4. StepTouches
    BY <1>1, <1>2, <1>3 DEF StepTouches, Newer, Used
  <1> QED
    BY <1>4, UnchangedScr DEF StepIs, StepView

LEMMA ParseFixedIsStep ==
  ASSUME LInv, NEW d \in Docs, NEW outcome \in {"ok", "refused", "failed"}, ParseFixed(d, outcome)
  PROVE  StepIs
  <1> DEFINE g  == parses + 1
             m  == Dropped(mem, docs[d])
             dc == IF outcome = "ok" THEN [NoDoc EXCEPT !.vals = Store, !.pool = Store,
                                                        !.borrowed = TRUE, !.gen = g]
                                     ELSE NoDoc
  <1>1. /\ parses' = g /\ docs' = WithDoc(docs, d, dc) /\ scr' = scr /\ view' = view
        /\ mem' = m \/ mem' = Write(m, Store, g)
        /\ call' = <<"fixed">>
    BY DEF ParseFixed, Serial, WithDoc
  <1>2. Alive(dc) => dc.gen = g /\ Lent(dc, scr')
    BY DEF Alive, NoDoc, Lent
  <1> HIDE DEF dc, m
  <1>3. StepDocs
    BY <1>1, <1>2, ReplacedDocs
  <1> QED
    BY <1>1, <1>3, DroppedIsStep DEF m

LEMMA DropDocIsStep ==
  ASSUME LInv, NEW d \in Docs, DropDoc(d)
  PROVE  StepIs
  <1>1. /\ parses' = parses /\ docs' = WithDoc(docs, d, NoDoc) /\ scr' = scr /\ view' = view
        /\ mem' = Dropped(mem, docs[d])
    BY DEF DropDoc, WithDoc
  <1>2. ~Alive(NoDoc)
    BY DEF Alive, NoDoc
  <1>3. StepDocs
    BY <1>1, <1>2, ReplacedDocs
  <1> QED
    BY <1>1, <1>3, DroppedIsStep

LEMMA MoveDocIsStep ==
  ASSUME LInv, NEW d \in Docs, NEW e \in Docs, MoveDoc(d, e)
  PROVE  StepIs
  <1>1. /\ parses' = parses /\ scr' = scr /\ view' = view /\ mem' = Dropped(mem, docs[e])
        /\ d # e /\ docs' = [docs EXCEPT ![e] = docs[d], ![d] = NoDoc]
    BY DEF MoveDoc
  <1>2. ~Alive(NoDoc)
    BY DEF Alive, NoDoc
  <1>3. \A f \in Docs : docs'[f] = IF f = d THEN NoDoc ELSE IF f = e THEN docs[d] ELSE docs[f]
    BY <1>1, LInvTypes
  <1>4. \A f, h \in Docs :
          Alive(docs'[f]) /\ Alive(docs'[h]) /\ docs'[f].gen = docs'[h].gen => f = h
    BY <1>1, <1>2, <1>3, LInvTypes
  <1>5. StepDocs
    BY <1>2, <1>3, <1>4 DEF StepDocs
  <1> QED
    BY <1>1, <1>5, DroppedIsStep

LEMMA EmptiedIsStep ==
  ASSUME LInv, NEW t \in Scratches, mem' = Emptied(mem, scr[t]), call' = <<"release", t>>,
         docs' = docs, view' = view, parses' = parses,
         \A s \in Scratches \ {t} : \E x \in Scratches : scr'[x] = scr[s]
  PROVE  StepIs
  <1>1. /\ DOMAIN mem = Blocks /\ scr[t] \in Scr /\ \A a \in Array : scr[t].blk[a] \in Ref
    BY LInvTypes DEF Scr
  <1>2. \A b \in Blocks : IF \E a \in Array : scr[t].blk[a] = b THEN mem'[b] \in {Free, Corrupt}
                                                                ELSE mem'[b] = mem[b]
    BY <1>1, EmptiedTouches
  <1>3. StepTouches
    BY <1>2 DEF StepTouches, Newer, Used
  <1>4. StepLends
    <2> SUFFICES ASSUME NEW s \in Scratches
                 PROVE  \E x \in Scratches : \A a \in Array :
                          \/ scr'[x].blk[a] = scr[s].blk[a]
                          \/ scr[s].blk[a] # None => Newer(mem'[scr[s].blk[a]])
      BY DEF StepLends
    <2>1. CASE s = t
      BY <1>1, <1>2, <2>1 DEF Newer, Ref
    <2>2. CASE s # t
      BY <2>2
    <2> QED
      BY <2>1, <2>2
  <1> QED
    BY <1>3, <1>4, UnchangedDocs DEF StepIs, StepView

LEMMA MoveScratchIsStep ==
  ASSUME LInv, NEW s \in Scratches, NEW t \in Scratches, MoveScratch(s, t)
  PROVE  StepIs
  <1>1. /\ s # t /\ mem' = Emptied(mem, scr[t]) /\ call' = <<"release", t>>
        /\ docs' = docs /\ view' = view /\ parses' = parses
        /\ scr' = [scr EXCEPT ![t] = scr[s], ![s] = NoScr]
    BY DEF MoveScratch
  <1>2. scr'[t] = scr[s] /\ \A x \in Scratches \ {s, t} : scr'[x] = scr[x]
    BY <1>1, LInvTypes
  <1> QED
    BY <1>1, <1>2, EmptiedIsStep

LEMMA DropScratchIsStep ==
  ASSUME LInv, NEW s \in Scratches, DropScratch(s)
  PROVE  StepIs
  <1>1. /\ mem' = Emptied(mem, scr[s]) /\ call' = <<"release", s>>
        /\ docs' = docs /\ view' = view /\ parses' = parses
        /\ scr' = [scr EXCEPT ![s] = NoScr]
    BY DEF DropScratch
  <1>2. \A x \in Scratches \ {s} : scr'[x] = scr[x]
    BY <1>1, LInvTypes
  <1> QED
    BY <1>1, <1>2, EmptiedIsStep

(* What a mutation of an intact document does: it copies into free blocks, *)
(* which the document then owns, and frees what the document owned.        *)
Mutated(d, m, dc) ==
  /\ \A b \in Blocks :
       \/ m[b] = mem[b]
       \/ m[b] \in {Free, Corrupt} /\ (mem[b] = Free \/ b \in Mine(docs[d]))
       \/ m[b] = docs[d].gen /\ mem[b] = Free /\ ~dc.borrowed
  /\ dc.gen = docs[d].gen /\ Alive(dc)
  /\ dc = docs[d] \/ ~dc.borrowed

LEMMA MutatedIsStep ==
  ASSUME LInv, NEW d \in Docs, Alive(docs[d]), NEW m, NEW dc, Mutated(d, m, dc),
         mem' = m, docs' = WithDoc(docs, d, dc), scr' = scr, view' = view, parses' = parses
  PROVE  StepIs
  <1>1. docs'[d] = dc /\ \A e \in Docs \ {d} : docs'[e] = docs[e]
    BY LInvTypes DEF WithDoc
  <1>2. StepTouches
    BY <1>1 DEF StepTouches, Mutated, Newer
  <1>3. \A e, f \in Docs :
          Alive(docs'[e]) /\ Alive(docs'[f]) /\ docs'[e].gen = docs'[f].gen => e = f
    <2>1. \A e \in Docs : Alive(docs'[e]) => Alive(docs[e]) /\ docs'[e].gen = docs[e].gen
      BY <1>1 DEF Mutated
    <2> QED
      BY <2>1, LInvTypes
  <1>4. StepDocs
    BY <1>1, <1>3 DEF StepDocs, Mutated
  <1> QED
    BY <1>2, <1>4, UnchangedScr DEF StepIs, StepView

LEMMA DetachedMutates ==
  ASSUME LInv, NEW d \in Docs, docs[d].borrowed, Alive(docs[d]), Intact(docs[d]),
         NEW grow \in BOOLEAN, NEW fault, NEW r, r = Detached(docs[d], grow, fault)
  PROVE  Mutated(d, r.mem, r.doc)
  <1> DEFINE dc     == docs[d]
             g      == dc.gen
             wanted == dc.pool # None \/ grow
             np     == NewBlock(mem)
             pooled == Alloc(mem, g)
             copied == IF wanted THEN pooled ELSE mem
             ns     == NewBlock(copied)
             both   == Alloc(copied, g)
             own    == [dc EXCEPT !.vals = ns, !.borrowed = FALSE]
             mine   == IF wanted THEN [own EXCEPT !.pool = np, !.alias = None] ELSE own
             S(m, new) == Sound(m, docs, scr, new, g)
  <1>1. dc \in Doc /\ g \in Nat /\ S(mem, {}) /\ DOMAIN mem = Blocks
    BY AnyContent, LInvTypes DEF LInv, IInv, Doc
  <1>2. mem[Text(dc)] = g /\ mem[dc.vals] = g
    BY DEF Intact, Holds
  <1>3. \/ r = Result(FALSE, mem, dc)
        \/ wanted /\ r = Result(FALSE, Release(pooled, np), dc)
        \/ r = Result(TRUE, both, mine)
    <2>1. r = CASE wanted /\ fault = "pool" -> Result(FALSE, mem, dc)
                [] fault = "vals" ->
                     Result(FALSE, IF wanted THEN Release(copied, np) ELSE copied, dc)
                [] OTHER -> Result(TRUE, both, mine)
      BY <1>2 DEF Detached, GivenBack
    <2>2. IF wanted THEN copied = pooled ELSE copied = mem
      OBVIOUS
    <2> HIDE DEF both, mine, pooled, copied, np, wanted, dc
    <2> QED
      BY <2>1, <2>2
  <1>4. np \in Blocks /\ mem[np] = Free /\ S(pooled, {np})
    <2>0. Sound(mem, docs, scr, {}, g) /\ g \in Nat /\ IsFiniteSet({}) /\ Cardinality({}) = 0
      BY <1>1, FS_EmptySet
    <2> HIDE DEF g, dc, own, mine, wanted, both, ns, copied
    <2>1. S(pooled, {} \cup {np})
      BY <2>0, AllocIsSound
    <2>2. np \in Blocks \ Caller /\ mem[np] = Free
      BY <1>1, FS_EmptySet, NewBlockIsFree
    <2> QED
      BY <2>1, <2>2
  <1>5. pooled = [mem EXCEPT ![np] = g]
    BY DEF Alloc
  <1> HIDE DEF pooled, np
  <1>6. CASE r = Result(FALSE, mem, dc)
    BY <1>6 DEF Result, Mutated
  <1>7. CASE r = Result(FALSE, Release(pooled, np), dc)
    <2>1. DOMAIN pooled = Blocks /\ np \in Ref
      BY <1>1, <1>4, <1>5 DEF Ref
    <2>2. \A y \in Blocks : IF y = np THEN Release(pooled, np)[y] \in {Free, Corrupt}
                                      ELSE Release(pooled, np)[y] = pooled[y]
      BY <2>1, ReleaseTouches
    <2>3. r.mem = Release(pooled, np) /\ r.doc = dc
      BY <1>7 DEF Result
    <2>4. \A y \in Blocks : \/ r.mem[y] = mem[y]
                            \/ r.mem[y] \in {Free, Corrupt} /\ mem[y] = Free
      BY <1>1, <1>4, <1>5, <2>2, <2>3
    <2> QED
      BY <2>3, <2>4 DEF Mutated
  <1>8. CASE r = Result(TRUE, both, mine)
    <2>1. ns \in Blocks /\ copied[ns] = Free /\ DOMAIN copied = Blocks
      <3>1. CASE wanted
        <4>1. copied = pooled
          BY <3>1
        <4> HIDE DEF copied
        <4>2. IsFiniteSet({np}) /\ Cardinality({np}) <= 1
          BY OneCounts, Zenon
        <4>3. ns \in Blocks \ Caller /\ copied[ns] = Free
          BY <1>4, <4>1, <4>2, NewBlockIsFree
        <4> QED
          BY <1>1, <1>5, <4>1, <4>3
      <3>2. CASE ~wanted
        <4>1. copied = mem
          BY <3>2
        <4> HIDE DEF copied
        <4>2. ns \in Blocks \ Caller /\ copied[ns] = Free
          BY <1>1, <4>1, FS_EmptySet, NewBlockIsFree
        <4> QED
          BY <1>1, <4>1, <4>2
      <3> QED
        BY <3>1, <3>2
    <2>2. both = [copied EXCEPT ![ns] = g]
      BY DEF Alloc
    <2> HIDE DEF ns, both
    <2>3. \A b \in Blocks : \/ copied[b] = mem[b]
                            \/ b = np /\ copied[b] = g
      BY <1>1, <1>4, <1>5
    <2>4. mem[ns] = Free
      BY <1>1, <2>1, <2>3 DEF Free
    <2> HIDE DEF copied
    <2>5. \A b \in Blocks : \/ both[b] = mem[b]
                            \/ both[b] = g /\ mem[b] = Free
      BY <1>4, <2>1, <2>2, <2>3, <2>4
    <2>6. mine.gen = g /\ ~mine.borrowed /\ Alive(mine)
      BY <1>1, <2>1 DEF Alive, Doc, Blocks, None
    <2> HIDE DEF mine
    <2> QED
      BY <1>8, <2>5, <2>6 DEF Result, Mutated
  <1> QED
    BY <1>3, <1>6, <1>7, <1>8

LEMMA RegrownMutates ==
  ASSUME LInv, NEW d \in Docs, ~docs[d].borrowed, NEW old \in {docs[d].vals, docs[d].pool},
         NEW dc, dc.gen = docs[d].gen, ~dc.borrowed, Alive(dc)
  PROVE  Mutated(d, Release(Alloc(mem, docs[d].gen), old), dc)
  <1> DEFINE g  == docs[d].gen
             nb == NewBlock(mem)
             m  == Alloc(mem, g)
  <1>1. DOMAIN mem = Blocks /\ docs[d] \in Doc
    BY LInvTypes
  <1>2. nb \in Blocks /\ mem[nb] = Free
    <2>1. nb \in Blocks \ Caller /\ mem[nb] = Free
      BY FS_EmptySet, NewBlockIsFree DEF LInv, IInv
    <2> QED
      BY <2>1
  <1>3. m = [mem EXCEPT ![nb] = g]
    BY DEF Alloc
  <1> HIDE DEF nb, m
  <1>4. old \in Ref /\ DOMAIN m = Blocks
    BY <1>1, <1>3 DEF Doc
  <1>5. \A y \in Blocks : IF y = old THEN Release(m, old)[y] \in {Free, Corrupt}
                                     ELSE Release(m, old)[y] = m[y]
    BY <1>4, ReleaseTouches
  <1>6. \A y \in Blocks : y = old => y \in Mine(docs[d])
    BY DEF Mine, Blocks, None
  <1>7. Mutated(d, Release(m, old), dc)
    BY <1>1, <1>2, <1>3, <1>5, <1>6 DEF Mutated
  <1> QED
    BY <1>7 DEF m

LEMMA GrowTextIsStep ==
  ASSUME LInv, NEW d \in Docs, GrowText(d)
  PROVE  StepIs
  <1> DEFINE dc == docs[d]
             gc == [dc EXCEPT !.pool = NewBlock(mem), !.alias = None]
  <1>1. PICK fits \in BOOLEAN, fault \in {"none", "pool", "vals"} : Mutate(d, OwnPool(dc, fits, fault))
    BY DEF GrowText
  <1> DEFINE r == OwnPool(dc, fits, fault)
  <1>2. /\ Alive(dc) /\ Intact(dc)
        /\ mem' = r.mem /\ docs' = WithDoc(docs, d, r.doc)
        /\ scr' = scr /\ view' = view /\ parses' = parses
    BY <1>1 DEF Mutate, WithDoc
  <1>3. dc \in Doc
    BY LInvTypes
  <1>4. Mutated(d, r.mem, r.doc)
    <2>1. CASE dc.borrowed
      <3>1. r = Detached(dc, TRUE, fault)
        BY <2>1 DEF OwnPool
      <3> HIDE DEF r
      <3> QED
        BY <1>2, <2>1, <3>1, DetachedMutates
    <2>2. CASE ~dc.borrowed /\ r = Result(r.ok, mem, dc)
      BY <1>2, <2>2 DEF Result, Mutated
    <2>3. CASE ~dc.borrowed /\ r = Result(TRUE, Release(Alloc(mem, mem[Text(dc)]), dc.pool), gc)
      <3>1. r.mem = Release(Alloc(mem, dc.gen), dc.pool) /\ r.doc = gc
        BY <1>2, <2>3 DEF Result, Intact, Holds
      <3>2. gc.gen = dc.gen /\ ~gc.borrowed /\ Alive(gc)
        BY <1>2, <1>3, <2>3 DEF Doc, Alive
      <3> HIDE DEF gc
      <3> QED
        BY <2>3, <3>1, <3>2, RegrownMutates
    <2> QED
      BY <2>1, <2>2, <2>3 DEF OwnPool, Result
  <1> HIDE DEF r
  <1> QED
    BY <1>2, <1>4, MutatedIsStep

LEMMA GrowSlotsIsStep ==
  ASSUME LInv, NEW d \in Docs, GrowSlots(d)
  PROVE  StepIs
  <1> DEFINE dc == docs[d]
             gc == [dc EXCEPT !.vals = NewBlock(mem)]
  <1>1. PICK fits \in BOOLEAN, fault \in {"none", "pool", "vals"} : Mutate(d, OwnVals(dc, fits, fault))
    BY DEF GrowSlots
  <1> DEFINE r == OwnVals(dc, fits, fault)
  <1>2. /\ Alive(dc) /\ Intact(dc)
        /\ mem' = r.mem /\ docs' = WithDoc(docs, d, r.doc)
        /\ scr' = scr /\ view' = view /\ parses' = parses
    BY <1>1 DEF Mutate, WithDoc
  <1>3. dc \in Doc
    BY LInvTypes
  <1>4. Mutated(d, r.mem, r.doc)
    <2>1. CASE dc.borrowed
      <3>1. r = Detached(dc, FALSE, fault)
        BY <2>1 DEF OwnVals
      <3> HIDE DEF r
      <3> QED
        BY <1>2, <2>1, <3>1, DetachedMutates
    <2>2. CASE ~dc.borrowed /\ r = Result(r.ok, mem, dc)
      BY <1>2, <2>2 DEF Result, Mutated
    <2>3. CASE ~dc.borrowed /\ r = Result(TRUE, Release(Alloc(mem, mem[dc.vals]), dc.vals), gc)
      <3>1. r.mem = Release(Alloc(mem, dc.gen), dc.vals) /\ r.doc = gc
        BY <1>2, <2>3 DEF Result, Intact, Holds
      <3>2. NewBlock(mem) # None
        <4>1. NewBlock(mem) \in Blocks \ Caller
          BY FS_EmptySet, NewBlockIsFree DEF LInv, IInv
        <4> QED
          BY <4>1 DEF Blocks, None
      <3>3. gc.gen = dc.gen /\ ~gc.borrowed /\ Alive(gc)
        BY <1>3, <2>3, <3>2 DEF Doc, Alive
      <3> HIDE DEF gc
      <3> QED
        BY <2>3, <3>1, <3>3, RegrownMutates
    <2> QED
      BY <2>1, <2>2, <2>3 DEF OwnVals, Result
  <1> HIDE DEF r
  <1> QED
    BY <1>2, <1>4, MutatedIsStep

-----------------------------------------------------------------------------
LEMMA NextIsStep == LInv /\ [Next]_vars => StepIs
  <1> SUFFICES ASSUME LInv, [Next]_vars PROVE StepIs
    OBVIOUS
  <1>1. CASE \E d \in Docs, s \in Scratches, mode \in Mode, n \in Sizes, f \in Fault :
               Parse(d, s, mode, n, f)
    BY <1>1, ParseIsStep
  <1>2. CASE \E d \in Docs, outcome \in {"ok", "refused", "failed"} : ParseFixed(d, outcome)
    BY <1>2, ParseFixedIsStep
  <1>3. CASE \E s \in Scratches, n \in Sizes, f \in {"none", "idx", "scan"} : Iterate(s, n, f)
    BY <1>3, IterateIsStep
  <1>4. CASE \E d, e \in Docs : MoveDoc(d, e)
    BY <1>4, MoveDocIsStep
  <1>5. CASE \E d \in Docs : DropDoc(d)
    BY <1>5, DropDocIsStep
  <1>6. CASE \E s, t \in Scratches : MoveScratch(s, t)
    BY <1>6, MoveScratchIsStep
  <1>7. CASE \E s \in Scratches : DropScratch(s)
    BY <1>7, DropScratchIsStep
  <1>8. CASE \E d \in Docs : GrowText(d)
    BY <1>8, GrowTextIsStep
  <1>9. CASE \E d \in Docs : GrowSlots(d)
    BY <1>9, GrowSlotsIsStep
  <1>10. CASE UNCHANGED vars
    <2>1. docs' = docs /\ scr' = scr /\ mem' = mem /\ view' = view /\ parses' = parses
      BY <1>10 DEF vars
    <2> QED
      BY <2>1, UnchangedDocs, UnchangedScr DEF StepIs, StepTouches, StepView
  <1> QED
    BY <1>1, <1>2, <1>3, <1>4, <1>5, <1>6, <1>7, <1>8, <1>9, <1>10 DEF Next

LEMMA InitLInv == Init => LInv
  <1> SUFFICES ASSUME Init PROVE LInv
    OBVIOUS
  <1>1. view = NoView /\ \A d \in Docs : ~Alive(docs[d])
    BY DEF Init, Alive, NoDoc
  <1> QED
    BY <1>1, InitIInv DEF LInv, GensAreParses, BorrowsAreLent

LEMMA NextKeepsLInv == LInv /\ [Next]_vars => LInv'
  <1> SUFFICES ASSUME LInv, [Next]_vars PROVE LInv'
    OBVIOUS
  <1>1. StepIs /\ IInv'
    BY NextIsStep, NextKeepsIInv DEF LInv
  <1>2. GensAreParses'
    BY <1>1, StepKeepsGens DEF LInv
  <1>3. BorrowsAreLent'
    BY <1>1, <1>2, StepKeepsLent
  <1> QED
    BY <1>1, <1>2, <1>3 DEF LInv

(* What an intact document or view borrows is an array of one scratch, or  *)
(* the storage of the caller that it was parsed into.                      *)
THEOREM BorrowersAreLent == Spec => []LInv
  BY InitLInv, NextKeepsLInv, PTL DEF Spec

(* A document that borrows is lost only by a reusing parse, a release or a *)
(* move of the scratch it borrows from, or, where the caller's storage is  *)
(* lent, by the parse into that storage; a view only by a call with its    *)
(* scratch.  In particular an owning parse or an iteration over the same   *)
(* scratch leaves the documents parsed with it alone.                      *)
THEOREM BorrowedIsLostByReuse == Spec => LostByReuseOnly
  <1>1. LInv /\ LInv' /\ [Next]_vars => [LosesByReuse]_vars
    <2> SUFFICES ASSUME LInv, LInv', [Next]_vars PROVE LosesByReuse
      OBVIOUS
    <2>1. StepIs /\ IInv'
      BY NextIsStep DEF LInv
    <2> QED
      BY <2>1, StepLosesByReuse
  <1> QED
    BY <1>1, BorrowersAreLent, PTL DEF Spec, LostByReuseOnly
=============================================================================
