------------------------------- MODULE Mutate -------------------------------
(***************************************************************************)
(* Editing a parsed document in place: mut of mutate.hpp and the storage   *)
(* of doc.hpp under it.  A document is its arena vs, the bytes of its text *)
(* pool and the cached write bound; where arena and pool live (memory of   *)
(* its own, a scratch shared with later parses, the caller's buffer)       *)
(* decides when an edit has to copy them first.  Texts are sequences of    *)
(* characters, pool offsets count from 1, and every allocation may fail.   *)
(***************************************************************************)
EXTENDS Arena, WriteBounds, SequencesExt

CONSTANTS
  Docs,         \* parsed documents, records of an arena and its pool
  Modes,        \* how they were parsed: borrowed or not, with a pool or in
                \* the caller's buffer, with the write bound kept or not
  Chars,        \* the characters of texts and pools
  Texts,        \* strings and keys a caller passes
  Scalars,      \* slots a scalar set writes
  Aliased,      \* whether an inserted key may be text of the document itself
  MaxSlots, MaxPool, MaxIndex,      \* bounds on growth and on erase(i)
  SlotFloor, PoolFloor, Padding     \* 16 slots, 256 and 64 bytes

Nul            == "0"
Escaped        == {"q"}     \* stands for the quote, the backslash and the controls
NeedsEscape(t) == \E n \in DOMAIN t : t[n] \in Escaped

(* A string is marked when its text needs no escaping.                     *)
Marked(v, p) ==
  \A i \in DOMAIN v :
    (v[i].kind = "string" /\ v[i].sub = "noesc") =>
      ~NeedsEscape(SubSeq(p, v[i].ofs, v[i].ofs + v[i].len - 1))

(* What a parse leaves behind.                                             *)
ASSUME DocsAssumption ==
  \A d \in Docs : /\ WellFormedArena(d.vs)
                  /\ d.pool \in Seq(Chars)
                  /\ TextsApart(d.vs, d.pool)
                  /\ Marked(d.vs, d.pool)

ASSUME ModesAssumption ==
  Modes \subseteq [borrowed : BOOLEAN, hasPool : BOOLEAN, kept : BOOLEAN]

ASSUME TextsAssumption == Texts \subseteq Seq(Chars) /\ Nul \in Chars

ASSUME ScalarsAssumption ==
  Scalars \subseteq {v \in Slot : v.kind \in {"literal", "number"}}

ASSUME BoundsAssumption ==
  /\ Aliased \in BOOLEAN
  /\ SlotFloor \in Nat /\ PoolFloor \in Nat /\ Padding \in Nat \ {0}

VARIABLES
  vs,       \* __vals[0 .. __nvals)
  pool,     \* the first __plen bytes at pool()
  store,    \* __borrowed, whether __pool is set, __vcap and __pcap
  wb,       \* __wb
  merr,     \* __merr
  call      \* auxiliary: the call just returned; no guard reads it

vars == <<vs, pool, store, wb, merr, call>>

NoBound == [flat |-> 0, pc |-> 0, pk |-> 0]

(* What the parser accumulated under with_write_bound; its pretty part is  *)
(* linear in the indent.                                                   *)
ExactBound(v) ==
  LET p(ind) == PrettyExtra(v, 1, ind)
  IN [flat |-> BoundSlots(v, 1), pc |-> 2 * p(1) - p(2), pk |-> p(2) - p(1)]

NoCall == [op |-> "parse", path |-> <<>>, key |-> <<>>, text |-> <<>>, kind |-> "none",
           num |-> 0, res |-> "ok"]

Init ==
  /\ \E d \in Docs, m \in Modes :
       /\ vs = d.vs
       /\ pool = d.pool
       /\ store = [borrowed |-> m.borrowed, hasPool |-> m.hasPool,
                   vcap |-> IF m.borrowed THEN 0 ELSE Len(d.vs) + 2,
                   pcap |-> IF m.hasPool THEN Len(d.pool) + Padding ELSE 0]
       /\ wb = IF m.kept THEN ExactBound(d.vs) ELSE NoBound
  /\ merr = "ok"
  /\ call = NoCall

-----------------------------------------------------------------------------
(* Reading the arena.                                                      *)
NVals     == Len(vs)
TextOf(i) == SubSeq(pool, vs[i].ofs, vs[i].ofs + vs[i].len - 1)

(* The containers around slot i, the innermost of them, and the slots of   *)
(* the children of container c, keys included.                             *)
Above(i)  == {c \in 1..(i - 1) : IsCtn(vs[c]) /\ i < GetNext(vs, c)}
Parent(i) == Max(Above(i) \cup {0})
Kids(c)   == {j \in (c + 1)..(GetNext(vs, c) - 1) : Parent(j) = c}

Sorted(S)  == [n \in 1..Cardinality(S) |-> CHOOSE j \in S : Rank(S, j) = n]
Keys(c)    == LET kids == Kids(c) IN {j \in kids : Rank(kids, j) % 2 = 1}

(* The values a handle can refer to: a handle to a key does not leave the  *)
(* library.                                                                *)
IsKey(i) == vs[Parent(i)].kind = "object" /\ Rank(Kids(Parent(i)), i) % 2 = 1
Handles  == {i \in DOMAIN vs : i > 1 => ~IsKey(i)}

(* The first member of that name, 0 for none.                              *)
FindKey(c, key) ==
  LET hits == {j \in Keys(c) : TextOf(j) = key} IN IF hits = {} THEN 0 ELSE Min(hits)

(* Where a handle stands, as the numbers of the children on the way to it. *)
PathTo(i) ==
  LET chain == Sorted(Above(i) \cup {i})
      step(c, j) == IF vs[c].kind = "object" THEN Rank(Kids(c), j) \div 2
                                             ELSE Rank(Kids(c), j)
  IN [n \in 1..(Len(chain) - 1) |-> step(chain[n], chain[n + 1])]

-----------------------------------------------------------------------------
(* Storage.  st is the store a step starts from.                           *)

Grown(cap, need, floor) == Max({cap + cap \div 2, need, floor})

PoolFits(st, need)   == ~st.borrowed /\ st.hasPool /\ Len(pool) + need <= st.pcap
SlotsFit(st, extra)  == ~st.borrowed /\ NVals + extra <= st.vcap

(* __detach: the document gets slots, and a pool if it had or needs one,   *)
(* of its own.                                                             *)
BugDetached(st, need, extra) ==     \* the document goes on as a borrower
  LET want == st.hasPool \/ need # 0 IN
  [st EXCEPT !.hasPool = want,
             !.vcap = Grown(@, NVals + extra, SlotFloor),
             !.pcap = IF want THEN Grown(@, Len(pool) + need, PoolFloor) ELSE @]

Detached(st, need, extra) ==
  LET want == st.hasPool \/ need # 0 IN
  [borrowed |-> FALSE,
   hasPool  |-> want,
   vcap     |-> Grown(st.vcap, NVals + extra, SlotFloor),
   pcap     |-> IF want THEN Grown(st.pcap, Len(pool) + need, PoolFloor) ELSE st.pcap]

(* __own_pool and __own_vals, when they succeed; when they have nothing to *)
(* allocate they always do.                                                *)
BugOwnPool(st, need) ==     \* the growth is not recorded
  IF st.borrowed THEN Detached(st, need, 0)
  ELSE IF PoolFits(st, need) THEN st ELSE [st EXCEPT !.hasPool = TRUE]

OwnPool(st, need) ==
  IF st.borrowed THEN Detached(st, need, 0)
  ELSE IF PoolFits(st, need) THEN st
  ELSE [st EXCEPT !.hasPool = TRUE,
                  !.pcap = Grown(@, Len(pool) + need, PoolFloor)]

OwnVals(st, extra) ==
  IF st.borrowed THEN Detached(st, 0, extra)
  ELSE IF SlotsFit(st, extra) THEN st
  ELSE [st EXCEPT !.vcap = Grown(@, NVals + extra, SlotFloor)]

(* The pool after __pool_put, and the offset of the text put.              *)
PoolPut(t) == pool \o Append(t, Nul)
PutAt      == Len(pool) + 1

-----------------------------------------------------------------------------
(* How a call ends.                                                        *)
Call(op, i) == [NoCall EXCEPT !.op = op, !.path = PathTo(i)]

BugReport(c, r) ==       \* a call that succeeds clears the sticky error
  call' = [c EXCEPT !.res = r] /\ merr' = r

Report(c, r) ==
  /\ call' = [c EXCEPT !.res = r]
  /\ merr' = IF r = "ok" THEN merr ELSE r

Refuse(c, e) == Report(c, e) /\ UNCHANGED <<vs, pool, store, wb>>

(* Bytes of the flat bound a slot stands for, and the bound when one slot  *)
(* takes the place of another.                                             *)
BugWbContrib(v) ==       \* a raw token charged like a string
  CASE v.kind = "string" -> (IF v.sub = "noesc" THEN v.len ELSE v.len * 6) + 4
    [] v.kind = "raw"    -> v.len + 4
    [] v.kind = "number" -> 42
    [] OTHER             -> 12

WbContrib(v) ==
  CASE v.kind = "string" -> (IF v.sub = "noesc" THEN v.len ELSE v.len * 6) + 4
    [] v.kind = "raw"    -> v.len + 12
    [] v.kind = "number" -> 42
    [] OTHER             -> 12

WbSwap(before, after) ==
  IF wb.flat = 0 THEN wb
  ELSE [wb EXCEPT !.flat = @ - WbContrib(before) + WbContrib(after)]

BugStringSub(t) ==     \* a text shorter than a vector is not scanned
  IF Len(t) > 2 /\ NeedsEscape(t) THEN "plain" ELSE "noesc"

StringSub(t) == IF NeedsEscape(t) THEN "plain" ELSE "noesc"

StringSlot(t, sub, ofs) == [kind |-> "string", sub |-> sub, len |-> Len(t), ofs |-> ofs]

NullSlot  == [kind |-> "literal", sub |-> "", len |-> 0, ofs |-> 0]
Fresh(kd) == IF kd = "literal" THEN NullSlot ELSE EmptyCtn(kd)

-----------------------------------------------------------------------------
(* Setting a scalar: one slot is rewritten, whatever its kind was.         *)
SetScalar(i, v) ==
  LET c == [Call("set", i) EXCEPT !.kind = v.kind, !.num = v.ofs] IN
  \/ IsCtn(vs[i]) /\ Refuse(c, "wrong_type")
  \/ /\ ~IsCtn(vs[i])
     /\ vs' = [vs EXCEPT ![i] = v]
     /\ wb' = WbSwap(vs[i], v)
     /\ Report(c, "ok")
     /\ UNCHANGED <<pool, store>>

(* set_number with a literal that read_number refuses.                     *)
SetBadNumber(i) ==
  Refuse(Call("set_number", i), IF IsCtn(vs[i]) THEN "wrong_type" ELSE "bad_number")

(* A text is written over the one before it when that is at least as long  *)
(* and stands in a pool the document owns, and is put at the end of the    *)
(* pool otherwise.                                                         *)
BugWritable(i, t) ==     \* a borrowed pool is written to
  store.hasPool /\ vs[i].kind \in {"string", "raw"} /\ vs[i].len >= Len(t)

Writable(i, t) ==
  /\ store.hasPool /\ ~store.borrowed
  /\ vs[i].kind \in {"string", "raw"}
  /\ vs[i].len >= Len(t)

Overwritten(ofs, t) ==
  [n \in DOMAIN pool |->
     IF n \in ofs..(ofs + Len(t) - 1) THEN t[n - ofs + 1]
     ELSE IF n = ofs + Len(t) THEN Nul ELSE pool[n]]

PutText(i, v) == vs' = [vs EXCEPT ![i] = v] /\ wb' = WbSwap(vs[i], v)

WriteText(c, i, t) ==
  \/ /\ Writable(i, t)
     /\ pool' = Overwritten(vs[i].ofs, t)
     /\ PutText(i, StringSlot(t, StringSub(t), vs[i].ofs))
     /\ Report(c, "ok")
     /\ UNCHANGED store
  \/ /\ ~Writable(i, t) /\ Len(PoolPut(t)) <= MaxPool
     /\ store' = OwnPool(store, Len(t) + 1)
     /\ pool' = PoolPut(t)
     /\ PutText(i, StringSlot(t, StringSub(t), PutAt))
     /\ Report(c, "ok")
  \/ /\ ~Writable(i, t) /\ ~PoolFits(store, Len(t) + 1)
     /\ Refuse(c, "oom")

SetText(i, t) ==
  LET c == [Call("set_text", i) EXCEPT !.text = t] IN
  \/ IsCtn(vs[i]) /\ Refuse(c, "wrong_type")
  \/ ~IsCtn(vs[i]) /\ WriteText(c, i, t)

(* set_key through a handle to a value: only a string takes it.            *)
SetKey(i, t) ==
  LET c == [Call("set_key", i) EXCEPT !.text = t] IN
  \/ vs[i].kind # "string" /\ Refuse(c, "wrong_type")
  \/ vs[i].kind = "string" /\ WriteText(c, i, t)

Rename(i, from, to) ==
  LET c == [Call("rename", i) EXCEPT !.key = from, !.text = to] IN
  \/ vs[i].kind # "object" /\ Refuse(c, "wrong_type")
  \/ vs[i].kind = "object" /\ FindKey(i, from) = 0 /\ Refuse(c, "no_such_field")
  \/ vs[i].kind = "object" /\ FindKey(i, from) # 0 /\ WriteText(c, FindKey(i, from), to)

-----------------------------------------------------------------------------
(* Structural edits.  Where a loop over the children of container c stands *)
(* after n steps: it goes on by spans until it has come to the end of c.   *)
Step(c, j) == IF j < GetNext(vs, c) THEN GetNext(vs, j) ELSE j
Steps(c) ==
  LET at[n \in 0..NVals] == IF n = 0 THEN c + 1 ELSE Step(c, at[n - 1]) IN at

Met(c) ==
  LET at == Steps(c) IN {j \in {at[n] : n \in 0..NVals} : j < GetNext(vs, c)}

(* The walk of __patch_spans, from the root on: in a container it looks    *)
(* for the child that pi stands in, and gives up where there is none.      *)
BugToward(c, pi) ==     \* the slot behind a child counted to it
  {j \in Met(c) : j <= pi /\ pi <= GetNext(vs, j)}

Toward(c, pi) == {j \in Met(c) : j <= pi /\ pi < GetNext(vs, j)}
Descend(c, pi) ==
  LET next == Toward(c, pi) IN IF c = pi \/ next = {} THEN c ELSE Min(next)
PatchWalk(pi) ==
  LET at[n \in 0..NVals] == IF n = 0 THEN 1 ELSE Descend(at[n - 1], pi)
  IN {at[n] : n \in 0..NVals}

(* Every container it comes to is lengthened, pi included.                 *)
BugPatched(pi, n) ==     \* only the container itself
  [j \in DOMAIN vs |-> IF j = pi THEN [vs[j] EXCEPT !.ofs = @ + n] ELSE vs[j]]

Patched(pi, n) ==
  LET walked == PatchWalk(pi)
  IN [j \in DOMAIN vs |-> IF j \in walked THEN [vs[j] EXCEPT !.ofs = @ + n] ELSE vs[j]]

(* __append_slots puts slots after the last descendant of pi, __drop_slots *)
(* takes n slots from position at out of it.                               *)
Appended(pi, new) ==
  LET p == Patched(pi, Len(new))
  IN SubSeq(p, 1, GetNext(vs, pi) - 1) \o new \o SubSeq(p, GetNext(vs, pi), NVals)

Dropped(pi, at, n) ==
  LET p == Patched(pi, -n) IN SubSeq(p, 1, at - 1) \o SubSeq(p, at + n, NVals)

BumpLen(v, c, d) == [v EXCEPT ![c].len = Max({0, @ + d})]

(* The mark of an inserted key is computed after its text went to the pool:*)
(* if it was text of the pool, and the pool moved, it is read from freed   *)
(* memory.                                                                 *)
FromPool(key) == Aliased /\ \E j \in DOMAIN vs : vs[j].kind = "string" /\ TextOf(j) = key
PoolMoves(need) == ~store.borrowed /\ store.hasPool /\ ~PoolFits(store, need)

KeyMarks(key) ==
  IF FromPool(key) /\ PoolMoves(Len(key) + 1) THEN {"noesc", "plain"} ELSE {StringSub(key)}

NewMember(c, i, key, kd) ==
  LET st == OwnPool(store, Len(key) + 1) IN
  \/ /\ Len(PoolPut(key)) <= MaxPool /\ NVals + 2 <= MaxSlots
     /\ pool' = PoolPut(key)
     /\ store' = OwnVals(st, 2)
     /\ \E mark \in KeyMarks(key) :
          vs' = BumpLen(Appended(i, <<StringSlot(key, mark, PutAt), Fresh(kd)>>), i, 1)
     /\ wb' = NoBound
     /\ Report(c, "ok")
  \/ /\ ~PoolFits(store, Len(key) + 1)
     /\ Refuse(c, "oom")
  \/ /\ ~SlotsFit(st, 2) /\ Len(PoolPut(key)) <= MaxPool     \* the key stays in the pool
     /\ pool' = PoolPut(key)
     /\ store' = st
     /\ Report(c, "oom")
     /\ UNCHANGED <<vs, wb>>

(* insert, insert_object and insert_array: the member of that name, made   *)
(* if there is none.                                                       *)
Insert(i, key, kd) ==
  LET c == [Call("insert", i) EXCEPT !.key = key, !.kind = kd] IN
  \/ vs[i].kind # "object" /\ Refuse(c, "wrong_type")
  \/ vs[i].kind = "object" /\ FindKey(i, key) # 0 /\ Refuse(c, "ok")
  \/ vs[i].kind = "object" /\ FindKey(i, key) = 0 /\ NewMember(c, i, key, kd)

(* push_back, push_object and push_array.                                  *)
Push(i, kd) ==
  LET c == [Call("push", i) EXCEPT !.kind = kd] IN
  \/ vs[i].kind # "array" /\ Refuse(c, "wrong_type")
  \/ /\ vs[i].kind = "array" /\ NVals < MaxSlots
     /\ store' = OwnVals(store, 1)
     /\ vs' = BumpLen(Appended(i, <<Fresh(kd)>>), i, 1)
     /\ wb' = NoBound
     /\ Report(c, "ok")
     /\ UNCHANGED pool
  \/ vs[i].kind = "array" /\ ~SlotsFit(store, 1) /\ Refuse(c, "oom")

(* Taking n slots from position at out of container i, once it is certain  *)
(* that they exist.                                                        *)
TakeOut(c, i, at, n) ==
  \/ /\ store' = OwnVals(store, 0)
     /\ vs' = BumpLen(Dropped(i, at, n), i, -1)
     /\ wb' = NoBound
     /\ Report(c, "ok")
     /\ UNCHANGED pool
  \/ ~SlotsFit(store, 0) /\ Refuse(c, "oom")

EraseKey(i, key) ==
  LET c == [Call("erase_key", i) EXCEPT !.key = key]
      k == FindKey(i, key)
  IN
  \/ vs[i].kind # "object" /\ Refuse(c, "wrong_type")
  \/ vs[i].kind = "object" /\ k = 0 /\ Refuse(c, "no_such_field")
  \/ vs[i].kind = "object" /\ k # 0 /\ TakeOut(c, i, k, GetNext(vs, k + 1) - k)

(* Element n of array c, counted from 0.                                   *)
Element(c, n) == Sorted(Kids(c))[n + 1]

EraseAt(i, n) ==
  LET c == [Call("erase_at", i) EXCEPT !.num = n] IN
  \/ vs[i].kind # "array" /\ Refuse(c, "wrong_type")
  \/ vs[i].kind = "array" /\ n >= vs[i].len /\ Refuse(c, "no_such_field")
  \/ /\ vs[i].kind = "array" /\ n < vs[i].len
     /\ TakeOut(c, i, Element(i, n), SpanOf(vs, Element(i, n)))

Emptied(i) == [Dropped(i, i + 1, vs[i].ofs - 1) EXCEPT ![i].len = 0, ![i].ofs = 1]

Clear(i) ==
  \/ ~IsCtn(vs[i]) /\ Refuse(Call("clear", i), "wrong_type")
  \/ /\ IsCtn(vs[i])
     /\ store' = OwnVals(store, 0)
     /\ vs' = Emptied(i)
     /\ wb' = NoBound
     /\ Report(Call("clear", i), "ok")
     /\ UNCHANGED pool
  \/ IsCtn(vs[i]) /\ ~SlotsFit(store, 0) /\ Refuse(Call("clear", i), "oom")

ClearMutError ==
  /\ merr' = "ok"
  /\ call' = [NoCall EXCEPT !.op = "clear_error"]
  /\ UNCHANGED <<vs, pool, store, wb>>

Next ==
  \/ \E i \in Handles :
       \/ \E v \in Scalars : SetScalar(i, v)
       \/ SetBadNumber(i)
       \/ \E t \in Texts : SetText(i, t) \/ SetKey(i, t)
       \/ \E from, to \in Texts : Rename(i, from, to)
       \/ \E key \in Texts, kd \in {"literal", "array", "object"} : Insert(i, key, kd)
       \/ \E kd \in {"literal", "array", "object"} : Push(i, kd)
       \/ \E key \in Texts : EraseKey(i, key)
       \/ \E n \in 0..MaxIndex : EraseAt(i, n)
       \/ Clear(i)
  \/ ClearMutError

Spec == Init /\ [][Next]_vars
-----------------------------------------------------------------------------
(* The type of every variable.                                             *)
TypeOK ==
  /\ vs \in Seq(Slot) /\ vs # <<>>
  /\ pool \in Seq(Chars)
  /\ store \in [borrowed : BOOLEAN, hasPool : BOOLEAN, vcap : Nat, pcap : Nat]
  /\ wb \in [flat : Nat, pc : Nat, pk : Nat]
  /\ merr \in {"ok", "wrong_type", "no_such_field", "bad_number", "oom"}

(* Memory the document owns is large enough for what is in it, and for the *)
(* terminator that writing over the last text of the pool puts behind it,  *)
(* whichever sequence of detaching, growing and failing allocations came   *)
(* before.                                                                 *)
RoomOwned ==
  ~store.borrowed =>
    /\ NVals <= store.vcap
    /\ store.hasPool =>
         /\ Len(pool) <= store.pcap
         /\ \A i \in DOMAIN vs :
              vs[i].kind \in {"string", "raw"} => vs[i].ofs + vs[i].len <= store.pcap

(* The cached write bound, while it is kept, is what the writer's walks    *)
(* over the edited arena would compute.  (tests/mutate.cpp: a stale-low    *)
(* bound is a heap overflow.)                                              *)
BoundExact ==
  wb.flat # 0 => /\ wb.flat = BoundSlots(vs, 1)
                 /\ \A ind \in 1..4 : wb.pc + ind * wb.pk = PrettyExtra(vs, 1, ind)

(* Text in a scratch or in the caller's buffer is never written to: an     *)
(* edit that has text to put copies all of it first.  A document that      *)
(* borrows its memory keeps its size: whatever adds or removes a slot or a *)
(* byte detaches it, and nothing attaches it again.                        *)
LentStorageKept ==
  [][/\ (store.borrowed \/ ~store.hasPool) => IsPrefix(pool, pool')
     /\ store'.borrowed =>
          store.borrowed /\ Len(vs') = Len(vs) /\ Len(pool') = Len(pool)]_vars

(* No string is marked as needing no escaping that needs it: the writer    *)
(* copies a marked string verbatim.                                        *)
EscapesMarked == Marked(vs, pool)

(* After every edit spans nest, lengths count children and keys are        *)
(* strings: the containers around the edited one were lengthened and no    *)
(* other.                                                                  *)
ArenaWellFormed == WellFormedArena(vs)

(* After every edit a walk over the children of a container meets as many  *)
(* as its length says and then stands at its end, and every other one in   *)
(* an object is a key, so that the loops that count and the loops that     *)
(* look for the end agree; and the walk that lengthens containers comes to *)
(* every container around the one edited, and to nothing else.             *)
WalkReachesParent ==
  /\ \A c \in DOMAIN vs : IsCtn(vs[c]) =>
       LET at == Steps(c)
           n  == IF vs[c].kind = "object" THEN 2 * vs[c].len ELSE vs[c].len
       IN /\ n <= NVals /\ at[n] = GetNext(vs, c)
          /\ \A m \in 0..(n - 1) :
               /\ at[m] < GetNext(vs, c)
               /\ (vs[c].kind = "object" /\ m % 2 = 0) => vs[at[m]].kind = "string"
  /\ \A pi \in DOMAIN vs : IsCtn(vs[pi]) => PatchWalk(pi) = Above(pi) \cup {pi}

(* arr_is_flat, the test that lets an array be indexed without a walk,     *)
(* holds only when it may: n steps lead to the n-th slot.                  *)
BugArrIsFlat(i) == vs[i].len + 1 <= vs[i].ofs     \* nesting not told apart

ArrIsFlat(i) == vs[i].len + 1 = vs[i].ofs

FlatIndexIsWalk ==
  \A i \in DOMAIN vs :
    (vs[i].kind = "array" /\ ArrIsFlat(i)) =>
      LET at == Steps(i)
      IN vs[i].len <= NVals /\ \A n \in 0..vs[i].len : at[n] = i + 1 + n
=============================================================================
