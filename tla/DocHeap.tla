------------------------------ MODULE DocHeap -------------------------------
(***************************************************************************)
(* Who owns which block: documents, scratches and views over one heap.  A  *)
(* document owns its arena and pool, or borrows them from the scratch it   *)
(* was parsed with, or from storage of the caller; a mutation of a         *)
(* borrowing document first takes copies of its own.  A block holds the    *)
(* parse it was last written by (a number, unique), or nothing yet; that   *)
(* is enough to tell whether a document still is what was parsed.          *)
(*                                                                         *)
(* Capacities are counted in steps: a document of size n needs n in each   *)
(* of the scratch's arrays.                                                *)
(***************************************************************************)
EXTENDS Integers, FiniteSetsExt

CONSTANTS
  Docs, Scratches,
  Sizes,        \* of the texts parsed
  MaxBlocks,    \* bound: blocks live at once
  MaxParses     \* bound: calls that parse

(* The bound on blocks never bites: there is one for every array a         *)
(* document or a scratch can hold and for the two a call holds besides, so *)
(* that an allocation fails only when it is chosen to.                     *)
ASSUME DocHeapAssumption ==
  /\ IsFiniteSet(Docs) /\ IsFiniteSet(Scratches) /\ Docs \cap Scratches = {}
  /\ Sizes \subseteq Nat \ {0}
  /\ MaxParses \in Nat
  /\ MaxBlocks \in Nat
  /\ MaxBlocks >= 2 * Cardinality(Docs) + 3 * Cardinality(Scratches) + 2

VARIABLES
  mem,      \* content of every block
  docs, scr, view,
  parses,   \* parses so far
  call      \* the last call and its object, for the properties

vars == <<mem, docs, scr, view, parses, call>>

Free    == -1
Junk    == 0       \* allocated, never written
Corrupt == -2
None    == -1
Buffer  == 0       \* the caller's: of parse_insitu
Store   == 1       \* and of parse_into with a fixed_scratch
Caller == {Buffer, Store}
Blocks == 0..(MaxBlocks + 1)
Array  == {"idx", "pool", "vals"}

NoDoc  == [vals |-> None, pool |-> None, alias |-> None, borrowed |-> FALSE, gen |-> 0]
NoScr  == [blk |-> [f \in Array |-> None], cap |-> [f \in Array |-> 0]]
NoView == [idx |-> None, gen |-> 0]

Init ==
  /\ mem = [b \in Blocks |-> IF b \in Caller THEN Junk ELSE Free]
  /\ docs = [d \in Docs |-> NoDoc]
  /\ scr = [s \in Scratches |-> NoScr]
  /\ view = NoView
  /\ parses = 0
  /\ call = <<"none">>

-----------------------------------------------------------------------------
(* malloc and free.  Freeing what is not allocated corrupts the heap.      *)
NewBlock(m)  == Min({b \in Blocks : m[b] = Free})
Alloc(m, c)  == [m EXCEPT ![NewBlock(m)] = c]
Write(m, b, c) == [m EXCEPT ![b] = c]
Release(m, b) ==
  IF b = None THEN m
  ELSE [m EXCEPT ![b] = IF b \in Caller \/ @ = Free THEN Corrupt ELSE Free]

Text(dc)  == IF dc.pool # None THEN dc.pool ELSE dc.alias
Alive(dc) == dc.vals # None

(* doc::release.                                                           *)
Dropped(m, dc) == IF dc.borrowed THEN m ELSE Release(Release(m, dc.vals), dc.pool)

(* scratch::ensure, ensure_pool, ensure_vals: a larger array replaces the  *)
(* old one, which is freed first.                                          *)
Outcome(ok, m, sc) == [ok |-> ok, mem |-> m, sc |-> sc]

BugFreedFor(m, sc, f) ==        \* release() for __release_idx()
  LET more == IF f = "idx" THEN sc.blk["vals"] ELSE None
  IN Release(Release(m, sc.blk[f]), more)
FreedFor(m, sc, f) == Release(m, sc.blk[f])

Ensured(m, sc, f, n, oom) ==
  LET freed == FreedFor(m, sc, f) IN
  IF n <= sc.cap[f] THEN Outcome(TRUE, m, sc)
  ELSE IF oom THEN Outcome(FALSE, freed, [sc EXCEPT !.blk[f] = None, !.cap[f] = 0])
  ELSE Outcome(TRUE, Alloc(freed, Junk),
               [sc EXCEPT !.blk[f] = NewBlock(freed), !.cap[f] = n])

-----------------------------------------------------------------------------
(* The parsers.  Each returns [ok, mem, sc, doc]; fault names the step     *)
(* that fails: an allocation, if it is made, or the text itself, in stage  *)
(* 1 ("scan") or in stage 2 ("build").  The document is moved into the     *)
(* caller's, whose old contents are released.                              *)
Fault == {"none", "idx", "pool", "scan", "vals", "build"}

Failed(m, sc)     == [ok |-> FALSE, mem |-> m, sc |-> sc, doc |-> NoDoc]
Parsed(m, sc, dc) == [ok |-> TRUE, mem |-> m, sc |-> sc, doc |-> dc]

Owning(sc, g, n, fault) ==
  LET i    == Ensured(mem, sc, "idx", n, fault = "idx")
      pool == NewBlock(i.mem)
      read == Write(Alloc(i.mem, g), i.sc.blk["idx"], g)
      vals == NewBlock(read)
  IN CASE ~i.ok            -> Failed(i.mem, i.sc)
       [] fault = "pool"   -> Failed(i.mem, i.sc)
       [] fault = "scan"   -> Failed(Release(read, pool), i.sc)
       [] fault = "vals"   -> Failed(Release(read, pool), i.sc)
       [] fault = "build"  -> Failed(Release(Release(Alloc(read, g), vals), pool), i.sc)
       [] OTHER -> Parsed(Alloc(read, g), i.sc,
                          [NoDoc EXCEPT !.vals = vals, !.pool = pool, !.gen = g])

BugBorrowedFlag == FALSE
BorrowedFlag    == TRUE        \* d.__borrowed

(* __parse_reuse_into: the scratch keeps pool and arena and lends them.    *)
Reusing(sc, g, n, fault) ==
  LET i == Ensured(mem, sc, "idx", n, fault = "idx")
      p == Ensured(i.mem, i.sc, "pool", n, fault = "pool")
      read == Write(Write(p.mem, p.sc.blk["pool"], g), p.sc.blk["idx"], g)
      v == Ensured(read, p.sc, "vals", n, fault = "vals")
      built == Write(v.mem, v.sc.blk["vals"], g)
  IN CASE ~i.ok           -> Failed(i.mem, i.sc)
       [] ~p.ok           -> Failed(p.mem, p.sc)
       [] fault = "scan"  -> Failed(read, p.sc)
       [] ~v.ok           -> Failed(v.mem, v.sc)
       [] fault = "build" -> Failed(built, v.sc)
       [] OTHER -> Parsed(built, v.sc,
                          [NoDoc EXCEPT !.vals = v.sc.blk["vals"], !.pool = v.sc.blk["pool"],
                                        !.borrowed = BorrowedFlag, !.gen = g])

(* __parse_insitu_into: the text is unescaped in the caller's buffer.      *)
InSitu(sc, g, n, fault) ==
  LET i    == Ensured(mem, sc, "idx", n, fault = "idx")
      read == Write(i.mem, i.sc.blk["idx"], g)
      vals == NewBlock(read)
      built == Write(Alloc(read, g), Buffer, g)
  IN CASE ~i.ok           -> Failed(i.mem, i.sc)
       [] fault \in {"scan", "vals"} -> Failed(read, i.sc)
       [] fault = "build" -> Failed(Release(built, vals), i.sc)
       [] OTHER -> Parsed(built, i.sc,
                          [NoDoc EXCEPT !.vals = vals, !.alias = Buffer, !.gen = g])

(* __parse_insitu_reuse_into: the text is the caller's, the arena is lent. *)
InSituReusing(sc, g, n, fault) ==
  LET i == Ensured(mem, sc, "idx", n, fault = "idx")
      read == Write(i.mem, i.sc.blk["idx"], g)
      v == Ensured(read, i.sc, "vals", n, fault = "vals")
      built == Write(Write(v.mem, v.sc.blk["vals"], g), Buffer, g)
  IN CASE ~i.ok           -> Failed(i.mem, i.sc)
       [] fault = "scan"  -> Failed(read, i.sc)
       [] ~v.ok           -> Failed(v.mem, v.sc)
       [] fault = "build" -> Failed(built, v.sc)
       [] OTHER -> Parsed(built, v.sc,
                          [NoDoc EXCEPT !.vals = v.sc.blk["vals"], !.alias = Buffer,
                                        !.borrowed = TRUE, !.gen = g])

Mode == {"own", "reuse", "insitu", "insitu_reuse"}

ParseBy(mode, sc, g, n, fault) ==
  CASE mode = "own"    -> Owning(sc, g, n, fault)
    [] mode = "reuse"  -> Reusing(sc, g, n, fault)
    [] mode = "insitu" -> InSitu(sc, g, n, fault)
    [] mode = "insitu_reuse" -> InSituReusing(sc, g, n, fault)

Serial == parses < MaxParses /\ parses' = parses + 1

Parse(d, s, mode, n, fault) ==
  LET r == ParseBy(mode, scr[s], parses + 1, n, fault) IN
  /\ Serial
  /\ mem' = IF r.ok THEN Dropped(r.mem, docs[d]) ELSE r.mem
  /\ docs' = IF r.ok THEN [docs EXCEPT ![d] = r.doc] ELSE docs
  /\ scr' = [scr EXCEPT ![s] = r.sc]
  /\ call' = <<mode, s>>
  /\ UNCHANGED view

(* parse_into with a fixed_scratch: the document is emptied first, and the *)
(* storage is the caller's throughout; it is left alone when it is refused *)
(* as too small.                                                           *)
ParseFixed(d, outcome) ==
  LET g     == parses + 1
      freed == Dropped(mem, docs[d])
  IN /\ Serial
     /\ mem' = IF outcome = "refused" THEN freed ELSE Write(freed, Store, g)
     /\ docs' = [docs EXCEPT ![d] =
                   IF outcome = "ok" THEN [NoDoc EXCEPT !.vals = Store, !.pool = Store,
                                                        !.borrowed = TRUE, !.gen = g]
                                     ELSE NoDoc]
     /\ call' = <<"fixed">>
     /\ UNCHANGED <<scr, view>>

(* iterate and process: a view of the index array, which stays the         *)
(* scratch's.                                                              *)
Iterate(s, n, fault) ==
  LET i == Ensured(mem, scr[s], "idx", n, fault = "idx") IN
  /\ Serial
  /\ mem' = IF i.ok THEN Write(i.mem, i.sc.blk["idx"], parses') ELSE i.mem
  /\ scr' = [scr EXCEPT ![s] = i.sc]
  /\ view' = IF i.ok /\ fault = "none" THEN [idx |-> i.sc.blk["idx"], gen |-> parses']
                                       ELSE NoView
  /\ call' = <<"iterate", s>>
  /\ UNCHANGED docs

-----------------------------------------------------------------------------
(* Moving and destroying.  A moved-from document or scratch is empty.      *)
MoveDoc(d, e) ==
  /\ d # e
  /\ mem' = Dropped(mem, docs[e])
  /\ docs' = [docs EXCEPT ![e] = docs[d], ![d] = NoDoc]
  /\ call' = <<"move doc">>
  /\ UNCHANGED <<scr, view, parses>>

DropDoc(d) ==
  /\ mem' = Dropped(mem, docs[d])
  /\ docs' = [docs EXCEPT ![d] = NoDoc]
  /\ call' = <<"drop doc">>
  /\ UNCHANGED <<scr, view, parses>>

Emptied(m, sc) == Release(Release(Release(m, sc.blk["idx"]), sc.blk["pool"]), sc.blk["vals"])

MoveScratch(s, t) ==
  /\ s # t
  /\ mem' = Emptied(mem, scr[t])
  /\ scr' = [scr EXCEPT ![t] = scr[s], ![s] = NoScr]
  /\ call' = <<"release", t>>
  /\ UNCHANGED <<docs, view, parses>>

DropScratch(s) ==
  /\ mem' = Emptied(mem, scr[s])
  /\ scr' = [scr EXCEPT ![s] = NoScr]
  /\ call' = <<"release", s>>
  /\ UNCHANGED <<docs, view, parses>>

-----------------------------------------------------------------------------
(* What mutations do to the blocks; a document is mutated only while it is *)
(* what was parsed.  doc::__detach copies a borrowed document: the pool,   *)
(* if it has one or needs one, then the arena; when the second allocation  *)
(* fails the first is given back and the document stays as it was.         *)
Result(ok, m, dc) == [ok |-> ok, mem |-> m, doc |-> dc]

BugGivenBack(m, b) == m
GivenBack(m, b)    == Release(m, b)

Detached(dc, grow, fault) ==
  LET wanted == dc.pool # None \/ grow
      np     == NewBlock(mem)
      copied == IF wanted THEN Alloc(mem, mem[Text(dc)]) ELSE mem
      ns     == NewBlock(copied)
      both   == Alloc(copied, mem[dc.vals])
      own    == [dc EXCEPT !.vals = ns, !.borrowed = FALSE]
  IN CASE wanted /\ fault = "pool" -> Result(FALSE, mem, dc)
       [] fault = "vals" -> Result(FALSE, IF wanted THEN GivenBack(copied, np) ELSE copied, dc)
       [] OTHER -> Result(TRUE, both,
                          IF wanted THEN [own EXCEPT !.pool = np, !.alias = None] ELSE own)

(* __pool_put over __own_pool: room for more text, in the pool as it is or *)
(* in a larger copy; the old pool is freed when the text, which may lie in *)
(* it, has been copied.                                                    *)
OwnPool(dc, fits, fault) ==
  IF dc.borrowed THEN Detached(dc, TRUE, fault)
  ELSE IF dc.pool # None /\ fits THEN Result(TRUE, mem, dc)
  ELSE IF fault = "pool" THEN Result(FALSE, mem, dc)
  ELSE Result(TRUE, Release(Alloc(mem, mem[Text(dc)]), dc.pool),
              [dc EXCEPT !.pool = NewBlock(mem), !.alias = None])

(* __own_vals: room for more slots.                                        *)
OwnVals(dc, fits, fault) ==
  IF dc.borrowed THEN Detached(dc, FALSE, fault)
  ELSE IF fits THEN Result(TRUE, mem, dc)
  ELSE IF fault = "vals" THEN Result(FALSE, mem, dc)
  ELSE Result(TRUE, Release(Alloc(mem, mem[dc.vals]), dc.vals),
              [dc EXCEPT !.vals = NewBlock(mem)])

Holds(m, b, g) == b # None /\ m[b] = g
Intact(dc)     == Alive(dc) => Holds(mem, dc.vals, dc.gen) /\ Holds(mem, Text(dc), dc.gen)
ViewIntact     == view = NoView \/ Holds(mem, view.idx, view.gen)

Mutate(d, r) ==
  /\ Alive(docs[d]) /\ Intact(docs[d])
  /\ mem' = r.mem
  /\ docs' = [docs EXCEPT ![d] = r.doc]
  /\ call' = <<"mutate">>
  /\ UNCHANGED <<scr, view, parses>>

GrowText(d)  == \E fits \in BOOLEAN, f \in {"none", "pool", "vals"} :
                  Mutate(d, OwnPool(docs[d], fits, f))
GrowSlots(d) == \E fits \in BOOLEAN, f \in {"none", "pool", "vals"} :
                  Mutate(d, OwnVals(docs[d], fits, f))

-----------------------------------------------------------------------------
Next ==
  \/ \E d \in Docs, s \in Scratches, mode \in Mode, n \in Sizes, f \in Fault :
       Parse(d, s, mode, n, f)
  \/ \E d \in Docs, outcome \in {"ok", "refused", "failed"} : ParseFixed(d, outcome)
  \/ \E s \in Scratches, n \in Sizes, f \in {"none", "idx", "scan"} : Iterate(s, n, f)
  \/ \E d, e \in Docs : MoveDoc(d, e)
  \/ \E d \in Docs : DropDoc(d)
  \/ \E s, t \in Scratches : MoveScratch(s, t)
  \/ \E s \in Scratches : DropScratch(s)
  \/ \E d \in Docs : GrowText(d)
  \/ \E d \in Docs : GrowSlots(d)

Spec == Init /\ [][Next]_vars

-----------------------------------------------------------------------------
(* The blocks each object would free.                                      *)
Fields == (Docs \X {"vals", "pool"}) \cup (Scratches \X Array)
Owns(f) ==
  IF f[1] \in Docs
    THEN IF docs[f[1]].borrowed THEN None ELSE docs[f[1]][f[2]]
    ELSE scr[f[1]].blk[f[2]]

(* Whatever is parsed, mutated, moved or dropped in whatever order, and    *)
(* whichever allocation fails on the way, every block has exactly one      *)
(* owner: nothing is lost, nothing is freed twice.                         *)
OneOwner ==
  /\ \A b \in Blocks : mem[b] # Corrupt
  /\ {Owns(f) : f \in Fields} \ {None} = {b \in Blocks \ Caller : mem[b] # Free}
  /\ \A f, g \in Fields : Owns(f) = Owns(g) /\ Owns(f) # None => f = g

(* A document that does not borrow is what was parsed for as long as it    *)
(* lives, whatever happens to scratches and other documents; its text too, *)
(* once it is no longer the caller's buffer.                               *)
OwnersKeep ==
  \A d \in Docs :
    LET dc == docs[d] IN
    Alive(dc) /\ ~dc.borrowed =>
      Holds(mem, dc.vals, dc.gen) /\ (dc.pool # None => Holds(mem, dc.pool, dc.gen))

(* A borrowing document or a view is lost only by a call that uses the     *)
(* scratch, or the storage, it borrows from: a document, by a reusing      *)
(* parse, a release or a move over its scratch, never by an owning parse   *)
(* or an iteration with the same scratch; a view, by any call with its     *)
(* scratch.  (parse.hpp, reuse mode; README.md: "borrows the scratch".)    *)
UsesFor(b, f, calls) ==
  \E s \in Scratches : scr[s].blk[f] = b /\ call' \in calls \X {s}

LosesByReuse ==
  /\ \A d \in Docs :
       LET dc == docs[d] IN
       docs'[d] = dc /\ Intact(dc) /\ ~Intact(dc)' =>
         \/ dc.borrowed /\ UsesFor(dc.vals, "vals", {"reuse", "insitu_reuse", "release"})
         \/ dc.alias = Buffer /\ call'[1] \in {"insitu", "insitu_reuse"}
         \/ dc.pool = Store /\ call' = <<"fixed">>
  /\ view' = view /\ ViewIntact /\ ~ViewIntact' =>
       UsesFor(view.idx, "idx", Mode \cup {"iterate", "release"})

LostByReuseOnly == [][LosesByReuse]_vars
=============================================================================
