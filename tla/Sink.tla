-------------------------------- MODULE Sink --------------------------------
(***************************************************************************)
(* cjson::flash::sink: a ring of buffers between one producer and the      *)
(* kernel.  The producer stages bytes in buffer cur; a full one is handed  *)
(* to the kernel as one write at its file offset and cur moves to a free   *)
(* buffer; the kernel completes writes in any order, and any of them may   *)
(* fail or fall short.  A call that needs a buffer while all are in flight *)
(* waits for a completion; drain waits for every one.                      *)
(*                                                                         *)
(* The engine (micron's io_uring wrapper) and the kernel are external: the *)
(* kernel reads a buffer when it completes the write, as late as it can,   *)
(* and one mf::drain(eng, 1, ...) hands over one completion.  The bytes    *)
(* given to the sink are numbered from 0 in order, so byte p is right at   *)
(* position p of the file and wrong anywhere else.                         *)
(***************************************************************************)
EXTENDS Integers, FiniteSetsExt

CONSTANTS
  Chunks,      \* buffer sizes the engine may give
  MaxBufs,     \* sink_opts.chunks
  FsyncOnClose,
  MaxFaults    \* bound: how often the engine or the kernel may fail

ASSUME SinkAssumption ==
  /\ Chunks \subseteq Nat \ {0}
  /\ MaxBufs \in Nat \ {0, 1}
  /\ FsyncOnClose \in BOOLEAN
  /\ MaxFaults \in Nat

VARIABLES
  \* the sink
  chunk, nbufs,   \* __chunk and __nbufs: fixed by the constructor
  state,          \* __state: "free" or "flight", by buffer
  buf,            \* the bytes in each buffer
  cur, fill, off, written, inflight, err,
  \* the call in progress
  pc,             \* "idle", "put", or drain's "flush", "reap" and "sync"
  waiting,        \* __flush_cur waits in __reap_one
  ask, left,      \* room the call needs at once, bytes it has yet to stage
  ret,            \* the last answer of drain
  \* the engine and the kernel
  queued,         \* requests queued and not submitted
  flight,         \* writes submitted and not completed
  cq,             \* completions nobody has reaped
  file,           \* the file, by position
  \* for the properties and the bound
  len, calls,     \* bytes accepted, requests queued so far
  faults          \* failures so far

callVars   == <<ask, left, ret>>
kernelVars == <<queued, flight, cq, file, calls>>
ringVars   == <<state, buf, cur, fill, off, written, inflight>>
vars == <<chunk, nbufs, ringVars, err, pc, waiting, callVars, kernelVars, len, faults>>

Slots == 0..(nbufs - 1)
Unset == -1

(* The constructor keeps the buffers the engine has, however few; with     *)
(* fewer than two, or no engine, the sink is born failed, its file unset.  *)
Init ==
  /\ chunk \in Chunks
  /\ nbufs \in 0..MaxBufs
  /\ err = IF nbufs < 2 THEN "io_error" ELSE "ok"
  /\ state = [s \in Slots |-> "free"]
  /\ buf = [s \in Slots |-> [j \in 0..(chunk - 1) |-> Unset]]
  /\ cur = 0 /\ fill = 0 /\ off = 0 /\ written = 0 /\ inflight = 0
  /\ pc = "idle" /\ waiting = FALSE /\ ask = 0 /\ left = 0
  /\ ret = [res |-> "none", n |-> 0]
  /\ queued = {} /\ flight = {} /\ cq = {}
  /\ file = [p \in {} |-> 0]
  /\ len = 0 /\ calls = 0 /\ faults = 0

HasFile == nbufs >= 2        \* __fd >= 0
Fault     == faults < MaxFaults /\ faults' = faults + 1
Sticky(e) == IF err = "ok" THEN e ELSE err

-----------------------------------------------------------------------------
(* Calls of the producer.  put(p, n) needs room for a byte at a time; a    *)
(* reserve(n) with its commit(m) needs n at once and stages m of them.     *)
(* Both refuse, without a change, when the sink has failed.                *)
Call(n, m) ==
  /\ pc = "idle" /\ err = "ok"
  /\ n <= chunk
  /\ pc' = "put" /\ ask' = n /\ left' = m
  /\ UNCHANGED <<chunk, nbufs, ringVars, err, waiting, ret, kernelVars, len, faults>>

Put(n)        == Call(1, n)
Reserve(n, m) == m <= n /\ Call(n, m)

(* The value to be put does not fit the overflow slab: __put_oversized.    *)
SlabFails ==
  /\ pc = "idle" /\ err = "ok"
  /\ Fault
  /\ err' = "oom"
  /\ UNCHANGED <<chunk, nbufs, ringVars, pc, waiting, callVars, kernelVars, len>>

MustFlush == fill + ask > chunk
Taken     == Min({left, chunk - fill})

Stage ==
  /\ pc = "put" /\ ~waiting /\ ~MustFlush
  /\ buf' = [buf EXCEPT ![cur] =
               [j \in DOMAIN @ |-> IF j \in fill..(fill + Taken - 1)
                                     THEN len + (j - fill) ELSE @[j]]]
  /\ fill' = fill + Taken
  /\ len' = len + Taken
  /\ left' = left - Taken
  /\ pc' = IF left' = 0 THEN "idle" ELSE "put"
  /\ UNCHANGED <<chunk, nbufs, state, cur, off, written, inflight, err, waiting,
                 ask, ret, kernelVars, faults>>

-----------------------------------------------------------------------------
(* __flush_cur.                                                            *)
Flushing == ~waiting /\ (pc = "flush" \/ (pc = "put" /\ MustFlush))

WriteOf == [id |-> calls, slot |-> cur, off |-> off, len |-> fill]

(* Where the caller goes on: a put whose flush failed returns, drain does  *)
(* not look at the outcome.                                                *)
After(ok) == IF pc = "flush" THEN "reap" ELSE IF ok THEN "put" ELSE "idle"

FlushFails ==
  /\ Flushing
  /\ Fault
  /\ err' = Sticky("io_error")
  /\ pc' = After(FALSE)
  /\ \/ UNCHANGED kernelVars
     \/ /\ queued' = queued \cup {WriteOf}      \* queued, but not submitted
        /\ calls' = calls + 1
        /\ UNCHANGED <<flight, cq, file>>
  /\ UNCHANGED <<chunk, nbufs, ringVars, waiting, callVars, len>>

(* The next free buffer after cur, cyclically.                             *)
NextBuffer(st) ==
  LET steps == {i \in 1..nbufs : st[(cur + i) % nbufs] = "free"}
  IN IF steps = {} THEN cur ELSE (cur + Min(steps)) % nbufs

SomeFree(st) == \E s \in Slots : st[s] = "free"

BugNextOffset == off + chunk        \* a chunk that was not full
NextOffset    == off + fill

Submit ==
  /\ Flushing
  /\ flight' = flight \cup queued \cup {WriteOf}
  /\ queued' = {}
  /\ calls' = calls + 1
  /\ state' = [state EXCEPT ![cur] = "flight"]
  /\ inflight' = inflight + 1
  /\ off' = NextOffset
  /\ fill' = 0
  /\ cur' = NextBuffer(state')
  /\ waiting' = ~SomeFree(state')
  /\ pc' = IF waiting' THEN pc ELSE After(TRUE)
  /\ UNCHANGED <<chunk, nbufs, buf, written, err, callVars, cq, file, len, faults>>

-----------------------------------------------------------------------------
(* __reap_one: one completion, which frees its buffer; it counts as        *)
(* written when it is as long as the write it answers.                     *)
BugInFull(c) == c.res >= 0
InFull(c)    == c.res = c.len

(* The buffer to go on with, once all were in flight.                      *)
BugFreeBuffer(st) == (cur + 1) % nbufs      \* the one that was handed over first
FreeBuffer(st)    == Min({s \in Slots : st[s] = "free"})

Freed(c) == IF c.slot \in Slots THEN [state EXCEPT ![c.slot] = "free"] ELSE state

BugFewer == IF err = "ok" THEN inflight - 1 ELSE inflight
Fewer    == inflight - 1

Take(c) ==
  /\ cq' = cq \ {c}
  /\ state' = Freed(c)
  /\ inflight' = Fewer
  /\ written' = IF InFull(c) THEN written + c.res ELSE written
  /\ UNCHANGED <<buf, fill, off, queued, flight, file, calls, faults>>

(* mf::drain itself fails: one write less is waited for, though none was   *)
(* handed over.                                                            *)
TakeNothing ==
  /\ Fault
  /\ inflight' = Fewer
  /\ UNCHANGED <<state, buf, fill, off, written, kernelVars>>

ReapInFlush ==
  /\ waiting
  /\ waiting' = FALSE
  /\ \/ \E c \in cq :
          LET ok == InFull(c) /\ SomeFree(Freed(c)) IN
          /\ Take(c)
          /\ err' = IF ok THEN err ELSE Sticky("io_error")
          /\ cur' = IF ok THEN FreeBuffer(state') ELSE cur
          /\ pc' = After(ok)
     \/ /\ TakeNothing
        /\ err' = Sticky("io_error")
        /\ pc' = After(FALSE)
        /\ UNCHANGED cur
  /\ UNCHANGED <<chunk, nbufs, callVars, len>>

-----------------------------------------------------------------------------
(* drain: flush what is staged, whatever comes of it, then reap until      *)
(* nothing is in flight or a reap fails, then make the data durable.  The  *)
(* destructor is a last drain.                                             *)
Drain ==
  /\ pc = "idle"
  /\ IF HasFile
       THEN pc' = (IF fill # 0 THEN "flush" ELSE "reap") /\ UNCHANGED ret
       ELSE ret' = [res |-> "error", n |-> 0] /\ UNCHANGED pc
  /\ UNCHANGED <<chunk, nbufs, ringVars, err, waiting, ask, left, kernelVars, len, faults>>

ReapInDrain ==
  /\ pc = "reap" /\ inflight # 0
  /\ \/ \E c \in cq :
          /\ Take(c)
          /\ err' = IF InFull(c) THEN err ELSE Sticky("io_error")
          /\ pc' = IF InFull(c) THEN "reap" ELSE "sync"
     \/ /\ TakeNothing
        /\ err' = Sticky("io_error")
        /\ pc' = "sync"
  /\ UNCHANGED <<chunk, nbufs, cur, waiting, callVars, len>>

Reaped ==
  /\ pc = "reap" /\ inflight = 0
  /\ pc' = "sync"
  /\ UNCHANGED <<chunk, nbufs, ringVars, err, waiting, callVars, kernelVars, len, faults>>

Answer(e) == IF e = "ok" THEN [res |-> "ok", n |-> written]
                         ELSE [res |-> "error", n |-> 0]

Drained ==
  /\ pc = "sync"
  /\ \/ UNCHANGED <<err, faults>>
     \/ FsyncOnClose /\ err = "ok" /\ Fault /\ err' = "io_error"
  /\ ret' = Answer(err')
  /\ pc' = "idle"
  /\ UNCHANGED <<chunk, nbufs, ringVars, waiting, ask, left, kernelVars, len>>

-----------------------------------------------------------------------------
(* The kernel completes a write: in full, a byte short, or not at all (how *)
(* short makes no difference to the sink).                                 *)
Laid(x, n) ==
  LET new == x.off..(x.off + n - 1)
  IN [p \in DOMAIN file \cup new |-> IF p \in new THEN buf[x.slot][p - x.off] ELSE file[p]]

Complete(x) ==
  /\ flight' = flight \ {x}
  /\ \E res \in {x.len, x.len - 1, -1} :
       /\ IF res = x.len THEN UNCHANGED faults ELSE Fault
       /\ cq' = cq \cup {[id |-> x.id, slot |-> x.slot, off |-> x.off, len |-> x.len, res |-> res]}
       /\ file' = IF res > 0 THEN Laid(x, res) ELSE file
  /\ UNCHANGED <<chunk, nbufs, ringVars, err, pc, waiting, callVars, queued, calls, len>>

Kernel == \E x \in flight : Complete(x)

Worker == Stage \/ FlushFails \/ Submit \/ ReapInFlush \/ ReapInDrain \/ Reaped \/ Drained

Next ==
  \/ \E n \in Nat \ {0} : Put(n)
  \/ \E n \in 1..chunk, m \in 1..chunk : Reserve(n, m)
  \/ SlabFails
  \/ Drain
  \/ Worker
  \/ Kernel

Spec == Init /\ [][Next]_vars

-----------------------------------------------------------------------------
(* The sink is the log: whatever the order of completions, reuse of        *)
(* buffers, short writes and failures, no byte ever reaches a wrong place  *)
(* of the file, an error never goes away, and drain answers with a count   *)
(* only when every byte accepted, so many, is in the file.                 *)
Log == INSTANCE AppendLog WITH failed <- err # "ok"
ImplementsLog == Log!Spec

(* The writes nobody has confirmed, and the bytes of the file they cover.  *)
Owed      == flight \cup cq
Extent(x) == x.off..(x.off + x.len - 1)
BytesOwed == {p \in 0..(off - 1) : \E x \in Owed : p \in Extent(x)}

(* Every byte accepted was handed over or is staged; while nothing has     *)
(* failed, a byte handed over is confirmed or owed by exactly one write,   *)
(* and the sink waits for exactly the writes in flight; it never waits for *)
(* more of them than there are, failures included, or it would wait        *)
(* forever.  (__reap_one, __flush_cur, drain.)                             *)
Accounted ==
  /\ len = off + fill
  /\ inflight <= Cardinality(Owed)
  /\ err = "ok" =>
       /\ inflight = Cardinality(Owed)
       /\ off = written + Cardinality(BytesOwed)
       /\ \A x, y \in Owed : x # y => Extent(x) \cap Extent(y) = {}

(* A buffer the kernel may still read is never the one being staged into,  *)
(* and holds one write at a time.                                          *)
BuffersHeld ==
  \A x \in flight :
    /\ pc = "put" /\ ~waiting => x.slot # cur
    /\ err = "ok" => state[x.slot] = "flight" /\ \A y \in Owed \ {x} : y.slot # x.slot
=============================================================================
