----------------------------- MODULE SinkProofs -----------------------------
(***************************************************************************)
(* What the streaming sink guarantees for every buffer size, every number  *)
(* of buffers, every sequence of calls, every order of completions and     *)
(* any number of failures: it is the append-only log it promises to be.    *)
(*                                                                         *)
(* The inductive invariant says which write holds which buffer, what each  *)
(* buffer holds that the kernel may still read, and that every byte handed *)
(* over is in the file, or owed by one write.                              *)
(***************************************************************************)
EXTENDS Job, SetLemmas, TLAPS

Write    == [id : Nat, slot : 0..(nbufs - 1), off : Nat, len : 1..chunk]
Reply    == [id : Nat, slot : 0..(nbufs - 1), off : Nat, len : 1..chunk, res : -1..chunk]
SinkErr  == {"ok", "io_error", "oom"}

TypeOK ==
  /\ chunk \in Nat \ {0} /\ nbufs \in Nat
  /\ state \in [Slots -> {"free", "flight"}]
  /\ buf \in [Slots -> [0..(chunk - 1) -> Int]]
  /\ cur \in Nat /\ (HasFile => cur \in Slots)
  /\ fill \in 0..chunk
  /\ off \in Nat /\ written \in Nat /\ inflight \in Nat /\ len \in Nat /\ calls \in Nat
  /\ err \in SinkErr
  /\ pc \in {"idle", "put", "flush", "reap", "sync"}
  /\ waiting \in BOOLEAN
  /\ ask \in Nat /\ left \in Nat
  /\ IsFiniteSet(queued) /\ queued \subseteq Write
  /\ IsFiniteSet(flight) /\ flight \subseteq Write
  /\ IsFiniteSet(cq) /\ cq \subseteq Reply

(* Where the call in progress can stand.                                   *)
Control ==
  /\ ~HasFile => err # "ok" /\ pc = "idle" /\ fill = 0
  /\ pc = "put" => err = "ok" /\ ask \in 1..chunk
  /\ waiting => inflight > 0 /\ fill = 0 /\ pc \in {"put", "flush"}
  /\ pc = "flush" /\ ~waiting => fill > 0
  /\ pc \in {"reap", "sync"} /\ err = "ok" => fill = 0
  /\ pc = "sync" /\ err = "ok" => inflight = 0

(* A request has one number from its queueing to its completion.           *)
Requests == queued \cup flight \cup cq
Numbered ==
  /\ \A x \in Requests : x.id < calls
  /\ \A x, y \in Requests : x.id = y.id => x = y
  /\ queued \cap flight = {} /\ queued \cap cq = {} /\ flight \cap cq = {}

(* Before the first failure nothing is left queued, each write outstanding *)
(* has a buffer of its own, and the buffer being filled is free.           *)
OneWriteEach ==
  err = "ok" =>
    /\ queued = {}
    /\ \A x \in Owed : state[x.slot] = "flight"
    /\ \A x, y \in Owed : x.slot = y.slot => x = y
    /\ ~waiting => state[cur] = "free"

(* A buffer holds the bytes of the log its write is for.                   *)
Held(x) == \A j \in 0..(x.len - 1) : buf[x.slot][j] = x.off + j
Contents ==
  /\ HasFile => \A j \in 0..(fill - 1) : buf[cur][j] = off + j
  /\ \A x \in queued \cup flight : Held(x)
  /\ \A x \in queued : x.off + x.len <= len
  /\ \A x \in Owed : x.off + x.len <= off

(* The file holds bytes of the log in their places; a write answered in    *)
(* full is in it, and no byte handed over is forgotten.                    *)
InFile ==
  /\ \A p \in DOMAIN file : p \in 0..(len - 1) /\ file[p] = p
  /\ \A c \in cq : InFull(c) => Extent(c) \subseteq DOMAIN file
  /\ err = "ok" => (0..(off - 1)) \ BytesOwed \subseteq DOMAIN file

IInv ==
  /\ TypeOK
  /\ Control
  /\ Numbered
  /\ OneWriteEach
  /\ Contents
  /\ InFile
  /\ Accounted

-----------------------------------------------------------------------------
(* The writes outstanding and the bytes they cover can be counted.         *)
LEMMA Countable ==
  ASSUME TypeOK
  PROVE  /\ IsFiniteSet(Owed) /\ Cardinality(Owed) \in Nat
         /\ IsFiniteSet(BytesOwed) /\ Cardinality(BytesOwed) \in Nat
  <1>1. IsFiniteSet(Owed)
    BY FS_Union DEF TypeOK, Owed
  <1>2. IsFiniteSet(0..(off - 1)) /\ BytesOwed \in SUBSET (0..(off - 1))
    BY FS_Interval DEF TypeOK, BytesOwed
  <1>3. IsFiniteSet(BytesOwed)
    BY <1>2, FS_Subset
  <1> QED
    BY <1>1, <1>3, FS_CardinalityType

(* A free buffer is found where there is one, cyclically after cur or by   *)
(* the lowest number.                                                      *)
LEMMA NextBufferIsFree ==
  ASSUME TypeOK, HasFile, NEW st \in [Slots -> {"free", "flight"}]
  PROVE  /\ NextBuffer(st) \in Slots
         /\ SomeFree(st) => st[NextBuffer(st)] = "free"
  <1> DEFINE steps == {i \in 1..nbufs : st[(cur + i) % nbufs] = "free"}
  <1>1. nbufs \in Nat \ {0} /\ cur \in 0..(nbufs - 1)
    BY DEF TypeOK, HasFile, Slots
  <1>2. CASE steps = {}
    <2>1. NextBuffer(st) = cur
      BY <1>2 DEF NextBuffer
    <2>2. ASSUME NEW s \in Slots, st[s] = "free" PROVE FALSE
      <3>1. CASE s > cur
        <4>1. s - cur \in 1..nbufs /\ (cur + (s - cur)) % nbufs = s
          BY <1>1, <3>1 DEF Slots
        <4> QED
          BY <1>2, <2>2, <4>1
      <3>2. CASE s <= cur
        <4>1. nbufs + s - cur \in 1..nbufs /\ (cur + (nbufs + s - cur)) % nbufs = s
          BY <1>1, <3>2 DEF Slots
        <4> QED
          BY <1>2, <2>2, <4>1
      <3> QED
        BY <1>1, <3>1, <3>2 DEF Slots
    <2> QED
      BY <1>1, <2>1, <2>2 DEF Slots, SomeFree
  <1>3. CASE steps # {}
    <2>1. steps \in SUBSET Nat
      BY <1>1
    <2>2. NextBuffer(st) = (cur + Min(steps)) % nbufs
      BY <1>3 DEF NextBuffer
    <2>3. PICK i \in steps : i = Min(steps)
      <3> HIDE DEF steps
      <3> QED
        BY <1>3, <2>1, LeastOf
    <2>4. (cur + i) % nbufs \in 0..(nbufs - 1)
      BY <1>1
    <2> QED
      BY <2>2, <2>3, <2>4 DEF Slots
  <1> QED
    BY <1>2, <1>3

LEMMA FreeBufferIsFree ==
  ASSUME TypeOK, NEW st \in [Slots -> {"free", "flight"}], SomeFree(st)
  PROVE  FreeBuffer(st) \in Slots /\ st[FreeBuffer(st)] = "free"
  <1>1. Slots \subseteq Nat
    BY DEF TypeOK, Slots
  <1> QED
    BY <1>1, LeastOf DEF FreeBuffer, SomeFree

-----------------------------------------------------------------------------
LEMMA InitIInv == Init => IInv
  <1> SUFFICES ASSUME Init PROVE IInv
    OBVIOUS
  <1> USE SinkAssumption
  <1>1. chunk \in Nat \ {0} /\ nbufs \in Nat
    BY DEF Init
  <1>2. IsFiniteSet({}) /\ Cardinality({}) = 0
    BY FS_EmptySet
  <1>3. TypeOK
    <2>1. buf \in [Slots -> [0..(chunk - 1) -> Int]] /\ state \in [Slots -> {"free", "flight"}]
      BY DEF Init, Unset
    <2>2. cur \in Nat /\ (HasFile => cur \in Slots) /\ fill \in 0..chunk /\ err \in SinkErr
      BY <1>1 DEF Init, Slots, HasFile, SinkErr
    <2> QED
      BY <1>1, <1>2, <2>1, <2>2 DEF Init, TypeOK
  <1>4. Control
    BY <1>1 DEF Init, Control, HasFile
  <1>5. Numbered /\ OneWriteEach
    BY <1>1 DEF Init, Numbered, Requests, OneWriteEach, Owed, Slots
  <1>6. BytesOwed = {} /\ Owed = {}
    BY DEF Init, BytesOwed, Owed
  <1>7. Contents /\ InFile /\ Accounted
    BY <1>1, <1>2, <1>6 DEF Init, Contents, InFile, Accounted, Owed
  <1> QED
    BY <1>3, <1>4, <1>5, <1>7 DEF IInv

(* A step that leaves the buffers, the requests and the file alone, and    *)
(* the error, unless it sets it.                                           *)
LEMMA QuietKeepsIInv ==
  ASSUME IInv, TypeOK', Control',
         UNCHANGED <<chunk, nbufs, ringVars, waiting, kernelVars, len>>,
         err' = err \/ err' # "ok"
  PROVE  IInv'
  <1> USE DEF ringVars, kernelVars, Slots
  <1>1. Owed' = Owed /\ BytesOwed' = BytesOwed
    BY DEF Owed, BytesOwed, Extent
  <1>2. Numbered' /\ OneWriteEach' /\ Contents'
    BY <1>1 DEF IInv, Numbered, Requests, OneWriteEach, Contents, Held, HasFile
  <1>3. InFile' /\ Accounted'
    BY <1>1 DEF IInv, InFile, InFull, Accounted, Extent
  <1> QED
    BY <1>2, <1>3 DEF IInv

LEMMA CallKeepsIInv ==
  ASSUME IInv, NEW n \in Nat \ {0}, NEW m \in Nat, Call(n, m)
  PROVE  IInv'
  <1>1. TypeOK' /\ Control'
    BY DEF Call, IInv, TypeOK, Control, ringVars, kernelVars, Slots, HasFile, Write, Reply, SinkErr
  <1> QED
    BY <1>1, QuietKeepsIInv DEF Call

LEMMA SlabFailsKeepsIInv ==
  ASSUME IInv, SlabFails
  PROVE  IInv'
  <1>1. TypeOK' /\ Control'
    BY DEF SlabFails, IInv, TypeOK, Control, callVars, ringVars, kernelVars, Slots, HasFile, Write,
           Reply, SinkErr
  <1> QED
    BY <1>1, QuietKeepsIInv DEF SlabFails

LEMMA DrainKeepsIInv ==
  ASSUME IInv, Drain
  PROVE  IInv'
  <1>1. TypeOK' /\ Control'
    BY DEF Drain, IInv, TypeOK, Control, ringVars, kernelVars, Slots, HasFile, Write, Reply, SinkErr
  <1> QED
    BY <1>1, QuietKeepsIInv DEF Drain

LEMMA ReapedKeepsIInv ==
  ASSUME IInv, Reaped
  PROVE  IInv'
  <1>1. TypeOK' /\ Control'
    BY DEF Reaped, IInv, TypeOK, Control, callVars, ringVars, kernelVars, Slots, HasFile, Write,
           Reply, SinkErr
  <1> QED
    BY <1>1, QuietKeepsIInv DEF Reaped

LEMMA DrainedKeepsIInv ==
  ASSUME IInv, Drained
  PROVE  IInv'
  <1>1. err' = err \/ err' = "io_error"
    BY DEF Drained
  <1>2. TypeOK' /\ Control'
    BY <1>1 DEF Drained, IInv, TypeOK, Control, ringVars, kernelVars, Slots, HasFile, Write, Reply,
                SinkErr
  <1> QED
    BY <1>1, <1>2, QuietKeepsIInv DEF Drained

-----------------------------------------------------------------------------
(* Staging writes into the buffer being filled, which no write holds.      *)
LEMMA TakenFits ==
  ASSUME TypeOK
  PROVE  Taken \in Nat /\ fill + Taken <= chunk /\ Taken <= left
  <1>1. {left, chunk - fill} \in SUBSET Nat
    BY DEF TypeOK
  <1> DEFINE S == {left, chunk - fill}
  <1>2. Min(S) \in S /\ \A y \in S : Min(S) <= y
    <2> HIDE DEF S
    <2>1. S \in SUBSET Nat /\ S # {}
      BY <1>1 DEF S
    <2> QED
      BY <2>1, LeastOf
  <1> QED
    BY <1>1, <1>2 DEF Taken, TypeOK

LEMMA StageKeepsIInv ==
  ASSUME IInv, Stage
  PROVE  IInv'
  <1> DEFINE t == Taken
  <1>1. /\ t \in Nat /\ fill + t <= chunk /\ t <= left
        /\ HasFile /\ err = "ok" /\ cur \in Slots /\ queued = {}
        /\ \A x \in flight : x.slot # cur
    BY TakenFits DEF IInv, TypeOK, Control, OneWriteEach, Stage, Owed
  <1>2. /\ UNCHANGED <<chunk, nbufs, state, cur, off, written, inflight, err, waiting, ask,
                        queued, flight, cq, file, calls>>
        /\ fill' = fill + t /\ len' = len + t /\ left' = left - t
        /\ buf' = [buf EXCEPT ![cur] = [j \in DOMAIN @ |-> IF j \in fill..(fill + t - 1)
                                                           THEN len + (j - fill) ELSE @[j]]]
        /\ pc' \in {"idle", "put"}
    BY DEF Stage, kernelVars
  <1> HIDE DEF t
  <1>3. /\ buf' \in [Slots -> [0..(chunk - 1) -> Int]]
        /\ \A s \in Slots \ {cur} : buf'[s] = buf[s]
        /\ \A j \in 0..(chunk - 1) : buf'[cur][j] = IF j \in fill..(fill + t - 1)
                                                     THEN len + (j - fill) ELSE buf[cur][j]
    BY <1>1, <1>2 DEF IInv, TypeOK
  <1>4. Owed' = Owed /\ BytesOwed' = BytesOwed /\ Slots' = Slots /\ HasFile' = HasFile
    BY <1>2 DEF Owed, BytesOwed, Extent, Slots, HasFile
  <1>5. TypeOK'
    BY <1>1, <1>2, <1>3, <1>4 DEF IInv, TypeOK, Write, Reply
  <1>6. Control'
    BY <1>1, <1>2, <1>4 DEF IInv, TypeOK, Control, Stage
  <1>7. Numbered' /\ OneWriteEach'
    BY <1>2, <1>4 DEF IInv, Numbered, Requests, OneWriteEach
  <1>8. Contents'
    <2>1. ASSUME NEW j \in 0..(fill' - 1) PROVE buf'[cur][j] = off + j
      <3>1. /\ chunk \in Nat /\ fill \in Nat /\ len \in Nat /\ off \in Nat /\ len = off + fill
            /\ \A k \in 0..(fill - 1) : buf[cur][k] = off + k
        BY <1>1 DEF IInv, TypeOK, Contents, Accounted
      <3>2. j \in 0..(chunk - 1) /\ (j \in fill..(fill + t - 1) \/ j \in 0..(fill - 1))
        BY <1>1, <1>2, <3>1
      <3>3. buf'[cur][j] = IF j \in fill..(fill + t - 1) THEN len + (j - fill) ELSE buf[cur][j]
        BY <1>3, <3>2
      <3>4. CASE j \in fill..(fill + t - 1)
        BY <1>1, <3>1, <3>3, <3>4
      <3>5. CASE j \in 0..(fill - 1)
        BY <1>1, <3>1, <3>3, <3>5
      <3> QED
        BY <3>2, <3>4, <3>5
    <2>2. ASSUME NEW x \in flight PROVE Held(x)'
      <3>1. x.slot \in Slots \ {cur} /\ Held(x)
        BY <1>1 DEF IInv, TypeOK, Write, Slots, Contents
      <3> QED
        BY <1>3, <3>1 DEF Held
    <2> QED
      BY <1>1, <1>2, <1>4, <2>1, <2>2 DEF IInv, Contents
  <1>9. InFile'
    BY <1>1, <1>2, <1>4 DEF IInv, TypeOK, InFile, InFull, Extent
  <1>10. Accounted'
    BY SMTT(30), <1>1, <1>2, <1>4 DEF IInv, TypeOK, Accounted, Extent
  <1> QED
    BY <1>5, <1>6, <1>7, <1>8, <1>9, <1>10 DEF IInv

-----------------------------------------------------------------------------
(* A flush makes a write of what is staged, under a number of its own.     *)
LEMMA WriteOfType ==
  ASSUME IInv, Flushing
  PROVE  /\ HasFile /\ cur \in Slots /\ fill \in 1..chunk
         /\ WriteOf \in Write /\ Held(WriteOf)
         /\ \A x \in Requests : x.id # WriteOf.id
         /\ WriteOf \notin Requests
  <1>1. HasFile /\ cur \in Slots /\ fill \in 1..chunk
    BY DEF IInv, TypeOK, Control, Flushing, MustFlush
  <1>2. WriteOf \in Write /\ Held(WriteOf)
    BY <1>1 DEF IInv, TypeOK, WriteOf, Write, Slots, Contents, Held
  <1>3. \A x \in Requests : x.id # WriteOf.id
    BY DEF IInv, TypeOK, Numbered, WriteOf, Requests, Write, Reply
  <1> QED
    BY <1>1, <1>2, <1>3

LEMMA FlushFailsKeepsIInv ==
  ASSUME IInv, FlushFails
  PROVE  IInv'
  <1> DEFINE w == WriteOf
  <1>1. /\ HasFile /\ cur \in Slots /\ fill \in 1..chunk
        /\ w \in Write /\ Held(w)
        /\ \A x \in Requests : x.id # w.id
        /\ w \notin Requests
        /\ w.id = calls /\ w.off = off /\ w.len = fill
    BY WriteOfType DEF FlushFails, WriteOf
  <1>2. /\ UNCHANGED <<chunk, nbufs, state, buf, cur, fill, off, written, inflight, waiting, ask,
                        left, flight, cq, file, len>>
        /\ err' \in {"io_error", "oom"} /\ pc' \in {"reap", "idle"}
        /\ \/ queued' = queued /\ calls' = calls
           \/ queued' = queued \cup {w} /\ calls' = calls + 1
    BY DEF IInv, TypeOK, SinkErr, FlushFails, Sticky, After, ringVars, callVars, kernelVars
  <1>3. ~waiting
    BY DEF FlushFails, Flushing
  <1> HIDE DEF w
  <1>4. Owed' = Owed /\ BytesOwed' = BytesOwed /\ Slots' = Slots /\ HasFile' = HasFile
    BY <1>2 DEF Owed, BytesOwed, Extent, Slots, HasFile
  <1>5. TypeOK'
    <2>1. IsFiniteSet(queued) /\ IsFiniteSet(queued \cup {w}) /\ queued \cup {w} \subseteq Write
      BY <1>1, FS_AddElement DEF IInv, TypeOK
    <2>2. IsFiniteSet(queued') /\ queued' \subseteq Write
      BY <1>2, <2>1
    <2>3. calls' \in Nat /\ err' \in SinkErr
      BY <1>2 DEF IInv, TypeOK, SinkErr
    <2>4. Write' = Write /\ Reply' = Reply
      BY <1>2 DEF Write, Reply
    <2> QED
      BY <1>2, <1>4, <2>2, <2>3, <2>4 DEF IInv, TypeOK
  <1>6. Control'
    BY <1>1, <1>2, <1>3, <1>4 DEF IInv, Control
  <1>7. Numbered'
    <2>1. Requests' = Requests \/ Requests' = Requests \cup {w}
      BY <1>2 DEF Requests
    <2>2. w \notin flight /\ w \notin cq
      BY <1>1 DEF Requests
    <2>3. \A x \in Requests : x.id \in Nat /\ x.id < calls
      BY DEF IInv, TypeOK, Numbered, Requests, Write, Reply
    <2>4. CASE Requests' = Requests /\ queued' = queued
      BY <1>2, <2>3, <2>4 DEF IInv, TypeOK, Numbered
    <2>5. CASE queued' = queued \cup {w} /\ calls' = calls + 1
      <3>1. Requests' = Requests \cup {w}
        BY <1>2, <2>5 DEF Requests
      <3>2. \A x \in Requests' : x.id < calls'
        BY <1>1, <2>3, <2>5, <3>1 DEF IInv, TypeOK
      <3>3. \A x, y \in Requests' : x.id = y.id => x = y
        BY <1>1, <3>1 DEF IInv, Numbered
      <3> QED
        BY <1>2, <2>2, <2>5, <3>2, <3>3 DEF IInv, Numbered
    <2> QED
      BY <1>2, <2>4, <2>5 DEF Requests
  <1>8. OneWriteEach'
    BY <1>2 DEF OneWriteEach
  <1>9. Contents'
    <2>1. \A x \in queued' \cup flight' : x \in queued \cup flight \/ x = w
      BY <1>2
    <2>2. \A x \in queued' \cup flight' : Held(x)'
      BY <1>1, <1>2, <2>1 DEF IInv, Contents, Held
    <2>3. w.off + w.len <= len
      BY <1>1 DEF IInv, TypeOK, Accounted
    <2>4. \A x \in queued' : x.off + x.len <= len'
      BY <1>2, <2>3 DEF IInv, Contents
    <2>5. HasFile' => \A j \in 0..(fill' - 1) : buf'[cur'][j] = off' + j
      BY <1>1, <1>2 DEF IInv, Contents
    <2>6. \A x \in Owed' : x.off + x.len <= off'
      BY <1>2, <1>4 DEF IInv, Contents
    <2> QED
      BY <2>2, <2>4, <2>5, <2>6 DEF Contents
  <1>10. InFile' /\ Accounted'
    BY <1>2, <1>4 DEF IInv, InFile, InFull, Accounted, Extent
  <1> QED
    BY <1>5, <1>6, <1>7, <1>8, <1>9, <1>10 DEF IInv

LEMMA SubmitKeepsIInv ==
  ASSUME IInv, Submit
  PROVE  IInv'
  <1> DEFINE w == WriteOf
  <1>1. /\ HasFile /\ cur \in Slots /\ fill \in 1..chunk
        /\ w \in Write /\ Held(w)
        /\ \A x \in Requests : x.id # w.id
        /\ w \notin Requests
        /\ w.id = calls /\ w.off = off /\ w.len = fill /\ w.slot = cur
    BY WriteOfType DEF Submit, WriteOf
  <1>2. /\ UNCHANGED <<chunk, nbufs, buf, written, err, ask, left, cq, file, len>>
        /\ flight' = flight \cup queued \cup {w} /\ queued' = {} /\ calls' = calls + 1
        /\ state' = [state EXCEPT ![cur] = "flight"]
        /\ inflight' = inflight + 1 /\ off' = off + fill /\ fill' = 0
        /\ cur' = NextBuffer(state') /\ waiting' = ~SomeFree(state')
        /\ pc \in {"put", "flush"}
        /\ pc' = IF waiting' THEN pc ELSE IF pc = "flush" THEN "reap" ELSE "put"
        /\ ~waiting
    BY DEF Submit, Flushing, After, callVars, NextOffset
  <1>3. off \in Nat /\ len = off + fill /\ off + fill \in Nat /\ inflight \in Nat
    BY <1>1 DEF IInv, TypeOK, Accounted
  <1> HIDE DEF w
  <1>4. Slots' = Slots /\ HasFile' = HasFile /\ Owed' = Owed \cup queued \cup {w}
    BY <1>2 DEF Owed, Slots, HasFile
  <1>5. /\ state' \in [Slots -> {"free", "flight"}]
        /\ cur' \in Slots
        /\ SomeFree(state') => state'[cur'] = "free"
    <2>1. state' \in [Slots -> {"free", "flight"}]
      BY <1>2 DEF IInv, TypeOK
    <2> QED
      BY <1>1, <1>2, <2>1, NextBufferIsFree DEF IInv
  <1>6. TypeOK'
    <2>1. IsFiniteSet(flight') /\ flight' \subseteq Write /\ IsFiniteSet(queued')
      BY <1>1, <1>2, FS_AddElement, FS_Union, FS_EmptySet DEF IInv, TypeOK
    <2>2. waiting' \in BOOLEAN /\ cur' \in Nat
      BY <1>1, <1>2, <1>5 DEF Slots, IInv, TypeOK
    <2> QED
      BY SMTT(30), <1>2, <1>3, <1>4, <1>5, <2>1, <2>2 DEF IInv, TypeOK, SinkErr, Write, Reply
  <1>7. Control'
    BY <1>1, <1>2, <1>3, <1>4 DEF IInv, TypeOK, Control
  <1>8. Numbered'
    <2>1. Requests' = Requests \cup {w}
      BY <1>2 DEF Requests
    <2>2. w \notin cq /\ queued \cap cq = {} /\ flight \cap cq = {}
      BY <1>1 DEF IInv, Numbered, Requests
    <2>3. \A x \in Requests : x.id \in Nat /\ x.id < calls
      BY DEF IInv, TypeOK, Numbered, Requests, Write, Reply
    <2> QED
      BY <1>1, <1>2, <2>1, <2>2, <2>3 DEF IInv, TypeOK, Numbered
  <1>9. Contents'
    <2>1. \A x \in flight' : Held(x)'
      BY <1>1, <1>2 DEF IInv, Contents, Held
    <2>2. \A x \in Owed \cup queued : x.off \in Nat /\ x.len \in Nat
      BY DEF IInv, TypeOK, Write, Reply, Owed
    <2>3. \A x \in Owed' : x.off + x.len <= off'
      BY <1>1, <1>2, <1>3, <1>4, <2>2 DEF IInv, Contents
    <2> QED
      BY <1>2, <2>1, <2>3 DEF IInv, Contents
  <1>10. ASSUME err = "ok"
         PROVE  /\ Owed' = Owed \cup {w}
                /\ BytesOwed' = BytesOwed \cup Extent(w)
                /\ \A x \in Owed : Extent(x) \subseteq 0..(off - 1)
                /\ \A x \in Owed' : Extent(x)' = Extent(x)
                /\ Extent(w) = off..(off + fill - 1)
    <2>1. Owed' = Owed \cup {w}
      BY <1>4, <1>10 DEF IInv, OneWriteEach
    <2>2. \A x \in Owed : x.off \in Nat /\ x.len \in Nat /\ x.off + x.len <= off
      BY DEF IInv, TypeOK, Contents, Write, Reply, Owed
    <2>3. \A x \in Owed : Extent(x) \subseteq 0..(off - 1)
      BY <1>3, <2>2 DEF Extent
    <2>4. Extent(w) = off..(off + fill - 1)
      BY <1>1 DEF Extent
    <2>5. \A x \in Owed' : Extent(x)' = Extent(x)
      BY DEF Extent
    <2>6. BytesOwed' = {p \in 0..(off + fill - 1) : \E x \in Owed \cup {w} : p \in Extent(x)}
      <3>1. off' - 1 = off + fill - 1
        <4>1. off' = off + fill
          BY <1>2
        <4>2. off \in Int /\ fill \in Int /\ off' \in Int
          BY <1>3, <1>2, <1>1 DEF IInv, TypeOK
        <4> QED
          BY <4>1, <4>2
      <3> QED
        BY <2>1, <2>5, <3>1, Zenon DEF BytesOwed
    <2>7. BytesOwed' = BytesOwed \cup Extent(w)
      BY <1>1, <1>3, <2>3, <2>4, <2>6 DEF BytesOwed
    <2> QED
      BY <2>1, <2>3, <2>4, <2>5, <2>7
  <1>11. OneWriteEach'
    <2>1. \A x \in Owed : x.slot \in Slots
      BY DEF IInv, TypeOK, Owed, Write, Reply, Slots
    <2> SUFFICES ASSUME err = "ok" PROVE OneWriteEach'
      BY <1>2 DEF OneWriteEach
    <2>2. state[cur] = "free" /\ \A x \in Owed : state[x.slot] = "flight" /\ x.slot # cur
      BY <1>2 DEF IInv, OneWriteEach
    <2>3. \A x \in Owed' : state'[x.slot] = "flight"
      BY <1>1, <1>2, <1>10, <2>1, <2>2 DEF IInv, TypeOK
    <2>4. \A x, y \in Owed' : x.slot = y.slot => x = y
      BY <1>1, <1>10, <2>2 DEF IInv, OneWriteEach
    <2> QED
      BY <1>2, <1>5, <2>3, <2>4 DEF OneWriteEach
  <1>12. InFile'
    <2>1. \A c \in cq : InFull(c)' = InFull(c) /\ Extent(c)' = Extent(c)
      BY DEF InFull, Extent
    <2>2. err = "ok" => (0..(off' - 1)) \ BytesOwed' \subseteq DOMAIN file
      BY <1>1, <1>2, <1>3, <1>10 DEF IInv, InFile
    <2> QED
      BY <1>2, <2>1, <2>2 DEF IInv, InFile
  <1>13. Accounted'
    <2>1. IsFiniteSet(Owed) /\ IsFiniteSet(Owed') /\ w \notin Owed
      <3>1. IsFiniteSet(Owed)
        BY Countable DEF IInv
      <3>2. IsFiniteSet(Owed')
        BY <1>6, FS_Union DEF TypeOK, Owed
      <3> QED
        BY <1>1, <3>1, <3>2 DEF Owed, Requests
    <2>2. inflight' <= Cardinality(Owed')
      <3>1. Cardinality(Owed \cup {w}) = Cardinality(Owed) + 1
        BY <2>1, FS_AddElement
      <3>2. Cardinality(Owed \cup {w}) <= Cardinality(Owed')
        BY <1>4, <2>1, FS_Subset
      <3>3. Cardinality(Owed) \in Nat /\ Cardinality(Owed') \in Nat
        BY <2>1, FS_CardinalityType
      <3> QED
        BY <1>2, <1>3, <3>1, <3>2, <3>3 DEF IInv, Accounted
    <2>3. ASSUME err = "ok"
          PROVE  /\ inflight' = Cardinality(Owed')
                 /\ off' = written + Cardinality(BytesOwed')
                 /\ \A x, y \in Owed' : x # y => Extent(x)' \cap Extent(y)' = {}
      <3>1. inflight' = Cardinality(Owed')
        BY <1>2, <1>10, <2>1, <2>3, FS_AddElement DEF IInv, Accounted
      <3>2. off' = written + Cardinality(BytesOwed')
        <4>1. IsFiniteSet(BytesOwed) /\ BytesOwed \cap Extent(w) = {} /\ Cardinality({}) = 0
          BY <1>3, <1>10, <2>3, Countable, FS_EmptySet DEF IInv, BytesOwed
        <4>2. IsFiniteSet(Extent(w)) /\ Cardinality(Extent(w)) = fill
          <5>1. Extent(w) = off..(off + fill - 1)
            BY <1>10, <2>3
          <5> QED
            BY <1>1, <1>3, <5>1, FS_Interval
        <4>3. Cardinality(BytesOwed') = Cardinality(BytesOwed) + fill
          <5>1. Cardinality(BytesOwed \cup Extent(w))
                  = Cardinality(BytesOwed) + Cardinality(Extent(w)) - Cardinality({})
            BY <4>1, <4>2, FS_Union
          <5>2. BytesOwed' = BytesOwed \cup Extent(w)
            BY <1>10, <2>3
          <5> QED
            BY <1>1, <4>1, <4>2, <5>1, <5>2, FS_CardinalityType DEF IInv, TypeOK
        <4> QED
          BY <1>1, <1>2, <1>3, <2>3, <4>1, <4>3, FS_CardinalityType DEF IInv, TypeOK, Accounted
      <3>3. \A x, y \in Owed' : x # y => Extent(x) \cap Extent(y) = {}
        <4>1. \A x \in Owed : Extent(x) \cap Extent(w) = {}
          BY <1>3, <1>10, <2>3
        <4> QED
          BY <1>10, <2>3, <4>1 DEF IInv, Accounted
      <3> QED
        BY <1>10, <2>3, <3>1, <3>2, <3>3
    <2> QED
      BY <1>2, <1>3, <2>2, <2>3 DEF Accounted
  <1> QED
    BY <1>6, <1>7, <1>8, <1>9, <1>11, <1>12, <1>13 DEF IInv

-----------------------------------------------------------------------------
(* A completion taken gives its buffer back and is owed no longer.         *)
LEMMA TakeKeeps ==
  ASSUME IInv, NEW c \in cq, Take(c), HasFile, inflight > 0,
         UNCHANGED <<chunk, nbufs, len>>,
         (err' = err /\ InFull(c)) \/ err' # "ok"
  PROVE  /\ state' \in [Slots -> {"free", "flight"}] /\ c.slot \in Slots
         /\ written' \in Nat /\ inflight' \in Nat
         /\ IsFiniteSet(cq') /\ cq' \subseteq Reply
         /\ Numbered'
         /\ err' = "ok" => /\ queued' = {}
                           /\ \A x \in Owed' : state'[x.slot] = "flight"
                           /\ \A x, y \in Owed' : x.slot = y.slot => x = y
         /\ Owed' \subseteq Owed
         /\ InFile' /\ Accounted'
  <1>1. /\ UNCHANGED <<chunk, nbufs, len, buf, fill, off, queued, flight, file, calls>>
        /\ cq' = cq \ {c} /\ state' = Freed(c) /\ inflight' = inflight - 1
        /\ written' = IF InFull(c) THEN written + c.res ELSE written
    BY DEF Take, Fewer
  <1>2. /\ c.slot \in Slots /\ c.off \in Nat /\ c.len \in Nat \ {0} /\ c.res \in Int
        /\ c.off + c.len <= off /\ off \in Nat /\ written \in Nat /\ fill \in Nat
    <2>1. /\ c \in Reply /\ chunk \in Nat /\ off \in Nat /\ written \in Nat /\ fill \in Nat
          /\ c.off + c.len <= off
      BY DEF IInv, TypeOK, Contents, Owed
    <2> QED
      BY <2>1 DEF Reply, Slots
  <1>3. state' = [state EXCEPT ![c.slot] = "free"]
    BY <1>1, <1>2 DEF Freed
  <1>4. state' \in [Slots -> {"free", "flight"}]
    BY <1>3 DEF IInv, TypeOK
  <1>5. written' \in Nat /\ inflight' \in Nat
    BY <1>1, <1>2 DEF IInv, TypeOK, InFull
  <1>6. c \notin flight /\ c \in Owed /\ Owed' = Owed \ {c}
    BY <1>1 DEF IInv, Numbered, Owed
  <1>7. IsFiniteSet(cq') /\ cq' \subseteq Reply
    BY <1>1, FS_RemoveElement DEF IInv, TypeOK
  <1>8. Numbered'
    BY <1>1 DEF IInv, Numbered, Requests
  <1>9. ASSUME err' = "ok"
        PROVE  /\ err = "ok" /\ InFull(c)
               /\ queued' = {}
               /\ \A x \in Owed' : state'[x.slot] = "flight"
               /\ \A x, y \in Owed' : x.slot = y.slot => x = y
    <2>1. err = "ok" /\ InFull(c)
      BY <1>9
    <2>2. queued' = {} /\ \A x, y \in Owed' : x.slot = y.slot => x = y
      BY <1>1, <1>6, <2>1 DEF IInv, OneWriteEach
    <2>3. ASSUME NEW x \in Owed' PROVE state'[x.slot] = "flight"
      <3>1. x.slot \in Slots /\ x.slot # c.slot /\ state[x.slot] = "flight"
        BY <1>6, <2>1 DEF IInv, TypeOK, Owed, Write, Reply, Slots, OneWriteEach
      <3> QED
        BY <1>3, <3>1 DEF IInv, TypeOK
    <2> QED
      BY <2>1, <2>2, <2>3
  <1>10. \A x \in Owed' : Extent(x)' = Extent(x)
    BY DEF Extent
  <1>11. Extent(c) \subseteq 0..(off - 1) /\ Extent(c) \subseteq BytesOwed
    BY <1>2, <1>6 DEF Extent, BytesOwed
  <1>12. ASSUME err' = "ok" PROVE BytesOwed' = BytesOwed \ Extent(c)
    <2>1. \A x \in Owed \ {c} : Extent(x) \cap Extent(c) = {}
      BY <1>6, <1>9, <1>12 DEF IInv, Accounted
    <2> QED
      BY <1>1, <1>6, <1>10, <2>1 DEF BytesOwed
  <1>13. InFile'
    <2>1. \A x \in cq : InFull(x)' = InFull(x) /\ Extent(x)' = Extent(x)
      BY DEF InFull, Extent
    <2>2. err' = "ok" => (0..(off - 1)) \ BytesOwed' \subseteq DOMAIN file
      BY <1>9, <1>12 DEF IInv, InFile
    <2> QED
      BY <1>1, <2>1, <2>2 DEF IInv, InFile
  <1>14. Accounted'
    <2>1. IsFiniteSet(Owed) /\ IsFiniteSet(BytesOwed) /\ Cardinality(BytesOwed) \in Nat
      BY Countable DEF IInv
    <2>2. Cardinality(Owed') = Cardinality(Owed) - 1 /\ Cardinality(Owed) \in Nat
      BY <1>6, <2>1, FS_RemoveElement, FS_CardinalityType
    <2>3. ASSUME err' = "ok" PROVE off = written' + Cardinality(BytesOwed')
      <3>1. Cardinality(Extent(c)) = c.len
        <4>1. Extent(c) = c.off..(c.off + c.len - 1)
          BY DEF Extent
        <4>2. c.off \in Int /\ c.off + c.len - 1 \in Int /\ ~(c.off > c.off + c.len - 1)
          BY <1>2
        <4>3. Cardinality(Extent(c)) = (c.off + c.len - 1) - c.off + 1
          BY <4>1, <4>2, FS_Interval
        <4> QED
          BY <1>2, <4>3
      <3>2. BytesOwed \cap Extent(c) = Extent(c)
        BY <1>11
      <3>3. Cardinality(BytesOwed \ Extent(c)) = Cardinality(BytesOwed) - c.len
        <4>1. Cardinality(BytesOwed \ Extent(c))
                = Cardinality(BytesOwed) - Cardinality(BytesOwed \cap Extent(c))
          BY <2>1, FS_Difference
        <4> QED
          BY <3>1, <3>2, <4>1
      <3>4. written' = written + c.len
        BY <1>1, <1>9, <2>3 DEF InFull
      <3>5. off = written + Cardinality(BytesOwed)
        BY <1>9, <2>3 DEF IInv, Accounted
      <3>6. Cardinality(BytesOwed') = Cardinality(BytesOwed) - c.len
        BY <1>12, <2>3, <3>3
      <3> QED
        BY <1>2, <2>1, <3>4, <3>5, <3>6
    <2>4. ASSUME err' = "ok"
          PROVE  \A x, y \in Owed' : x # y => Extent(x)' \cap Extent(y)' = {}
      BY <1>6, <1>9, <1>10, <2>4 DEF IInv, Accounted
    <2> QED
      BY <1>1, <1>9, <2>2, <2>3, <2>4 DEF IInv, TypeOK, Accounted
  <1> QED
    BY <1>2, <1>4, <1>5, <1>6, <1>7, <1>8, <1>9, <1>13, <1>14

(* A reap that gives nothing waits for one write less, and is an error.    *)
LEMMA TakeNothingKeeps ==
  ASSUME IInv, TakeNothing, inflight > 0, UNCHANGED <<chunk, nbufs, len>>, err' # "ok"
  PROVE  /\ inflight' \in Nat
         /\ Numbered' /\ OneWriteEach' /\ InFile' /\ Accounted'
  <1>1. /\ UNCHANGED <<chunk, nbufs, len, state, buf, fill, off, written, queued, flight, cq, file,
                       calls>>
        /\ inflight' = inflight - 1
    BY DEF TakeNothing, Fewer, kernelVars
  <1>2. inflight' \in Nat
    BY <1>1 DEF IInv, TypeOK
  <1>3. Owed' = Owed /\ BytesOwed' = BytesOwed
    BY <1>1 DEF Owed, BytesOwed, Extent
  <1>4. Numbered' /\ OneWriteEach' /\ InFile'
    BY <1>1, <1>3 DEF IInv, Numbered, Requests, OneWriteEach, InFile, InFull, Extent
  <1>5. Accounted'
    BY <1>1, <1>2, <1>3, Countable DEF IInv, TypeOK, Accounted
  <1> QED
    BY <1>2, <1>4, <1>5

LEMMA ReapInFlushKeepsIInv ==
  ASSUME IInv, ReapInFlush
  PROVE  IInv'
  <1>1. /\ waiting /\ inflight > 0 /\ fill = 0 /\ pc \in {"put", "flush"} /\ HasFile
        /\ cur \in Slots
    BY DEF IInv, TypeOK, Control, ReapInFlush
  <1>2. UNCHANGED <<chunk, nbufs, ask, left, ret, len>> /\ waiting' = FALSE
    BY DEF ReapInFlush, callVars
  <1>3. Slots' = Slots /\ HasFile' = HasFile /\ Write' = Write /\ Reply' = Reply
    BY <1>2 DEF Slots, HasFile, Write, Reply
  <1>4. CASE \E c \in cq :
               LET ok == InFull(c) /\ SomeFree(Freed(c)) IN
               /\ Take(c)
               /\ err' = IF ok THEN err ELSE Sticky("io_error")
               /\ cur' = IF ok THEN FreeBuffer(state') ELSE cur
               /\ pc' = After(ok)
    <2>1. PICK c \in cq :
            /\ Take(c)
            /\ \/ /\ InFull(c) /\ SomeFree(state') /\ err' = err
                 /\ cur' = FreeBuffer(state') /\ pc' = After(TRUE)
              \/ /\ err' = Sticky("io_error") /\ cur' = cur /\ pc' = After(FALSE)
      BY <1>4 DEF Take
    <2>2. Sticky("io_error") \in SinkErr \ {"ok"}
      BY DEF IInv, TypeOK, Sticky, SinkErr
    <2>3. /\ state' \in [Slots -> {"free", "flight"}]
          /\ written' \in Nat /\ inflight' \in Nat
          /\ IsFiniteSet(cq') /\ cq' \subseteq Reply
          /\ Numbered'
          /\ err' = "ok" => /\ queued' = {}
                            /\ \A x \in Owed' : state'[x.slot] = "flight"
                            /\ \A x, y \in Owed' : x.slot = y.slot => x = y
          /\ Owed' \subseteq Owed
          /\ InFile' /\ Accounted'
      BY <1>1, <1>2, <2>1, <2>2, TakeKeeps
    <2>4. UNCHANGED <<buf, fill, off, queued, flight, file, calls>>
      BY <2>1 DEF Take
    <2>5. cur' \in Slots /\ (err' = "ok" => state'[cur'] = "free")
      BY <1>1, <2>1, <2>2, <2>3, FreeBufferIsFree DEF IInv
    <2>6. TypeOK'
      <3>1. cur' \in Nat /\ err' \in SinkErr /\ pc' \in {"idle", "put", "reap"}
        BY <1>1, <2>1, <2>2, <2>5 DEF IInv, TypeOK, Slots, After
      <3> QED
        BY <1>2, <1>3, <2>3, <2>4, <2>5, <3>1 DEF IInv, TypeOK
    <2>7. Control'
      BY <1>1, <1>2, <1>3, <2>1, <2>2, <2>4 DEF IInv, Control, After
    <2>8. OneWriteEach'
      BY <1>2, <2>3, <2>5 DEF OneWriteEach
    <2>9. Contents'
      BY <1>1, <1>2, <2>3, <2>4 DEF IInv, Contents, Held
    <2> QED
      BY <2>3, <2>6, <2>7, <2>8, <2>9 DEF IInv
  <1>5. CASE /\ TakeNothing
             /\ err' = Sticky("io_error")
             /\ pc' = After(FALSE)
             /\ UNCHANGED cur
    <2>1. err' \in SinkErr \ {"ok"} /\ cur' = cur /\ pc' \in {"idle", "reap"}
      BY <1>5 DEF IInv, TypeOK, Sticky, SinkErr, After
    <2>2. inflight' \in Nat /\ Numbered' /\ OneWriteEach' /\ InFile' /\ Accounted'
      BY <1>1, <1>2, <1>5, <2>1, TakeNothingKeeps
    <2>3. UNCHANGED <<state, buf, fill, off, written, queued, flight, cq, file, calls>>
      BY <1>5 DEF TakeNothing, kernelVars
    <2>4. TypeOK'
      BY <1>2, <1>3, <2>1, <2>2, <2>3 DEF IInv, TypeOK
    <2>5. Control'
      BY <1>1, <1>2, <1>3, <2>1, <2>3 DEF IInv, Control
    <2>6. Contents'
      BY <1>1, <1>2, <2>1, <2>3 DEF IInv, Contents, Held, Owed
    <2> QED
      BY <2>2, <2>4, <2>5, <2>6 DEF IInv
  <1> QED
    BY <1>4, <1>5 DEF ReapInFlush

LEMMA ReapInDrainKeepsIInv ==
  ASSUME IInv, ReapInDrain
  PROVE  IInv'
  <1>1. /\ pc = "reap" /\ inflight > 0 /\ ~waiting /\ HasFile /\ cur \in Slots
        /\ UNCHANGED <<chunk, nbufs, cur, waiting, ask, left, len>>
    BY DEF IInv, TypeOK, Control, ReapInDrain, callVars
  <1>2. Slots' = Slots /\ HasFile' = HasFile /\ Write' = Write /\ Reply' = Reply
    BY <1>1 DEF Slots, HasFile, Write, Reply
  <1>3. Sticky("io_error") \in SinkErr \ {"ok"}
    BY DEF IInv, TypeOK, Sticky, SinkErr
  <1>4. CASE \E c \in cq :
               /\ Take(c)
               /\ err' = IF InFull(c) THEN err ELSE Sticky("io_error")
               /\ pc' = IF InFull(c) THEN "reap" ELSE "sync"
    <2>1. PICK c \in cq :
            /\ Take(c)
            /\ err' = IF InFull(c) THEN err ELSE Sticky("io_error")
            /\ pc' = IF InFull(c) THEN "reap" ELSE "sync"
      BY <1>4
    <2>2. /\ state' \in [Slots -> {"free", "flight"}] /\ c.slot \in Slots
          /\ written' \in Nat /\ inflight' \in Nat
          /\ IsFiniteSet(cq') /\ cq' \subseteq Reply
          /\ Numbered'
          /\ err' = "ok" => /\ queued' = {}
                            /\ \A x \in Owed' : state'[x.slot] = "flight"
                            /\ \A x, y \in Owed' : x.slot = y.slot => x = y
          /\ Owed' \subseteq Owed
          /\ InFile' /\ Accounted'
      BY <1>1, <1>3, <2>1, TakeKeeps
    <2>3. UNCHANGED <<buf, fill, off, queued, flight, file, calls>> /\ state' = Freed(c)
      BY <2>1 DEF Take
    <2>4. err' = "ok" => err = "ok" /\ state'[cur] = "free"
      <3>1. state' = [state EXCEPT ![c.slot] = "free"]
        BY <2>2, <2>3 DEF Freed
      <3> QED
        BY <1>1, <1>3, <2>1, <3>1 DEF IInv, TypeOK, OneWriteEach
    <2>5. TypeOK'
      <3>1. err' \in SinkErr /\ pc' \in {"reap", "sync"}
        BY <1>3, <2>1 DEF IInv, TypeOK
      <3> QED
        BY <1>1, <1>2, <2>2, <2>3, <3>1 DEF IInv, TypeOK
    <2>6. Control'
      BY <1>1, <1>2, <1>3, <2>1, <2>3, <2>4 DEF IInv, Control
    <2>7. OneWriteEach'
      BY <1>1, <2>2, <2>4 DEF OneWriteEach
    <2>8. Contents'
      BY <1>1, <1>2, <2>2, <2>3 DEF IInv, Contents, Held
    <2> QED
      BY <2>2, <2>5, <2>6, <2>7, <2>8 DEF IInv
  <1>5. CASE TakeNothing /\ err' = Sticky("io_error") /\ pc' = "sync"
    <2>1. inflight' \in Nat /\ Numbered' /\ OneWriteEach' /\ InFile' /\ Accounted'
      BY <1>1, <1>3, <1>5, TakeNothingKeeps
    <2>2. UNCHANGED <<state, buf, fill, off, written, queued, flight, cq, file, calls>>
      BY <1>5 DEF TakeNothing, kernelVars
    <2>3. TypeOK'
      BY <1>1, <1>2, <1>3, <1>5, <2>1, <2>2 DEF IInv, TypeOK
    <2>4. Control'
      BY <1>1, <1>2, <1>3, <1>5, <2>2 DEF IInv, Control
    <2>5. Contents'
      BY <1>1, <1>2, <2>2 DEF IInv, Contents, Held, Owed
    <2> QED
      BY <2>1, <2>3, <2>4, <2>5 DEF IInv
  <1> QED
    BY <1>4, <1>5 DEF ReapInDrain

-----------------------------------------------------------------------------
(* The kernel answers a write with at most its length, under its number.   *)
LEMMA CompleteKeepsIInv ==
  ASSUME IInv, NEW x \in flight, Complete(x)
  PROVE  IInv'
  <1>1. PICK res \in {x.len, x.len - 1, -1} :
          /\ cq' = cq \cup {[id |-> x.id, slot |-> x.slot, off |-> x.off, len |-> x.len,
                              res |-> res]}
          /\ file' = IF res > 0 THEN Laid(x, res) ELSE file
    BY DEF Complete
  <1> DEFINE c == [id |-> x.id, slot |-> x.slot, off |-> x.off, len |-> x.len, res |-> res]
  <1>2. /\ UNCHANGED <<chunk, nbufs, state, buf, cur, fill, off, written, inflight, err, pc, waiting,
                        ask, left, queued, calls, len>>
        /\ flight' = flight \ {x} /\ cq' = cq \cup {c}
    BY <1>1 DEF Complete, ringVars, callVars
  <1>3. /\ x \in Write /\ chunk \in Nat /\ off \in Nat /\ len \in Nat /\ off <= len
        /\ x.off \in Nat /\ x.len \in Nat \ {0} /\ x.len <= chunk /\ x.off + x.len <= off
        /\ Held(x) /\ x \in Owed
    BY DEF IInv, TypeOK, Contents, Accounted, Owed, Write
  <1>4. /\ c \in Reply /\ c.id = x.id /\ c.slot = x.slot /\ c.off = x.off /\ c.len = x.len
        /\ c.res = res /\ res \in Int /\ res <= x.len
        /\ Extent(c) = Extent(x) /\ Extent(x) = x.off..(x.off + x.len - 1)
    BY <1>3 DEF Write, Reply, Extent
  <1>5. /\ DOMAIN file \subseteq DOMAIN file'
        /\ \A p \in DOMAIN file' : p \in 0..(len - 1) /\ file'[p] = p
        /\ res = x.len => Extent(x) \subseteq DOMAIN file'
    <2>1. CASE res > 0
      <3> DEFINE new == x.off..(x.off + res - 1)
      <3>1. file' = [p \in DOMAIN file \cup new |->
                       IF p \in new THEN buf[x.slot][p - x.off] ELSE file[p]]
        BY <1>1, <2>1 DEF Laid
      <3>2. ASSUME NEW p \in new PROVE p \in 0..(len - 1) /\ buf[x.slot][p - x.off] = p
        <4>1. p - x.off \in 0..(x.len - 1) /\ p \in 0..(len - 1) /\ x.off + (p - x.off) = p
          BY SMTT(30), <1>3, <1>4
        <4>2. buf[x.slot][p - x.off] = x.off + (p - x.off)
          BY <1>3, <4>1 DEF Held
        <4> QED
          BY <4>1, <4>2
      <3> QED
        BY <1>4, <3>1, <3>2 DEF IInv, InFile
    <2>2. CASE ~(res > 0)
      BY <1>1, <1>3, <2>2 DEF IInv, InFile
    <2> QED
      BY <2>1, <2>2
  <1> HIDE DEF c
  <1>6. /\ \A y \in Requests : y.id = x.id => y = x
        /\ x \notin queued /\ x \notin cq
    BY DEF IInv, Numbered, Requests
  <1>7. /\ c \notin flight' /\ c \notin queued /\ c \notin cq
        /\ Requests' = (Requests \ {x}) \cup {c}
        /\ Owed' = (Owed \ {x}) \cup {c}
    BY <1>2, <1>4, <1>6 DEF Requests, Owed
  <1>8. TypeOK'
    <2>1. IsFiniteSet(flight') /\ flight' \subseteq Write /\ IsFiniteSet(cq') /\ cq' \subseteq Reply
      BY <1>2, <1>4, FS_AddElement, FS_RemoveElement DEF IInv, TypeOK
    <2>2. Slots' = Slots /\ HasFile' = HasFile /\ Write' = Write /\ Reply' = Reply
      BY <1>2 DEF Slots, HasFile, Write, Reply
    <2> QED
      BY <1>2, <2>1, <2>2 DEF IInv, TypeOK
  <1>9. Control'
    BY <1>2 DEF IInv, Control, HasFile
  <1>10. Numbered'
    <2>1. \A y \in Requests \ {x} : y.id # c.id
      BY <1>4, <1>6
    <2>2. /\ \A y \in Requests' : y.id < calls
          /\ \A y, z \in Requests' : y.id = z.id => y = z
      BY <1>2, <1>4, <1>7, <2>1 DEF IInv, Numbered, Requests
    <2> QED
      BY <1>2, <1>7, <2>2 DEF IInv, Numbered
  <1>11. OneWriteEach'
    BY <1>2, <1>3, <1>4, <1>7 DEF IInv, OneWriteEach
  <1>12. Contents'
    <2>1. \A y \in queued \cup flight' : Held(y)'
      BY <1>2 DEF IInv, Contents, Held
    <2>2. \A y \in Owed' : y.off + y.len <= off
      BY <1>3, <1>4, <1>7 DEF IInv, Contents
    <2> QED
      BY <1>2, <2>1, <2>2 DEF IInv, Contents, HasFile
  <1>13. \A y \in Owed' : Extent(y)' = Extent(y)
    BY DEF Extent
  <1>14. BytesOwed' = BytesOwed
    <2>1. \A p : (\E y \in Owed' : p \in Extent(y)) <=> (\E y \in Owed : p \in Extent(y))
      BY <1>3, <1>4, <1>7
    <2> QED
      BY <1>2, <1>13, <2>1 DEF BytesOwed
  <1>15. InFile'
    <2>1. \A y \in cq' : InFull(y)' = InFull(y) /\ Extent(y)' = Extent(y)
      BY DEF InFull, Extent
    <2>2. \A y \in cq' : InFull(y) => Extent(y) \subseteq DOMAIN file'
      BY <1>2, <1>4, <1>5 DEF IInv, InFile, InFull
    <2>3. err = "ok" => (0..(off - 1)) \ BytesOwed \subseteq DOMAIN file'
      BY <1>5 DEF IInv, InFile
    <2> QED
      BY <1>2, <1>5, <1>14, <2>1, <2>2, <2>3 DEF InFile
  <1>16. Accounted'
    <2>1. Cardinality(Owed') = Cardinality(Owed)
      <3>1. IsFiniteSet(Owed) /\ Cardinality(Owed) \in Nat
        BY Countable DEF IInv
      <3>2. IsFiniteSet(Owed \ {x}) /\ Cardinality(Owed \ {x}) = Cardinality(Owed) - 1
        BY <1>3, <3>1, FS_RemoveElement
      <3>3. c \notin Owed \ {x}
        BY <1>2, <1>7 DEF Owed
      <3>4. Cardinality((Owed \ {x}) \cup {c}) = Cardinality(Owed \ {x}) + 1
        BY <3>2, <3>3, FS_AddElement
      <3> QED
        BY <1>7, <3>1, <3>2, <3>4
    <2>2. err = "ok" => \A y, z \in Owed' : y # z => Extent(y) \cap Extent(z) = {}
      BY <1>3, <1>4, <1>7 DEF IInv, Accounted
    <2> QED
      BY <1>2, <1>13, <1>14, <2>1, <2>2 DEF IInv, Accounted
  <1> QED
    BY <1>8, <1>9, <1>10, <1>11, <1>12, <1>15, <1>16 DEF IInv

-----------------------------------------------------------------------------
LEMMA NextKeepsIInv == IInv /\ [Next]_vars => IInv'
  <1> SUFFICES ASSUME IInv, [Next]_vars PROVE IInv'
    OBVIOUS
  <1>1. CASE \E n \in Nat \ {0} : Put(n)
    BY <1>1, CallKeepsIInv DEF Put
  <1>2. CASE \E n \in 1..chunk, m \in 1..chunk : Reserve(n, m)
    <2>1. 1..chunk \subseteq Nat \ {0}
      BY DEF IInv, TypeOK
    <2> QED
      BY <1>2, <2>1, CallKeepsIInv DEF Reserve
  <1>3. CASE SlabFails
    BY <1>3, SlabFailsKeepsIInv
  <1>4. CASE Drain
    BY <1>4, DrainKeepsIInv
  <1>5. CASE Stage
    BY <1>5, StageKeepsIInv
  <1>6. CASE FlushFails
    BY <1>6, FlushFailsKeepsIInv
  <1>7. CASE Submit
    BY <1>7, SubmitKeepsIInv
  <1>8. CASE ReapInFlush
    BY <1>8, ReapInFlushKeepsIInv
  <1>9. CASE ReapInDrain
    BY <1>9, ReapInDrainKeepsIInv
  <1>10. CASE Reaped
    BY <1>10, ReapedKeepsIInv
  <1>11. CASE Drained
    BY <1>11, DrainedKeepsIInv
  <1>12. CASE Kernel
    BY <1>12, CompleteKeepsIInv DEF Kernel
  <1>13. CASE UNCHANGED vars
    <2>1. TypeOK' /\ Control'
      BY <1>13 DEF vars, ringVars, kernelVars, callVars, IInv, TypeOK, Control, Slots, HasFile,
                   Write, Reply
    <2> QED
      BY <1>13, <2>1, QuietKeepsIInv DEF vars
  <1> QED
    BY <1>1, <1>2, <1>3, <1>4, <1>5, <1>6, <1>7, <1>8, <1>9, <1>10, <1>11, <1>12, <1>13
       DEF Next, Worker

(* The sink's invariant: types, numbers and buffers of the writes, what    *)
(* the buffers and the file hold, and the account of bytes, together.      *)
THEOREM Invariance == Spec => []IInv
  BY InitIInv, NextKeepsIInv, PTL DEF Spec

(* Every byte accepted is confirmed, owed by exactly one write or staged,  *)
(* and the sink never waits for more writes than are outstanding, for any  *)
(* number of buffers, any calls and any failures (__reap_one,              *)
(* __flush_cur, drain).                                                    *)
THEOREM BytesAccounted == Spec => []Accounted
  <1>1. IInv => Accounted
    BY DEF IInv
  <1> QED
    BY <1>1, Invariance, PTL

(* The producer never stages into a buffer the kernel may still read, and  *)
(* until something fails no buffer is handed over twice (__flush_cur,      *)
(* __reap_one).                                                            *)
THEOREM HandedOverAlone == Spec => []BuffersHeld
  <1>1. IInv => BuffersHeld
    BY DEF IInv, TypeOK, Control, OneWriteEach, Owed, BuffersHeld
  <1> QED
    BY <1>1, Invariance, PTL

-----------------------------------------------------------------------------
(* The refinement: each step of the sink is one of the log, or none.       *)
LEMMA StepOfLog ==
  ASSUME IInv, [Next]_vars
  PROVE  [Log!Next]_<<len, file, err # "ok", ret>>
  <1> DEFINE Same == UNCHANGED <<len, file, ret>>
             LogStep == Log!Next \/ UNCHANGED <<len, file, err # "ok", ret>>
  <1>1. Same /\ err' = err => LogStep
    OBVIOUS
  <1>2. Same /\ err' # "ok" => Log!Next
    BY DEF Log!Next, Log!Fail
  <1>3. CASE \E n \in Nat \ {0} : Put(n)
    BY <1>1, <1>3 DEF Put, Call, kernelVars
  <1>4. CASE \E n \in 1..chunk, m \in 1..chunk : Reserve(n, m)
    BY <1>1, <1>4 DEF Reserve, Call, kernelVars
  <1>5. CASE SlabFails
    BY <1>2, <1>5 DEF SlabFails, callVars, kernelVars
  <1>6. CASE Drain
    <2>1. CASE HasFile
      BY <1>1, <1>6, <2>1 DEF Drain, kernelVars
    <2>2. CASE ~HasFile
      <3>1. Log!Answer
        BY <1>6, <2>2 DEF Drain, kernelVars, IInv, Control, Log!Answer, Log!Refused
      <3> QED
        BY <3>1 DEF Log!Next
    <2> QED
      BY <2>1, <2>2
  <1>7. CASE Stage
    <2>1. err = "ok" /\ len' >= len
      <3>1. pc = "put" /\ len' = len + Taken
        BY <1>7 DEF Stage
      <3>2. Taken \in Nat /\ len \in Nat /\ err = "ok"
        BY <3>1, TakenFits DEF IInv, TypeOK, Control
      <3> QED
        BY <3>1, <3>2
    <2>2. Log!Accept
      BY <1>7, <2>1 DEF Stage, kernelVars, Log!Accept
    <2> QED
      BY <2>2 DEF Log!Next
  <1>8. CASE FlushFails
    <2>1. err' # "ok"
      BY <1>8 DEF FlushFails, Sticky
    <2> QED
      BY <1>2, <1>8, <2>1 DEF FlushFails, callVars, kernelVars
  <1>9. CASE Submit
    BY <1>1, <1>9 DEF Submit, callVars
  <1>10. CASE ReapInFlush
    <2>1. err' = err \/ err' # "ok"
      BY <1>10 DEF ReapInFlush, Sticky
    <2> QED
      BY <1>1, <1>2, <1>10, <2>1 DEF ReapInFlush, Take, TakeNothing, callVars, kernelVars
  <1>11. CASE ReapInDrain
    <2>1. err' = err \/ err' # "ok"
      BY <1>11 DEF ReapInDrain, Sticky
    <2> QED
      BY <1>1, <1>2, <1>11, <2>1 DEF ReapInDrain, Take, TakeNothing, callVars, kernelVars
  <1>12. CASE Reaped
    BY <1>1, <1>12 DEF Reaped, callVars, kernelVars
  <1>13. CASE Drained
    <2>1. err = "ok" => written = len /\ DOMAIN file = 0..(len - 1)
      <3> SUFFICES ASSUME err = "ok" PROVE written = len /\ DOMAIN file = 0..(len - 1)
        OBVIOUS
      <3>1. fill = 0 /\ Cardinality(Owed) = 0 /\ off = len /\ len \in Nat
        BY <1>13 DEF Drained, IInv, TypeOK, Control, Accounted
      <3>2. Owed = {}
        BY <3>1, Countable, FS_EmptySet DEF IInv
      <3>3. BytesOwed = {} /\ Cardinality(BytesOwed) = 0
        BY <3>2, FS_EmptySet DEF BytesOwed
      <3>4. written = len
        BY <3>1, <3>3 DEF IInv, TypeOK, Accounted
      <3> QED
        BY <3>1, <3>3, <3>4 DEF IInv, InFile
    <2>2. (err' = "ok" => err = "ok") /\ ret' = Answer(err') /\ UNCHANGED <<len, file>>
      BY <1>13 DEF Drained, kernelVars
    <2>3. Log!Answer
      BY <2>1, <2>2 DEF Answer, Log!Answer, Log!Refused, Log!Count
    <2> QED
      BY <2>3 DEF Log!Next
  <1>14. CASE Kernel
    <2>1. PICK x \in flight : Complete(x)
      BY <1>14 DEF Kernel
    <2>2. UNCHANGED <<len, err, ret>> /\ DOMAIN file \subseteq DOMAIN file'
      BY <2>1 DEF Complete, callVars, Laid
    <2>3. InFile'
      BY <2>1, CompleteKeepsIInv DEF IInv
    <2>4. Log!Settle
      BY <2>2, <2>3 DEF InFile, Log!Settle, Log!InPlace
    <2> QED
      BY <2>4 DEF Log!Next
  <1>15. CASE UNCHANGED vars
    BY <1>1, <1>15 DEF vars, callVars, kernelVars
  <1> QED
    BY <1>3, <1>4, <1>5, <1>6, <1>7, <1>8, <1>9, <1>10, <1>11, <1>12, <1>13, <1>14, <1>15
       DEF Next, Worker

(* The sink implements the append-only log: whatever the buffers, the      *)
(* calls, the order of completions and the failures, a byte reaches its    *)
(* own place of the file or none, an error stays, and drain answers with a *)
(* count only when every byte accepted is in the file (flash::sink).       *)
THEOREM SinkIsALog == Spec => ImplementsLog
  <1>1. Init => Log!Init
    BY DEF Init, Log!Init, Log!NoAnswer
  <1>2. IInv /\ [Next]_vars => [Log!Next]_(Log!vars)
    BY StepOfLog DEF Log!vars
  <1> QED
    BY <1>1, <1>2, Invariance, PTL DEF Spec, ImplementsLog, Log!Spec

-----------------------------------------------------------------------------
(* A document's turn at the sink.  Its steps are steps of the sink.        *)
Plans == plan \in Seq(SinkCall) /\ todo \in Seq(SinkCall)

LEMMA StepOfSink ==
  ASSUME IInv, Plans, [JobNext]_jobVars
  PROVE  [Next]_vars
  <1>1. CASE NextCall
    <2> DEFINE c == Head(todo)
    <2>1. /\ c \in SinkCall
          /\ \/ c.room <= chunk /\ Call(c.room, Len(c.cells))
             \/ SlabFails
             \/ UNCHANGED vars
      <3>1. chunk \in Nat /\ todo # <<>> /\ c \in SinkCall /\ c.room \in Nat
        BY <1>1 DEF IInv, TypeOK, Plans, NextCall, SinkCall
      <3> QED
        BY <1>1, <3>1 DEF NextCall, Refused
    <2>2. CASE c.room <= chunk /\ Call(c.room, Len(c.cells))
      <3> DEFINE n == c.room
                 m == Len(c.cells)
      <3>1. n \in Nat \ {0} /\ m \in Nat \ {0} /\ (n = 1 \/ m <= n) /\ chunk \in Nat
        BY <2>1 DEF SinkCall, IInv, TypeOK
      <3> HIDE DEF n, m
      <3>2. Call(n, m) /\ n <= chunk
        BY <2>2 DEF n, m
      <3>3. CASE n = 1
        BY <3>1, <3>2, <3>3 DEF Put, Next
      <3>4. CASE m <= n
        <4>1. n \in 1..chunk /\ m \in 1..chunk /\ Reserve(n, m)
          BY <3>1, <3>2, <3>4 DEF Reserve
        <4> QED
          BY <4>1 DEF Next
      <3> QED
        BY <3>1, <3>3, <3>4
    <2> QED
      BY <2>1, <2>2 DEF Next
  <1>2. CASE Written
    BY <1>2 DEF Written
  <1>3. CASE DrainOnce
    BY <1>3 DEF DrainOnce, Next
  <1>4. CASE Worker \/ Kernel
    BY <1>4 DEF Next
  <1>5. CASE UNCHANGED jobVars
    BY <1>5 DEF jobVars
  <1> QED
    BY <1>1, <1>2, <1>3, <1>4, <1>5 DEF JobNext, JobWorker, JobKernel

LEMMA PlansKept ==
  ASSUME Plans, [JobNext]_jobVars
  PROVE  Plans' /\ plan' = plan
  <1>1. plan' = plan /\ (todo' = todo \/ (todo # <<>> /\ todo' = Tail(todo)))
    BY DEF JobNext, JobWorker, JobKernel, NextCall, Written, DrainOnce, jobVars
  <1>2. todo # <<>> => Tail(todo) \in Seq(SinkCall)
    BY DEF Plans
  <1> QED
    BY <1>1, <1>2 DEF Plans

(* What is proved of the sink holds of one that documents are streamed     *)
(* through.                                                                *)
THEOREM JobsUseTheSink == JobSpec => Spec
  <1>1. JobInit => Init /\ IInv /\ Plans
    BY InitIInv DEF JobInit, Plans
  <1>2. IInv /\ Plans /\ [JobNext]_jobVars => [Next]_vars /\ IInv' /\ Plans'
    BY StepOfSink, NextKeepsIInv, PlansKept
  <1> QED
    BY <1>1, <1>2, PTL DEF JobSpec, Spec

-----------------------------------------------------------------------------
(* The bytes of the first k calls.                                         *)
LEMMA BytesAre ==
  ASSUME plan \in Seq(SinkCall)
  PROVE  /\ BytesUpTo \in [0..Len(plan) -> Nat] /\ BytesUpTo[0] = 0
         /\ \A k \in 1..Len(plan) : BytesUpTo[k] = BytesUpTo[k - 1] + Len(plan[k].cells)
  <1> DEFINE N    == Len(plan)
             step == [k \in 0..N |-> [x \in Nat |->
                        IF k < N THEN x + Len(plan[k + 1].cells) ELSE x]]
             at   == BytesUpTo
  <1>1. N \in Nat /\ \A k \in 1..N : Len(plan[k].cells) \in Nat
    <2>1. \A k \in 1..N : plan[k] \in SinkCall
      OBVIOUS
    <2> QED
      BY <2>1 DEF SinkCall
  <1>2. step \in [0..N -> [Nat -> Nat]]
    <2> HIDE DEF N
    <2>1. \A k \in 0..N : k < N => k + 1 \in 1..N
      BY <1>1
    <2> QED
      BY <1>1, <2>1
  <1> HIDE DEF N
  <1>3. PICK f : Stepwise(f, N, Nat, 0, step)
    <2> HIDE DEF step
    <2> QED
      BY <1>1, <1>2, StepwiseFcn
  <1>4. /\ f \in [0..N -> Nat] /\ f[0] = 0
        /\ \A k \in 1..N : f[k] = f[k - 1] + Len(plan[k].cells)
    <2>1. /\ f \in [0..N -> Nat] /\ f[0] = 0
          /\ \A k \in 1..N : f[k] = step[k - 1][f[k - 1]]
      BY <1>3 DEF Stepwise
    <2>2. \A k \in 1..N : /\ k - 1 \in 0..N /\ k - 1 < N /\ (k - 1) + 1 = k
                          /\ f[k - 1] \in Nat
      BY <1>1, <2>1
    <2> QED
      BY <2>1, <2>2
  <1>5. f = [k \in 0..N |-> IF k = 0 THEN 0 ELSE f[k - 1] + Len(plan[k].cells)]
    BY <1>1, <1>4
  <1>6. at = [k \in 0..N |-> IF k = 0 THEN 0 ELSE at[k - 1] + Len(plan[k].cells)]
    BY <1>5 DEF BytesUpTo, N
  <1> HIDE DEF at
  <1>7. at[0] = 0 /\ \A k \in 1..N : at[k] = at[k - 1] + Len(plan[k].cells)
    BY <1>1, <1>6
  <1> DEFINE S == {k \in 0..N : at[k] \in Nat}
  <1>8. \A k \in 0..N : k \in S
    <2>1. 0 \in S
      BY <1>1, <1>7
    <2>2. ASSUME NEW k \in 0..(N - 1), k \in S PROVE k + 1 \in S
      <3>1. k + 1 \in 1..N /\ (k + 1) - 1 = k
        BY <1>1
      <3>2. at[k + 1] = at[k] + Len(plan[k + 1].cells)
        BY <1>7, <3>1
      <3>3. k + 1 \in 0..N
        BY <3>1
      <3> QED
        BY <1>1, <2>2, <3>1, <3>2, <3>3
    <2> HIDE DEF S
    <2> QED
      BY <1>1, <2>1, <2>2, UpTo
  <1>9. at \in [0..N -> Nat]
    <2>1. \A k \in 0..N : at[k] \in Nat
      BY <1>8
    <2> QED
      BY <1>6, <2>1
  <1> QED
    BY <1>7, <1>9 DEF at, N

(* While write_to runs and nothing has failed, the bytes accepted and      *)
(* those of the call in progress are the bytes of the calls made; once it  *)
(* has answered that all is well, no byte is accepted any more.            *)
Given == Len(plan) - Len(todo)

Progress ==
  /\ Plans /\ Len(todo) <= Len(plan)
  /\ \A i \in 1..Len(todo) : todo[i] = plan[Given + i]
  /\ wres = "run" => ret.res = "none" /\ pc \in {"idle", "put"}
  /\ wres # "run" => pc # "put"
  /\ wres = "run" /\ err = "ok" =>
       len + (IF pc = "put" THEN left ELSE 0) = BytesUpTo[Given]
  /\ wres = "ok" => len = BytesUpTo[Len(plan)]
  /\ wres = "ok" /\ ret.res = "ok" => ret.n = len /\ DOMAIN file = 0..(len - 1)

(* What a step of the thread does for the call in progress, and what it    *)
(* leaves alone between calls.                                             *)
LEMMA WorkerMoves ==
  ASSUME IInv, Worker
  PROVE  /\ pc # "idle"
         /\ pc = "put" => /\ pc' \in {"put", "idle"} /\ ret' = ret
                          /\ err' = "ok" =>
                               len' + (IF pc' = "put" THEN left' ELSE 0) = len + left
         /\ pc # "put" => pc' # "put" /\ len' = len
         /\ err' = "ok" => err = "ok"
  <1>1. CASE Stage
    <2>1. Taken \in Nat /\ len \in Nat /\ left \in Nat /\ Taken <= left
      BY TakenFits DEF IInv, TypeOK
    <2>2. /\ pc = "put" /\ len' = len + Taken /\ left' = left - Taken
          /\ pc' = IF left' = 0 THEN "idle" ELSE "put"
          /\ UNCHANGED <<err, ret>>
      BY <1>1 DEF Stage
    <2> QED
      BY <2>1, <2>2
  <1>2. CASE FlushFails
    <2>1. err' # "ok" /\ pc \in {"flush", "put"} /\ pc' = After(FALSE) /\ UNCHANGED <<len, ret>>
      BY <1>2 DEF FlushFails, Flushing, Sticky, callVars
    <2> QED
      BY <2>1 DEF After
  <1>3. CASE Submit
    <2>1. /\ pc \in {"flush", "put"} /\ (pc' = pc \/ pc' = After(TRUE))
          /\ UNCHANGED <<len, ret, left, err>>
      BY <1>3 DEF Submit, Flushing, callVars
    <2> QED
      BY <2>1 DEF After
  <1>4. CASE ReapInFlush
    <2>1. pc \in {"flush", "put"} /\ UNCHANGED <<len, ret, left>>
      BY <1>4 DEF ReapInFlush, IInv, Control, callVars
    <2>2. (pc' = After(TRUE) /\ err' = err) \/ (pc' = After(FALSE) /\ err' # "ok")
      BY <1>4 DEF ReapInFlush, Sticky
    <2> QED
      BY <2>1, <2>2 DEF After
  <1>5. CASE ReapInDrain
    BY <1>5 DEF ReapInDrain, Sticky
  <1>6. CASE Reaped
    BY <1>6 DEF Reaped
  <1>7. CASE Drained
    BY <1>7 DEF Drained
  <1> QED
    BY <1>1, <1>2, <1>3, <1>4, <1>5, <1>6, <1>7 DEF Worker

(* Nothing is answered again, or only what the log then holds.             *)
LEMMA AnswersAre ==
  ASSUME IInv, [Next]_vars, len' = len
  PROVE  /\ ret' = ret \/ ret' = Log!Refused
                       \/ (ret' = Log!Count(len) /\ DOMAIN file' = 0..(len - 1))
         /\ DOMAIN file = 0..(len - 1) => DOMAIN file' = 0..(len - 1)
  <1>1. Log!Next \/ UNCHANGED <<len, file, ret>>
    BY StepOfLog
  <1>2. CASE Log!Settle
    BY <1>2 DEF Log!Settle, Log!InPlace
  <1> QED
    BY <1>1, <1>2 DEF Log!Next, Log!Accept, Log!Fail, Log!Answer

LEMMA StepProgresses ==
  ASSUME IInv, Progress, [JobNext]_jobVars
  PROVE  Progress'
  <1> DEFINE N == Len(plan)
  <1>1. /\ Plans /\ Plans' /\ plan' = plan /\ N \in Nat /\ Len(todo) \in Nat
        /\ BytesUpTo' = BytesUpTo
        /\ \A k \in 1..N : BytesUpTo[k] = BytesUpTo[k - 1] + Len(plan[k].cells)
    BY PlansKept, BytesAre DEF Progress, Plans, BytesUpTo
  <1>2. [Next]_vars
    BY <1>1, StepOfSink
  <1>4. CASE NextCall
    <2> DEFINE c == Head(todo)
    <2>1. /\ wres = "run" /\ pc = "idle" /\ err = "ok" /\ todo # <<>> /\ ret.res = "none"
      BY <1>4 DEF NextCall, Writing, Progress
    <2>2. CASE UNCHANGED <<vars, todo>> /\ wres' = "short_output"
      BY <1>1, <2>1, <2>2 DEF Progress, Given, vars, callVars, kernelVars
    <2>3. CASE todo' = Tail(todo) /\ wres' = wres /\ (Call(c.room, Len(c.cells)) \/ SlabFails)
      <3>1. /\ Len(todo') = Len(todo) - 1
            /\ \A i \in 1..Len(todo') : todo'[i] = todo[i + 1]
        BY <1>1, <2>1, <2>3 DEF Plans
      <3>2. Given \in Nat /\ Given' = Given + 1 /\ Given' <= N /\ Len(todo') <= Len(plan')
        BY <1>1, <2>1, <3>1 DEF Given, Progress, Plans
      <3>3. \A i \in 1..Len(todo') : todo'[i] = plan'[Given' + i]
        <4> TAKE i \in 1..Len(todo')
        <4>1. i + 1 \in 1..Len(todo) /\ Given' + i = Given + (i + 1)
          BY <1>1, <3>1, <3>2
        <4>2. todo[i + 1] = plan[Given + (i + 1)]
          BY <4>1 DEF Progress
        <4> QED
          BY <1>1, <3>1, <4>1, <4>2
      <3>4. CASE Call(c.room, Len(c.cells))
        <4>1. /\ pc' = "put" /\ left' = Len(c.cells) /\ len' = len /\ ret' = ret /\ err' = err
          BY <3>4 DEF Call
        <4>2. c = plan[Given + 1]
          <5>1. 1 \in 1..Len(todo) /\ c = todo[1]
            BY <1>1, <2>1 DEF Plans
          <5> QED
            BY <5>1 DEF Progress
        <4>3. BytesUpTo[Given + 1] = BytesUpTo[Given] + Len(c.cells)
          <5>1. Given + 1 \in 1..N /\ (Given + 1) - 1 = Given
            BY <1>1, <3>2
          <5> QED
            BY <1>1, <4>2, <5>1
        <4>4. len = BytesUpTo[Given] /\ len \in Nat
          BY <2>1 DEF Progress, IInv, TypeOK
        <4> QED
          BY <1>1, <2>1, <2>3, <3>2, <3>3, <4>1, <4>3, <4>4 DEF Progress
      <3>5. CASE SlabFails
        <4>1. err' = "oom" /\ pc' = pc /\ ret' = ret
          BY <3>5 DEF SlabFails, callVars
        <4> QED
          BY <1>1, <2>1, <2>3, <3>2, <3>3, <4>1 DEF Progress
      <3> QED
        BY <2>3, <3>4, <3>5
    <2> QED
      BY <1>4, <2>2, <2>3 DEF NextCall
  <1>5. CASE Written
    <2>1. /\ wres = "run" /\ pc = "idle" /\ ret.res = "none" /\ wres' = err
          /\ UNCHANGED <<pc, ret, len, todo, file>>
          /\ err # "ok" \/ todo = <<>>
          /\ err \in SinkErr
      BY <1>5 DEF Written, Writing, Progress, vars, callVars, kernelVars, IInv, TypeOK
    <2>2. wres' # "run"
      BY <2>1 DEF SinkErr
    <2>3. wres' = "ok" => len = BytesUpTo[N]
      <3> SUFFICES ASSUME wres' = "ok" PROVE len = BytesUpTo[N]
        OBVIOUS
      <3>1. err = "ok" /\ todo = <<>> /\ Given = N
        BY <1>1, <2>1 DEF Given
      <3> QED
        BY <2>1, <3>1 DEF Progress, IInv, TypeOK
    <2> QED
      BY <1>1, <2>1, <2>2, <2>3 DEF Progress, Given
  <1>6. ASSUME wres' = wres, wres # "run", todo' = todo, len' = len, pc' # "put"
        PROVE  Progress'
    <2>1. wres = "ok" /\ ret'.res = "ok" => ret'.n = len /\ DOMAIN file' = 0..(len - 1)
      BY <1>2, <1>6, AnswersAre DEF Progress, Log!Refused, Log!Count
    <2> QED
      BY <1>1, <1>6, <2>1 DEF Progress, Given
  <1>7. CASE DrainOnce
    BY <1>6, <1>7 DEF DrainOnce, Drain
  <1>8. CASE Worker /\ UNCHANGED <<plan, todo, wres, drains>>
    <2>1. CASE wres # "run"
      BY <1>6, <1>8, <2>1, WorkerMoves DEF Progress
    <2>2. CASE wres = "run"
      <3>1. pc = "put" /\ pc' \in {"put", "idle"} /\ ret' = ret /\ ret.res = "none"
        BY <1>8, <2>2, WorkerMoves DEF Progress
      <3>2. err' = "ok" =>
              len' + (IF pc' = "put" THEN left' ELSE 0) = BytesUpTo[Given]
        BY <1>8, <2>2, <3>1, WorkerMoves DEF Progress
      <3> QED
        BY <1>1, <1>8, <2>2, <3>1, <3>2 DEF Progress, Given
    <2> QED
      BY <2>1, <2>2
  <1>9. CASE Kernel /\ UNCHANGED <<plan, todo, wres, drains>>
    <2>1. UNCHANGED <<len, pc, err, left, ret>>
      BY <1>9 DEF Kernel, Complete, callVars
    <2>2. CASE wres # "run"
      BY <1>6, <1>9, <2>1, <2>2 DEF Progress
    <2>3. CASE wres = "run"
      BY <1>1, <1>9, <2>1, <2>3 DEF Progress, Given
    <2> QED
      BY <2>2, <2>3
  <1>10. CASE UNCHANGED jobVars
    BY <1>1, <1>10 DEF Progress, Given, jobVars, vars, callVars, kernelVars
  <1> QED
    BY <1>4, <1>5, <1>7, <1>8, <1>9, <1>10 DEF JobNext, JobWorker, JobKernel

(* When write_to and the drain after it answer that all is well, every     *)
(* byte of every call is in the file, in its place, and nothing else is,   *)
(* whatever the calls, the buffers and the order of completions.           *)
THEOREM JobsArriveWhole == JobSpec => []AllInFile
  <1>1. JobInit => Progress
    <2> SUFFICES ASSUME JobInit PROVE Progress
      OBVIOUS
    <2>1. /\ plan \in Seq(SinkCall) /\ todo = plan /\ wres = "run"
          /\ ret.res = "none" /\ pc = "idle" /\ len = 0
      BY DEF JobInit, Init
    <2>2. Given = 0 /\ Len(plan) \in Nat /\ \A i \in 1..Len(todo) : 0 + i = i
      BY <2>1 DEF Given
    <2>3. BytesUpTo[0] = 0
      BY <2>1, BytesAre
    <2> QED
      BY <2>1, <2>2, <2>3 DEF Progress, Plans
  <1>2. JobInit => IInv
    BY InitIInv DEF JobInit
  <1>3. IInv /\ Progress /\ [JobNext]_jobVars => IInv' /\ Progress'
    BY StepOfSink, NextKeepsIInv, StepProgresses DEF Progress
  <1>4. IInv /\ Progress => AllInFile
    BY DEF IInv, InFile, Progress, AllInFile
  <1> QED
    BY <1>1, <1>2, <1>3, <1>4, PTL DEF JobSpec
=============================================================================
