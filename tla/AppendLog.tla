------------------------------ MODULE AppendLog -----------------------------
(***************************************************************************)
(* What the streaming sink promises its caller, without buffers, requests  *)
(* or a kernel: a log of len bytes that reaches the file bit by bit, in    *)
(* any order, each byte in its place; an error that, once there, stays;    *)
(* and a drain that is answered "ok" only when the whole log is in the     *)
(* file.  Byte p of the log is the number p.                               *)
(***************************************************************************)
EXTENDS Integers

VARIABLES
  len,      \* bytes accepted so far
  file,     \* what the file holds, by position
  failed,   \* the sticky error
  ret       \* the last answer of drain

vars == <<len, file, failed, ret>>

NoAnswer == [res |-> "none", n |-> 0]
Refused  == [res |-> "error", n |-> 0]
Count(n) == [res |-> "ok", n |-> n]

Init ==
  /\ len = 0
  /\ file = [p \in {} |-> 0]
  /\ failed \in BOOLEAN
  /\ ret = NoAnswer

(* The file grows by bytes of the log only, each where it belongs.         *)
InPlace(f) ==
  /\ DOMAIN file \subseteq DOMAIN f
  /\ \A p \in DOMAIN f : p \in 0..(len - 1) /\ f[p] = p

Accept == ~failed /\ len' >= len /\ UNCHANGED <<file, failed, ret>>

Settle == InPlace(file') /\ UNCHANGED <<len, failed, ret>>

Fail == failed' /\ UNCHANGED <<len, file, ret>>

Answer ==
  /\ failed => failed'
  /\ IF failed'
       THEN ret' = Refused
       ELSE ret' = Count(len) /\ DOMAIN file = 0..(len - 1)
  /\ UNCHANGED <<len, file>>

Next == Accept \/ Settle \/ Fail \/ Answer
Spec == Init /\ [][Next]_vars
=============================================================================
