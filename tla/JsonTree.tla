------------------------------ MODULE JsonTree -------------------------------
(***************************************************************************)
(* What a mutable document promises its user, without arena, pool or       *)
(* storage: a tree of nodes, edited at a path by one call at a time.  A    *)
(* call that is refused changes nothing but the sticky error.              *)
(***************************************************************************)
EXTENDS Integers, Sequences, FiniteSetsExt, SequencesExt

VARIABLES
  tree,
  err,      \* the last error since it was cleared
  call      \* the last call: operation, path, arguments and result

vars == <<tree, err, call>>

(* A node.  Members of an object are its kids under the names in keys.     *)
Node(kind, text, num, keys, kids) ==
  [kind |-> kind, text |-> text, num |-> num, keys |-> keys, kids |-> kids]

ScalarNode(kind, num) == Node(kind, <<>>, num, <<>>, <<>>)
StringNode(text)      == Node("string", text, 0, <<>>, <<>>)
FreshNode(kind)       == Node(kind, <<>>, 0, <<>>, <<>>)

IsBranch(n) == n.kind \in {"array", "object"}

RECURSIVE At(_, _), Put(_, _, _)
At(t, p)     == IF p = <<>> THEN t ELSE At(t.kids[Head(p)], Tail(p))
Put(t, p, n) == IF p = <<>> THEN n
                ELSE [t EXCEPT !.kids[Head(p)] = Put(@, Tail(p), n)]

(* The first member called key, 0 for none.                                *)
Member(n, key) ==
  LET hits == {m \in DOMAIN n.keys : n.keys[m] = key}
  IN IF hits = {} THEN 0 ELSE Min(hits)

WithKid(n, kid)      == [n EXCEPT !.kids = Append(@, kid)]
WithMember(n, key, kid) == [WithKid(n, kid) EXCEPT !.keys = Append(@, key)]
WithoutKid(n, m)     == [n EXCEPT !.kids = RemoveAt(@, m)]
WithoutMember(n, m)  == [WithoutKid(n, m) EXCEPT !.keys = RemoveAt(@, m)]

-----------------------------------------------------------------------------
(* A call has a verdict that follows from the document alone; where memory *)
(* may be needed, "oom" may take the place of "ok".                        *)
Target(c) == At(tree, c.path)

Answered(c, verdict, new) ==
  /\ c.res \in IF verdict = "ok" THEN {"ok", "oom"} ELSE {verdict}
  /\ tree' = IF c.res = "ok" THEN Put(tree, c.path, new) ELSE tree
  /\ err' = IF c.res = "ok" THEN err ELSE c.res

SetScalar(c) ==
  /\ c.op = "set"
  /\ c.res # "oom"
  /\ Answered(c, IF IsBranch(Target(c)) THEN "wrong_type" ELSE "ok",
              ScalarNode(c.kind, c.num))

SetBadNumber(c) ==
  /\ c.op = "set_number"
  /\ Answered(c, IF IsBranch(Target(c)) THEN "wrong_type" ELSE "bad_number", tree)

SetText(c) ==
  /\ c.op \in {"set_text", "set_key"}
  /\ Answered(c, IF IF c.op = "set_text" THEN IsBranch(Target(c))
                                         ELSE Target(c).kind # "string"
                   THEN "wrong_type" ELSE "ok",
              StringNode(c.text))

(* The verdict on a call that names a member.                              *)
Named(n, key) ==
  CASE n.kind # "object"   -> "wrong_type"
    [] Member(n, key) = 0  -> "no_such_field"
    [] OTHER               -> "ok"

Rename(c) ==
  /\ c.op = "rename"
  /\ LET n == Target(c)
     IN Answered(c, Named(n, c.key),
                 IF Named(n, c.key) = "ok" THEN [n EXCEPT !.keys[Member(n, c.key)] = c.text]
                                           ELSE n)

Insert(c) ==
  /\ c.op = "insert"
  /\ LET n == Target(c)
     IN Answered(c, IF n.kind # "object" THEN "wrong_type" ELSE "ok",
                 IF Named(n, c.key) = "no_such_field"
                   THEN WithMember(n, c.key, FreshNode(c.kind)) ELSE n)

Push(c) ==
  /\ c.op = "push"
  /\ Answered(c, IF Target(c).kind # "array" THEN "wrong_type" ELSE "ok",
              WithKid(Target(c), FreshNode(c.kind)))

EraseKey(c) ==
  /\ c.op = "erase_key"
  /\ LET n == Target(c)
     IN Answered(c, Named(n, c.key),
                 IF Named(n, c.key) = "ok" THEN WithoutMember(n, Member(n, c.key)) ELSE n)

EraseAt(c) ==
  /\ c.op = "erase_at"
  /\ LET n == Target(c)
         v == CASE n.kind # "array"        -> "wrong_type"
                [] c.num >= Len(n.kids)    -> "no_such_field"
                [] OTHER                   -> "ok"
     IN Answered(c, v, IF v = "ok" THEN WithoutKid(n, c.num + 1) ELSE n)

Clear(c) ==
  /\ c.op = "clear"
  /\ Answered(c, IF ~IsBranch(Target(c)) THEN "wrong_type" ELSE "ok",
              FreshNode(Target(c).kind))

ClearError(c) ==
  /\ c.op = "clear_error"
  /\ err' = "ok"
  /\ UNCHANGED tree

(* The user chooses the call.                                              *)
Next ==
  \/ SetScalar(call') \/ SetBadNumber(call') \/ SetText(call') \/ Rename(call')
  \/ Insert(call') \/ Push(call') \/ EraseKey(call') \/ EraseAt(call')
  \/ Clear(call') \/ ClearError(call')

Spec == err = "ok" /\ [][Next]_vars
=============================================================================
