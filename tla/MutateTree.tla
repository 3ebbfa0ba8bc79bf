----------------------------- MODULE MutateTree ------------------------------
(***************************************************************************)
(* The arena of Mutate read as a tree: the document a user sees.  Every    *)
(* edit of the arena is the edit of the tree that the call stands for.     *)
(***************************************************************************)
EXTENDS Mutate, JsonGrammar

CONSTANT DepthLimit     \* CJSON_DEPTH_LIMIT

VARIABLE doc    \* auxiliary: the tree that the arena stands for

(* The tree of an arena v over a pool p.                                   *)
TextAt(p, s) ==
  IF s.kind \in {"string", "raw"} THEN SubSeq(p, s.ofs, s.ofs + s.len - 1) ELSE <<>>
TreeOf(v, p) ==
  LET t[i \in DOMAIN v] ==
        LET s == v[i]
            k == Children(v, i + 1, GetNext(v, i))
        IN [kind |-> s.kind,
            text |-> TextAt(p, s),
            num  |-> IF s.kind \in {"number", "literal"} THEN s.ofs ELSE 0,
            keys |-> IF s.kind = "object"
                       THEN [m \in 1..(Len(k) \div 2) |-> TextAt(p, v[k[2 * m - 1]])]
                       ELSE <<>>,
            kids |-> CASE s.kind = "object" -> [m \in 1..(Len(k) \div 2) |-> t[k[2 * m]]]
                       [] s.kind = "array"  -> [m \in DOMAIN k |-> t[k[m]]]
                       [] OTHER             -> <<>>]
  IN t[1]

TreeInit == Init /\ doc = TreeOf(vs, pool)
TreeNext == Next /\ \E v \in {vs'}, p \in {pool'} : doc' = TreeOf(v, p)
TreeSpec == TreeInit /\ [][TreeNext]_<<vars, doc>>

T == INSTANCE JsonTree WITH tree <- doc, err <- merr

(* Each call does to the document what it promises, at the value it was    *)
(* called on and nowhere else, finds the member it names, and changes      *)
(* nothing when it fails, however far it had come.                         *)
ImplementsTree == T!Spec

(* What the library emits re-parses (COMPLIANCE.md, section 10): in        *)
(* particular no document nests deeper than the parser accepts.            *)
EmittedReparses ==
  \A i \in DOMAIN vs : Cardinality(Above(i)) <= DepthLimit
=============================================================================
