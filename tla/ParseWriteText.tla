--------------------------- MODULE ParseWriteText ---------------------------
(***************************************************************************)
(* What a text parsed and written is, against the grammar: what is         *)
(* accepted, what every slot was read from, what the readers without an    *)
(* arena see, and what is written back.                                    *)
(***************************************************************************)
EXTENDS ParseWrite, JsonGrammar

O == INSTANCE OnDemand
A == INSTANCE Navigate

Built == res # "run"
NestingLimit == IF Counted THEN Limit ELSE Len(inp)
Ends  == ValueEnds(inp, 1, NestingLimit, opt.raw)
Fits(e) == SlotsOf(inp, 1, e) <= SlabCap

(* The parser accepts exactly the texts the grammar derives within the     *)
(* depth limit, as a whole or, under stop_when_done, up to where the root  *)
(* ends; a fixed arena must also be large enough.  It stops where the root *)
(* does, and reports trailing garbage exactly when a complete root is      *)
(* followed by more and the caller did not ask to stop there.  (build_t    *)
(* against RFC 8259.)                                                      *)
AcceptsGrammar ==
  Built =>
    /\ res = "ok" <=>
         \E e \in Ends : Fits(e) /\ (opt.stop \/ e = Len(inp) + 1)
    /\ res = "ok" => consumed \in Ends
    /\ res = "trailing_garbage" <=>
         \E e \in Ends : Fits(e) /\ ~opt.stop /\ e <= Len(inp)

(* The units slot r was read from: the slots are in the order of the units *)
(* that own one.                                                           *)
SourceOf(r) ==
  LET b == CHOOSE m \in SlotUnits(inp, 1, consumed) : SlotsOf(inp, 1, m) = r - 1
  IN [b |-> b, e |-> CHOOSE e \in ValueEnds(inp, b, Len(inp), opt.raw) : TRUE]

(* The source range kept for a slot is the text of its value; a key's is   *)
(* the key.                                                                *)
RangesAreSources ==
  (res = "ok" /\ opt.located) => \A r \in 1..vi : rng[r] = SourceOf(r)

(* Where slot r begins in the index x.                                     *)
Place(x, r) == IF r = 0 THEN 0 ELSE Min({p \in DOMAIN x : x[p].u = SourceOf(r).b})

(* On an accepted text the cursors of the on-demand reader, which walk the *)
(* index and know no grammar, see what the parser built: values that end   *)
(* where the parser's do, the same counts, and in a range loop the same    *)
(* elements and members.  (ondemand.hpp, cur: the answers of val, without  *)
(* an arena.)  Walked by recursion, the arena is the tree its slots say.   *)
LazyReadsTheSame ==
  (res = "ok" /\ pc = "idle") =>
    LET x == O!Index(inp)
    IN WellFormed(vs, 1) /\
       \A r \in {c \in 1..vi : ~IsKeySlot(c)} :
         LET here  == Place(x, r)
             src   == SourceOf(r)
             slots == Children(vs, r + 1, GetNext(vs, r))
             kids  == [n \in DOMAIN slots |-> Place(x, slots[n])]
             isArr == vs[r].kind = "array"
             after == O!Skip(x, here)
         IN /\ after # 0 /\ x[after - 1].u = src.e - 1
            /\ after \in DOMAIN x => x[after].u = src.e
            /\ O!Span(x, here) = IF IsCtn(vs[r]) THEN <<src.b, src.e - 1>> ELSE <<0, 0>>
            /\ O!Count(x, here) = IF IsCtn(vs[r]) THEN vs[r].len ELSE 0
            /\ O!Items(x, here) = IF isArr THEN kids ELSE <<>>
            /\ O!Members(x, here) =
                 IF isArr THEN <<>>
                 ELSE [n \in 1..(Len(kids) \div 2) |-> [key |-> kids[2 * n - 1], v |-> kids[2 * n]]]

(* JSON pointers mean the same to both readers: followed from the root,    *)
(* over any names (one key, several or none may bear a name, and a number  *)
(* can be a name too) they end at the same value, or nowhere for both.     *)
(* (val::at_pointer and cur::at_pointer, with the lookups they call.)      *)
(* A key with escapes is left out: a val goes by its text and a cursor by  *)
(* its raw bytes, so that no name means it to both.                        *)
PointersAgree ==
  (res = "ok" /\ pc = "idle") =>
    LET x     == O!Index(inp)
        keys  == {vs[i].ofs : i \in {c \in 1..vi : IsKeySlot(c) /\ vs[c].sub = "noesc"}}
        segs  == [keys : {{}, keys} \cup {{i} : i \in keys}, num : -1..2]
    IN \A n \in 0..2 : \A path \in [1..n -> segs] :
         O!AtPointer(x, 1, path) = Place(x, A!Pointed(vs, 1, path))

(* A unit of the text as the writer would show it.                         *)
Shown(i) ==
  IF inp[i] \in Op
    THEN W!Unit(inp[i])
    ELSE [tok |-> IF inp[i] \in String THEN "string"
                  ELSE IF inp[i] \notin Number THEN "literal"
                  ELSE IF opt.raw THEN "raw" ELSE "number",
          at |-> i]

(* Writing a value gives back the units it was parsed from, every scalar   *)
(* in its place and no separator too many or too few, minified or pretty.  *)
RoundTrip ==
  pc = "done" =>
    out = LET src == SourceOf(root)
          IN [i \in 1..(src.e - src.b) |-> Shown(src.b + i - 1)]
=============================================================================
