------------------------------ MODULE TextGen -------------------------------
(***************************************************************************)
(* Texts for the small instances: every document of a few units, and its   *)
(* near misses, with one unit dropped, doubled, replaced or appended.      *)
(***************************************************************************)
EXTENDS JsonTokens

(* Docs(n): the values of n units over a few leaves; Lists(opener, n), what *)
(* stands between an opener and its closer.                                *)
Concat(front, sep, rest) == {a \o sep \o b : a \in front, b \in rest}

RECURSIVE Docs(_), Lists(_, _)
Docs(n) ==
  CASE n <= 0 -> {}
    [] n = 1  -> {<<"esc">>, <<"huge">>, <<"lit">>}
    [] n = 2  -> {<<"{", "}">>, <<"[", "]">>}
    [] OTHER  -> {<<"[">> \o d \o <<"]">> : d \in Lists("[", n - 2)}
                   \cup {<<"{">> \o d \o <<"}">> : d \in Lists("{", n - 2)}

Items(opener, n) ==
  IF opener = "[" THEN Docs(n) ELSE {<<"str", ":">> \o d : d \in Docs(n - 2)}

Lists(opener, n) ==
  Items(opener, n)
    \cup UNION {Concat(Items(opener, m), <<",">>, Lists(opener, n - m - 1)) : m \in 1..(n - 2)}

DocsUpTo(n) == UNION {Docs(m) : m \in 1..n}

Cut(u, i)        == SubSeq(u, 1, i - 1) \o SubSeq(u, i + 1, Len(u))
Twice(u, i)      == SubSeq(u, 1, i) \o SubSeq(u, i, Len(u))
Replaced(u, i, t) == [u EXCEPT ![i] = t]

Edits(u) ==
  {Cut(u, i) : i \in DOMAIN u} \cup {Twice(u, i) : i \in DOMAIN u}
    \cup {Replaced(u, i, t) : i \in DOMAIN u, t \in Token}
    \cup {Append(u, t) : t \in {"lit", ",", "]", "}"}}

Texts(maxAny, maxDoc, maxEdit) ==
  UNION {[1..n -> Token] : n \in 0..maxAny}
    \cup DocsUpTo(maxDoc)
    \cup UNION {Edits(u) : u \in DocsUpTo(maxEdit)}
=============================================================================
