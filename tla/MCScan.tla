------------------------------- MODULE MCScan -------------------------------
(***************************************************************************)
(* A small instance of Scan and Readers.  For the sweeps: short texts over *)
(* every class, longer ones over the classes strings are made of, in       *)
(* blocks of two and of four bytes.  For the readers: strings of a few     *)
(* pieces, the shorter ones also before another string, and short numerals *)
(* with and without another behind.  Doubles have three significant bits,  *)
(* the least is 2^-6 and the largest 7 * 2^10; numbers from 7680 on round  *)
(* to infinity, those up to 2^-7 to 0, and 144 lies half way between two.  *)
(***************************************************************************)
EXTENDS Readers

CONSTANTS MaxAny, MaxMixed, MaxString, MaxPieces, MaxNumeral

MCMinExp10 == -4

UpTo(n, classes) == UNION {[1..m -> classes] : m \in 1..n}

MCTexts == UNION {UpTo(MaxAny, Class), UpTo(MaxMixed, {"quote", "bs", "x", "sp"}),
                  UpTo(MaxString, {"quote", "bs"})}

Esc(s)  == <<"bs">> \o s
Hex(s)  == Esc(<<"u">> \o s)
Pieces  == {<<"x">>, Esc(<<"b">>), Esc(<<"quote">>), Esc(<<"bs">>), Esc(<<"x">>), Esc(<<"u">>),
            Hex(<<"0", "0", "2", "2">>), Hex(<<"0", "0", "c", "0">>), Hex(<<"2", "0", "d", "c">>),
            Hex(<<"d", "b", "0", "0">>), Hex(<<"d", "c", "0", "0">>), Hex(<<"0", "x", "0", "0">>)}
Quoted(n) == {<<"quote">> \o FlattenSeq(ps) \o <<"quote">> : ps \in {<<>>} \cup UpTo(n, Pieces)}
Another == <<"op", "quote", "bs", "b", "x", "quote">>

Short    == UpTo(MaxNumeral, {"-", "0", "1", "9", ".", "e"})
Near64   == {<<"6">> \o s : s \in UpTo(2, {"3", "4", "5"})}
Near128  == {<<"1", "2">> \o s : s \in UpTo(2, {"7", "8", "0"})}
Signed   == Near64 \cup Near128 \cup {<<"-">> \o s : s \in Near64 \cup Near128}
Exponents == {<<"1", "e">> \o s : s \in UpTo(4, {"+", "-", "1", "9"})}
Decimals == {s \o t : s \in {<<"0", ".">>, <<"0", ".", "0">>, <<"1", "9", ".">>, <<"1", "9", "1", ".">>},
                       t \in UpTo(3, {"0", "1"})}
NearInf  == UNION {{<<"7", "6">> \o s \o t, <<"7", "6", ".">> \o s \o t} :
                     s \in UpTo(2, {"7", "8", "9", "0"}),
                     t \in {<<>>, <<"e", "1">>, <<"e", "2">>, <<"e", "4">>}}
NearZero == {<<"0", ".", "0", "0", "7", "8">> \o s : s \in UpTo(3, {"1", "2", "5"})}
NearTie  == UNION {{<<"1", "4">> \o s, <<"1", ".", "4">> \o s \o <<"e", "2">>} :
                     s \in UpTo(3, {"3", "4", "5", "0"})}
Cuts     == {s \o <<"e">> \o t \o <<n>> : s \in {<<"1">>, <<"9", "9">>, <<"0", ".", "0">>, <<"9", ".", "9", "9">>},
               t \in {<<>>, <<"-">>}, n \in {"2", "3", "4", "5", "6", "7", "9"}}
Numerals == UNION {Short, Signed, Exponents, Decimals, NearInf, NearZero, NearTie, Cuts}

MCLexemes == UNION {Quoted(MaxPieces), {s \o Another : s \in Quoted(MaxPieces - 1)},
                    Numerals, {s \o <<"op", "1">> : s \in Numerals}}
=============================================================================
