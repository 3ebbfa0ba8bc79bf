------------------------------ MODULE Readers -------------------------------
(***************************************************************************)
(* The lexical readers of stage 2 on the index that stage 1 leaves (module *)
(* Scan): read_string with __str::unescape, which decodes a string in its  *)
(* place in the pool while later entries of the index still point into it, *)
(* and read_number; and beside them validate_string and validate_number,   *)
(* which only look.  The walk takes one entry of the index after the       *)
(* other, as stage 2 does; what it does with operators and literals, and   *)
(* whether the grammar allows the next entry, is left out here.            *)
(*                                                                         *)
(* The code counts 19 digits, words of 64 bits and doubles of 64.          *)
(***************************************************************************)
EXTENDS Scan, SequencesExt, TLC

CONSTANTS
  Lexemes,       \* texts to read, besides Texts
  SigDigits,     \* digits that always fit a word
  WordBits,
  ExpCap,        \* where the reader stops accumulating an exponent
  FracBits,      \* of a double: bits of its fraction,
  Bias,          \* its exponent field less the power of two of its last bit,
  ExpMax,        \* the field of the infinite,
  MinExp10,      \* the least power of ten with a finite double that is not 0,
  MaxExp10       \* and the largest

ASSUME WordAssumption ==
  10^SigDigits <= 2^WordBits /\ 2^WordBits < 10^(SigDigits + 1) /\ ExpCap \in Nat

(* As for 19 digits, words of 64 bits and doubles of 52, 1075 and 2047,    *)
(* with the powers -342 and 308: a word at a lesser power rounds to 0, one *)
(* at a greater to infinity, and doubles lie further apart than            *)
(* significands of all SigDigits digits.                                   *)
ASSUME DoubleAssumption ==
  /\ 2^(WordBits + Bias) <= 10^(1 - MinExp10)
  /\ 2^Bias <= 10^(1 - MinExp10 - SigDigits)
  /\ LET limit == (2^(FracBits + 2) - 1) * 2^(ExpMax - Bias - 2)
     IN 10^MaxExp10 < limit /\ limit <= 10^(MaxExp10 + 1)
  /\ 2^(FracBits + 1) <= 10^(SigDigits - 1)

VARIABLES
  pool,          \* the text, decoded in place
  k,             \* entry of the index
  j, src, dst,   \* unescape: next entry (0: not at work), read and write positions
  slots,         \* what was read
  rres           \* "run", "ok" or an error

readVars == <<pool, k, j, src, dst, slots, rres>>
allVars  == <<vars, readVars>>

Digit == [d \in {"0", "1", "2", "3", "4", "5", "6", "7", "8", "9"} |->
            CHOOSE n \in 0..9 : ToString(n) = d]
IsDigit(p, q) == q < N /\ p[q] \in DOMAIN Digit
NumEnd == {"sp", "nl", "op"}
Raw    == [q \in 0..N |-> IF q < N THEN text[q + 1] ELSE "nul"]
Nidx   == Len(idx) - 2

ReadInit ==
  /\ Init \/ \E t \in Lexemes : Begin(t, Max(Widths), "index")
  /\ pool = Raw
  /\ k = 1 /\ j = 0 /\ src = 0 /\ dst = 0
  /\ slots = <<>> /\ rres = "run"

-----------------------------------------------------------------------------
(* Escapes.                                                                *)
Ascii == ("back" :> 8) @@ ("sp" :> 32) @@ ("quote" :> 34) @@ ("op" :> 44) @@ ("bs" :> 92)
         @@ ("b" :> 98) @@ ("c" :> 99) @@ ("d" :> 100) @@ ("u" :> 117) @@ ("x" :> 120)
         @@ [d \in DOMAIN Digit |-> 48 + Digit[d]]
Chr(n) == IF \E b \in DOMAIN Ascii : Ascii[b] = n THEN CHOOSE b \in DOMAIN Ascii : Ascii[b] = n
                                                  ELSE "#" \o ToString(n)

EscapeMap == ("quote" :> "quote") @@ ("bs" :> "bs") @@ ("b" :> "back")

HexVal == Digit @@ ("b" :> 11) @@ ("c" :> 12) @@ ("d" :> 13)
Poison == -1
Hex4(p, q) ==
  IF \E h \in 0..3 : p[q + h] \notin DOMAIN HexVal THEN Poison
  ELSE FoldLeft(LAMBDA n, h : 16 * n + HexVal[p[q + h]], 0, <<0, 1, 2, 3>>)

High == 55296..56319
Low  == 56320..57343
Pair(hi, lo) == (hi - 55296) * 1024 + (lo - 56320) + 65536

EncodeUtf8(cp) ==
  LET cont(d) == Chr(((cp \div d) % 64) + 128) IN
  CASE cp < 128   -> <<Chr(cp)>>
    [] cp < 2048  -> <<Chr(cp \div 64 + 192), cont(1)>>
    [] cp < 65536 -> <<Chr(cp \div 4096 + 224), cont(64), cont(1)>>
    [] OTHER      -> <<Chr(cp \div 262144 + 240), cont(4096), cont(64), cont(1)>>

(* The escape at s, found by entry e of the index: the bytes it stands     *)
(* for, its length and how many entries it takes.                          *)
Escape(bytes, len, entries) == [err |-> "ok", bytes |-> bytes, len |-> len, entries |-> entries]
BadEscape(err)              == [err |-> err, bytes |-> <<>>, len |-> 0, entries |-> 0]

ReadPair(p, s, e, hi) ==
  LET lo == Hex4(p, s + 8) IN
  CASE e + 1 > Nidx             -> BadEscape("bad_surrogate")
    [] idx[e + 1] # s + 6       -> BadEscape("bad_surrogate")
    [] s + 12 > N               -> BadEscape("bad_surrogate")
    [] p[s + 7] # "u"           -> BadEscape("bad_surrogate")
    [] lo = Poison              -> BadEscape("bad_escape")
    [] lo \notin Low            -> BadEscape("bad_surrogate")
    [] OTHER -> Escape(EncodeUtf8(Pair(hi, lo)), 12, 2)

ReadEscape(p, s, e) ==
  LET cp == Hex4(p, s + 2) IN
  CASE s + 1 >= N                   -> BadEscape("bad_string")
    [] p[s + 1] \in DOMAIN EscapeMap -> Escape(<<EscapeMap[p[s + 1]]>>, 2, 1)
    [] p[s + 1] # "u"               -> BadEscape("bad_escape")
    [] s + 6 > N                    -> BadEscape("bad_escape")
    [] cp = Poison                  -> BadEscape("bad_escape")
    [] cp \in High                  -> ReadPair(p, s, e, cp)
    [] cp \in Low                   -> BadEscape("bad_surrogate")
    [] OTHER                        -> Escape(EncodeUtf8(cp), 6, 1)

-----------------------------------------------------------------------------
(* Numbers.  Digits are read one by one here; that the code may take eight *)
(* of them in one step makes no difference.  What is read past the text is *)
(* no digit, as for the code's checks of the length.                       *)
DigitsEnd(p, q) == Min({r \in q..N : ~IsDigit(p, r)})
ValueOf(p, a, c) == FoldLeft(LAMBDA n, q : 10 * n + Digit[p[q]], 0, [n \in 1..(c - a) |-> a + n - 1])
NonZero(p, a, c) == \E q \in a..(c - 1) : p[q] # "0"

(* The first SigDigits significant digits of a numeral with its integer    *)
(* part in is..ie - 1 and its fraction in fs..fe - 1.                      *)
BugTaken(digits, room) == digits
TakenOf(digits, room)  == Min({digits, room})

Significand(p, is, ie, fs, fe) ==
  LET kept  == IF p[is] = "0" THEN 0 ELSE Min({ie - is, SigDigits})
      drop  == IF p[is] = "0" THEN 0 ELSE ie - is - kept
      int   == ValueOf(p, is, is + kept)
      first == IF int # 0 THEN fs ELSE Min({q \in fs..fe : q = fe \/ p[q] # "0"})
      taken == TakenOf(fe - first, SigDigits - kept)
  IN [sig |-> (int * 10^taken + ValueOf(p, first, first + taken)) % 2^WordBits,
      exp |-> drop - (first - fs) - taken,
      dropped |-> drop,
      truncated |-> (drop # 0 /\ NonZero(p, is + kept, ie)) \/ NonZero(p, first + taken, fe)]

ExpDigits(p, a, c) ==
  FoldLeft(LAMBDA n, q : IF n < ExpCap THEN 10 * n + Digit[p[q]] ELSE n, 0,
           [n \in 1..(c - a) |-> a + n - 1])

(* A double without its sign is its bits, as an integer: the next one up   *)
(* is one more, and the one after the largest is infinite.  It stands for  *)
(* Mant * 2^Ulp.                                                           *)
Infinity == ExpMax * 2^FracBits
Mant(r)  == (r % 2^FracBits) + (IF r < 2^FracBits THEN 0 ELSE 2^FracBits)
Ulp(r)   == Max({r \div 2^FracBits, 1}) - Bias

(* n * 10^x less m * 2^e, as big integers; only its sign is of use.        *)
Compare(n, x, m, e) ==
  n * 10^Max({x, 0}) * 2^Max({-e, 0}) - m * 10^Max({-x, 0}) * 2^Max({e, 0})

(* Whether n * 10^x rounds to more than r: it is beyond the middle between *)
(* r and the next double, or there and r is odd.                           *)
Beyond(n, x, r) ==
  LET c == Compare(n, x, 2 * Mant(r) + 1, Ulp(r) - 1)
  IN c > 0 \/ (c = 0 /\ r % 2 = 1)

(* The double nearest to sig * 10^x, from a table or in one operation.     *)
Nearest(sig, x) ==
  IF x < MinExp10 THEN 0 ELSE Cardinality({r \in 0..(Infinity - 1) : Beyond(sig, x, r)})

(* All the digits against the middle between a candidate and the next      *)
(* double (of those after the 768th it only matters if one is not 0).      *)
ExactBoundary(p, q, lit, cand) ==
  LET full == ValueOf(p, q.is, q.ie) * 10^(q.fe - q.fs) + ValueOf(p, q.fs, q.fe)
      cmp  == Compare(full, lit - (q.fe - q.fs), 2 * Mant(cand) + 1, Ulp(cand) - 1)
  IN cand + (CASE cmp > 0 -> 1 [] cmp = 0 -> cand % 2 [] cmp < 0 -> 0)

(* With digits cut, sig and sig + 1 agree, or all digits decide.           *)
Rounded(p, q, sg, lit) ==
  LET exp10 == sg.exp + lit
      d1    == Nearest(sg.sig, exp10)
  IN IF sg.sig = 0 \/ exp10 < MinExp10 - SigDigits THEN 0
     ELSE IF exp10 > MaxExp10 THEN Infinity
     ELSE IF ~sg.truncated \/ d1 = Infinity \/ d1 = Nearest(sg.sig + 1, exp10) THEN d1
     ELSE ExactBoundary(p, q, lit, d1)

(* What is handed on: a word, or a double, unless it is infinite.          *)
Word64(sub, word) == [kind |-> "number", sub |-> sub, word |-> word]
BadNumber         == [kind |-> "bad_number"]
Real(neg, r) ==
  IF r = Infinity THEN BadNumber ELSE [kind |-> "number", sub |-> "real", neg |-> neg, bits |-> r]

(* A word holds unsigned integers, and negative ones in two's complement;  *)
(* of one digit more than SigDigits, those below 2^WordBits.  Any other    *)
(* integer is a double.                                                    *)
MaxWord == 2^WordBits - 1
Integer(neg, sg, last, real) ==
  CASE sg.dropped = 0 /\ neg /\ sg.sig <= 2^(WordBits - 1) ->
         Word64("sint", (2^WordBits - sg.sig) % 2^WordBits)
    [] sg.dropped = 0 /\ ~neg -> Word64("uint", sg.sig)
    [] /\ sg.dropped = 1 /\ ~neg
       /\ \/ sg.sig < MaxWord \div 10
          \/ sg.sig = MaxWord \div 10 /\ last <= MaxWord % 10 ->
         Word64("uint", sg.sig * 10 + last)
    [] OTHER -> real

(* The parts of a numeral: where integer, fraction and exponent begin and  *)
(* end, as both readers find them.                                         *)
Parts(p, start) ==
  LET is == IF p[start] = "-" THEN start + 1 ELSE start
      ie == IF p[is] = "0" THEN is + 1 ELSE DigitsEnd(p, is)
      fs == IF p[ie] = "." THEN ie + 1 ELSE ie
      fe == IF p[ie] = "." THEN DigitsEnd(p, fs) ELSE ie
      es == IF p[fe] # "e" THEN fe ELSE IF p[fe + 1] \in {"+", "-"} THEN fe + 2 ELSE fe + 1
  IN [is |-> is, ie |-> ie, fs |-> fs, fe |-> fe, es |-> es,
      end |-> IF p[fe] = "e" THEN DigitsEnd(p, es) ELSE fe]

ReadNumber(p, start) ==
  LET q    == Parts(p, start)
      frac == q.fs # q.ie
      hasE == q.es # q.fe
      sg   == Significand(p, q.is, q.ie, q.fs, q.fe)
      abs  == ExpDigits(p, q.es, q.end)
      lit  == IF hasE /\ p[q.es - 1] = "-" THEN -abs ELSE abs
      neg  == p[start] = "-"
      real == Real(neg, Rounded(p, q, sg, lit))
  IN IF \/ ~IsDigit(p, q.is)
        \/ p[q.is] = "0" /\ IsDigit(p, q.ie)
        \/ frac /\ ~IsDigit(p, q.fs)
        \/ hasE /\ ~IsDigit(p, q.es)
        \/ q.end < N /\ p[q.end] \notin NumEnd
       THEN BadNumber
     ELSE IF frac \/ hasE THEN real
     ELSE Integer(neg, sg, Digit[p[q.end - 1]], real)

(* validate_number leaves a second digit after a 0 to the check of what    *)
(* follows the numeral.                                                    *)
ValidNumber(p, start) ==
  LET q == Parts(p, start)
  IN IF \/ q.ie = q.is
        \/ q.fs # q.ie /\ q.fe = q.fs
        \/ q.es # q.fe /\ q.end = q.es
        \/ q.end < N /\ p[q.end] \notin NumEnd
       THEN "bad_number" ELSE "ok"

-----------------------------------------------------------------------------
(* The walk, once stage 1 has accepted the text for a parser.              *)
Reading == pc = "done" /\ res = "ok" /\ job = "index" /\ rres = "run"
NextEntry == Reading /\ j = 0 /\ k <= Nidx

PlainString ==
  LET open  == idx[k]
      close == idx[k + 1]
  IN /\ NextEntry /\ pool[idx[k]] = "quote"
     /\ k + 1 <= Nidx /\ pool[close] = "quote"
     /\ pool' = [pool EXCEPT ![close] = "nul"]
     /\ slots' = Append(slots, [kind |-> "string", sub |-> "noesc",
                                ofs |-> open + 1, len |-> close - open - 1])
     /\ k' = k + 2
     /\ UNCHANGED <<j, src, dst, rres>>

EscapedString ==
  /\ NextEntry /\ pool[idx[k]] = "quote"
  /\ ~(k + 1 <= Nidx /\ pool[idx[k + 1]] = "quote")
  /\ j' = k + 1 /\ src' = idx[k] + 1 /\ dst' = idx[k] + 1
  /\ UNCHANGED <<pool, k, slots, rres>>

(* One round of unescape: close the gap up to the next entry, a quote or   *)
(* an escape, and handle that.                                             *)
BugResume(s, len) == s + 2         \* as after a simple escape
Resume(s, len)    == s + len

Put(p, q, bytes) == [r \in DOMAIN p |-> IF r \in q..(q + Len(bytes) - 1) THEN bytes[r - q + 1] ELSE p[r]]

Unescape ==
  LET stop  == idx[j]
      clean == [n \in 1..(stop - src) |-> pool[src + n - 1]]
      p     == Put(pool, dst, clean)
      to    == dst + Len(clean)
      esc   == ReadEscape(p, stop, j)
      ofs   == idx[k] + 1
  IN /\ Reading /\ j # 0 /\ j <= Nidx
     /\ \/ /\ p[stop] = "quote"
           /\ pool' = [p EXCEPT ![to] = "nul"]
           /\ slots' = Append(slots, [kind |-> "string", sub |-> "plain",
                                      ofs |-> ofs, len |-> to - ofs])
           /\ k' = j + 1 /\ j' = 0 /\ src' = 0 /\ dst' = 0
           /\ UNCHANGED rres
        \/ /\ p[stop] # "quote" /\ esc.err = "ok"
           /\ pool' = Put(p, to, esc.bytes)
           /\ dst' = to + Len(esc.bytes)
           /\ src' = Resume(stop, esc.len)
           /\ j' = j + esc.entries
           /\ UNCHANGED <<k, slots, rres>>
        \/ /\ p[stop] # "quote" /\ esc.err # "ok"
           /\ rres' = esc.err
           /\ pool' = p
           /\ UNCHANGED <<k, j, src, dst, slots>>

ScanNumber ==
  LET v == ReadNumber(pool, idx[k]) IN
  /\ NextEntry /\ (pool[idx[k]] = "-" \/ IsDigit(pool, idx[k]))
  /\ IF v = BadNumber
       THEN rres' = "bad_number" /\ UNCHANGED <<k, slots>>
       ELSE slots' = Append(slots, v) /\ k' = k + 1 /\ UNCHANGED rres
  /\ UNCHANGED <<pool, j, src, dst>>

PassOver ==
  /\ NextEntry
  /\ pool[idx[k]] \notin {"quote", "-"} \cup DOMAIN Digit
  /\ k' = k + 1
  /\ UNCHANGED <<pool, j, src, dst, slots, rres>>

EndOfIndex ==
  /\ Reading /\ (IF j = 0 THEN k > Nidx ELSE j > Nidx)
  /\ rres' = IF j = 0 THEN "ok" ELSE "bad_string"
  /\ UNCHANGED <<pool, k, j, src, dst, slots>>

Read == PlainString \/ EscapedString \/ Unescape \/ ScanNumber \/ PassOver \/ EndOfIndex

ReadNext == \/ Next /\ UNCHANGED readVars
            \/ Read /\ UNCHANGED vars
ReadSpec == ReadInit /\ [][ReadNext]_allVars

-----------------------------------------------------------------------------
(* validate_string: the same checks in the same order, on a text nobody    *)
(* writes to.                                                              *)
RECURSIVE ValidEscapes(_)
ValidEscapes(e) ==
  LET esc == ReadEscape(Raw, idx[e], e) IN
  CASE e > Nidx               -> "bad_string"
    [] Raw[idx[e]] = "quote"  -> "ok"
    [] esc.err # "ok"         -> esc.err
    [] OTHER                  -> ValidEscapes(e + esc.entries)

ValidString(e) == IF e + 1 <= Nidx /\ Raw[idx[e + 1]] = "quote" THEN "ok" ELSE ValidEscapes(e + 1)

-----------------------------------------------------------------------------
(* What a string means: its UTF-16 code units, the surrogates joined, each *)
(* code point in the bytes UTF-8 gives it.                                 *)
CloseOf(p) == Min({q \in (p + 1)..(N - 1) : Quote(q)})

RECURSIVE Units(_, _), Points(_)
Units(p, c) ==
  CASE p >= c                                   -> <<>>
    [] At(p) # "bs"                             -> <<Ascii[At(p)]>> \o Units(p + 1, c)
    [] At(p + 1) \in DOMAIN EscapeMap           -> <<Ascii[EscapeMap[At(p + 1)]]>> \o Units(p + 2, c)
    [] At(p + 1) = "u" /\ p + 6 <= c            -> <<Hex4(Raw, p + 2)>> \o Units(p + 6, c)
    [] OTHER                                    -> <<Poison>>

Points(us) ==
  CASE us = <<>> -> <<>>
    [] Len(us) > 1 /\ us[1] \in High /\ us[2] \in Low ->
         <<Pair(us[1], us[2])>> \o Points(SubSeq(us, 3, Len(us)))
    [] OTHER -> <<us[1]>> \o Points(Tail(us))

Meaning(p) == Points(Units(p + 1, CloseOf(p)))
HasMeaning(p) == \A n \in DOMAIN Meaning(p) : Meaning(p)[n] \notin {Poison} \cup High \cup Low

Utf8(cp) ==
  LET size == Cardinality({n \in {0, 7, 11, 16} : cp >= 2^n})
  IN IF cp < 128 THEN <<Chr(cp)>>
     ELSE [n \in 1..size |->
             IF n = 1 THEN Chr(256 - 2^(8 - size) + cp \div 64^(size - 1))
                      ELSE Chr(128 + ((cp \div 64^(size - n)) % 64))]

(* A string is refused exactly when it has no meaning, and validate_string *)
(* refuses it for the same reason; one that is read lies in its own place  *)
(* in the pool, decoded and ended by a NUL, and is called free of escapes  *)
(* exactly when it had none; decoding it disturbs nothing outside strings. *)
(* (parse.hpp, read_string and validate_string; string.hpp, unescape.)     *)
StringsDecoded ==
  rres # "run" =>
    LET found == SelectSeq(slots, LAMBDA s : s.kind = "string")
        opens == InOrder(LAMBDA p : Quote(p) /\ ~Open[p] /\ (rres = "ok" \/ p < idx[k]))
    IN /\ rres # "bad_string"
       /\ rres \in {"bad_escape", "bad_surrogate"} => ~HasMeaning(idx[k]) /\ ValidString(k) = rres
       /\ Len(found) = Len(opens)
       /\ \A n \in DOMAIN opens :
            LET p == opens[n]
                s == found[n]
            IN /\ HasMeaning(p) /\ ValidString(CHOOSE e \in 1..Nidx : idx[e] = p) = "ok"
               /\ s.ofs = p + 1
               /\ SubSeq([q \in 1..N |-> pool[q - 1]], s.ofs + 1, s.ofs + s.len)
                    = FlattenSeq([m \in DOMAIN Meaning(p) |-> Utf8(Meaning(p)[m])])
               /\ pool[s.ofs + s.len] = "nul"
               /\ (s.sub = "noesc") <=> \A q \in p..CloseOf(p) : At(q) # "bs"
       /\ \A p \in 0..N : ~Open[p] => pool[p] = Raw[p]

-----------------------------------------------------------------------------
(* What a number means.                                                    *)
Digits(a, c) == a < c /\ \A q \in a..(c - 1) : IsDigit(Raw, q)
NumeralEnd(p) == Min({q \in p..N : q = N \/ At(q) \in NumEnd})

IsNumeral(p, e) ==
  \E a \in {p, p + 1}, b, c \in p..e :
    /\ a = p + 1 <=> At(p) = "-"
    /\ Digits(a, b) /\ (b = a + 1 \/ At(a) # "0")
    /\ c = b \/ (At(b) = "." /\ Digits(b + 1, c))
    /\ c = e \/ (At(c) = "e" /\ (Digits(c + 1, e) \/ (At(c + 1) \in {"+", "-"} /\ Digits(c + 2, e))))

NatIn(a, c) == FoldLeft(LAMBDA n, b : IF b \in DOMAIN Digit THEN 10 * n + Digit[b] ELSE n, 0,
                        SubSeq(text, a + 1, c))

(* d * 10^y rounds to more than r, whatever d and y: between the powers of *)
(* ten that do for every r or for none, it is compared.                    *)
Exceeds(d, y, r) ==
  LET last == y + CHOOSE n \in 1..(N + 1) : 10^(n - 1) <= d /\ d < 10^n
  IN /\ d # 0 /\ last >= MinExp10 + SigDigits
     /\ last > MaxExp10 + 1 \/ Beyond(d, y, r)

RoundsTo(d, y, r) ==
  /\ r # 0 => Exceeds(d, y, r - 1)
  /\ r # Infinity => ~Exceeds(d, y, r)

(* What is read (or refused) is what the numeral from p to e says.         *)
Denotes(v, p, e) ==
  LET c    == Min({q \in p..e : q = e \/ At(q) = "e"})
      dot  == Min({q \in p..c : q = c \/ At(q) = "."})
      d    == NatIn(p, c)
      neg  == At(p) = "-"
      lit  == NatIn(c, e)
      y    == (IF At(c + 1) = "-" THEN -lit ELSE lit) - (IF dot = c THEN 0 ELSE c - dot - 1)
  IN CASE dot = e /\ neg /\ d <= 2^(WordBits - 1) -> v.sub = "sint" /\ (v.word + d) % 2^WordBits = 0
       [] dot = e /\ ~neg /\ d < 2^WordBits       -> v.sub = "uint" /\ v.word = d
       [] OTHER -> IF v = BadNumber THEN RoundsTo(d, y, Infinity)
                   ELSE /\ v.sub = "real" /\ v.neg = neg
                        /\ v.bits < Infinity /\ RoundsTo(d, y, v.bits)

(* A number is refused by both readers when JSON's grammar does; beyond    *)
(* that read_number alone refuses it, exactly when it rounds to infinity   *)
(* (COMPLIANCE.md, F3).  An integer a word can hold is read as that word,  *)
(* and anything else as the double nearest to its value, the even one of   *)
(* two: no digit is lost or counted twice where the integer part, the      *)
(* fraction or the room for digits ends, and cutting digits never rounds   *)
(* twice.  (number.hpp, read_number; parse.hpp, validate_number.)          *)
NumbersExact ==
  rres # "run" =>
    LET found == SelectSeq(slots, LAMBDA s : s.kind = "number")
        nums  == InOrder(LAMBDA p : /\ ~Open[p] /\ Structural(p) /\ (At(p) = "-" \/ IsDigit(Raw, p))
                                    /\ rres = "ok" \/ p < idx[k])
    IN /\ rres = "bad_number" =>
            IF IsNumeral(idx[k], NumeralEnd(idx[k]))
              THEN /\ ValidNumber(Raw, idx[k]) = "ok"
                   /\ Denotes(BadNumber, idx[k], NumeralEnd(idx[k]))
              ELSE ValidNumber(Raw, idx[k]) = "bad_number"
       /\ Len(found) = Len(nums)
       /\ \A n \in DOMAIN nums :
            /\ IsNumeral(nums[n], NumeralEnd(nums[n])) /\ ValidNumber(Raw, nums[n]) = "ok"
            /\ Denotes(found[n], nums[n], NumeralEnd(nums[n]))
=============================================================================
