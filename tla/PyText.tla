------------------------------- MODULE PyText -------------------------------
(***************************************************************************)
(* The Python str operations the RTPEngine scripts use, on a str modelled  *)
(* as a sequence of one-character strings.  Positions are Python's 0-based *)
(* ones.                                                                   *)
(***************************************************************************)
EXTENDS Integers, Sequences, SequencesExt

Digits == <<"0", "1", "2", "3", "4", "5", "6", "7", "8", "9">>

(* str.isdigit on one ASCII character.                                     *)
IsDigit(c) == \E k \in 1..10 : Digits[k] = c

DigitVal(c) == CHOOSE k \in 0..9 : Digits[k + 1] = c

(* Python slicing s[a:b] and indexing s[k], 0-based.                       *)
Slice(s, a, b) == SubSeq(s, a + 1, b)
At(s, k) == s[k + 1]

(* A Python str literal as its sequence of characters.                     *)
Chars(lit) == [k \in 1..Len(lit) |-> SubSeq(lit, k, k)]

(* str.find(c, start): the first index >= start holding c, or -1.          *)
Find(s, c, start) ==
    LET hits == {k \in start..(Len(s) - 1) : At(s, k) = c}
    IN IF hits = {} THEN -1 ELSE CHOOSE k \in hits : \A j \in hits : k <= j

RECURSIVE DigitsValue(_)
DigitsValue(s) ==
    IF s = <<>> THEN 0 ELSE 10 * DigitsValue(Front(s)) + DigitVal(Last(s))

AllDigits(s) == s # <<>> /\ \A k \in 1..Len(s) : IsDigit(s[k])

(* TLC's integers end at 2^31 - 1.  A digit run with more than 9          *)
(* significant digits stands for IntCap, which is above every length of   *)
(* the payloads here: the only use of such a number is to compare it with *)
(* a length, and Python's big int fails that comparison as IntCap does.    *)
IntCap == 1000000000

RECURSIVE Significant(_)
Significant(s) == IF s # <<>> /\ Head(s) = "0" THEN Significant(Tail(s)) ELSE s

DigitsValueCapped(s) == IF Len(Significant(s)) > 9 THEN IntCap ELSE DigitsValue(s)

(* int(s) on a str: an optional sign and decimal digits (leading zeros and *)
(* "-0" included), else ValueError.  The inputs here have no "+", blanks   *)
(* or underscores, which int() would also accept.                          *)
PyInt(s) ==
    CASE AllDigits(s) -> [ok |-> TRUE, n |-> DigitsValueCapped(s)]
      [] s # <<>> /\ Head(s) = "-" /\ AllDigits(Tail(s))
                    -> [ok |-> TRUE, n |-> -DigitsValueCapped(Tail(s))]
      [] OTHER      -> [ok |-> FALSE, n |-> 0]

(* str(n) for a natural number, as the f-strings write lengths.            *)
RECURSIVE Decimal(_)
Decimal(n) ==
    IF n < 10 THEN <<Digits[n + 1]>>
    ELSE Decimal(n \div 10) \o <<Digits[(n % 10) + 1]>>

(* f'{len(v)}:{v}' inside the f-strings.                                   *)
LenPrefixed(v) == Decimal(Len(v)) \o <<":">> \o v

(* `w in s` on two str: w occurs in s as a substring.                      *)
StrIn(w, s) == \E k \in 0..(Len(s) - Len(w)) : Slice(s, k, k + Len(w)) = w

(* str.rfind(c): the last index holding c, or -1.                          *)
RFind(s, c) ==
    LET hits == {k \in 0..(Len(s) - 1) : At(s, k) = c}
    IN IF hits = {} THEN -1 ELSE CHOOSE k \in hits : \A j \in hits : j <= k

UpperCase == Chars("ABCDEFGHIJKLMNOPQRSTUVWXYZ")
LowerCase == Chars("abcdefghijklmnopqrstuvwxyz")

(* str.lower() on ASCII text.                                              *)
Lower(s) ==
    [k \in 1..Len(s) |->
        IF \E j \in 1..26 : UpperCase[j] = s[k]
          THEN LowerCase[CHOOSE j \in 1..26 : UpperCase[j] = s[k]]
          ELSE s[k]]

(* s.split(sep, 1): the text before the first sep and the rest, or s      *)
(* alone when sep does not occur.                                          *)
SplitOnce(s, sep) ==
    LET k == Find(s, sep, 0)
    IN IF k = -1 THEN <<s>> ELSE <<Slice(s, 0, k), Slice(s, k + 1, Len(s))>>

=============================================================================
