----------------------------- MODULE Quantities -----------------------------
(***************************************************************************)
(* Sizes and times of the configuration: ParseSize and ParseTime of        *)
(* src/util.cc. The text is a sequence of tokens, which are digits, units  *)
(* (in any case) and a sign; tokens that follow each other may make up a   *)
(* unit again.                                                             *)
(***************************************************************************)
EXTENDS Numbers

CONSTANTS Kilo, Sixty, Day   \* 1024, 60 and 24 in the code

ASSUME UnitAssumption == Kilo \in Nat \ {0} /\ Sixty \in Nat \ {0} /\ Day \in Nat \ {0}

SizeUnit == [b |-> 1, byte |-> 1, k |-> Kilo, kb |-> Kilo,
             m |-> Kilo^2, mb |-> Kilo^2, g |-> Kilo^3, gb |-> Kilo^3]
TimeUnit == [s |-> 1, sec |-> 1, m |-> Sixty, min |-> Sixty,
             h |-> Sixty^2, hour |-> Sixty^2, d |-> Sixty^2 * Day, day |-> Sixty^2 * Day]
Units == DOMAIN SizeUnit \cup DOMAIN TimeUnit \cup {"-"}

(* Arithmetic of int: it wraps. *)
ToInt(n) == LET r == n % (UMax + 1) IN IF r > IntMax THEN r - UMax - 1 ELSE r

DigitsOf(s) == SubSeq(s, 1, CHOOSE n \in 0..Len(s) :
                              /\ \A i \in 1..n : s[i] \in Digit
                              /\ n < Len(s) => s[n + 1] \notin Digit)

(* The text that tokens make up. *)
Join(tokens) == FoldLeft(LAMBDA u, t : u \o t, "", tokens)

(* Digits, possibly none, and one unit. *)
Parse(s, unit) ==
  LET digits == DigitsOf(s)
      rest == Join(Rest(s, Len(digits) + 1))
      t == FoldLeft(LAMBDA v, d : ToInt(10 * v + DigitValue[d]), 0, digits)
  IN  IF rest \in DOMAIN unit THEN ToInt(t * unit[rest]) ELSE Failed

ParseSize(s) == Parse(s, SizeUnit)
ParseTime(s) == Parse(s, TimeUnit)

(* What a quantity is, and how much. *)
Divisions(s, unit) ==
  {n \in 0..Len(s) : /\ ToSet(SubSeq(s, 1, n)) \subseteq Digit
                     /\ Join(SubSeq(s, n + 1, Len(s))) \in DOMAIN unit}
IsQuantity(s, unit) == Divisions(s, unit) # {}
Quantity(s, unit) ==
  LET n == CHOOSE n \in Divisions(s, unit) : TRUE
  IN  Decimal(SubSeq(s, 1, n)) * unit[Join(SubSeq(s, n + 1, Len(s)))]
============================================================================
