------------------------------- MODULE Numbers -------------------------------
(***************************************************************************)
(* Numbers as text: string2ll of src/util.cc, with integers of Width bits  *)
(* (64 in the code). Text is a sequence of strings of length one.          *)
(***************************************************************************)
EXTENDS Integers, Sequences, SequencesExt

CONSTANT Width

ASSUME WidthAssumption == Width \in Nat \ {0}

Rest(s, n) == SubSeq(s, n, Len(s))

Digit == {"0", "1", "2", "3", "4", "5", "6", "7", "8", "9"}
DigitValue == [d \in Digit |-> CHOOSE n \in 0..9 : ToString(n) = d]

UMax == 2^Width - 1
IntMax == 2^(Width - 1) - 1
IntMin == -(2^(Width - 1))

(* The value of a sequence of digits. *)
Decimal(s) == FoldLeft(LAMBDA n, d : 10 * n + DigitValue[d], 0, s)

(* A result that is not a number of any kind. *)
Failed == UMax + 1

(* Mutant: the last digit is added without a check. *)
AddDigitUnchecked(v, c) ==
  IF v = Failed \/ c \notin Digit THEN Failed
  ELSE IF v > UMax \div 10 THEN Failed
  ELSE (10 * v + DigitValue[c]) % (UMax + 1)

(* One turn of the loop of string2ll. *)
AddDigit(v, c) ==
  IF v = Failed \/ c \notin Digit THEN Failed
  ELSE IF v > UMax \div 10 \/ 10 * v > UMax - DigitValue[c] THEN Failed
  ELSE 10 * v + DigitValue[c]

string2ll(s) ==
  LET negative == s # <<>> /\ s[1] = "-"
      digits == IF negative THEN Tail(s) ELSE s
      v == FoldLeft(AddDigit, 0, digits)
  IN  IF s = <<"0">> THEN 0
      ELSE IF digits = <<>> \/ digits[1] \notin Digit \ {"0"} \/ v = Failed THEN Failed
      ELSE IF negative THEN (IF v > IntMax + 1 THEN Failed ELSE -v)
      ELSE (IF v > IntMax THEN Failed ELSE v)
============================================================================
