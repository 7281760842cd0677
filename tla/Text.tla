-------------------------------- MODULE Text --------------------------------
(***************************************************************************)
(* The algorithms on text of src/util.cc, each next to a definition of     *)
(* what it should compute: pattern matching (stringmatchlen, for PSUBSCRIBE *)
(* and for the topic of a store), numbers of the request protocol          *)
(* (string2ll) and of replies (ll2string), sizes and times of the          *)
(* configuration (ParseSize, ParseTime), and the configuration as a whole. *)
(*                                                                         *)
(* The state is one input that grows by a character, a token or a          *)
(* statement at a time; the properties compare algorithm and definition on *)
(* every input of bounded length.                                          *)
(***************************************************************************)
EXTENDS Config

CONSTANTS
  MaxPattern, MaxNumber, MaxQuantity, MaxFile, \* bounds on the length of the inputs
  MaxTopic,          \* bound on the topics a pattern is matched with
  Statements         \* statements of configuration files

ASSUME TextAssumption ==
  /\ MaxPattern \in Nat /\ MaxNumber \in Nat /\ MaxQuantity \in Nat
  /\ MaxFile \in Nat /\ MaxTopic \in Nat \ {0}

VARIABLES kind, text
vars == <<kind, text>>

----------------------------------------------------------------------------
(* Characters are strings of length one, Code is their value. *)
Code == [c \in {"*", "-", "?", "B", "[", "\\", "]", "^", "a", "b"} |->
           CASE c = "*" -> 42 [] c = "-" -> 45 [] c = "?" -> 63 [] c = "B" -> 66
             [] c = "[" -> 91 [] c = "\\" -> 92 [] c = "]" -> 93 [] c = "^" -> 94
             [] c = "a" -> 97 [] c = "b" -> 98]
Char == DOMAIN Code
tolower(c) == IF c = "B" THEN "b" ELSE c

Same(c, d, nocase) == IF nocase THEN tolower(c) = tolower(d) ELSE c = d

(* A range of a class takes its ends in order of their value and then, if  *)
(* case is ignored, in lower case.                                         *)
InRange(c, first, last, nocase) ==
  LET lo == IF Code[first] <= Code[last] THEN first ELSE last
      hi == IF Code[first] <= Code[last] THEN last ELSE first
      fold(d) == IF nocase THEN Code[tolower(d)] ELSE Code[d]
  IN  fold(lo) <= fold(c) /\ fold(c) <= fold(hi)

(* A '-' makes a range whenever something follows it. *)
IsRange(p) == Len(p) >= 3 /\ p[2] = "-"

RECURSIVE ClassScan(_, _, _, _)
(* The loop over a class, from the character after "[" or "[^": whether c  *)
(* was met and what is left of the pattern. A class that is not closed     *)
(* ends with the pattern.                                                  *)
ClassScan(p, c, nocase, met) ==
  CASE p = <<>> -> [met |-> met, rest |-> <<>>]
    [] p # <<>> /\ p[1] = "\\" ->
         ClassScan(Rest(p, 3), c, nocase, met \/ (Len(p) > 1 /\ p[2] = c))
    [] p # <<>> /\ p[1] = "]" -> [met |-> met, rest |-> Tail(p)]
    [] p # <<>> /\ p[1] \notin {"\\", "]"} ->
         IF IsRange(p)
           THEN ClassScan(Rest(p, 4), c, nocase, met \/ InRange(c, p[1], p[3], nocase))
           ELSE ClassScan(Tail(p), c, nocase, met \/ Same(p[1], c, nocase))

DropStars(p) == Rest(p, IF \E i \in DOMAIN p : p[i] # "*"
                          THEN CHOOSE i \in DOMAIN p : p[i] # "*" /\ \A j \in 1..(i - 1) : p[j] = "*"
                          ELSE Len(p) + 1)

RECURSIVE stringmatchlen(_, _, _)

(* Mutant: the stars at the end of the pattern are forgotten. *)
AdvanceNoStars(p, s, nocase) ==
  IF s = <<>> THEN p = <<>> ELSE stringmatchlen(p, s, nocase)

(* After a character was consumed: at the end of the string only stars may *)
(* be left of the pattern.                                                 *)
Advance(p, s, nocase) ==
  IF s = <<>> THEN DropStars(p) = <<>> ELSE stringmatchlen(p, s, nocase)

stringmatchlen(p, s, nocase) ==
  IF p = <<>> THEN s = <<>>
  ELSE IF p[1] = "*" THEN
    \/ DropStars(p) = <<>>
    \/ \E i \in DOMAIN s : stringmatchlen(DropStars(p), Rest(s, i), nocase)
  ELSE
    /\ s # <<>>
    /\ CASE p[1] = "?" -> Advance(Tail(p), Tail(s), nocase)
         [] p[1] = "[" ->
              LET no == Len(p) > 1 /\ p[2] = "^"
                  scan == ClassScan(Rest(p, IF no THEN 3 ELSE 2), s[1], nocase, FALSE)
              IN  scan.met # no /\ Advance(scan.rest, Tail(s), nocase)
         [] p[1] \notin {"?", "["} ->
              LET q == IF p[1] = "\\" /\ Len(p) >= 2 THEN Tail(p) ELSE p
              IN  Same(q[1], s[1], nocase) /\ Advance(Tail(q), Tail(s), nocase)

(* What a pattern means: a sequence of elements, each of which is a star   *)
(* or the set of characters it stands for.                                 *)
Star == {"any string"}

(* The end of the class that starts at position i: its "]" or the end.     *)
RECURSIVE ClassEnd(_, _)
ClassEnd(p, i) ==
  IF i > Len(p) \/ p[i] = "]" THEN i
  ELSE ClassEnd(p, i + (IF p[i] = "\\" THEN 2 ELSE IF i + 2 <= Len(p) /\ p[i + 1] = "-" THEN 3 ELSE 1))

(* The characters of the class whose items are at positions i to n. *)
RECURSIVE Items(_, _, _, _)
Items(p, i, n, nocase) ==
  IF i > n THEN {}
  ELSE IF p[i] = "\\" THEN {p[k] : k \in {i + 1} \cap 1..n} \cup Items(p, i + 2, n, nocase)
  ELSE IF i + 2 <= Len(p) /\ p[i + 1] = "-"
    THEN {c \in Char : InRange(c, p[i], p[i + 2], nocase)} \cup Items(p, i + 3, n, nocase)
  ELSE {c \in Char : Same(c, p[i], nocase)} \cup Items(p, i + 1, n, nocase)

RECURSIVE Elements(_, _)
Elements(p, nocase) ==
  IF p = <<>> THEN <<>>
  ELSE CASE p[1] = "*" -> <<Star>> \o Elements(Tail(p), nocase)
         [] p[1] = "?" -> <<Char>> \o Elements(Tail(p), nocase)
         [] p[1] = "[" ->
              LET no == Len(p) > 1 /\ p[2] = "^"
                  first == IF no THEN 3 ELSE 2
                  end == ClassEnd(p, first)
                  set == Items(p, first, end - 1, nocase)
              IN  <<IF no THEN Char \ set ELSE set>> \o Elements(Rest(p, end + 1), nocase)
         [] p[1] = "\\" /\ Len(p) >= 2 ->
              <<{c \in Char : Same(c, p[2], nocase)}>> \o Elements(Rest(p, 3), nocase)
         [] OTHER -> <<{c \in Char : Same(c, p[1], nocase)}>> \o Elements(Tail(p), nocase)

(* How much of s the elements can account for: lengths of prefixes. *)
Reached(es, s) ==
  FoldLeft(LAMBDA from, e :
             IF e = Star THEN {j \in 0..Len(s) : \E i \in from : i <= j}
             ELSE {i + 1 : i \in {k \in from : k < Len(s) /\ s[k + 1] \in e}},
           {0}, es)

Denotes(p, s, nocase) == Len(s) \in Reached(Elements(p, nocase), s)

----------------------------------------------------------------------------
RECURSIVE Digits(_)
Digits(v) == (IF v < 10 THEN <<>> ELSE Digits(v \div 10)) \o <<ToString(v % 10)>>

(* ll2string into a buffer that is long enough. The negation of the least  *)
(* number wraps to its absolute value.                                     *)
ll2string(n) == IF n < 0 THEN <<"-">> \o Digits((-n) % (UMax + 1)) ELSE Digits(n)

(* What a number is: no sign but "-", no leading zero, no "-0". *)
IsNumber(s) ==
  LET digits == IF s # <<>> /\ s[1] = "-" THEN Tail(s) ELSE s
  IN  /\ digits # <<>> /\ ToSet(digits) \subseteq Digit
      /\ digits[1] = "0" => s = <<"0">>
Number(s) == IF s[1] = "-" THEN -Decimal(Tail(s)) ELSE Decimal(s)

----------------------------------------------------------------------------
Init == kind \in {"pattern", "number", "quantity", "file"} /\ text = <<>>

Type(k, chars, bound) ==
  /\ kind = k /\ Len(text) < bound
  /\ \E c \in chars : text' = Append(text, c)
  /\ UNCHANGED kind

TypePattern == Type("pattern", Char, MaxPattern)
TypeNumber == Type("number", Digit \cup {"-", "x"}, MaxNumber)
TypeQuantity == Type("quantity", {"0", "1", "9"} \cup Units, MaxQuantity)
TypeFile == Type("file", Statements, MaxFile)

Next == TypePattern \/ TypeNumber \/ TypeQuantity \/ TypeFile
Spec == Init /\ [][Next]_vars

Topics == UNION {[1..n -> {"B", "]", "a", "b"}] : n \in 1..MaxTopic}

(* A class that ends in a backslash makes the loop read past the end of    *)
(* the pattern; what it finds there is not defined.                        *)
InBounds(p) ==
  ~\E i \in DOMAIN p : p[i] = "[" /\ i < Len(p) /\ Last(p) = "\\"

(* stringmatchlen, which backtracks, skips runs of stars and stops at the  *)
(* end of the topic, answers for every pattern and every topic that is not *)
(* empty what the elements of the pattern denote.                          *)
MatchesDenotation ==
  kind = "pattern" /\ InBounds(text) =>
    \A s \in Topics, nocase \in BOOLEAN :
      stringmatchlen(text, s, nocase) <=> Denotes(text, s, nocase)

(* string2ll accepts exactly the numbers in canonical form that fit, with  *)
(* their value, in spite of its unsigned arithmetic; ll2string gives back  *)
(* the text, for the least number too.  ParseSize and ParseTime accept     *)
(* digits and one unit and nothing else and give the amount, if it fits an *)
(* int. (What does not fit is accepted too, with a wrapped value.)         *)
NumbersExact ==
  /\ kind = "number" =>
       IF IsNumber(text) /\ Number(text) \in IntMin..IntMax
         THEN string2ll(text) = Number(text) /\ ll2string(Number(text)) = text
         ELSE string2ll(text) = Failed
  /\ kind = "quantity" =>
       /\ (ParseSize(text) # Failed) <=> IsQuantity(text, SizeUnit)
       /\ (ParseTime(text) # Failed) <=> IsQuantity(text, TimeUnit)
       /\ IsQuantity(text, SizeUnit) /\ Quantity(text, SizeUnit) <= IntMax =>
            ParseSize(text) = Quantity(text, SizeUnit)
       /\ IsQuantity(text, TimeUnit) /\ Quantity(text, TimeUnit) <= IntMax =>
            ParseTime(text) = Quantity(text, TimeUnit)

============================================================================
