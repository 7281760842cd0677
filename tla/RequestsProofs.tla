--------------------------- MODULE RequestsProofs ---------------------------
(***************************************************************************)
(* The input of a client, for any bytes a peer may send, in any pieces and *)
(* with any limits: the parser's position stays inside the buffer, the     *)
(* buffer is what was read last, its allocation follows what it holds, and *)
(* the pieces make no difference to what is executed or kept.              *)
(*                                                                         *)
(* A number that is parsed is any number: no length a peer may write moves *)
(* the position out of the buffer, and string2ll matters only in that it   *)
(* gives the same for the same text.  For the pieces, the parser is on a   *)
(* path of the one that has the whole stream before it (OnPath): a step    *)
(* that finds its bytes in the buffer is a step of that path, more bytes   *)
(* leave the path as it is, and a return to the event loop is at its end.  *)
(***************************************************************************)
EXTENDS Requests, SequenceTheorems, WellFoundedInduction, TLAPS

(* Types of what the position and the buffer depend on. *)
TypeOK ==
  /\ sent \in Seq(STRING) /\ nread \in 0..Len(sent)
  /\ req \in [data : Seq(STRING), cap : Nat]
  /\ arglen \in Nat \cup {-1}
  /\ pos \in Nat

(* The parser's position is in the buffer: req_.size() - pos, which is     *)
(* computed without a sign, is never negative, and remove_front never      *)
(* removes more than there is.                                             *)
PositionInside == pc = "argument" => pos <= Len(req.data)

(* The buffer is the end of what was read, byte for byte: none was parsed  *)
(* and kept, none was trimmed without being parsed over.                   *)
BufferIsInput ==
  /\ Len(req.data) <= nread
  /\ req.data = SubSeq(sent, nread - Len(req.data) + 1, nread)

Inv == TypeOK /\ PositionInside /\ BufferIsInput /\ MemoryFollowsUse

----------------------------------------------------------------------------
(* A set of naturals has a least element. *)
LEMMA Minimum ==
  ASSUME NEW S \in SUBSET Nat, S # {}
  PROVE  \E x \in S : \A y \in S : x <= y
<1> DEFINE R == OpToRel(<, Nat)
<1>1. IsWellFoundedOn(R, Nat)
  BY NatLessThanWellFounded
<1>2. R = {ss \in Nat \X Nat : ss[1] < ss[2]}
  BY Zenon DEF OpToRel
<1> HIDE DEF R
<1>3. PICK x \in S : \A y \in S : ~(<<y, x>> \in R)
  BY <1>1, WFMin
<1>4. ASSUME NEW y \in S PROVE x <= y
  <2>1. x \in Nat /\ y \in Nat
    OBVIOUS
  <2>2. y < x => <<y, x>> \in R
    BY <1>2, <2>1
  <2> QED BY <1>3, <2>1, <2>2
<1> QED BY <1>4

(* A line ends inside the buffer. *)
LEMMA LineInside ==
  ASSUME TypeOK, NEW p \in Nat, Line(p)
  PROVE  Newline(p) + 1 \in Nat /\ Newline(p) + 1 <= Len(req.data)
<1>1. Newlines(p) \in SUBSET Nat /\ Newlines(p) # {}
  BY DEF Line, Newlines, TypeOK
<1>2. \E i \in Newlines(p) : \A j \in Newlines(p) : i <= j
  BY <1>1, Minimum
<1>3. Newline(p) \in Newlines(p)
  BY <1>2 DEF Newline
<1> QED BY <1>1, <1>3 DEF Line

----------------------------------------------------------------------------
(* Buffers. *)
Holds(b) == Len(b.data) <= b.cap /\ b.cap <= 2 * Len(b.data)

LEMMA ResizeType ==
  ASSUME NEW b \in [data : Seq(STRING), cap : Nat], NEW n \in Nat, Len(b.data) <= n
  PROVE  /\ resize(b, n) \in [data : Seq(STRING), cap : Nat]
         /\ resize(b, n).data = b.data /\ resize(b, n).cap = n
<1>1. b.data \in Seq(STRING) /\ Len(b.data) \in Nat
  OBVIOUS
<1>2. SubSeq(b.data, 1, Len(b.data)) = b.data
  BY <1>1, SubSeqFull
<1>3. (IF Len(b.data) < n THEN Len(b.data) ELSE n) = Len(b.data)
  BY <1>1
<1> QED BY <1>1, <1>2, <1>3 DEF resize

LEMMA Appended ==
  ASSUME NEW b \in [data : Seq(STRING), cap : Nat], Holds(b), NEW s \in Seq(STRING)
  PROVE  /\ append(b, s) \in [data : Seq(STRING), cap : Nat]
         /\ append(b, s).data = b.data \o s
         /\ Holds(append(b, s))
<1>1. /\ b.data \in Seq(STRING) /\ b.cap \in Nat /\ Len(b.data) \in Nat /\ Len(s) \in Nat
      /\ b.data \o s \in Seq(STRING) /\ Len(b.data \o s) = Len(b.data) + Len(s)
  BY ConcatProperties
<1>2. CASE s = <<>>
  <2>1. b.data \o s = b.data
    BY <1>1, <1>2, ConcatEmptySeq
  <2> QED BY <1>2, <2>1 DEF append
<1>3. CASE s # <<>>
  <2> DEFINE n == Len(b.data) + Len(s)
             c == IF 2 * b.cap > n THEN 2 * b.cap ELSE n
             r == reserve(b, n)
  <2>1. n \in Nat /\ c \in Nat /\ c >= n /\ c >= 2 * b.cap /\ (c = n \/ c = 2 * b.cap)
    BY <1>1
  <2>2. /\ r \in [data : Seq(STRING), cap : Nat] /\ r.data = b.data
        /\ n <= r.cap /\ r.cap <= 2 * n
    <3>1. CASE n < b.cap
      BY <1>1, <2>1, <3>1 DEF reserve, Holds
    <3>2. CASE ~(n < b.cap)
      <4>1. r = resize(b, c)
        BY <3>2 DEF reserve
      <4>2. Len(b.data) <= c
        BY <1>1, <2>1
      <4>3. r \in [data : Seq(STRING), cap : Nat] /\ r.data = b.data /\ r.cap = c
        BY <2>1, <4>1, <4>2, ResizeType
      <4>4. c <= 2 * n
        BY <1>1, <2>1, <3>2
      <4> QED BY <2>1, <4>3, <4>4
    <3> QED BY <3>1, <3>2
  <2>3. append(b, s) = [r EXCEPT !.data = b.data \o s]
    BY <1>3, <2>2 DEF append
  <2> HIDE DEF r, c
  <2>4. /\ append(b, s) \in [data : Seq(STRING), cap : Nat]
        /\ append(b, s).data = b.data \o s /\ append(b, s).cap = r.cap
    BY <1>1, <2>2, <2>3
  <2> QED BY <1>1, <2>2, <2>4 DEF Holds
<1> QED BY <1>2, <1>3

LEMMA Removed ==
  ASSUME NEW b \in [data : Seq(STRING), cap : Nat], Holds(b),
         NEW n \in Nat, n <= Len(b.data)
  PROVE  /\ remove_front(b, n) \in [data : Seq(STRING), cap : Nat]
         /\ remove_front(b, n).data = SubSeq(b.data, n + 1, Len(b.data))
         /\ Len(remove_front(b, n).data) = Len(b.data) - n
         /\ Holds(remove_front(b, n))
<1> DEFINE d == SubSeq(b.data, n + 1, Len(b.data))
           size == Len(b.data) - n
           moved == [b EXCEPT !.data = d]
<1>1. b.data \in Seq(STRING) /\ b.cap \in Nat /\ Len(b.data) \in Nat /\ size \in Nat
  OBVIOUS
<1>2. d \in Seq(STRING) /\ Len(d) = size
  <2>1. \A i \in (n + 1)..Len(b.data) : b.data[i] \in STRING
    BY <1>1
  <2>2. n + 1 \in Int /\ Len(b.data) \in Int
    BY <1>1
  <2>3. d \in Seq(STRING) /\ Len(d) = IF n + 1 <= Len(b.data) THEN Len(b.data) - (n + 1) + 1 ELSE 0
    BY <2>1, <2>2, SubSeqProperties
  <2> QED BY <1>1, <2>3
<1>3. CASE n = 0
  <2>1. d = b.data
    BY <1>1, <1>3, SubSeqFull
  <2> QED BY <1>1, <1>3, <2>1 DEF remove_front
<1>4. CASE n # 0
  <2> HIDE DEF d
  <2>1. moved \in [data : Seq(STRING), cap : Nat] /\ moved.data = d /\ moved.cap = b.cap
    BY <1>1, <1>2
  <2>2. remove_front(b, n) = IF 2 * size < b.cap THEN resize(moved, size) ELSE moved
    BY <1>4 DEF remove_front, d
  <2> HIDE DEF moved
  <2>3. CASE 2 * size < b.cap
    <3>1. /\ resize(moved, size) \in [data : Seq(STRING), cap : Nat]
          /\ resize(moved, size).data = d /\ resize(moved, size).cap = size
      BY <1>1, <1>2, <2>1, ResizeType
    <3> QED BY <1>1, <1>2, <2>2, <2>3, <3>1 DEF Holds, d
  <2>4. CASE ~(2 * size < b.cap)
    BY <1>1, <1>2, <2>1, <2>2, <2>4 DEF Holds, d
  <2> QED BY <2>3, <2>4
<1> QED BY <1>3, <1>4
----------------------------------------------------------------------------
(* What the buffer is required to be, as an operator of its value. *)
Good(b, n) ==
  /\ b \in [data : Seq(STRING), cap : Nat] /\ Holds(b)
  /\ Len(b.data) <= n /\ b.data = SubSeq(sent, n - Len(b.data) + 1, n)

LEMMA GoodEmpty ==
  ASSUME sent \in Seq(STRING), NEW n \in Nat
  PROVE  Good(EmptyBuffer, n)
<1>1. EmptyBuffer.data = <<>> /\ EmptyBuffer.cap = 0 /\ Len(<<>>) = 0
  BY DEF EmptyBuffer
<1>2. EmptyBuffer \in [data : Seq(STRING), cap : Nat]
  BY DEF EmptyBuffer
<1>3. n - 0 + 1 \in Int /\ n \in Int /\ n < n - 0 + 1
  OBVIOUS
<1>4. SubSeq(sent, n - 0 + 1, n) = <<>>
  BY <1>3, SubSeqEmpty
<1> QED BY <1>1, <1>2, <1>4 DEF Good, Holds

(* A piece of a sequence of bytes. *)
LEMMA Piece ==
  ASSUME NEW s \in Seq(STRING), NEW m \in Nat, NEW n \in Nat, m <= n, n <= Len(s)
  PROVE  /\ SubSeq(s, m + 1, n) \in Seq(STRING) /\ Len(SubSeq(s, m + 1, n)) = n - m
         /\ \A i \in 1..(n - m) : SubSeq(s, m + 1, n)[i] = s[m + i]
<1>1. Len(s) \in Nat /\ m + 1 \in Int /\ n \in Int
  OBVIOUS
<1>2. \A i \in (m + 1)..n : s[i] \in STRING
  <2>1. \A i \in (m + 1)..n : i \in 1..Len(s)
    BY <1>1
  <2> QED BY <2>1
<1>3. /\ SubSeq(s, m + 1, n) \in Seq(STRING)
      /\ Len(SubSeq(s, m + 1, n)) = (IF m + 1 <= n THEN n - (m + 1) + 1 ELSE 0)
      /\ \A i \in 1..(n - (m + 1) + 1) : SubSeq(s, m + 1, n)[i] = s[(m + 1) + i - 1]
  BY <1>1, <1>2, SubSeqProperties
<1>4. Len(SubSeq(s, m + 1, n)) = n - m
  BY <1>3
<1>5. ASSUME NEW i \in 1..(n - m) PROVE SubSeq(s, m + 1, n)[i] = s[m + i]
  <2>1. i \in 1..(n - (m + 1) + 1) /\ (m + 1) + i - 1 = m + i
    OBVIOUS
  <2>2. SubSeq(s, m + 1, n)[i] = s[(m + 1) + i - 1]
    BY <1>3, <2>1
  <2> QED BY <2>1, <2>2
<1> QED BY <1>3, <1>4, <1>5

(* Reading appends the next bytes of the input. *)
LEMMA GoodAppended ==
  ASSUME sent \in Seq(STRING), NEW b, NEW n \in Nat, NEW k \in Nat, Good(b, n),
         n + k <= Len(sent)
  PROVE  Good(append(b, SubSeq(sent, n + 1, n + k)), n + k)
<1> DEFINE s == SubSeq(sent, n + 1, n + k)
           a == n - Len(b.data)
<1>1. /\ b \in [data : Seq(STRING), cap : Nat] /\ Holds(b) /\ Len(b.data) \in Nat
      /\ a \in Nat /\ a <= n /\ b.data = SubSeq(sent, a + 1, n) /\ Len(sent) \in Nat
  BY DEF Good
<1>2. s \in Seq(STRING) /\ Len(s) = k
  <2>1. n <= n + k /\ n + k \in Nat /\ (n + k) - n = k
    OBVIOUS
  <2> QED BY <2>1, Piece
<1>3. /\ append(b, s) \in [data : Seq(STRING), cap : Nat]
      /\ append(b, s).data = b.data \o s /\ Holds(append(b, s))
  BY <1>1, <1>2, Appended
<1>4. SubSeq(sent, a + 1, n) \o SubSeq(sent, n + 1, n + k) = SubSeq(sent, a + 1, n + k)
  <2>1. /\ a + 1 \in 1..(Len(sent) + 1) /\ n \in ((a + 1) - 1)..Len(sent)
        /\ n + k \in n..Len(sent)
    BY <1>1
  <2> QED BY <2>1, ConcatAdjacentSubSeq
<1>5. Len(b.data \o s) = Len(b.data) + k /\ (n + k) - (Len(b.data) + k) + 1 = a + 1
  <2>1. b.data \in Seq(STRING)
    BY <1>1
  <2>2. Len(b.data \o s) = Len(b.data) + Len(s)
    <3> HIDE DEF s
    <3> QED BY <1>2, <2>1, ConcatProperties
  <2>3. \A m \in Nat : (n + k) - (m + k) + 1 = (n - m) + 1
    OBVIOUS
  <2>4. (n + k) - (Len(b.data) + k) + 1 = a + 1
    BY <1>1, <2>3, Zenon
  <2> QED BY <1>2, <2>2, <2>4
<1>6. b.data \o s = SubSeq(sent, a + 1, n + k)
  BY <1>1, <1>4
<1> HIDE DEF s, a
<1>7. Len(append(b, s).data) <= n + k
  <2>1. Len(append(b, s).data) = Len(b.data) + k
    BY <1>3, <1>5
  <2> QED BY <2>1 DEF Good
<1>8. append(b, s).data = SubSeq(sent, (n + k) - Len(append(b, s).data) + 1, n + k)
  BY <1>3, <1>5, <1>6
<1> QED BY <1>3, <1>7, <1>8 DEF Good, s

(* Trimming leaves the end of the input. *)
LEMMA GoodTrimmed ==
  ASSUME sent \in Seq(STRING), NEW b, NEW n \in Nat, n <= Len(sent), Good(b, n),
         NEW k \in Nat, k <= Len(b.data)
  PROVE  Good(remove_front(b, k), n)
<1> DEFINE d == SubSeq(b.data, k + 1, Len(b.data))
           a == n - Len(b.data)
           l == Len(b.data) - k
<1>1. /\ b \in [data : Seq(STRING), cap : Nat] /\ b.data \in Seq(STRING)
      /\ Holds(b) /\ Len(b.data) \in Nat /\ Len(sent) \in Nat
      /\ a \in Nat /\ l \in Nat /\ l <= n /\ b.data = SubSeq(sent, a + 1, n)
  BY DEF Good
<1>2. /\ remove_front(b, k) \in [data : Seq(STRING), cap : Nat]
      /\ remove_front(b, k).data = d /\ Len(d) = l /\ Holds(remove_front(b, k))
  BY <1>1, Removed
<1>3. d = SubSeq(sent, n - l + 1, n)
  <2> DEFINE e == SubSeq(sent, (n - l) + 1, n)
  <2> HIDE DEF a, l
  <2>0. a \in Nat /\ l \in Nat /\ l <= n /\ n - l \in Nat /\ n - l = a + k /\ n - a = k + l
    BY <1>1 DEF a, l
  <2>1. \A i \in 1..(n - a) : b.data[i] = sent[a + i]
    BY <1>1, <2>0, Piece
  <2>2. d \in Seq(STRING) /\ Len(d) = l /\ \A i \in 1..l : d[i] = b.data[k + i]
    BY <1>1, Piece DEF l
  <2>3. e \in Seq(STRING) /\ Len(e) = l /\ \A i \in 1..l : e[i] = sent[(n - l) + i]
    <3>1. n - l <= n /\ n - (n - l) = l
      BY <2>0
    <3> QED BY <2>0, <3>1, Piece
  <2> HIDE DEF e, d
  <2>4. ASSUME NEW i \in 1..l PROVE d[i] = e[i]
    <3>1. k + i \in 1..(n - a) /\ a + (k + i) = (n - l) + i
      BY <2>0
    <3> QED BY <2>1, <2>2, <2>3, <3>1
  <2> QED BY <2>2, <2>3, <2>4, SeqEqual DEF e
<1> HIDE DEF d
<1> QED BY <1>1, <1>2, <1>3 DEF Good
----------------------------------------------------------------------------
(* The invariant, with what it says of the buffer in one place. *)
LEMMA InvGood ==
  Inv <=> TypeOK /\ PositionInside /\ Good(req, nread)
  BY DEF Inv, TypeOK, Good, Holds, BufferIsInput, MemoryFollowsUse

(* The end of ParseRequestBuffer. *)
LEMMA ReturnGood ==
  ASSUME TypeOK, Good(req, nread), NEW p \in Nat, p <= Len(req.data), Return(p)
  PROVE  Good(req', nread) /\ pc' = "idle"
<1> DEFINE b == remove_front(req, p)
<1>1. sent \in Seq(STRING) /\ nread \in Nat /\ nread <= Len(sent)
  BY DEF TypeOK
<1>2. Good(b, nread) /\ Good(EmptyBuffer, nread)
  BY <1>1, GoodTrimmed, GoodEmpty
<1>3. req' = b \/ req' = EmptyBuffer
  BY DEF Return
<1> QED BY <1>2, <1>3 DEF Return

LEMMA Start ==
  Init => Inv
<1> SUFFICES ASSUME Init PROVE Inv
  OBVIOUS
<1>1. sent \in Seq(STRING) /\ nread = 0 /\ req = EmptyBuffer
  BY RequestAssumption DEF Init
<1>2. Good(req, nread)
  BY <1>1, GoodEmpty
<1>3. 0 \in 0..Len(sent)
  BY <1>1
<1>4. TypeOK
  BY <1>1, <1>2, <1>3 DEF Init, TypeOK, Good
<1> QED BY <1>2, <1>4, InvGood DEF Init, PositionInside

LEMMA Step ==
  ASSUME Inv, [Next]_vars
  PROVE  Inv'
<1>i. TypeOK /\ PositionInside /\ Good(req, nread)
  BY InvGood
<1>t. /\ sent \in Seq(STRING) /\ nread \in Nat /\ nread <= Len(sent) /\ Len(sent) \in Nat
      /\ req \in [data : Seq(STRING), cap : Nat] /\ Len(req.data) \in Nat
      /\ pos \in Nat /\ arglen \in Nat \cup {-1}
  BY <1>i DEF TypeOK
<1>q. ASSUME sent' = sent, nread' \in 0..Len(sent), Good(req', nread'),
             arglen' \in Nat \cup {-1}, pos' \in Nat,
             pc' = "argument" => pos' <= Len(req'.data)
      PROVE  Inv'
  <2>1. TypeOK' /\ PositionInside'
    BY <1>q, <1>t DEF TypeOK, PositionInside, Good
  <2>2. BufferIsInput' /\ MemoryFollowsUse'
    BY <1>q DEF BufferIsInput, MemoryFollowsUse, Good, Holds
  <2> QED BY <2>1, <2>2 DEF Inv
<1>n. nread \in 0..Len(sent)
  BY <1>t
<1>1. CASE Read
  <2>1. PICK n \in 1..MaxRead : nread + n <= Len(sent) /\ ReadRequest(n)
    BY <1>1 DEF Read
  <2>2. n \in Nat /\ nread + n \in 0..Len(sent)
    BY <1>t, <2>1, RequestAssumption
  <2>3. /\ nread' = nread + n /\ req' = append(req, SubSeq(sent, nread + 1, nread + n))
        /\ UNCHANGED <<sent, arglen, pos>> /\ pc' # "argument"
    BY <2>1 DEF ReadRequest, parser
  <2>4. Good(req', nread')
    BY <1>i, <1>t, <2>1, <2>2, <2>3, GoodAppended
  <2> QED BY <1>q, <1>t, <2>2, <2>3, <2>4
<1>2. CASE Disconnect
  <2>1. UNCHANGED <<sent, nread, req, arglen, pos, pc>> /\ pc = "idle"
    BY <1>2 DEF Disconnect, parser
  <2> QED BY <1>i, <1>q, <1>t, <1>n, <2>1
<1>3. CASE ProcessRequestBuffer
  <2>1. /\ UNCHANGED <<sent, nread, arglen>> /\ pos' = 0
        /\ req' = req \/ req' = EmptyBuffer
    BY <1>3 DEF ProcessRequestBuffer, parser
  <2>2. Good(req', nread')
    BY <1>i, <1>t, <2>1, GoodEmpty
  <2>3. 0 <= Len(req'.data)
    BY <2>2 DEF Good
  <2> QED BY <1>q, <1>t, <1>n, <2>1, <2>2, <2>3
<1>4. CASE ParseHeader
  <2>0. UNCHANGED <<sent, nread>> /\ pc = "header"
    BY <1>4 DEF ParseHeader
  <2>1. CASE Return(0) /\ UNCHANGED <<arglen, pos>>
    <3>1. 0 \in Nat /\ 0 <= Len(req.data)
      BY <1>t
    <3>2. Good(req', nread) /\ pc' = "idle"
      BY <1>i, <2>1, <3>1, ReturnGood
    <3> QED BY <1>q, <1>t, <1>n, <2>0, <2>1, <3>2
  <2>2. CASE /\ Line(0) /\ req' = remove_front(req, Newline(0) + 1)
             /\ arglen' = -1 /\ pc' = "loop" /\ pos' = pos
    <3>1. Newline(0) + 1 \in Nat /\ Newline(0) + 1 <= Len(req.data)
      BY <1>i, <2>2, LineInside
    <3>2. Good(req', nread)
      BY <1>i, <1>t, <2>2, <3>1, GoodTrimmed
    <3> QED BY <1>q, <1>t, <1>n, <2>0, <2>2, <3>2
  <2>3. CASE /\ Line(0) /\ pos' = Newline(0) + 1 /\ UNCHANGED <<req, arglen>>
    <3>1. Newline(0) + 1 \in Nat /\ Newline(0) + 1 <= Len(req.data)
      BY <1>i, <2>3, LineInside
    <3> QED BY <1>i, <1>q, <1>t, <1>n, <2>0, <2>3, <3>1
  <2> QED BY <1>4, <2>1, <2>2, <2>3 DEF ParseHeader, parser
<1>5. CASE ParseLength
  <2>0. pc = "argument" /\ pos <= Len(req.data)
    BY <1>i, <1>5 DEF ParseLength, PositionInside
  <2>1. CASE Return(pos) /\ UNCHANGED <<sent, nread, arglen, pos>>
    <3>1. Good(req', nread) /\ pc' = "idle"
      BY <1>i, <1>t, <2>0, <2>1, ReturnGood
    <3> QED BY <1>q, <1>t, <1>n, <2>1, <3>1
  <2>2. ASSUME NEW e, ProtocolError(e) PROVE Inv'
    <3>1. 0 \in Nat /\ 0 <= Len(req.data)
      BY <1>t
    <3>2. Return(0) /\ UNCHANGED <<sent, nread, arglen, pos>>
      BY <2>2 DEF ProtocolError, parser
    <3>3. Good(req', nread) /\ pc' = "idle"
      BY <1>i, <3>1, <3>2, ReturnGood
    <3> QED BY <1>q, <1>t, <1>n, <3>2, <3>3
  <2>3. CASE /\ Line(pos) /\ LineNumber(pos) \in 0..MaxBulk
             /\ arglen' = LineNumber(pos) /\ pos' = Newline(pos) + 1
             /\ UNCHANGED <<sent, nread, req>>
    <3>1. Newline(pos) + 1 \in Nat /\ Newline(pos) + 1 <= Len(req.data)
      BY <1>i, <1>t, <2>3, LineInside
    <3>2. arglen' \in Nat
      BY <2>3, RequestAssumption
    <3> QED BY <1>i, <1>q, <1>n, <2>3, <3>1, <3>2
  <2> QED BY <1>5, <2>1, <2>2, <2>3 DEF ParseLength, parser
<1>6. CASE ParseArgument
  <2>0. /\ pc = "argument" /\ pos <= Len(req.data) /\ arglen \in Nat
        /\ UNCHANGED <<sent, nread>>
    BY <1>i, <1>t, <1>6 DEF ParseArgument, PositionInside
  <2>1. CASE Enough
    <3>1. pos' = pos + arglen + 2 /\ arglen' = -1 /\ req' = req
      BY <1>6, <2>1 DEF ParseArgument
    <3>2. pos + arglen + 2 \in Nat /\ pos + arglen + 2 <= Len(req.data)
      BY <1>t, <2>0, <2>1 DEF Enough
    <3> QED BY <1>i, <1>q, <1>n, <2>0, <3>1, <3>2
  <2>2. CASE ~Enough
    <3>1. Return(pos) /\ UNCHANGED <<arglen, pos>>
      BY <1>6, <2>2 DEF ParseArgument
    <3>2. Good(req', nread) /\ pc' = "idle"
      BY <1>i, <1>t, <2>0, <3>1, ReturnGood
    <3> QED BY <1>q, <1>t, <1>n, <2>0, <3>1, <3>2
  <2> QED BY <2>1, <2>2
<1>7. CASE ProcessCommand
  <2>1. /\ pc = "argument" /\ req' = remove_front(req, pos) /\ pc' = "loop"
        /\ UNCHANGED <<sent, nread, pos>> /\ arglen' \in {arglen, -1}
    BY <1>7 DEF ProcessCommand, parser
  <2>2. pos <= Len(req.data)
    BY <1>i, <2>1 DEF PositionInside
  <2>3. Good(req', nread)
    BY <1>i, <1>t, <2>1, <2>2, GoodTrimmed
  <2> QED BY <1>q, <1>t, <1>n, <2>1, <2>3
<1>8. CASE UNCHANGED vars
  BY <1>8 DEF vars, Inv, TypeOK, PositionInside, BufferIsInput, MemoryFollowsUse
<1> QED BY <1>1, <1>2, <1>3, <1>4, <1>5, <1>6, <1>7, <1>8 DEF Next

LEMMA Invariance ==
  Spec => []Inv
  BY Start, Step, PTL DEF Spec

(* The allocation of req_ has room for its bytes and is at most twice as   *)
(* large, after any reads and any parsing (append, remove_front).          *)
THEOREM Memory ==
  Spec => []MemoryFollowsUse
<1>1. Inv => MemoryFollowsUse
  BY DEF Inv
<1> QED BY <1>1, Invariance, PTL

(* ParseRequestBuffer never looks or trims past the end of req_, whatever  *)
(* numbers a peer writes.                                                  *)
THEOREM Position ==
  Spec => []PositionInside
<1>1. Inv => PositionInside
  BY DEF Inv
<1> QED BY <1>1, Invariance, PTL

(* req_ holds the last bytes that were read, in order: appending pieces    *)
(* and trimming from the front never lose, repeat or reorder a byte.       *)
THEOREM Input ==
  Spec => []BufferIsInput
<1>1. Inv => BufferIsInput
  BY DEF Inv
<1> QED BY <1>1, Invariance, PTL
----------------------------------------------------------------------------
(* One pass over the stream. A path of the parser that has all of it: each *)
(* of its first k steps finds what it reads in the first n bytes.          *)
Path(s, p, k, n) ==
  /\ p[0] = Fresh
  /\ \A j \in 0..(k - 1) : /\ p[j].at \in Nat /\ p[j].arglen \in Int
                           /\ Ready(s, p[j], n) /\ p[j + 1] = Parse(s, p[j])

(* The longest path to c: it reads two bytes or more in a step, except in  *)
(* the one that ends a command and in the last.                            *)
Progress(c, n) ==
  IF c.closing THEN 2 * n + 1 ELSE 2 * c.at - (IF c.argc = 0 THEN 0 ELSE 1)

Led(s, c, n) ==
  \E k \in Nat : k <= Progress(c, n) /\ \E p : Path(s, p, k, n) /\ p[k] = c

LEMMA Extend ==
  ASSUME NEW n \in Nat, NEW c, NEW d, Led(sent, c, n), Ready(sent, c, n), d = Parse(sent, c),
         c.at \in Nat, c.arglen \in Int, Progress(c, n) \in Int, Progress(d, n) \in Int,
         Progress(c, n) < Progress(d, n)
  PROVE  Led(sent, d, n)
<1>1. PICK k \in Nat : k <= Progress(c, n) /\ \E p : Path(sent, p, k, n) /\ p[k] = c
  BY DEF Led
<1>2. PICK p : Path(sent, p, k, n) /\ p[k] = c
  BY <1>1
<1> DEFINE q == [j \in 0..(k + 1) |-> IF j = k + 1 THEN d ELSE p[j]]
<1>3. \A j \in 0..k : q[j] = p[j]
  OBVIOUS
<1>4. q[k + 1] = d /\ k + 1 \in Nat /\ k + 1 <= Progress(d, n)
  BY <1>1
<1> HIDE DEF q
<1>5. Path(sent, q, k + 1, n)
  <2>1. q[0] = Fresh
    BY <1>2, <1>3 DEF Path
  <2>2. ASSUME NEW j \in 0..((k + 1) - 1)
        PROVE  /\ q[j].at \in Nat /\ q[j].arglen \in Int
               /\ Ready(sent, q[j], n) /\ q[j + 1] = Parse(sent, q[j])
    <3>1. CASE j = k
      <4>1. q[j] = c /\ q[j + 1] = d
        BY <1>2, <1>3, <1>4, <3>1
      <4> QED BY <4>1
    <3>2. CASE j # k
      <4>1. j \in 0..(k - 1) /\ q[j] = p[j] /\ q[j + 1] = p[j + 1]
        BY <1>3, <3>2
      <4> QED BY <1>2, <4>1 DEF Path
    <3> QED BY <3>1, <3>2
  <2> QED BY <2>1, <2>2 DEF Path
<1> QED BY <1>4, <1>5 DEF Led

(* More bytes leave a path as it is. *)
LEMMA Longer ==
  ASSUME NEW n \in Nat, NEW m \in Nat, n <= m, NEW c, Led(sent, c, n), Progress(c, n) \in Int
  PROVE  Led(sent, c, m)
<1>1. PICK k \in Nat : k <= Progress(c, n) /\ \E p : Path(sent, p, k, n) /\ p[k] = c
  BY DEF Led
<1>2. PICK p : Path(sent, p, k, n) /\ p[k] = c
  BY <1>1
<1>3. Progress(c, m) \in Int /\ Progress(c, n) <= Progress(c, m)
  BY DEF Progress
<1>4. ASSUME NEW j \in 0..(k - 1) PROVE Ready(sent, p[j], m)
  <2>1. p[j].at \in Nat /\ p[j].arglen \in Int /\ Ready(sent, p[j], n)
    BY <1>2 DEF Path
  <2>2. ~p[j].closing
    BY <2>1 DEF Ready
  <2>3. ASSUME AtLine(p[j]) PROVE \E i \in (p[j].at + 1)..(m - 1) : sent[i] = "\r"
    <3>1. PICK i \in (p[j].at + 1)..(n - 1) : sent[i] = "\r"
      BY <2>1, <2>3 DEF Ready
    <3>2. i \in (p[j].at + 1)..(m - 1)
      BY <2>1
    <3> QED BY <3>1, <3>2
  <2>4. ASSUME ~AtLine(p[j]), Len(p[j].argv) < p[j].argc
        PROVE  p[j].at + p[j].arglen + 2 <= m
    <3>1. p[j].at + p[j].arglen + 2 <= n
      BY <2>1, <2>4 DEF Ready
    <3> QED BY <2>1, <3>1
  <2> QED BY <2>2, <2>3, <2>4 DEF Ready
<1>5. Path(sent, p, k, m)
  BY <1>2, <1>4 DEF Path
<1> QED BY <1>1, <1>2, <1>3, <1>5 DEF Led

(* The recursive definition of Outcome. *)
IsRun(s, g, n) ==
  g = [k \in Nat |-> IF k = 0 THEN Fresh ELSE ParseReady(s, g[k - 1], n)]

LEMMA OneRun ==
  ASSUME NEW n \in Nat, NEW f, NEW g, IsRun(sent, f, n), IsRun(sent, g, n)
  PROVE  \A k \in Nat : f[k] = g[k]
<1> DEFINE S == {k \in Nat : f[k] # g[k]}
<1> SUFFICES ASSUME S # {} PROVE FALSE
  OBVIOUS
<1>1. PICK x \in S : \A y \in S : x <= y
  BY Minimum
<1>2. \A k \in Nat : /\ f[k] = IF k = 0 THEN Fresh ELSE ParseReady(sent, f[k - 1], n)
                     /\ g[k] = IF k = 0 THEN Fresh ELSE ParseReady(sent, g[k - 1], n)
  BY DEF IsRun
<1>3. x \in Nat /\ f[x] # g[x]
  OBVIOUS
<1>4. x # 0
  BY <1>2, <1>3
<1>5. x - 1 \in Nat /\ ~(x <= x - 1)
  BY <1>3, <1>4
<1>6. f[x - 1] = g[x - 1]
  BY <1>1, <1>5
<1> QED BY <1>2, <1>3, <1>4, <1>6

(* A path that can go no further ends where one pass over the bytes does. *)
LEMMA Arrival ==
  ASSUME NEW n \in Nat, NEW c, Led(sent, c, n), ~Ready(sent, c, n),
         Progress(c, n) \in Int, Progress(c, n) <= 2 * n + 1
  PROVE  Outcome(sent, n) = c
<1>1. PICK k \in Nat : k <= Progress(c, n) /\ \E p : Path(sent, p, k, n) /\ p[k] = c
  BY DEF Led
<1>2. PICK p : Path(sent, p, k, n) /\ p[k] = c
  BY <1>1
<1> DEFINE g == [j \in Nat |-> IF j <= k THEN p[j] ELSE c]
<1>3. \A j \in Nat : g[j] = IF j <= k THEN p[j] ELSE c
  OBVIOUS
<1>3a. g = [j \in Nat |-> g[j]]
  OBVIOUS
<1> HIDE DEF g
<1>4. ASSUME NEW j \in Nat PROVE g[j] = IF j = 0 THEN Fresh ELSE ParseReady(sent, g[j - 1], n)
  <2>1. CASE j = 0
    <3>1. g[j] = p[0]
      BY <1>3, <2>1
    <3> QED BY <1>2, <2>1, <3>1 DEF Path
  <2>2. CASE j # 0 /\ j <= k
    <3>1. j - 1 \in 0..(k - 1) /\ g[j] = p[j] /\ g[j - 1] = p[j - 1] /\ (j - 1) + 1 = j
      BY <1>3, <2>2
    <3>2. Ready(sent, p[j - 1], n) /\ p[(j - 1) + 1] = Parse(sent, p[j - 1])
      BY <1>2, <3>1 DEF Path
    <3> QED BY <2>2, <3>1, <3>2 DEF ParseReady
  <2>3. CASE k < j
    <3>1. g[j] = c /\ j - 1 \in Nat /\ k <= j - 1 /\ j # 0
      BY <1>3, <2>3
    <3>2. g[j - 1] = c
      BY <1>2, <1>3, <3>1
    <3> QED BY <3>1, <3>2 DEF ParseReady
  <2> QED BY <2>1, <2>2, <2>3
<1>5. IsRun(sent, g, n)
  <2>1. [j \in Nat |-> g[j]]
          = [j \in Nat |-> IF j = 0 THEN Fresh ELSE ParseReady(sent, g[j - 1], n)]
    BY <1>4
  <2> QED BY <1>3a, <2>1 DEF IsRun
<1> DEFINE run[j \in Nat] == IF j = 0 THEN Fresh ELSE ParseReady(sent, run[j - 1], n)
<1>6. Outcome(sent, n) = run[2 * n + 1]
  BY DEF Outcome
<1>7. run = CHOOSE f : IsRun(sent, f, n)
  BY DEF IsRun
<1>8. IsRun(sent, run, n)
  <2> HIDE DEF run
  <2> QED BY <1>5, <1>7, Zenon
<1> HIDE DEF run
<1>9. 2 * n + 1 \in Nat /\ k <= 2 * n + 1
  BY <1>1
<1>10. g[2 * n + 1] = c
  BY <1>2, <1>3, <1>9
<1>11. run[2 * n + 1] = g[2 * n + 1]
  BY <1>5, <1>8, <1>9, OneRun
<1> QED BY <1>6, <1>10, <1>11
----------------------------------------------------------------------------
(* The buffer and the stream: the bytes that were trimmed from it. *)
Gone == nread - Len(req.data)

LEMMA GoneType ==
  ASSUME Inv
  PROVE  /\ sent \in Seq(STRING) /\ Len(sent) \in Nat /\ nread \in Nat /\ nread <= Len(sent)
         /\ req.data \in Seq(STRING) /\ Len(req.data) \in Nat
         /\ Gone \in Nat /\ Gone + Len(req.data) = nread
  BY DEF Inv, TypeOK, BufferIsInput, Gone

LEMMA SameByte ==
  ASSUME Inv, NEW i \in 1..Len(req.data)
  PROVE  req.data[i] = sent[Gone + i]
<1> DEFINE a == nread - Len(req.data)
<1>1. /\ sent \in Seq(STRING) /\ nread \in Nat /\ nread <= Len(sent) /\ Len(sent) \in Nat
      /\ Len(req.data) \in Nat /\ Len(req.data) <= nread
      /\ req.data = SubSeq(sent, a + 1, nread)
  BY DEF Inv, TypeOK, BufferIsInput
<1> HIDE DEF a
<1>2. a \in Nat /\ a <= nread /\ nread - a = Len(req.data)
  BY <1>1 DEF a
<1>3. \A j \in 1..(nread - a) : SubSeq(sent, a + 1, nread)[j] = sent[a + j]
  BY <1>1, <1>2, Piece
<1>4. req.data[i] = sent[a + i]
  BY <1>1, <1>2, <1>3
<1> QED BY <1>4 DEF a, Gone

LEMMA SamePiece ==
  ASSUME Inv, NEW p \in Nat, NEW l \in Nat, p + l <= Len(req.data)
  PROVE  SubSeq(req.data, p + 1, p + l)
           = SubSeq(sent, (Gone + p) + 1, (Gone + p) + l)
<1> DEFINE a == Gone + p
           d == SubSeq(req.data, p + 1, p + l)
           e == SubSeq(sent, a + 1, a + l)
<1>1. /\ sent \in Seq(STRING) /\ nread \in Nat /\ nread <= Len(sent) /\ Len(sent) \in Nat
      /\ req.data \in Seq(STRING) /\ Len(req.data) \in Nat
      /\ Gone \in Nat /\ Gone + Len(req.data) = nread
  BY GoneType
<1>2. a \in Nat /\ a + l \in Nat /\ a <= a + l /\ a + l <= Len(sent) /\ (a + l) - a = l
  BY <1>1
<1>3. p + l \in Nat /\ p <= p + l /\ (p + l) - p = l
  OBVIOUS
<1>4. d \in Seq(STRING) /\ Len(d) = l /\ \A i \in 1..l : d[i] = req.data[p + i]
  BY <1>1, <1>3, Piece
<1>5. \A i \in 1..l : p + i \in 1..Len(req.data) /\ Gone + (p + i) = a + i
  BY <1>1
<1> HIDE DEF a
<1>6. e \in Seq(STRING) /\ Len(e) = l /\ \A i \in 1..l : e[i] = sent[a + i]
  BY <1>1, <1>2, Piece
<1>7. \A i \in 1..l : req.data[p + i] = sent[a + i]
  BY <1>5, SameByte
<1> HIDE DEF d, e
<1>8. d = e
  BY <1>4, <1>6, <1>7, SeqEqual
<1> QED BY <1>8 DEF d, e, a

(* A line in the buffer is a line of the stream. *)
LEMMA SameLine ==
  ASSUME Inv, NEW p \in Nat, p <= Len(req.data)
  PROVE  /\ Line(p) <=> \E i \in (Gone + p + 1)..(nread - 1) : sent[i] = "\r"
         /\ Line(p) => /\ Newline(p) \in Nat /\ p < Newline(p)
                       /\ Newline(p) + 1 <= Len(req.data)
                       /\ LineEnd(sent, Gone + p) = Gone + Newline(p)
                       /\ ValueAt(sent, Gone + p) = LineNumber(p)
                       /\ sent[Gone + p + 1] = req.data[p + 1]
<1> DEFINE a == Gone + p
           b == Gone
           L == Len(req.data)
           N == Newline(p)
<1> HIDE DEF a, b, L, N
<1>1. /\ nread \in Nat /\ nread <= Len(sent) /\ Len(sent) \in Nat
      /\ L \in Nat /\ L <= nread /\ b \in Nat /\ b + L = nread /\ a \in Nat /\ a = b + p
  BY GoneType DEF a, b, L
<1>2. \A i \in 1..L : req.data[i] = sent[b + i]
  BY SameByte DEF b, L
<1>3. Newlines(p) = {i \in (p + 1)..L : sent[b + i] = "\r"}
  <2>1. \A i \in (p + 1)..L : i \in 1..L
    BY <1>1
  <2> QED BY <1>2, <2>1 DEF Newlines, L
<1>4. ASSUME Newlines(p) # {}
      PROVE  N \in Newlines(p) /\ \A j \in Newlines(p) : N <= j
  <2>1. Newlines(p) \in SUBSET Nat
    BY <1>1, <1>3
  <2>2. \E i \in Newlines(p) : \A j \in Newlines(p) : i <= j
    BY <1>4, <2>1, Minimum
  <2> QED BY <2>2 DEF Newline, N
<1>5. ASSUME Line(p) PROVE \E i \in (a + 1)..(nread - 1) : sent[i] = "\r"
  <2>1. N \in (p + 1)..L /\ sent[b + N] = "\r" /\ N + 1 <= L
    BY <1>3, <1>4, <1>5 DEF Line, L, N
  <2>2. b + N \in (a + 1)..(nread - 1)
    BY <1>1, <2>1
  <2> QED BY <2>1, <2>2
<1>6. ASSUME NEW i \in (a + 1)..(nread - 1), sent[i] = "\r" PROVE Line(p)
  <2> DEFINE k == i - b
  <2>1. k \in (p + 1)..L /\ b + k = i /\ k + 1 <= L
    BY <1>1
  <2>2. k \in Newlines(p)
    BY <1>3, <1>6, <2>1
  <2>3. N \in (p + 1)..L /\ N <= k
    BY <1>3, <1>4, <2>2
  <2>4. N + 1 <= L
    BY <1>1, <2>1, <2>3
  <2> QED BY <2>2, <2>4 DEF Line, L, N
<1>7. ASSUME Line(p)
      PROVE  /\ N \in Nat /\ p < N /\ N + 1 <= L /\ LineEnd(sent, a) = b + N
             /\ ValueAt(sent, a) = LineNumber(p) /\ sent[a + 1] = req.data[p + 1]
  <2>1. N \in (p + 1)..L /\ sent[b + N] = "\r" /\ N + 1 <= L
        /\ \A j \in Newlines(p) : N <= j
    BY <1>3, <1>4, <1>7 DEF Line, L, N
  <2>2. N \in Nat /\ p < N
    BY <1>1, <2>1
  <2> DEFINE First(i) == sent[i] = "\r" /\ \A j \in (a + 1)..(i - 1) : sent[j] # "\r"
  <2>3. b + N \in (a + 1)..Len(sent)
    BY <1>1, <2>1
  <2>4. First(b + N)
    <3> SUFFICES ASSUME NEW j \in (a + 1)..((b + N) - 1), sent[j] = "\r" PROVE FALSE
      BY <2>1
    <3>1. j - b \in (p + 1)..L /\ b + (j - b) = j /\ ~(N <= j - b)
      BY <1>1, <2>1
    <3>2. j - b \in Newlines(p)
      BY <1>3, <3>1
    <3> QED BY <2>1, <3>1, <3>2
  <2>5. ASSUME NEW i \in (a + 1)..Len(sent), First(i) PROVE i = b + N
    <3>1. ~(b + N < i)
      <4>1. CASE b + N < i
        <5>1. b + N \in (a + 1)..(i - 1)
          BY <1>1, <2>1, <4>1
        <5> QED BY <2>1, <2>5, <5>1
      <4> QED BY <4>1
    <3>2. ~(i < b + N)
      <4>1. CASE i < b + N
        <5>1. i \in (a + 1)..((b + N) - 1)
          BY <1>1, <2>1, <4>1
        <5> QED BY <2>4, <2>5, <5>1
      <4> QED BY <4>1
    <3> QED BY <1>1, <2>2, <3>1, <3>2
  <2>6. LineEnd(sent, a) = CHOOSE i \in (a + 1)..Len(sent) : First(i)
    BY DEF LineEnd
  <2> HIDE DEF First
  <2>7. LineEnd(sent, a) = b + N
    BY <2>3, <2>4, <2>5, <2>6
  <2>8. sent[a + 1] = req.data[p + 1]
    <3>1. p + 1 \in 1..L /\ b + (p + 1) = a + 1
      BY <1>1, <2>1
    <3> QED BY <1>2, <3>1
  <2>9. SubSeq(req.data, p + 2, N - 1) = SubSeq(sent, a + 2, (b + N) - 1)
    <3>1. CASE N = p + 1
      <4>1. /\ p + 2 \in Int /\ N - 1 \in Int /\ N - 1 < p + 2
            /\ a + 2 \in Int /\ (b + N) - 1 \in Int /\ (b + N) - 1 < a + 2
        BY <1>1, <3>1
      <4> QED BY <4>1, SubSeqEmpty
    <3>2. CASE N # p + 1
      <4> DEFINE l == N - (p + 2)
                 q == p + 1
      <4>1. l \in Nat /\ q \in Nat /\ q + l <= L /\ q + 1 = p + 2 /\ q + l = N - 1
        BY <1>1, <2>1, <2>2, <3>2
      <4>2. (b + q) + 1 = a + 2 /\ (b + q) + l = (b + N) - 1
        BY <1>1, <2>2, <3>2
      <4> HIDE DEF l, q
      <4>3. SubSeq(req.data, q + 1, q + l) = SubSeq(sent, (b + q) + 1, (b + q) + l)
        BY <4>1, SamePiece DEF b, L
      <4> QED BY <4>1, <4>2, <4>3
    <3> QED BY <3>1, <3>2
  <2>10. ValueAt(sent, a) = LineNumber(p)
    BY <2>7, <2>9 DEF ValueAt, LineNumber, N
  <2> QED BY <2>1, <2>2, <2>7, <2>8, <2>10
<1> QED BY <1>5, <1>6, <1>7 DEF a, b, L, N
----------------------------------------------------------------------------
(* What the parser knows of the command it is in, at each of its places. *)
Shape ==
  /\ argc \in Nat /\ closing \in BOOLEAN
  /\ pc = "argument" => argc # 0
  /\ pc = "header" => argc = 0
  /\ pc \in {"header", "argument"} => ~closing
  /\ argc = 0 => argv = <<>> /\ arglen = -1
  /\ pc # "argument" /\ argc # 0 /\ ~closing => Len(argv) < argc

(* The parser is on the path of one pass over what was read, and between   *)
(* two reads at its end.                                                   *)
OnPath ==
  /\ Led(sent, Here, nread)
  /\ open /\ pc = "idle" => ~Ready(sent, Here, nread)

LEMMA HereValue ==
  ASSUME Inv, Shape, ~closing
  PROVE  /\ Here = At(Offset, argc, argv, arglen, executed)
         /\ Offset \in Nat /\ Offset <= nread
         /\ Offset = Gone + (IF pc = "argument" THEN pos ELSE 0)
         /\ Here.at = Offset /\ Here.argc = argc /\ Here.argv = argv /\ Here.arglen = arglen
         /\ Here.executed = executed /\ Here.closing = FALSE
         /\ Progress(Here, nread) = 2 * Offset - (IF argc = 0 THEN 0 ELSE 1)
<1>1. Here = At(Offset, argc, argv, arglen, executed)
  BY DEF Here
<1>2. Offset = Gone + (IF pc = "argument" THEN pos ELSE 0)
  BY DEF Offset, Gone
<1>3. Offset \in Nat /\ Offset <= nread
  <2>1. pos \in Nat /\ (pc = "argument" => pos <= Len(req.data))
    BY DEF Inv, TypeOK, PositionInside
  <2> QED BY <1>2, <2>1, GoneType
<1>4. /\ Here.at = Offset /\ Here.argc = argc /\ Here.argv = argv /\ Here.arglen = arglen
      /\ Here.executed = executed /\ Here.closing = FALSE
  BY <1>1 DEF At
<1>5. Progress(Here, nread) = 2 * Offset - (IF argc = 0 THEN 0 ELSE 1)
  BY <1>4 DEF Progress
<1> QED BY <1>1, <1>2, <1>3, <1>4, <1>5

LEMMA HereBound ==
  ASSUME Inv, Shape
  PROVE  Progress(Here, nread) \in Int /\ Progress(Here, nread) <= 2 * nread + 1
<1>1. nread \in Nat
  BY DEF Inv, TypeOK
<1>2. CASE closing
  <2>1. Here = Stop(executed)
    BY <1>2 DEF Here
  <2>2. Progress(Here, nread) = 2 * nread + 1
    BY <2>1 DEF Progress, Stop
  <2> QED BY <1>1, <2>2
<1>3. CASE ~closing
  BY <1>1, <1>3, HereValue
<1> QED BY <1>2, <1>3

(* A step of the parser is a step of the path, to its end ... *)
LEMMA AdvanceStop ==
  ASSUME Inv, Shape, ~closing, Led(sent, Here, nread), Ready(sent, Here, nread), NEW x,
         Parse(sent, Here) = Stop(x)
  PROVE  Led(sent, Stop(x), nread)
<1>1. nread \in Nat /\ arglen \in Int
  BY DEF Inv, TypeOK
<1>2. Progress(Stop(x), nread) = 2 * nread + 1
  BY DEF Progress, Stop
<1>3. /\ Here.at \in Nat /\ Here.arglen \in Int /\ Progress(Here, nread) \in Int
      /\ Progress(Here, nread) < 2 * nread + 1
  BY <1>1, HereValue
<1>4. Progress(Stop(x), nread) \in Int
  BY <1>1, <1>2
<1> QED BY <1>1, <1>2, <1>3, <1>4, Extend

(* ... or further. *)
LEMMA AdvanceTo ==
  ASSUME Inv, Shape, ~closing, Led(sent, Here, nread), Ready(sent, Here, nread),
         NEW q \in Nat, NEW ac, NEW av, NEW al, NEW x,
         Parse(sent, Here) = At(q, ac, av, al, x),
         Offset < q \/ (Offset = q /\ argc # 0 /\ ac = 0)
  PROVE  Led(sent, At(q, ac, av, al, x), nread)
<1>1. nread \in Nat /\ arglen \in Int
  BY DEF Inv, TypeOK
<1> DEFINE d == At(q, ac, av, al, x)
<1>2. Progress(d, nread) = 2 * q - (IF ac = 0 THEN 0 ELSE 1)
  BY DEF Progress, At
<1>3. /\ Here.at \in Nat /\ Here.arglen \in Int /\ Offset \in Nat
      /\ Progress(Here, nread) = 2 * Offset - (IF argc = 0 THEN 0 ELSE 1)
  BY <1>1, HereValue
<1> HIDE DEF d
<1>4. /\ Progress(d, nread) \in Int /\ Progress(Here, nread) \in Int
      /\ Progress(Here, nread) < Progress(d, nread)
  BY <1>2, <1>3
<1>5. Led(sent, d, nread)
  BY <1>1, <1>3, <1>4, Extend DEF d
<1> QED BY <1>5 DEF d

(* What is next, at the two places where a line is read and at the others. *)
LEMMA ReadyLine ==
  ASSUME Inv, Shape, ~closing, AtLine(Here), NEW p \in Nat, p <= Len(req.data),
         Offset = Gone + p
  PROVE  Ready(sent, Here, nread) <=> Line(p)
<1>1. Here.at = Offset /\ Here.closing = FALSE
  BY HereValue
<1>2. Line(p) <=> \E i \in (Gone + p + 1)..(nread - 1) : sent[i] = "\r"
  BY SameLine
<1> QED BY <1>1, <1>2 DEF Ready

LEMMA ReadyArgument ==
  ASSUME Inv, Shape, ~closing, ~AtLine(Here), Len(argv) < argc
  PROVE  Ready(sent, Here, nread) <=> Offset + arglen + 2 <= nread
<1>1. Here.at = Offset /\ Here.closing = FALSE /\ Here.argv = argv /\ Here.argc = argc
      /\ Here.arglen = arglen
  BY HereValue
<1> QED BY <1>1 DEF Ready

LEMMA HereAtLine ==
  ASSUME Inv, Shape, ~closing
  PROVE  AtLine(Here) <=> argc = 0 \/ (Len(argv) < argc /\ arglen = -1)
  BY HereValue DEF AtLine

LEMMA ParseHere ==
  ASSUME Inv, Shape, ~closing
  PROVE  LET v == ValueAt(sent, Offset)
             next == LineEnd(sent, Offset) + 1
             done == Append(executed, argv)
         IN  /\ argc = 0 =>
                  Parse(sent, Here) = IF v = Failed \/ v > MaxArgs THEN Stop(executed)
                                ELSE At(next, IF v <= 0 THEN 0 ELSE v, <<>>, -1, executed)
             /\ argc # 0 /\ AtLine(Here) =>
                  Parse(sent, Here) = IF sent[Offset + 1] # "$" \/ v = Failed \/ v \notin 0..MaxBulk
                                  THEN Stop(executed)
                                ELSE At(next, argc, argv, v, executed)
             /\ ~AtLine(Here) /\ Len(argv) < argc =>
                  Parse(sent, Here) = At(Offset + arglen + 2, argc,
                     Append(argv, SubSeq(sent, Offset + 1, Offset + arglen)), -1, executed)
             /\ ~AtLine(Here) /\ ~(Len(argv) < argc) =>
                  Parse(sent, Here) = IF argv[1] = <<"q">> THEN Stop(done)
                                ELSE At(Offset, 0, <<>>, -1, done)
<1>1. /\ Here.at = Offset /\ Here.argc = argc /\ Here.argv = argv /\ Here.arglen = arglen
      /\ Here.executed = executed
  BY HereValue
<1>2. ~AtLine(Here) => argc # 0
  BY HereAtLine
<1> QED BY <1>1, <1>2 DEF Parse

LEMMA ShapeStep ==
  ASSUME Inv, Shape, [Next]_vars
  PROVE  Shape'
<1> USE DEF Shape
<1>1. CASE Read
  <2>1. pc = "idle" /\ pc' \in {"idle", "loop"} /\ UNCHANGED <<argc, argv, arglen, closing>>
    BY <1>1 DEF Read, ReadRequest, parser
  <2> QED BY <2>1
<1>2. CASE Disconnect
  BY <1>2 DEF Disconnect, parser
<1>3. CASE ProcessRequestBuffer
  BY <1>3 DEF ProcessRequestBuffer, parser
<1>4. CASE ParseHeader
  <2>0. pc = "header" /\ argc = 0 /\ argv = <<>> /\ arglen = -1 /\ closing = FALSE
    BY <1>4 DEF ParseHeader
  <2>1. CASE Return(0) /\ UNCHANGED parser /\ closing' \in {closing, TRUE}
    BY <2>0, <2>1 DEF Return, parser
  <2>2. CASE argc' = 0 /\ argv' = <<>> /\ arglen' = -1 /\ pc' = "loop" /\ closing' = closing
    BY <2>0, <2>2
  <2>3. CASE /\ argc' \in 1..MaxArgs /\ argv' = <<>> /\ pc' = "argument"
             /\ UNCHANGED <<arglen, closing>>
    <3>1. argc' \in Nat /\ argc' # 0
      BY <2>3, RequestAssumption
    <3> QED BY <2>0, <2>3, <3>1
  <2> QED BY <1>4, <2>1, <2>2, <2>3 DEF ParseHeader
<1>5. CASE ParseLength
  <2>0. pc = "argument" /\ argc # 0 /\ Len(argv) < argc /\ closing = FALSE
    BY <1>5 DEF ParseLength
  <2>1. CASE pc' = "idle" /\ UNCHANGED parser /\ closing' \in {closing, TRUE}
    BY <2>0, <2>1 DEF parser
  <2>2. CASE UNCHANGED <<argc, argv, pc, closing>>
    BY <2>0, <2>2
  <2> QED BY <1>5, <2>1, <2>2 DEF ParseLength, ProtocolError, Return
<1>6. CASE ParseArgument
  <2>0. pc = "argument" /\ argc # 0 /\ Len(argv) < argc /\ closing = FALSE
    BY <1>6 DEF ParseArgument
  <2>1. CASE Enough
    BY <1>6, <2>0, <2>1 DEF ParseArgument
  <2>2. CASE ~Enough
    BY <1>6, <2>0, <2>2 DEF ParseArgument, Return
  <2> QED BY <2>1, <2>2
<1>7. CASE ProcessCommand
  <2>0. pc = "argument" /\ pc' = "loop" /\ argc # 0
    BY <1>7 DEF ProcessCommand
  <2>1. CASE closing' = TRUE /\ UNCHANGED <<argc, argv, arglen>>
    BY <2>0, <2>1
  <2>2. CASE argc' = 0 /\ argv' = <<>> /\ arglen' = -1 /\ closing' = closing
    BY <2>0, <2>2
  <2> QED BY <1>7, <2>1, <2>2 DEF ProcessCommand, parser
<1>8. CASE UNCHANGED vars
  BY <1>8 DEF vars
<1> QED BY <1>1, <1>2, <1>3, <1>4, <1>5, <1>6, <1>7, <1>8 DEF Next

(* What is trimmed is gone. *)
LEMMA Trimmed ==
  ASSUME Inv, NEW p \in Nat, p <= Len(req.data), nread' = nread,
         req' = remove_front(req, p) \/ Return(p)
  PROVE  Gone' = Gone + p
<1>1. /\ req \in [data : Seq(STRING), cap : Nat] /\ Holds(req)
      /\ nread \in Nat /\ Len(req.data) \in Nat
  BY DEF Inv, TypeOK, MemoryFollowsUse, Holds
<1> DEFINE b == remove_front(req, p)
<1>2. b.data \in Seq(STRING) /\ Len(b.data) = Len(req.data) - p
  BY <1>1, Removed
<1> HIDE DEF b
<1>3. b.data = <<>> => Len(EmptyBuffer.data) = Len(b.data)
  BY DEF EmptyBuffer
<1>4. Len(req'.data) = Len(req.data) - p
  <2>1. CASE req' = b
    BY <1>2, <2>1
  <2>2. CASE Return(p)
    <3>1. req' = IF b.data = <<>> THEN EmptyBuffer ELSE b
      BY <2>2 DEF Return, b
    <3> QED BY <1>2, <1>3, <3>1
  <2> QED BY <2>1, <2>2 DEF b
<1> QED BY <1>1, <1>4 DEF Gone

(* The parser waits for more and forgets nothing. *)
LEMMA WaitStep ==
  ASSUME Inv, Shape, ~closing, Led(sent, Here, nread), ~Ready(sent, Here, nread),
         pc' = "idle", UNCHANGED <<sent, nread, argc, argv, arglen, closing, executed>>,
         Gone' = Offset
  PROVE  OnPath'
<1>1. Here = At(Offset, argc, argv, arglen, executed)
  BY HereValue
<1>2. Offset' = Offset
  <2>1. nread' - Len(req'.data) = Offset
    BY DEF Gone
  <2>2. Offset \in Nat
    BY HereValue
  <2>3. Offset' = (nread' - Len(req'.data)) + 0
    BY DEF Offset
  <2> QED BY <2>1, <2>2, <2>3
<1>3. Here' = Here
  BY <1>1, <1>2 DEF Here
<1> QED BY <1>3 DEF OnPath

(* The parser stops. *)
LEMMA StopStep ==
  ASSUME closing' = TRUE, UNCHANGED <<sent, nread>>, Led(sent, Stop(executed'), nread)
  PROVE  OnPath'
<1>1. Here' = Stop(executed')
  BY DEF Here
<1>2. Here'.closing
  BY <1>1 DEF Stop
<1>3. ~Ready(sent', Here', nread')
  BY <1>2 DEF Ready
<1> QED BY <1>1, <1>3 DEF OnPath

(* The parser goes on. *)
LEMMA GoOnStep ==
  ASSUME ~closing', pc' # "idle", UNCHANGED <<sent, nread>>,
         Led(sent, At(Offset', argc', argv', arglen', executed'), nread)
  PROVE  OnPath'
<1>1. Here' = At(Offset', argc', argv', arglen', executed')
  BY DEF Here
<1> QED BY <1>1 DEF OnPath

LEMMA PathStep ==
  ASSUME Inv, Inv', Shape, Shape', OnPath, [Next]_vars
  PROVE  OnPath'
<1>t. /\ nread \in Nat /\ pos \in Nat /\ arglen \in Nat \cup {-1} /\ argc \in Nat
      /\ Len(req.data) \in Nat /\ Gone \in Nat /\ Gone + Len(req.data) = nread
  BY GoneType DEF Inv, TypeOK, Shape
<1>l. Led(sent, Here, nread)
  BY DEF OnPath
<1>1. CASE Read
  <2>1. PICK n \in 1..MaxRead : nread + n <= Len(sent) /\ ReadRequest(n)
    BY <1>1 DEF Read
  <2>2. /\ UNCHANGED <<sent, argc, argv, arglen, closing, executed>> /\ nread' = nread + n
        /\ pc = "idle" /\ (pc' = "loop" \/ (pc' = "idle" /\ ~open'))
        /\ req' = append(req, SubSeq(sent, nread + 1, nread + n))
    BY <2>1 DEF ReadRequest, parser
  <2>3. n \in Nat /\ nread + n \in Nat /\ nread <= nread + n
    BY <1>t, <2>1, RequestAssumption
  <2>4. Gone' = Gone
    <3> DEFINE b == SubSeq(sent, nread + 1, nread + n)
    <3>1. b \in Seq(STRING) /\ Len(b) = n
      <4>1. (nread + n) - nread = n /\ sent \in Seq(STRING)
        BY <1>t, <2>3, GoneType
      <4> QED BY <1>t, <2>1, <2>3, <4>1, Piece
    <3>2. req \in [data : Seq(STRING), cap : Nat] /\ Holds(req) /\ req.data \in Seq(STRING)
      BY DEF Inv, TypeOK, MemoryFollowsUse, Holds
    <3> HIDE DEF b
    <3>3. req'.data = req.data \o b
      BY <2>2, <3>1, <3>2, Appended DEF b
    <3>4. Len(req'.data) = Len(req.data) + n
      BY <3>1, <3>2, <3>3, ConcatProperties
    <3>5. Gone' = (nread + n) - (Len(req.data) + n) /\ Gone = nread - Len(req.data)
      BY <2>2, <3>4 DEF Gone
    <3>6. Len(req.data) \in Nat /\ nread \in Nat
      BY <1>t
    <3> QED BY <2>3, <3>5, <3>6
  <2>5. Here' = Here
    <3>1. Offset = Gone + 0 /\ Offset' = Gone' + 0
      BY <2>2 DEF Offset, Gone
    <3> QED BY <2>2, <2>4, <3>1 DEF Here
  <2>6. Progress(Here, nread) \in Int
    BY HereBound
  <2>7. Led(sent, Here, nread + n)
    BY <1>l, <1>t, <2>3, <2>6, Longer
  <2> QED BY <2>2, <2>5, <2>7 DEF OnPath
<1>2. CASE Disconnect
  <2>1. UNCHANGED <<sent, nread, req, argc, argv, arglen, pos, pc, closing, executed>> /\ ~open'
    BY <1>2 DEF Disconnect, parser
  <2>2. Here' = Here
    BY <2>1 DEF Here, Offset
  <2> QED BY <1>l, <2>1, <2>2 DEF OnPath
<1>3. CASE ProcessRequestBuffer
  <2>0. pc = "loop" /\ pos' = 0 /\ UNCHANGED <<sent, nread, argc, argv, arglen, closing, executed>>
    BY <1>3 DEF ProcessRequestBuffer, parser
  <2>1. CASE closing
    <3>1. Here = Stop(executed) /\ closing' = TRUE /\ executed' = executed
      BY <2>0, <2>1 DEF Here, Shape
    <3> QED BY <1>l, <2>0, <3>1, StopStep
  <2>2. CASE ~closing /\ req.data = <<>>
    <3>1. pc' = "idle" /\ req' = EmptyBuffer
      BY <1>3, <2>2 DEF ProcessRequestBuffer
    <3>2. Gone = nread /\ Gone' = nread /\ Offset = nread
      <4>1. Len(req.data) = 0 /\ Len(req'.data) = 0
        BY <2>2, <3>1 DEF EmptyBuffer
      <4>2. Offset = Gone
        BY <1>t, <2>0, <2>2, HereValue
      <4> QED BY <1>t, <2>0, <4>1, <4>2 DEF Gone
    <3>3. ~Ready(sent, Here, nread)
      <4>1. CASE AtLine(Here)
        <5>1. ~\E i \in (nread + 1)..(nread - 1) : sent[i] = "\r"
          BY <1>t
        <5>2. Here.at = nread
          BY <2>2, <3>2, HereValue
        <5> QED BY <4>1, <5>1, <5>2 DEF Ready
      <4>2. CASE ~AtLine(Here)
        <5>1. Len(argv) < argc /\ arglen # -1
          BY <2>0, <2>2, <4>2, HereAtLine DEF Shape
        <5>2. ~(Offset + arglen + 2 <= nread)
          BY <1>t, <3>2, <5>1
        <5> QED BY <2>2, <4>2, <5>1, <5>2, ReadyArgument
      <4> QED BY <4>1, <4>2
    <3> QED BY <1>l, <2>0, <2>2, <3>1, <3>2, <3>3, WaitStep
  <2>3. CASE ~closing /\ req.data # <<>>
    <3>1. pc' \in {"header", "argument"} /\ req' = req
      BY <1>3, <2>3 DEF ProcessRequestBuffer
    <3>2. Offset' = Offset
      <4>1. Offset = Gone /\ Gone \in Nat
        BY <1>t, <2>0, <2>3, HereValue
      <4>2. Offset' = (nread - Len(req.data)) + (IF pc' = "argument" THEN 0 ELSE 0)
        BY <2>0, <3>1 DEF Offset
      <4>3. Offset' = Gone + 0
        BY <4>2 DEF Gone
      <4> QED BY <4>1, <4>3
    <3>3. At(Offset', argc', argv', arglen', executed') = Here
      BY <2>0, <2>3, <3>2, HereValue
    <3>4. ~closing' /\ pc' # "idle"
      BY <2>0, <2>3, <3>1
    <3> QED BY <1>l, <2>0, <3>3, <3>4, GoOnStep
  <2> QED BY <2>1, <2>2, <2>3
<1>4. CASE ParseHeader
  <2>0. /\ pc = "header" /\ argc = 0 /\ argv = <<>> /\ arglen = -1 /\ ~closing
        /\ UNCHANGED <<sent, nread, executed>>
    BY <1>4 DEF ParseHeader, Shape
  <2>1. Offset = Gone /\ AtLine(Here) /\ Offset = Gone + 0 /\ 0 \in Nat /\ 0 <= Len(req.data)
    BY <1>t, <2>0, HereValue, HereAtLine
  <2>2. Ready(sent, Here, nread) <=> Line(0)
    BY <2>0, <2>1, ReadyLine
  <2> DEFINE v == LineNumber(0)
             N == Newline(0)
  <2>3. ASSUME Line(0)
        PROVE  /\ N \in Nat /\ 0 < N /\ N + 1 <= Len(req.data)
               /\ LineEnd(sent, Offset) = Offset + N /\ ValueAt(sent, Offset) = v
    <3>1. Gone + 0 = Offset
      BY <2>1
    <3> QED BY <2>1, <2>3, <3>1, SameLine
  <2>4. ASSUME Line(0)
        PROVE  Parse(sent, Here) = IF v = Failed \/ v > MaxArgs THEN Stop(executed)
                 ELSE At((Offset + N) + 1, IF v <= 0 THEN 0 ELSE v, <<>>, -1, executed)
    BY <2>0, <2>3, <2>4, ParseHere
  <2> HIDE DEF v, N
  <2>5. CASE ~Line(0) /\ Return(0) /\ UNCHANGED <<parser, pos, closing>>
    <3>1. Gone' = Gone + 0
      BY <2>0, <2>1, <2>5, Trimmed
    <3>2. pc' = "idle" /\ UNCHANGED <<argc, argv, arglen, closing>>
      BY <2>5 DEF Return, parser
    <3>3. Gone' = Offset
      BY <2>1, <3>1
    <3> QED BY <1>l, <2>0, <2>2, <2>5, <3>2, <3>3, WaitStep
  <2>6. CASE Line(0) /\ (v = Failed \/ v > MaxArgs) /\ closing' = TRUE
    <3>1. Parse(sent, Here) = Stop(executed)
      BY <2>4, <2>6
    <3>2. Led(sent, Stop(executed), nread)
      BY <1>l, <2>0, <2>2, <2>6, <3>1, AdvanceStop
    <3> QED BY <2>0, <2>6, <3>2, StopStep
  <2>7. CASE /\ Line(0) /\ ~(v = Failed \/ v > MaxArgs) /\ v <= 0
             /\ req' = remove_front(req, N + 1)
             /\ argc' = 0 /\ argv' = <<>> /\ arglen' = -1 /\ pc' = "loop" /\ closing' = closing
    <3>1. N + 1 \in Nat /\ N + 1 <= Len(req.data)
      BY <2>3, <2>7
    <3>2. Gone' = Gone + (N + 1)
      BY <2>0, <2>7, <3>1, Trimmed
    <3>3. Offset' = Gone' + 0
      BY <2>7 DEF Offset, Gone
    <3>4. Offset' = (Offset + N) + 1 /\ (Offset + N) + 1 \in Nat /\ Offset < (Offset + N) + 1
      BY <1>t, <2>1, <2>3, <2>7, <3>1, <3>2, <3>3
    <3>5. Parse(sent, Here) = At(Offset', 0, <<>>, -1, executed)
      BY <2>4, <2>7, <3>4
    <3>6. Led(sent, At(Offset', 0, <<>>, -1, executed), nread)
      BY <1>l, <2>0, <2>2, <2>7, <3>4, <3>5, AdvanceTo
    <3> QED BY <2>0, <2>7, <3>6, GoOnStep
  <2>8. CASE /\ Line(0) /\ v # Failed /\ v \in 1..MaxArgs
             /\ argc' = v /\ argv' = <<>> /\ pos' = N + 1 /\ pc' = "argument"
             /\ UNCHANGED <<req, arglen, closing>>
    <3>1. Offset' = Gone' + (N + 1) /\ Gone' = Gone
      BY <2>0, <2>8 DEF Offset, Gone
    <3>2. Offset' = (Offset + N) + 1 /\ (Offset + N) + 1 \in Nat /\ Offset < (Offset + N) + 1
      BY <1>t, <2>1, <2>3, <2>8, <3>1
    <3>3. ~(v > MaxArgs) /\ ~(v <= 0)
      BY <2>8, RequestAssumption
    <3>4. Parse(sent, Here) = At(Offset', v, <<>>, -1, executed)
      BY <2>4, <2>8, <3>2, <3>3
    <3>5. Led(sent, At(Offset', v, <<>>, -1, executed), nread)
      BY <1>l, <2>0, <2>2, <2>8, <3>2, <3>4, AdvanceTo
    <3> QED BY <2>0, <2>8, <3>5, GoOnStep
  <2> QED BY <1>4, <2>0, <2>5, <2>6, <2>7, <2>8 DEF ParseHeader, v, N
<1>5. CASE ParseLength
  <2>0. pc = "argument" /\ Len(argv) < argc /\ arglen = -1 /\ ~closing /\ argc # 0
        /\ UNCHANGED <<sent, nread>>
    BY <1>5 DEF ParseLength, ProtocolError, Shape
  <2>1. Offset = Gone + pos /\ AtLine(Here) /\ pos <= Len(req.data)
    BY <2>0, HereValue, HereAtLine DEF Inv, PositionInside
  <2>2. Ready(sent, Here, nread) <=> Line(pos)
    BY <1>t, <2>0, <2>1, ReadyLine
  <2> DEFINE v == LineNumber(pos)
             N == Newline(pos)
  <2>3. ASSUME Line(pos)
        PROVE  /\ N \in Nat /\ pos < N /\ N + 1 <= Len(req.data)
               /\ LineEnd(sent, Offset) = Gone + N /\ ValueAt(sent, Offset) = v
               /\ sent[Offset + 1] = req.data[pos + 1]
    BY <1>t, <2>1, <2>3, SameLine
  <2>4. ASSUME Line(pos)
        PROVE  Parse(sent, Here) =
                 IF req.data[pos + 1] # "$" \/ v = Failed \/ v \notin 0..MaxBulk
                   THEN Stop(executed)
                 ELSE At((Gone + N) + 1, argc, argv, v, executed)
    BY <2>0, <2>1, <2>3, <2>4, ParseHere
  <2> HIDE DEF v, N
  <2>5. CASE ~Line(pos) /\ Return(pos) /\ UNCHANGED <<parser, closing, executed>>
    <3>1. Gone' = Offset
      BY <1>t, <2>0, <2>1, <2>5, Trimmed
    <3>2. pc' = "idle" /\ UNCHANGED <<argc, argv, arglen, closing, executed>>
      BY <2>5 DEF Return, parser
    <3> QED BY <1>l, <2>0, <2>2, <2>5, <3>1, <3>2, WaitStep
  <2>6. CASE /\ Line(pos) /\ (req.data[pos + 1] # "$" \/ v = Failed \/ v \notin 0..MaxBulk)
             /\ closing' = TRUE /\ executed' = executed
    <3>1. Parse(sent, Here) = Stop(executed)
      BY <2>4, <2>6
    <3>2. Led(sent, Stop(executed), nread)
      BY <1>l, <2>0, <2>2, <2>6, <3>1, AdvanceStop
    <3> QED BY <2>0, <2>6, <3>2, StopStep
  <2>7. CASE /\ Line(pos) /\ req.data[pos + 1] = "$" /\ v # Failed /\ v \in 0..MaxBulk
             /\ arglen' = v /\ pos' = N + 1
             /\ UNCHANGED <<req, argc, argv, pc, closing, executed>>
    <3>1. Offset' = Gone' + (N + 1) /\ Gone' = Gone
      BY <2>0, <2>7 DEF Offset, Gone
    <3>a. Gone \in Nat /\ N \in Nat /\ pos \in Nat /\ pos < N /\ Offset = Gone + pos
      BY <1>t, <2>1, <2>3, <2>7
    <3>2. Offset' = (Gone + N) + 1 /\ (Gone + N) + 1 \in Nat /\ Offset < (Gone + N) + 1
      BY <3>1, <3>a
    <3>3. Parse(sent, Here) = At(Offset', argc, argv, v, executed)
      BY <2>4, <2>7, <3>2
    <3>4. Led(sent, At(Offset', argc, argv, v, executed), nread)
      BY <1>l, <2>0, <2>2, <2>7, <3>2, <3>3, AdvanceTo
    <3> QED BY <2>0, <2>7, <3>4, GoOnStep
  <2> QED BY <1>5, <2>5, <2>6, <2>7 DEF ParseLength, ProtocolError, v, N
<1>6. CASE ParseArgument
  <2>0. /\ pc = "argument" /\ Len(argv) < argc /\ arglen \in Nat /\ ~closing /\ argc # 0
        /\ UNCHANGED <<sent, nread, argc, closing, executed>>
    BY <1>t, <1>6 DEF ParseArgument, Shape
  <2>1. Offset = Gone + pos /\ ~AtLine(Here) /\ pos <= Len(req.data)
    <3>1. arglen # -1
      BY <2>0
    <3> QED BY <2>0, <3>1, HereValue, HereAtLine DEF Inv, PositionInside
  <2>2. Ready(sent, Here, nread) <=> Enough
    <3>1. Ready(sent, Here, nread) <=> Offset + arglen + 2 <= nread
      BY <2>0, <2>1, ReadyArgument
    <3>2. (Offset + arglen + 2 <= nread) <=> (Len(req.data) - pos >= arglen + 2)
      BY <1>t, <2>0, <2>1
    <3> QED BY <3>1, <3>2 DEF Enough
  <2>3. CASE Enough
    <3> DEFINE a == SubSeq(req.data, pos + 1, pos + arglen)
    <3>1. a = SubSeq(sent, Offset + 1, Offset + arglen)
      <4>1. pos + arglen <= Len(req.data)
        BY <1>t, <2>0, <2>3 DEF Enough
      <4> QED BY <1>t, <2>0, <2>1, <4>1, SamePiece
    <3>2. /\ argv' = Append(argv, a) /\ pos' = pos + arglen + 2 /\ arglen' = -1
          /\ UNCHANGED <<req, pc>>
      BY <1>6, <2>3 DEF ParseArgument
    <3> HIDE DEF a
    <3>3. Offset' = Gone' + (pos + arglen + 2) /\ Gone' = Gone
      BY <2>0, <3>2 DEF Offset, Gone
    <3>4. Offset' = Offset + arglen + 2 /\ Offset' \in Nat /\ Offset < Offset'
      BY <1>t, <2>0, <2>1, <3>3
    <3>5. Parse(sent, Here) = At(Offset', argc, Append(argv, a), -1, executed)
      BY <2>0, <2>1, <3>1, <3>4, ParseHere
    <3>6. Led(sent, At(Offset', argc, Append(argv, a), -1, executed), nread)
      BY <1>l, <2>0, <2>2, <2>3, <3>4, <3>5, AdvanceTo
    <3> QED BY <2>0, <3>2, <3>6, GoOnStep
  <2>4. CASE ~Enough
    <3>1. Return(pos) /\ UNCHANGED <<argv, arglen>>
      BY <1>6, <2>4 DEF ParseArgument
    <3>2. Gone' = Offset /\ pc' = "idle"
      BY <1>t, <2>0, <2>1, <3>1, Trimmed DEF Return
    <3> QED BY <1>l, <2>0, <2>2, <2>4, <3>1, <3>2, WaitStep
  <2> QED BY <2>3, <2>4
<1>7. CASE ProcessCommand
  <2>0. /\ pc = "argument" /\ ~(Len(argv) < argc) /\ ~closing /\ argc # 0 /\ pc' = "loop"
        /\ req' = remove_front(req, pos) /\ executed' = Append(executed, argv)
        /\ UNCHANGED <<sent, nread>>
    BY <1>t, <1>7 DEF ProcessCommand, Shape
  <2>1. Offset = Gone + pos /\ ~AtLine(Here) /\ pos <= Len(req.data) /\ Offset \in Nat
    BY <2>0, HereValue, HereAtLine DEF Inv, PositionInside
  <2>2. Ready(sent, Here, nread)
    <3>1. Here.closing = FALSE /\ Here.argv = argv /\ Here.argc = argc
      BY <2>0, HereValue
    <3> QED BY <2>0, <2>1, <3>1 DEF Ready
  <2>3. Parse(sent, Here) = IF argv[1] = <<"q">> THEN Stop(executed')
                            ELSE At(Offset, 0, <<>>, -1, executed')
    BY <2>0, <2>1, ParseHere
  <2>4. CASE argv[1] = <<"q">>
    <3>1. Parse(sent, Here) = Stop(executed') /\ closing' = TRUE
      BY <1>7, <2>3, <2>4 DEF ProcessCommand
    <3>2. Led(sent, Stop(executed'), nread)
      BY <1>l, <2>0, <2>2, <3>1, AdvanceStop
    <3> QED BY <2>0, <3>1, <3>2, StopStep
  <2>5. CASE argv[1] # <<"q">>
    <3>1. argc' = 0 /\ argv' = <<>> /\ arglen' = -1 /\ closing' = closing
      BY <1>7, <2>5 DEF ProcessCommand
    <3>2. Gone' = Offset
      BY <1>t, <2>0, <2>1, Trimmed
    <3>3. Offset' = Gone' + 0
      BY <2>0 DEF Offset, Gone
    <3>4. Offset' = Offset
      BY <2>1, <3>2, <3>3
    <3>5. Led(sent, At(Offset, 0, <<>>, -1, executed'), nread)
      BY <1>l, <2>0, <2>1, <2>2, <2>3, <2>5, AdvanceTo
    <3> QED BY <2>0, <3>1, <3>4, <3>5, GoOnStep
  <2> QED BY <2>4, <2>5
<1>8. CASE UNCHANGED vars
  <2>1. Here' = Here /\ UNCHANGED <<sent, nread, open, pc>>
    BY <1>8 DEF vars, Here, Offset
  <2> QED BY <2>1 DEF OnPath
<1> QED BY <1>1, <1>2, <1>3, <1>4, <1>5, <1>6, <1>7, <1>8 DEF Next

LEMMA PathStart ==
  Init => Shape /\ OnPath
<1> SUFFICES ASSUME Init PROVE Shape /\ OnPath
  OBVIOUS
<1>0. nread = 0 /\ Inv
  BY Start DEF Init
<1>1. Shape
  BY DEF Init, Shape
<1>2. Offset = 0
  <2>1. Len(req.data) = 0 /\ pc # "argument"
    BY DEF Init, EmptyBuffer
  <2> QED BY <1>0, <2>1 DEF Offset
<1>3. Here = Fresh
  BY <1>2 DEF Init, Here, Fresh
<1>4. Led(sent, Fresh, 0)
  <2> DEFINE p == [j \in {0} |-> Fresh]
  <2>1. p[0] = Fresh /\ 0 \in Nat
    OBVIOUS
  <2> HIDE DEF p
  <2>2. Path(sent, p, 0, 0)
    BY <2>1 DEF Path
  <2>3. Progress(Fresh, 0) = 0
    BY DEF Progress, Fresh, At
  <2> QED BY <2>1, <2>2, <2>3 DEF Led
<1>5. ~Ready(sent, Fresh, 0)
  BY DEF Ready, AtLine, Fresh, At
<1> QED BY <1>0, <1>1, <1>3, <1>4, <1>5 DEF OnPath

(* What a client has executed after a read, whether it is to be closed and *)
(* what it keeps of a command (argc_, argv_, cur_arglen_, req_) depend on  *)
(* the bytes it has read and not on the pieces in which they came, for any *)
(* bytes, pieces and limits.                                               *)
THEOREM PiecesAgree ==
  Spec => []PiecesDoNotMatter
<1>1. Init => Inv /\ Shape /\ OnPath
  BY Start, PathStart
<1>2. ASSUME Inv /\ Shape /\ OnPath, [Next]_vars PROVE (Inv /\ Shape /\ OnPath)'
  <2>1. Inv'
    BY <1>2, Step
  <2>2. Shape'
    BY <1>2, ShapeStep
  <2> QED BY <1>2, <2>1, <2>2, PathStep
<1>3. Inv /\ Shape /\ OnPath => PiecesDoNotMatter
  <2> SUFFICES ASSUME Inv, Shape, OnPath, open, pc = "idle"
               PROVE  Here = Outcome(sent, nread)
    BY DEF PiecesDoNotMatter
  <2>1. nread \in Nat
    BY DEF Inv, TypeOK
  <2> QED BY <2>1, HereBound, Arrival DEF OnPath
<1> QED BY <1>1, <1>2, <1>3, PTL DEF Spec
=============================================================================
