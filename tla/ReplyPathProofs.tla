-------------------------- MODULE ReplyPathProofs --------------------------
(***************************************************************************)
(* The output of a client, for any shapes of replies, any limits and any   *)
(* number of frames: the write event is registered exactly while there is  *)
(* something to send, and what the peer gets is whole frames in order.     *)
(*                                                                         *)
(* The argument for the frames: what was promised to the peer only grows   *)
(* at its end (SendReply moves bytes from rep_ to the socket, it does not  *)
(* change their sequence), and whether a handler's parts are accepted does *)
(* not change while it runs, since sentlen_ and CLIENT_CLOSE_AFTER_REPLY   *)
(* only change when it has finished.                                       *)
(***************************************************************************)
EXTENDS ReplyPath, SequenceTheorems, TLAPS

Part == (Nat \ {0}) \X (Nat \ {0}) \X (Nat \ {0})

(* The handler's remaining parts are the rest of one frame. *)
TodoOK ==
  /\ todo \in Seq(Part)
  /\ \A k \in 1..Len(todo) : todo[k][1] <= todo[k][2] /\ todo[k][2] <= todo[k][3]
  /\ \A k \in 1..(Len(todo) - 1) :
       todo[k + 1][1] = todo[k][2] + 1 /\ todo[k + 1][3] = todo[k][3]
  /\ Running => /\ offered \in 1..MaxFrames
                /\ todo[Len(todo)][2] = todo[Len(todo)][3]

(* WriteEventArmed, without the case of a deleted client. *)
Armed ==
  /\ writable <=> rep # <<>>
  /\ sentlen < Len(rep) \/ (sentlen = 0 /\ rep = <<>>)

(* Byte c may be promised after byte b. *)
Follows(b, c) ==
  IF b[2] < b[3] THEN c = <<b[1], b[2] + 1, b[3]>> ELSE c[1] > b[1] /\ c[2] = 1

(* Bytes one after the other, and bytes that end with a whole frame. *)
Chain(P) ==
  /\ P # <<>> => P[1][2] = 1
  /\ \A j \in 1..(Len(P) - 1) : Follows(P[j], P[j + 1])
Ends(P) == P # <<>> => P[Len(P)][2] = P[Len(P)][3]

(* Parts of the running handler are appended. *)
Accepting == ~closeAfter /\ SetWriteEvent

(* Where promise P stands in the frame of the running handler. *)
InFrame(P) ==
  /\ Running /\ Accepting =>
       \/ /\ todo[1][1] = 1 /\ Ends(P)
          /\ P # <<>> => P[Len(P)][1] < offered
       \/ P # <<>> /\ P[Len(P)] = <<offered, todo[1][1] - 1, todo[1][3]>>
  /\ ~(Running /\ Accepting) => Ends(P)
  /\ P # <<>> => P[Len(P)][1] <= offered

Inv == TypeOK /\ TodoOK /\ Armed /\ Chain(Promised) /\ InFrame(Promised)

----------------------------------------------------------------------------
(* The parts of a frame. *)
LEMMA PartsOfFrame ==
  ASSUME NEW s \in Shapes
  PROVE  /\ Parts(s) \in Seq(Part) /\ Parts(s) # <<>> /\ Parts(s)[1][1] = 1
         /\ Len(Parts(s)) = Len(s)
         /\ \A k \in 1..Len(s) :
              Parts(s)[k][1] <= Parts(s)[k][2] /\ Parts(s)[k][2] <= Parts(s)[k][3]
         /\ \A k \in 1..(Len(s) - 1) :
              Parts(s)[k + 1][1] = Parts(s)[k][2] + 1 /\ Parts(s)[k + 1][3] = Parts(s)[k][3]
         /\ Parts(s)[Len(s)][2] = Parts(s)[Len(s)][3]
<1> DEFINE n == Len(s)
           first(k) == IF k = 1 THEN 1 ELSE s[k - 1] + 1
<1>1. /\ n \in Nat /\ n >= 1
      /\ \A k \in 1..n : s[k] \in Nat /\ s[k] > 0
      /\ \A j, k \in 1..n : j < k => s[j] < s[k]
  BY LimitsAssumption
<1>2. ASSUME NEW k \in 1..n
      PROVE  first(k) \in Nat \ {0} /\ first(k) <= s[k] /\ s[k] <= s[n]
  BY <1>1
<1>3. ASSUME NEW k \in 1..n
      PROVE  /\ <<first(k), s[k], s[n]>> \in Part
             /\ Parts(s)[k] = <<first(k), s[k], s[n]>>
  BY <1>1, <1>2 DEF Parts, Part
<1>4. Parts(s) \in Seq(Part) /\ Len(Parts(s)) = n
  <2>1. Parts(s) \in [1..n -> Part]
    BY <1>1, <1>3 DEF Parts
  <2> QED BY <1>1, <2>1
<1>f. first(1) = 1 /\ \A k \in 1..(n - 1) : first(k + 1) = s[k] + 1
  BY <1>1
<1> HIDE DEF first
<1>p. \A k \in 1..n : Parts(s)[k][1] = first(k) /\ Parts(s)[k][2] = s[k] /\ Parts(s)[k][3] = s[n]
  <2> TAKE k \in 1..n
  <2>1. Parts(s)[k] = <<first(k), s[k], s[n]>>
    BY <1>3
  <2> QED BY <2>1
<1>5. Parts(s) # <<>> /\ Parts(s)[1][1] = 1
  <2>1. 1 \in 1..n
    BY <1>1
  <2> QED BY <1>1, <1>4, <1>p, <1>f, <2>1
<1>6. ASSUME NEW k \in 1..(n - 1)
      PROVE  Parts(s)[k + 1][1] = Parts(s)[k][2] + 1 /\ Parts(s)[k + 1][3] = Parts(s)[k][3]
  <2>1. k \in 1..n /\ k + 1 \in 1..n
    BY <1>1
  <2> QED BY <1>p, <1>f, <2>1
<1>7. \A k \in 1..n : Parts(s)[k][1] <= Parts(s)[k][2] /\ Parts(s)[k][2] <= Parts(s)[k][3]
  BY <1>2, <1>p
<1>8. Parts(s)[n][2] = Parts(s)[n][3]
  <2>1. n \in 1..n
    BY <1>1
  <2> QED BY <1>p, <2>1
<1> QED BY <1>4, <1>5, <1>6, <1>7, <1>8

(* The bytes of a part. *)
LEMMA PartBytes ==
  ASSUME NEW p \in Part, p[1] <= p[2], p[2] <= p[3], offered \in 1..MaxFrames
  PROVE  /\ p[2] - p[1] + 1 \in Nat \ {0}
         /\ Bytes(p) \in Seq(Byte) /\ Len(Bytes(p)) = p[2] - p[1] + 1 /\ Bytes(p) # <<>>
         /\ \A j \in 1..(p[2] - p[1] + 1) : Bytes(p)[j] = <<offered, p[1] + j - 1, p[3]>>
<1> DEFINE m == p[2] - p[1] + 1
<1>1. /\ p[1] \in Nat \ {0} /\ p[2] \in Nat \ {0} /\ p[3] \in Nat \ {0}
      /\ m \in Nat /\ m >= 1
  BY DEF Part
<1>2. /\ Bytes(p) \in [1..m -> Byte]
      /\ \A j \in 1..m : Bytes(p)[j] = <<offered, p[1] + j - 1, p[3]>>
  BY <1>1 DEF Bytes, Byte
<1> HIDE DEF m
<1>3. m \in Nat /\ m >= 1
  BY <1>1
<1>4. Bytes(p) \in Seq(Byte) /\ Len(Bytes(p)) = m /\ Bytes(p) # <<>>
  BY <1>2, <1>3
<1> QED BY <1>2, <1>3, <1>4 DEF m

(* Bytes of one part at the end of a promise. *)
LEMMA Extension ==
  ASSUME NEW P \in Seq(Byte), Chain(P), NEW p \in Part, p[1] <= p[2], p[2] <= p[3],
         offered \in 1..MaxFrames,
         \/ /\ p[1] = 1 /\ Ends(P)
            /\ P # <<>> => P[Len(P)][1] < offered
         \/ P # <<>> /\ P[Len(P)] = <<offered, p[1] - 1, p[3]>>
  PROVE  /\ P \o Bytes(p) \in Seq(Byte) /\ P \o Bytes(p) # <<>>
         /\ Chain(P \o Bytes(p))
         /\ (P \o Bytes(p))[Len(P \o Bytes(p))] = <<offered, p[2], p[3]>>
<1> DEFINE m == p[2] - p[1] + 1
           Q == P \o Bytes(p)
<1>1. /\ p[1] \in Nat \ {0} /\ p[2] \in Nat \ {0} /\ p[3] \in Nat \ {0}
  BY DEF Part
<1>2. m \in Nat \ {0} /\ \A j \in 1..m : Bytes(p)[j] = <<offered, p[1] + j - 1, p[3]>>
  BY PartBytes
<1>3. Bytes(p) \in Seq(Byte) /\ Len(Bytes(p)) = m
  BY PartBytes
<1> HIDE DEF m
<1>4. Len(P) \in Nat /\ m \in Nat /\ m >= 1
  BY <1>2
<1>5. /\ Q \in Seq(Byte) /\ Len(Q) = Len(P) + m
      /\ \A j \in 1..(Len(P) + m) :
           Q[j] = IF j <= Len(P) THEN P[j] ELSE Bytes(p)[j - Len(P)]
  BY <1>3, ConcatProperties
<1> HIDE DEF Q
<1>6. \A j \in 1..Len(P) : Q[j] = P[j]
  BY <1>4, <1>5
<1>7. \A j \in 1..m : Q[Len(P) + j] = <<offered, p[1] + j - 1, p[3]>>
  <2>1. ASSUME NEW j \in 1..m
        PROVE  /\ Len(P) + j \in 1..(Len(P) + m) /\ ~(Len(P) + j <= Len(P))
               /\ (Len(P) + j) - Len(P) = j
    BY <1>4
  <2> QED BY <1>2, <1>5, <2>1
<1>8. Q # <<>> /\ Q[1][2] = 1
  <2>1. CASE P = <<>>
    <3>1. p[1] = 1 /\ Len(P) = 0
      BY <2>1
    <3> QED BY <1>1, <1>4, <1>5, <1>7, <3>1
  <2>2. CASE P # <<>>
    BY <1>4, <1>5, <1>6, <2>2 DEF Chain
  <2> QED BY <2>1, <2>2
<1>9. ASSUME NEW j \in 1..(Len(Q) - 1) PROVE Follows(Q[j], Q[j + 1])
  <2>1. CASE j < Len(P)
    <3>1. j \in 1..(Len(P) - 1) /\ Q[j] = P[j] /\ Q[j + 1] = P[j + 1]
      BY <1>4, <1>5, <1>6, <2>1
    <3> QED BY <3>1 DEF Chain
  <2>2. CASE j = Len(P)
    <3>1. P # <<>> /\ Q[j] = P[Len(P)] /\ Q[j + 1] = <<offered, p[1], p[3]>>
      BY <1>1, <1>4, <1>6, <1>7, <2>2
    <3>2. P[Len(P)] \in Byte
      BY <3>1
    <3>3. CASE p[1] = 1 /\ Ends(P) /\ P[Len(P)][1] < offered
      <4>1. ~(Q[j][2] < Q[j][3]) /\ Q[j + 1][1] > Q[j][1] /\ Q[j + 1][2] = 1
        BY <3>1, <3>2, <3>3 DEF Ends, Byte
      <4> QED BY <4>1 DEF Follows
    <3>4. CASE P[Len(P)] = <<offered, p[1] - 1, p[3]>>
      <4>1. Q[j] = <<offered, p[1] - 1, p[3]>> /\ p[1] - 1 < p[3] /\ (p[1] - 1) + 1 = p[1]
        BY <1>1, <3>1, <3>4
      <4> QED BY <3>1, <4>1 DEF Follows
    <3> QED BY <3>1, <3>3, <3>4
  <2>3. CASE j > Len(P)
    <3> DEFINE i == j - Len(P)
    <3>1. i \in 1..m /\ i + 1 \in 1..m /\ j = Len(P) + i /\ j + 1 = Len(P) + (i + 1)
      BY <1>4, <1>5, <2>3
    <3> HIDE DEF i
    <3>2. Q[j] = <<offered, p[1] + i - 1, p[3]>> /\ Q[j + 1] = <<offered, p[1] + (i + 1) - 1, p[3]>>
      BY <1>7, <3>1
    <3>3. p[1] + i - 1 < p[3] /\ p[1] + (i + 1) - 1 = (p[1] + i - 1) + 1
      <4>1. i \in Nat /\ i + 1 <= m
        BY <1>4, <3>1
      <4>2. m = p[2] - p[1] + 1
        BY DEF m
      <4>3. ASSUME NEW a \in Nat, NEW b \in Nat, NEW c \in Nat, i + 1 <= b - a + 1, b <= c
            PROVE  a + i - 1 < c /\ a + (i + 1) - 1 = (a + i - 1) + 1
        BY <4>1, <4>3
      <4> QED BY <1>1, <4>1, <4>2, <4>3
    <3> QED BY <3>2, <3>3 DEF Follows
  <2> QED BY <1>4, <2>1, <2>2, <2>3
<1>10. Q[Len(Q)] = <<offered, p[2], p[3]>>
  <2>1. m \in 1..m /\ p[1] + m - 1 = p[2]
    <3>1. \A a, b \in Nat : a <= b =>
            b - a + 1 \in 1..(b - a + 1) /\ a + (b - a + 1) - 1 = b
      OBVIOUS
    <3>2. p[1] \in Nat /\ p[2] \in Nat /\ p[1] <= p[2]
      BY <1>1
    <3> QED BY <3>1, <3>2 DEF m
  <2> QED BY <1>5, <1>7, <2>1
<1> QED BY <1>5, <1>8, <1>9, <1>10 DEF Chain, Q
----------------------------------------------------------------------------
(* A step of the handler: a part that is appended, or one that is not. *)
LEMMA HandlerEffect ==
  ASSUME TypeOK, HandlerStep
  PROVE  /\ \/ /\ Accepting /\ rep' = rep \o Bytes(Head(todo)) /\ writable' = TRUE
               /\ place' \in {"open", "closing", "freed"} /\ lastSoft' \in 0..MaxTime
            \/ ~Accepting /\ UNCHANGED <<rep, writable, place, lastSoft>>
         /\ sentlen' = sentlen /\ todo' = Tail(todo)
         /\ todo' # <<>> => closeAfter' = closeAfter
         /\ closeAfter' \in BOOLEAN /\ sub' \in BOOLEAN
         /\ UNCHANGED <<unixtime, after, offered, stream>>
<1>1. ASSUME NEW n, AsyncClose(n)
      PROVE  place' \in {"open", "closing", "freed"} /\ lastSoft' \in 0..MaxTime
  <2>1. NewLastSoft(n) \in 0..MaxTime
    BY LimitsAssumption DEF NewLastSoft, TypeOK
  <2> QED BY <1>1, <2>1 DEF AsyncClose, TypeOK
<1>2. Reply(Head(todo)) /\ todo' = Tail(todo) /\ UNCHANGED <<unixtime, after, offered, stream>>
  BY DEF HandlerStep
<1>3. closeAfter' = (closeAfter \/ (todo' = <<>> /\ after = "close"))
  BY DEF HandlerStep
<1>4. closeAfter' \in BOOLEAN /\ sub' \in BOOLEAN
  BY DEF HandlerStep
<1>5. todo' # <<>> => closeAfter' = closeAfter
  BY <1>3 DEF TypeOK
<1>6. CASE closeAfter \/ ~SetWriteEvent
  <2>1. UNCHANGED <<bufferVars, place, lastSoft>> /\ ~Accepting
    BY <1>2, <1>6 DEF Reply, Accepting
  <2> QED BY <1>2, <1>4, <1>5, <2>1 DEF bufferVars
<1>7. CASE ~(closeAfter \/ ~SetWriteEvent)
  <2>1. /\ rep' = rep \o Bytes(Head(todo)) /\ writable' = TRUE
        /\ AsyncClose(Len(rep')) /\ sentlen' = sentlen /\ Accepting
    BY <1>2, <1>7 DEF Reply, Accepting
  <2> QED BY <1>1, <1>2, <1>4, <1>5, <2>1
<1> QED BY <1>6, <1>7

LEMMA Associative ==
  \A x, y, z \in Seq(Byte) : (x \o y) \o z = x \o (y \o z)
<1> TAKE x \in Seq(Byte), y \in Seq(Byte), z \in Seq(Byte)
<1> QED BY ConcatAssociative

(* Bytes that are sent go from the buffer to the stream. *)
LEMMA SendKeepsPromise ==
  ASSUME TypeOK, sentlen <= Len(rep), NEW k \in 1..(Len(rep) - sentlen), SendReply(k)
  PROVE  Promised' = Promised /\ rep' \in Seq(Byte) /\ stream' \in Seq(Byte)
<1> DEFINE a == SubSeq(rep, sentlen + 1, sentlen + k)
           b == SubSeq(rep, sentlen + k + 1, Len(rep))
<1>1. /\ rep \in Seq(Byte) /\ stream \in Seq(Byte) /\ sentlen \in Nat
      /\ Len(rep) \in Nat /\ k \in Nat /\ k >= 1 /\ sentlen + k <= Len(rep)
      /\ \A i \in 1..Len(rep) : rep[i] \in Byte
  BY DEF TypeOK
<1>2. a \in Seq(Byte) /\ b \in Seq(Byte)
  <2>1. \A i \in (sentlen + 1)..(sentlen + k) : rep[i] \in Byte
    BY <1>1
  <2>2. \A i \in (sentlen + k + 1)..Len(rep) : rep[i] \in Byte
    BY <1>1
  <2>3. /\ sentlen + 1 \in Int /\ sentlen + k \in Int
        /\ sentlen + k + 1 \in Int /\ Len(rep) \in Int
    BY <1>1
  <2> QED BY <2>1, <2>2, <2>3, SubSeqProperties
<1>3. a \o b = SubSeq(rep, sentlen + 1, Len(rep))
  <2>1. /\ sentlen + 1 \in 1..(Len(rep) + 1) /\ sentlen + k \in ((sentlen + 1) - 1)..Len(rep)
        /\ Len(rep) \in (sentlen + k)..Len(rep)
    BY <1>1
  <2> QED BY <1>1, <2>1, ConcatAdjacentSubSeq
<1>4. stream' = stream \o a
  BY DEF SendReply
<1>5. SubSeq(rep', sentlen' + 1, Len(rep')) = b /\ rep' \in Seq(Byte)
  <2>1. CASE sentlen + k = Len(rep)
    <3>1. rep' = <<>> /\ sentlen' = 0
      BY <2>1 DEF SendReply
    <3>2. b = <<>>
      BY <1>1, <2>1, SubSeqEmpty
    <3>3. SubSeq(<<>>, 0 + 1, Len(<<>>)) = <<>>
      <4>1. Len(<<>>) = 0 /\ 0 + 1 = 1
        OBVIOUS
      <4>2. 1 \in Int /\ 0 \in Int /\ 0 < 1
        OBVIOUS
      <4>3. SubSeq(<<>>, 1, 0) = <<>>
        BY <4>2, SubSeqEmpty, Zenon
      <4> QED BY <4>1, <4>3
    <3>4. SubSeq(rep', sentlen' + 1, Len(rep')) = SubSeq(<<>>, 0 + 1, Len(<<>>))
      BY <3>1
    <3>5. rep' \in Seq(Byte)
      BY <3>1
    <3> QED BY <3>2, <3>3, <3>4, <3>5
  <2>2. CASE sentlen + k # Len(rep)
    <3>1. rep' = rep /\ sentlen' = sentlen + k
      BY <2>2 DEF SendReply
    <3> QED BY <1>1, <3>1
  <2> QED BY <2>1, <2>2
<1> HIDE DEF a, b
<1>6. (stream \o a) \o b = stream \o (a \o b)
  <2>1. stream \in Seq(Byte) /\ a \in Seq(Byte) /\ b \in Seq(Byte)
    BY <1>1, <1>2
  <2> QED BY <2>1, Associative, Zenon
<1>7. stream' \in Seq(Byte)
  BY <1>1, <1>2, <1>4, ConcatProperties
<1>8. Promised' = (stream \o a) \o b /\ Promised = stream \o (a \o b)
  BY <1>3, <1>4, <1>5 DEF Promised
<1> QED BY <1>5, <1>6, <1>7, <1>8

(* Types, the rest of the frame, and the write event. *)
LEMMA TypeStep ==
  ASSUME Inv, [Next]_vars
  PROVE  TypeOK' /\ TodoOK' /\ Armed'
<1> USE LimitsAssumption
<1>i. TypeOK /\ TodoOK /\ Armed
  BY DEF Inv
<1>1. ASSUME NEW s \in Shapes, NEW then \in {"message", "stay", "leave", "close"},
             Begin(s, then), sub' \in BOOLEAN,
             UNCHANGED <<place, bufferVars, closeAfter, lastSoft, unixtime, stream>>
      PROVE  TypeOK' /\ TodoOK' /\ Armed'
  <2>1. /\ offered' = offered + 1 /\ offered < MaxFrames
        /\ todo' = Parts(s) /\ after' = then
        /\ UNCHANGED <<place, rep, sentlen, writable, closeAfter, lastSoft, unixtime, stream>>
    BY <1>1 DEF Begin, bufferVars
  <2>2. offered' \in 1..MaxFrames
    BY <1>i, <2>1 DEF TypeOK
  <2>3. TypeOK'
    BY <1>i, <1>1, <2>1, <2>2 DEF TypeOK
  <2>4. TodoOK'
    BY <2>1, <2>2, PartsOfFrame DEF TodoOK
  <2>5. Armed'
    BY <1>i, <2>1 DEF Armed
  <2> QED BY <2>3, <2>4, <2>5
<1>2. ASSUME NEW s \in Shapes, ReceiveMessage(s)
      PROVE  TypeOK' /\ TodoOK' /\ Armed'
  BY <1>i, <1>1, <1>2 DEF ReceiveMessage, TypeOK
<1>3. CASE Command
  <2>1. ASSUME NEW s \in Shapes, NEW subscribe \in BOOLEAN, NEW then \in {"stay", "leave", "close"},
               ProcessCommand(s, subscribe, then)
        PROVE  TypeOK' /\ TodoOK' /\ Armed'
    <3>1. sub' \in BOOLEAN
      BY <2>1 DEF ProcessCommand
    <3> QED BY <1>1, <2>1, <3>1 DEF ProcessCommand
  <2> QED BY <1>3, <2>1 DEF Command
<1>4. CASE SilentProtocolError
  BY <1>i, <1>4 DEF SilentProtocolError, bufferVars, handlerVars, TypeOK, TodoOK, Armed, Running
<1>5. CASE HandlerStep
  <2> DEFINE p == Head(todo)
  <2>1. todo \in Seq(Part) /\ todo # <<>> /\ offered \in 1..MaxFrames
    BY <1>i, <1>5 DEF HandlerStep, TodoOK, Running
  <2>2. p = todo[1] /\ 1 \in 1..Len(todo) /\ p \in Part
    BY <2>1
  <2>3. Bytes(p) \in Seq(Byte) /\ Bytes(p) # <<>>
    <3>1. p[1] <= p[2] /\ p[2] <= p[3]
      BY <1>i, <2>2 DEF TodoOK
    <3> QED BY <2>1, <2>2, <3>1, PartBytes
  <2>4. rep \o Bytes(p) \in Seq(Byte) /\ rep \o Bytes(p) # <<>> /\ Len(rep \o Bytes(p)) > 0
    <3>1. rep \in Seq(Byte)
      BY <1>i DEF TypeOK
    <3>2. rep \o Bytes(p) \in Seq(Byte) /\ Len(rep \o Bytes(p)) = Len(rep) + Len(Bytes(p))
      BY <2>3, <3>1, ConcatProperties
    <3>3. Len(rep) \in Nat /\ Len(Bytes(p)) \in Nat \ {0}
      BY <2>3, <3>1, EmptySeq, LenProperties
    <3> QED BY <3>2, <3>3
  <2>5. TypeOK'
    BY <1>i, <1>5, <2>4, HandlerEffect DEF TypeOK
  <2>6. TodoOK'
    <3>1. /\ Tail(todo) \in Seq(Part) /\ Len(Tail(todo)) = Len(todo) - 1
          /\ \A k \in 1..(Len(todo) - 1) : Tail(todo)[k] = todo[k + 1]
      BY <2>1
    <3>2. todo' = Tail(todo) /\ offered' = offered
      BY <1>i, <1>5, HandlerEffect
    <3>3. Len(todo) \in Nat /\ Len(todo) >= 1
      BY <2>1
    <3>4. \A k \in 1..(Len(todo) - 1) : k + 1 \in 1..Len(todo)
      BY <3>3
    <3>5. \A k \in 1..(Len(todo) - 1 - 1) : k + 1 \in 1..(Len(todo) - 1)
      BY <3>3
    <3>6. todo' # <<>> => todo'[Len(todo')] = todo[Len(todo)]
      BY <3>1, <3>2, <3>3
    <3>7. \A k \in 1..Len(todo') : todo'[k][1] <= todo'[k][2] /\ todo'[k][2] <= todo'[k][3]
      BY <1>i, <3>1, <3>2, <3>4 DEF TodoOK
    <3>8. \A k \in 1..(Len(todo') - 1) :
            todo'[k + 1][1] = todo'[k][2] + 1 /\ todo'[k + 1][3] = todo'[k][3]
      BY <1>i, <3>1, <3>2, <3>3, <3>4, <3>5 DEF TodoOK
    <3>9. todo[Len(todo)][2] = todo[Len(todo)][3]
      BY <1>i, <2>1 DEF TodoOK, Running
    <3> QED BY <2>1, <3>1, <3>2, <3>6, <3>7, <3>8, <3>9 DEF TodoOK, Running
  <2>7. Armed'
    <3>1. CASE Accepting
      <4>1. rep' = rep \o Bytes(p) /\ writable' = TRUE /\ sentlen' = 0
        BY <1>i, <1>5, <3>1, HandlerEffect DEF Accepting, SetWriteEvent
      <4>2. rep' # <<>> /\ writable'
        BY <2>4, <4>1
      <4>3. sentlen' < Len(rep')
        BY <2>4, <4>1
      <4> QED BY <4>2, <4>3 DEF Armed
    <3>2. CASE ~Accepting
      <4>1. UNCHANGED <<rep, writable, sentlen>>
        BY <1>i, <1>5, <3>2, HandlerEffect
      <4> QED BY <1>i, <4>1 DEF Armed
    <3> QED BY <3>1, <3>2
  <2> QED BY <2>5, <2>6, <2>7
<1>6. CASE Send
  <2>1. PICK k \in 1..(Len(rep) - sentlen) : SendReply(k)
    BY <1>6 DEF Send
  <2>2. sentlen \in Nat /\ Len(rep) \in Nat /\ sentlen <= Len(rep)
    BY <1>i DEF TypeOK, Armed
  <2>3. rep' \in Seq(Byte) /\ stream' \in Seq(Byte)
    BY <1>i, <2>1, <2>2, SendKeepsPromise
  <2>4. /\ UNCHANGED <<sub, closeAfter, lastSoft, unixtime, todo, after, offered>>
        /\ writable
        /\ \/ /\ rep' = <<>> /\ sentlen' = 0 /\ writable' = FALSE
              /\ place' \in {place, "freed"}
           \/ /\ sentlen' = sentlen + k /\ sentlen + k < Len(rep)
              /\ UNCHANGED <<rep, writable, place>>
    <3>1. /\ UNCHANGED <<sub, closeAfter, lastSoft, unixtime, todo, after, offered>>
          /\ writable
      BY <2>1 DEF SendReply, handlerVars
    <3>2. CASE sentlen + k = Len(rep)
      <4>1. rep' = <<>> /\ sentlen' = 0 /\ writable' = FALSE
        BY <2>1, <3>2 DEF SendReply
      <4>2. place' \in {place, "freed"}
        BY <2>1, <3>2 DEF SendReply, FreeClient
      <4> QED BY <3>1, <4>1, <4>2
    <3>3. CASE sentlen + k # Len(rep)
      <4>1. sentlen' = sentlen + k /\ UNCHANGED <<rep, writable, place>>
        BY <2>1, <3>3 DEF SendReply
      <4>2. sentlen + k < Len(rep)
        BY <2>2, <3>3
      <4> QED BY <3>1, <4>1, <4>2
    <3> QED BY <3>2, <3>3
  <2>5. TypeOK'
    <3>1. sentlen' \in Nat
      <4>1. k \in Nat
        BY <2>1, <2>2
      <4>2. sentlen' = 0 \/ sentlen' = sentlen + k
        BY <2>4
      <4> QED BY <2>2, <4>1, <4>2
    <3>2. place' \in {"open", "closing", "freed"} /\ writable' \in BOOLEAN
      BY <1>i, <2>4 DEF TypeOK
    <3> QED BY <1>i, <2>3, <2>4, <3>1, <3>2 DEF TypeOK
  <2>6. TodoOK'
    BY <1>i, <2>4 DEF TodoOK, Running
  <2>7. Armed'
    BY <1>i, <2>2, <2>4 DEF Armed
  <2> QED BY <2>5, <2>6, <2>7
<1>7. CASE Disconnect
  BY <1>i, <1>7 DEF Disconnect, FreeClient, bufferVars, handlerVars, TypeOK, TodoOK, Armed, Running
<1>8. CASE Cron
  BY <1>i, <1>8 DEF Cron, WorkerCron, bufferVars, handlerVars, TypeOK, TodoOK, Armed, Running
<1>9. CASE UNCHANGED vars
  BY <1>i, <1>9 DEF vars, TypeOK, TodoOK, Armed, Running
<1> QED BY <1>2, <1>3, <1>4, <1>5, <1>6, <1>7, <1>8, <1>9 DEF Next
----------------------------------------------------------------------------
(* What was promised has the type of what is sent. *)
LEMMA PromisedType ==
  ASSUME TypeOK
  PROVE  Promised \in Seq(Byte)
<1>1. /\ rep \in Seq(Byte) /\ stream \in Seq(Byte) /\ sentlen + 1 \in Int /\ Len(rep) \in Int
      /\ \A i \in (sentlen + 1)..Len(rep) : rep[i] \in Byte
  BY DEF TypeOK
<1>2. SubSeq(rep, sentlen + 1, Len(rep)) \in Seq(Byte)
  BY <1>1, SubSeqProperties
<1> QED BY <1>1, <1>2, ConcatProperties DEF Promised

(* An appended part is promised last. *)
LEMMA AppendedIsPromised ==
  ASSUME TypeOK, sentlen = 0, NEW B \in Seq(Byte), rep' = rep \o B,
         UNCHANGED <<stream, sentlen>>
  PROVE  Promised' = Promised \o B
<1>1. /\ rep \in Seq(Byte) /\ stream \in Seq(Byte) /\ rep \o B \in Seq(Byte)
  BY ConcatProperties DEF TypeOK
<1>2. \A x \in Seq(Byte) : SubSeq(x, 0 + 1, Len(x)) = x
  BY SubSeqFull
<1>3. Promised = stream \o rep /\ Promised' = stream \o (rep \o B)
  BY <1>1, <1>2 DEF Promised
<1>4. (stream \o rep) \o B = stream \o (rep \o B)
  BY <1>1, Associative, Zenon
<1> QED BY <1>3, <1>4

(* What was promised stays in order, and ends where the handler is. *)
LEMMA FrameStep ==
  ASSUME Inv, [Next]_vars
  PROVE  Chain(Promised)' /\ InFrame(Promised)'
<1> USE LimitsAssumption
<1>i. TypeOK /\ TodoOK /\ Chain(Promised) /\ InFrame(Promised) /\ Promised \in Seq(Byte)
  BY PromisedType DEF Inv
<1>p. Promised # <<>> => Promised[Len(Promised)] \in Byte
  BY <1>i
<1>0. ASSUME UNCHANGED <<stream, rep, sentlen>>
      PROVE  Promised' = Promised
  BY <1>0 DEF Promised
<1>1. ASSUME Promised' = Promised, UNCHANGED <<todo, offered>>, ~Running
      PROVE  Chain(Promised)' /\ InFrame(Promised)'
  <2>1. Chain(Promised)'
    BY <1>i, <1>1 DEF Chain
  <2>2. ~Running' /\ Ends(Promised')
    BY <1>i, <1>1 DEF InFrame, Running
  <2> QED BY <1>i, <1>1, <2>1, <2>2 DEF InFrame
<1>2. ASSUME NEW s \in Shapes, NEW then, Begin(s, then), UNCHANGED <<stream, bufferVars>>
      PROVE  Chain(Promised)' /\ InFrame(Promised)'
  <2>1. /\ offered' = offered + 1 /\ todo' = Parts(s) /\ ~Running
        /\ Promised' = Promised /\ offered \in Nat
    BY <1>i, <1>0, <1>2 DEF Begin, Idle, bufferVars, TypeOK
  <2>2. Chain(Promised)'
    BY <1>i, <2>1 DEF Chain
  <2>3. Ends(Promised) /\ (Promised # <<>> => Promised[Len(Promised)][1] <= offered)
    BY <1>i, <2>1 DEF InFrame
  <2>4. Promised # <<>> => Promised[Len(Promised)][1] < offered'
    <3>1. Promised # <<>> => Promised[Len(Promised)] \in Byte
      BY <1>p
    <3>2. \A b \in Byte : b[1] \in Nat
      BY DEF Byte
    <3>3. \A x \in Nat : x <= offered => x < offered'
      BY <2>1
    <3> QED BY <2>3, <3>1, <3>2, <3>3
  <2>5. Promised # <<>> => Promised[Len(Promised)][1] <= offered'
    <3>1. Promised # <<>> => Promised[Len(Promised)][1] \in Int
      BY <1>p DEF Byte
    <3> QED BY <2>1, <2>4, <3>1
  <2>6. todo'[1][1] = 1
    BY <2>1, PartsOfFrame
  <2> QED BY <2>1, <2>2, <2>3, <2>4, <2>5, <2>6 DEF InFrame, Ends
<1>3. ASSUME NEW s \in Shapes, ReceiveMessage(s)
      PROVE  Chain(Promised)' /\ InFrame(Promised)'
  BY <1>2, <1>3 DEF ReceiveMessage
<1>4. CASE Command
  BY <1>2, <1>4 DEF Command, ProcessCommand
<1>5. CASE SilentProtocolError
  BY <1>0, <1>1, <1>5 DEF SilentProtocolError, Idle, bufferVars, handlerVars
<1>6. CASE HandlerStep
  <2> DEFINE p == Head(todo)
  <2>1. /\ Running /\ todo \in Seq(Part) /\ todo # <<>> /\ offered \in 1..MaxFrames
        /\ offered \in Nat
    BY <1>i, <1>6 DEF HandlerStep, TodoOK, Running, TypeOK
  <2>2. p = todo[1] /\ 1 \in 1..Len(todo) /\ p \in Part
    BY <2>1
  <2>3. p[1] <= p[2] /\ p[2] <= p[3]
    BY <1>i, <2>2 DEF TodoOK
  <2>4. /\ todo' = Tail(todo) /\ offered' = offered /\ stream' = stream /\ sentlen' = sentlen
        /\ todo' # <<>> => closeAfter' = closeAfter
    BY <1>i, <1>6, HandlerEffect
  <2>5. CASE Accepting
    <3>1. rep' = rep \o Bytes(p) /\ sentlen = 0
      BY <1>i, <1>6, <2>5, HandlerEffect DEF Accepting, SetWriteEvent
    <3>2. Bytes(p) \in Seq(Byte)
      BY <2>1, <2>2, <2>3, PartBytes
    <3>3. Promised' = Promised \o Bytes(p)
      BY <1>i, <2>4, <3>1, <3>2, AppendedIsPromised
    <3>4. \/ /\ p[1] = 1 /\ Ends(Promised)
             /\ Promised # <<>> => Promised[Len(Promised)][1] < offered
          \/ Promised # <<>> /\ Promised[Len(Promised)] = <<offered, p[1] - 1, p[3]>>
      BY <1>i, <2>1, <2>2, <2>5 DEF InFrame
    <3> DEFINE Q == Promised \o Bytes(p)
    <3>5. Chain(Q) /\ Q # <<>> /\ Q[Len(Q)] = <<offered, p[2], p[3]>>
      BY <1>i, <2>1, <2>2, <2>3, <3>4, Extension
    <3>q. Promised' = Q
      BY <3>3
    <3> HIDE DEF Q
    <3>6. Chain(Promised)'
      BY <3>5, <3>q DEF Chain
    <3>7. CASE todo' = <<>>
      <4>1. Len(todo) = 1
        <5>1. Len(todo') = 0
          BY <3>7
        <5>2. Len(todo') = Len(todo) - 1 /\ Len(todo) \in Nat
          BY <2>1, <2>4
        <5> QED BY <5>1, <5>2
      <4>2. p[2] = p[3]
        BY <1>i, <2>1, <2>2, <4>1 DEF TodoOK
      <4>3. Q[Len(Q)][1] = offered /\ Q[Len(Q)][2] = Q[Len(Q)][3]
        BY <3>5, <4>2
      <4>4. ~Running'
        BY <3>7 DEF Running
      <4> QED BY <2>1, <2>4, <3>6, <3>q, <4>3, <4>4 DEF InFrame, Ends
    <3>8. CASE todo' # <<>>
      <4>1. Len(todo) \in Nat /\ Len(todo) >= 2 /\ todo'[1] = todo[2]
        BY <2>1, <2>4, <3>8
      <4>2. todo[2][1] = p[2] + 1 /\ todo[2][3] = p[3]
        <5>1. 1 \in 1..(Len(todo) - 1) /\ 1 + 1 = 2
          BY <4>1
        <5> QED BY <1>i, <2>2, <5>1 DEF TodoOK
      <4>3. p[2] \in Nat /\ (p[2] + 1) - 1 = p[2]
        BY <2>2 DEF Part
      <4>4. Q[Len(Q)] = <<offered', todo'[1][1] - 1, todo'[1][3]>>
        BY <2>4, <3>5, <4>1, <4>2, <4>3
      <4>5. Q[Len(Q)][1] <= offered'
        BY <2>1, <2>4, <3>5
      <4>6. Running' /\ Accepting'
        BY <2>4, <2>5, <3>1, <3>8 DEF Running, Accepting, SetWriteEvent
      <4> QED BY <3>5, <3>6, <3>q, <4>4, <4>5, <4>6 DEF InFrame
    <3> QED BY <3>7, <3>8
  <2>6. CASE ~Accepting
    <3>1. rep' = rep
      BY <1>i, <1>6, <2>6, HandlerEffect
    <3>2. Promised' = Promised
      BY <1>0, <2>4, <3>1
    <3>3. ~(Running' /\ Accepting')
      BY <2>4, <2>6 DEF Running, Accepting, SetWriteEvent
    <3>4. Chain(Promised)'
      BY <1>i, <3>2 DEF Chain
    <3>5. Ends(Promised')
      BY <1>i, <2>6, <3>2 DEF InFrame
    <3> QED BY <1>i, <2>4, <3>2, <3>3, <3>4, <3>5 DEF InFrame
  <2> QED BY <2>5, <2>6
<1>7. CASE Send
  <2>1. PICK k \in 1..(Len(rep) - sentlen) : SendReply(k)
    BY <1>7 DEF Send
  <2>2. sentlen <= Len(rep)
    BY DEF Inv, TypeOK, Armed
  <2>3. Promised' = Promised
    BY <1>i, <2>1, <2>2, SendKeepsPromise
  <2> QED BY <1>1, <2>1, <2>3 DEF SendReply, Idle, handlerVars
<1>8. CASE Disconnect
  BY <1>0, <1>1, <1>8 DEF Disconnect, Idle, bufferVars, handlerVars
<1>9. CASE Cron
  BY <1>0, <1>1, <1>9 DEF Cron, WorkerCron, bufferVars, handlerVars
<1>10. CASE UNCHANGED vars
  <2>1. Promised' = Promised
    BY <1>0, <1>10 DEF vars
  <2> QED BY <1>i, <1>10, <2>1 DEF vars, Chain, InFrame, Running, Accepting, SetWriteEvent
<1> QED BY <1>3, <1>4, <1>5, <1>6, <1>7, <1>8, <1>9, <1>10 DEF Next
----------------------------------------------------------------------------
LEMMA Start ==
  Init => Inv
<1> SUFFICES ASSUME Init PROVE Inv
  OBVIOUS
<1>1. TypeOK
  <2>1. <<>> \in Seq(Byte) /\ 0 \in 0..MaxTime /\ 0 \in 0..MaxFrames
    BY LimitsAssumption
  <2> QED BY <2>1 DEF Init, TypeOK
<1>2. TodoOK
  <2>1. todo = <<>> /\ Len(<<>>) = 0 /\ <<>> \in Seq(Part)
    BY DEF Init
  <2> QED BY <2>1 DEF TodoOK, Running
<1>3. Armed
  BY DEF Init, Armed
<1>4. Promised = <<>>
  <2>1. Len(Promised) = 0
    BY <1>1 DEF Init, Promised, TypeOK
  <2> QED BY <1>1, <2>1, PromisedType, EmptySeq
<1>5. Chain(Promised)
  <2>1. Len(<<>>) = 0
    OBVIOUS
  <2> QED BY <1>4, <2>1 DEF Chain
<1>6. InFrame(Promised)
  BY <1>4 DEF Init, InFrame, Running, Ends
<1> QED BY <1>1, <1>2, <1>3, <1>5, <1>6 DEF Inv

LEMMA Invariance ==
  Spec => []Inv
<1>1. ASSUME Inv, [Next]_vars PROVE Inv'
  <2>1. Chain(Promised)' /\ InFrame(Promised)'
    BY <1>1, FrameStep
  <2>2. TypeOK' /\ TodoOK' /\ Armed'
    BY <1>1, TypeStep
  <2> QED BY <2>1, <2>2 DEF Inv
<1> QED BY <1>1, Start, PTL DEF Spec

(* The variables keep their types, sentlen_ and the buffer included. *)
THEOREM TypeCorrect ==
  Spec => []TypeOK
<1>1. Inv => TypeOK
  BY DEF Inv
<1> QED BY <1>1, Invariance, PTL

(* AE_WRITABLE is registered exactly while rep_ holds bytes, and sentlen_  *)
(* is a position in it, after any sequence of replies, partial sends and   *)
(* ways to leave (Reply, SendReply, FreeClient).                           *)
THEOREM EventArmed ==
  Spec => []WriteEventArmed
<1>1. Inv => WriteEventArmed
  BY DEF Inv, Armed, WriteEventArmed
<1> QED BY <1>1, Invariance, PTL

(* Replies are refused part by part (Reply returns early when a buffer is  *)
(* partly sent or the client is to be closed), and yet the peer gets whole *)
(* frames, in order, whatever parts they are made of.                      *)
THEOREM OnlyWholeFrames ==
  Spec => []WholeFrames
<1>1. Inv => WholeFrames
  <2> SUFFICES ASSUME Inv PROVE WholeFrames
    OBVIOUS
  <2>1. Promised \in Seq(Byte) /\ Chain(Promised) /\ InFrame(Promised)
    BY PromisedType DEF Inv
  <2>2. ~Running => Ends(Promised)
    BY <2>1 DEF InFrame
  <2>3. Promised # <<>> => Last(Promised) = Promised[Len(Promised)]
    BY DEF Last
  <2> QED BY <2>1, <2>2, <2>3 DEF Chain, Follows, Ends, WholeFrames
<1> QED BY <1>1, Invariance, PTL

----------------------------------------------------------------------------
(* A client that stays cannot fill the memory: its buffer is below one of  *)
(* the hard limits, also when it subscribes, leaves, or is given replies   *)
(* of many parts with bytes still unsent (0 is no limit).                  *)
BufferBounded ==
  place = "open" /\ Hard["normal"] # 0 /\ Hard["pubsub"] # 0 =>
    Len(rep) < Hard["normal"] \/ Len(rep) < Hard["pubsub"]

(* A step of the handler leaves a client open only below the limit of its  *)
(* type, and otherwise where it is.                                        *)
LEMMA HandlerBound ==
  ASSUME TypeOK, HandlerStep, place' = "open"
  PROVE  /\ place = "open"
         /\ \/ rep' = rep
            \/ Hard[LimitType] = 0 \/ ~(Len(rep') >= Hard[LimitType])
<1>1. Reply(Head(todo))
  BY DEF HandlerStep
<1>2. CASE closeAfter \/ ~SetWriteEvent
  BY <1>1, <1>2 DEF Reply, bufferVars
<1>3. CASE ~(closeAfter \/ ~SetWriteEvent)
  <2>1. AsyncClose(Len(rep'))
    BY <1>1, <1>3 DEF Reply
  <2>2. place = "open" /\ ~HardReached(Len(rep'))
    BY <2>1 DEF AsyncClose
  <2> QED BY <2>2 DEF HardReached
<1> QED BY <1>2, <1>3

(* CheckOutputBufferLimits after every append keeps rep_ of a client that  *)
(* is not scheduled for closing below the larger hard limit.               *)
THEOREM Bounded ==
  Spec => []BufferBounded
<1>1. Init => BufferBounded
  <2> SUFFICES ASSUME Init, Hard["normal"] # 0 PROVE Len(rep) < Hard["normal"]
    BY DEF BufferBounded
  <2>1. rep = <<>> /\ Len(<<>>) = 0 /\ Hard["normal"] \in Nat
    BY LimitsAssumption DEF Init
  <2> QED BY <2>1
<1>2. ASSUME Inv, Inv', BufferBounded, [Next]_vars PROVE BufferBounded'
  <2> SUFFICES ASSUME place' = "open", Hard["normal"] # 0, Hard["pubsub"] # 0
               PROVE  Len(rep') < Hard["normal"] \/ Len(rep') < Hard["pubsub"]
    BY DEF BufferBounded
  <2>0. /\ Hard["normal"] \in Nat \ {0} /\ Hard["pubsub"] \in Nat
        /\ TypeOK /\ Len(rep') \in Nat /\ LimitType \in {"normal", "pubsub"}
    BY <1>2, LimitsAssumption DEF Inv, TypeOK, LimitType
  <2>1. ASSUME place = "open", rep' = rep
        PROVE  Len(rep') < Hard["normal"] \/ Len(rep') < Hard["pubsub"]
    BY <1>2, <2>1 DEF BufferBounded
  <2>2. ASSUME NEW s \in Shapes, ReceiveMessage(s) PROVE place = "open" /\ rep' = rep
    BY <2>2 DEF ReceiveMessage, bufferVars
  <2>3. CASE Command
    BY <2>1, <2>3 DEF Command, ProcessCommand, bufferVars
  <2>4. CASE SilentProtocolError
    BY <2>1, <2>4 DEF SilentProtocolError, bufferVars
  <2>5. CASE HandlerStep
    <3>1. /\ place = "open"
          /\ rep' = rep \/ Hard[LimitType] = 0 \/ ~(Len(rep') >= Hard[LimitType])
      BY <2>0, <2>5, HandlerBound
    <3>2. LimitType = "normal" \/ LimitType = "pubsub"
      BY <2>0
    <3>3. CASE rep' = rep
      BY <2>1, <3>1, <3>3
    <3>4. CASE LimitType = "normal" /\ rep' # rep
      <4>1. ~(Len(rep') >= Hard["normal"])
        BY <3>1, <3>4
      <4> QED BY <2>0, <4>1
    <3>5. CASE LimitType = "pubsub" /\ rep' # rep
      <4>1. ~(Len(rep') >= Hard["pubsub"])
        BY <3>1, <3>5
      <4> QED BY <2>0, <4>1
    <3> QED BY <3>2, <3>3, <3>4, <3>5
  <2>6. CASE Send
    <3>1. PICK k \in 1..(Len(rep) - sentlen) : SendReply(k)
      BY <2>6 DEF Send
    <3>2. place = "open" /\ (rep' = <<>> \/ rep' = rep)
      BY <3>1 DEF SendReply, FreeClient
    <3>3. rep' = <<>> => Len(rep') = 0
      OBVIOUS
    <3> QED BY <2>0, <2>1, <3>2, <3>3
  <2>7. CASE Disconnect
    BY <2>1, <2>7 DEF Disconnect, FreeClient, bufferVars
  <2>8. CASE Cron
    BY <2>1, <2>8 DEF Cron, WorkerCron, bufferVars
  <2>9. CASE UNCHANGED vars
    BY <2>1, <2>9 DEF vars
  <2> QED BY <1>2, <2>1, <2>2, <2>3, <2>4, <2>5, <2>6, <2>7, <2>8, <2>9 DEF Next
<1> QED BY <1>1, <1>2, Invariance, PTL DEF Spec

(* A handler that runs has a client. *)
Alive == Running => place # "freed"

LEMMA AliveStep ==
  ASSUME Inv, Alive, [Next]_vars
  PROVE  Alive'
<1>0. ASSUME Idle, place' = place PROVE Alive'
  BY <1>0 DEF Idle, Alive
<1>1. ASSUME NEW s \in Shapes, ReceiveMessage(s) PROVE Alive'
  BY <1>0, <1>1 DEF ReceiveMessage, Begin
<1>2. CASE Command
  BY <1>0, <1>2 DEF Command, ProcessCommand, Begin
<1>3. CASE HandlerStep
  <2>1. place # "freed" /\ Reply(Head(todo))
    BY <1>3 DEF HandlerStep, Alive
  <2> QED BY <2>1 DEF Reply, AsyncClose, Alive
<1>4. ASSUME ~Running, todo' = todo PROVE Alive'
  BY <1>4 DEF Running, Alive
<1>5. CASE SilentProtocolError
  BY <1>4, <1>5 DEF SilentProtocolError, Idle, handlerVars
<1>6. CASE Send
  BY <1>4, <1>6 DEF Send, SendReply, Idle, handlerVars
<1>7. CASE Disconnect
  BY <1>4, <1>7 DEF Disconnect, Idle, handlerVars
<1>8. CASE Cron
  BY <1>4, <1>8 DEF Cron, WorkerCron, handlerVars
<1>9. CASE UNCHANGED vars
  BY <1>9 DEF vars, Alive, Running
<1> QED BY <1>1, <1>2, <1>3, <1>5, <1>6, <1>7, <1>8, <1>9 DEF Next

(* What was accepted for the peer is never taken back, changed or sent     *)
(* again, whatever pieces the socket takes and however the client leaves,  *)
(* and a deleted client accepts and sends nothing.                         *)
NeverTakenBack ==
  [][/\ IsPrefix(Promised, Promised') /\ IsPrefix(stream, stream')
     /\ place = "freed" => Promised' = Promised /\ stream' = stream]_vars

LEMMA PrefixOfConcat ==
  ASSUME NEW P \in Seq(Byte), NEW B \in Seq(Byte)
  PROVE  IsPrefix(P, P \o B) /\ IsPrefix(P, P)
<1>1. /\ P \o B \in Seq(Byte) /\ Len(P \o B) = Len(P) + Len(B)
      /\ \A i \in 1..Len(P) : (P \o B)[i] = P[i]
  BY ConcatProperties
<1>2. Len(P) \in Nat /\ Len(B) \in Nat
  OBVIOUS
<1>3. SubSeq(P \o B, 1, Len(P)) = SubSeq(P, 1, Len(P))
  BY <1>1, <1>2
<1> QED BY <1>1, <1>2, <1>3 DEF IsPrefix

LEMMA Grows ==
  ASSUME Inv, Alive, Next
  PROVE  /\ IsPrefix(Promised, Promised') /\ IsPrefix(stream, stream')
         /\ place = "freed" => Promised' = Promised /\ stream' = stream
<1>i. TypeOK /\ TodoOK /\ Promised \in Seq(Byte) /\ stream \in Seq(Byte)
  BY PromisedType DEF Inv, TypeOK
<1>0. <<>> \in Seq(Byte)
  OBVIOUS
<1>p. IsPrefix(Promised, Promised) /\ IsPrefix(stream, stream)
  BY <1>i, <1>0, PrefixOfConcat
<1>q. ASSUME UNCHANGED <<stream, rep, sentlen>>
      PROVE  /\ IsPrefix(Promised, Promised') /\ IsPrefix(stream, stream')
             /\ Promised' = Promised /\ stream' = stream
  <2>1. Promised' = Promised
    BY <1>q DEF Promised
  <2> QED BY <1>p, <1>q, <2>1
<1>1. ASSUME NEW s \in Shapes, ReceiveMessage(s) PROVE UNCHANGED <<stream, rep, sentlen>>
  BY <1>1 DEF ReceiveMessage, bufferVars
<1>2. CASE Command
  BY <1>2, <1>q DEF Command, ProcessCommand, bufferVars
<1>3. CASE SilentProtocolError
  BY <1>3, <1>q DEF SilentProtocolError, bufferVars
<1>4. CASE HandlerStep
  <2>1. stream' = stream /\ sentlen' = sentlen
    BY <1>i, <1>4, HandlerEffect
  <2>2. CASE ~Accepting
    <3>1. rep' = rep
      BY <1>i, <1>4, <2>2, HandlerEffect
    <3> QED BY <1>q, <2>1, <3>1
  <2>3. CASE Accepting
    <3> DEFINE p == Head(todo)
    <3>1. rep' = rep \o Bytes(p) /\ sentlen = 0
      BY <1>i, <1>4, <2>3, HandlerEffect DEF Accepting, SetWriteEvent
    <3>2. /\ todo \in Seq(Part) /\ todo # <<>> /\ offered \in 1..MaxFrames
      BY <1>i, <1>4 DEF HandlerStep, TodoOK, Running
    <3>3. p = todo[1] /\ 1 \in 1..Len(todo) /\ p \in Part
      BY <3>2
    <3>4. p[1] <= p[2] /\ p[2] <= p[3]
      BY <1>i, <3>3 DEF TodoOK
    <3>5. Bytes(p) \in Seq(Byte)
      BY <3>2, <3>3, <3>4, PartBytes
    <3> HIDE DEF p
    <3>6. Promised' = Promised \o Bytes(p)
      BY <1>i, <2>1, <3>1, <3>5, AppendedIsPromised
    <3>7. IsPrefix(Promised, Promised')
      BY <1>i, <3>5, <3>6, PrefixOfConcat
    <3>8. place # "freed"
      BY <1>4 DEF HandlerStep, Alive
    <3> QED BY <1>p, <2>1, <3>7, <3>8
  <2> QED BY <2>2, <2>3
<1>5. CASE Send
  <2>1. PICK k \in 1..(Len(rep) - sentlen) : SendReply(k)
    BY <1>5 DEF Send
  <2>2. sentlen <= Len(rep)
    BY DEF Inv, TypeOK, Armed
  <2>3. Promised' = Promised
    BY <1>i, <2>1, <2>2, SendKeepsPromise
  <2>4. stream' = stream \o SubSeq(rep, sentlen + 1, sentlen + k) /\ place # "freed"
    BY <2>1 DEF SendReply, Idle
  <2>5. SubSeq(rep, sentlen + 1, sentlen + k) \in Seq(Byte)
    <3>1. /\ sentlen + 1 \in Int /\ sentlen + k \in Int
          /\ \A i \in (sentlen + 1)..(sentlen + k) : rep[i] \in Byte
      BY <1>i, <2>2 DEF TypeOK
    <3> QED BY <3>1, SubSeqProperties
  <2>6. IsPrefix(stream, stream')
    BY <1>i, <2>4, <2>5, PrefixOfConcat
  <2> QED BY <1>p, <2>3, <2>4, <2>6
<1>6. CASE Disconnect
  BY <1>6, <1>q DEF Disconnect, bufferVars
<1>7. CASE Cron
  BY <1>7, <1>q DEF Cron, WorkerCron, bufferVars
<1> QED BY <1>1, <1>q, <1>2, <1>3, <1>4, <1>5, <1>6, <1>7 DEF Next

(* What Reply accepted and SendReply sent is fixed: both only grow at the  *)
(* end, and not at all once the client is deleted.                         *)
THEOREM TakenBackNever ==
  Spec => NeverTakenBack
<1> DEFINE A == /\ IsPrefix(Promised, Promised') /\ IsPrefix(stream, stream')
                /\ place = "freed" => Promised' = Promised /\ stream' = stream
<1>1. ASSUME Inv, Alive, [Next]_vars PROVE [A]_vars
  BY <1>1, Grows
<1>2. Init => Alive
  BY DEF Init, Alive
<1>3. ASSUME Inv, Alive, [Next]_vars PROVE Alive'
  BY <1>3, AliveStep
<1> QED BY <1>1, <1>2, <1>3, Invariance, PTL DEF Spec, NeverTakenBack
=============================================================================
