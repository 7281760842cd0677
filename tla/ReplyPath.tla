----------------------------- MODULE ReplyPath -----------------------------
(***************************************************************************)
(* The output side of one client (src/client.cc): rep_, sentlen_, the      *)
(* write event, the output buffer limits and the three ways a client ends. *)
(* A handler appends the parts of its replies one by one (Reply and its    *)
(* variants), each with its own checks; unsent parts wait for SendReply,   *)
(* which the event loop calls when the socket takes bytes.  The worker is  *)
(* one thread, so nothing else happens between the parts of a handler; its *)
(* clock (unixtime, thread local) moves only in its cron.                  *)
(*                                                                         *)
(* A byte is <<f, i, n>>, the i-th of the n bytes of frame f; a frame is   *)
(* one protocol reply or one published message.                            *)
(***************************************************************************)
EXTENDS Integers, Sequences, SequencesExt

CONSTANTS
  Shapes,     \* where the parts of a frame end: a set of sequences
  Hard, Soft, \* nlimit of "normal" and "pubsub": limits in bytes, 0 for none
  Seconds,    \* soft_limit_time of both
  MaxFrames,  \* bound on the frames offered
  MaxTime     \* bound on the clock

ASSUME LimitsAssumption ==
  /\ \A limit \in {Hard, Soft, Seconds} : limit \in [{"normal", "pubsub"} -> Nat]
  /\ MaxFrames \in Nat /\ MaxTime \in Nat
  /\ \A s \in Shapes : /\ s \in Seq(Nat \ {0}) /\ s # <<>>
                       /\ \A j, k \in 1..Len(s) : j < k => s[j] < s[k]

VARIABLES
  place,      \* "open": in clients_, "closing": in clients_to_close_, "freed"
  sub,        \* the client has subscriptions
  rep,        \* rep_
  sentlen,    \* sentlen_
  writable,   \* AE_WRITABLE is registered
  closeAfter, \* CLIENT_CLOSE_AFTER_REPLY
  lastSoft,   \* last_soft_limit_
  unixtime,   \* the worker's clock; 0 until its first cron
  todo,       \* parts the running handler has still to reply: <<first, last, n>>
  after,      \* what the handler does after its replies
  offered,    \* number of frames handed to the client so far
  stream      \* what the peer has received

vars == <<place, sub, rep, sentlen, writable, closeAfter, lastSoft, unixtime,
          todo, after, offered, stream>>
handlerVars == <<todo, after, offered>>
bufferVars == <<rep, sentlen, writable>>

Init ==
  /\ place = "open" /\ sub = FALSE
  /\ rep = <<>> /\ sentlen = 0 /\ writable = FALSE
  /\ closeAfter = FALSE /\ lastSoft = 0 /\ unixtime = 0
  /\ todo = <<>> /\ after = "stay" /\ offered = 0
  /\ stream = <<>>

(* The handler that has the thread. *)
Running == todo # <<>>
Idle == place # "freed" /\ ~Running

(* The parts of a frame of shape s, each as <<first byte, last byte, n>>.  *)
Parts(s) ==
  [k \in 1..Len(s) |-> <<IF k = 1 THEN 1 ELSE s[k - 1] + 1, s[k], s[Len(s)]>>]

(* A handler starts that replies with one frame. *)
Begin(s, then) ==
  /\ Idle
  /\ offered < MaxFrames
  /\ offered' = offered + 1
  /\ todo' = Parts(s)
  /\ after' = then

(* Worker::PublishMessage calls ReceiveMessage or ReceivePatternMessage of *)
(* a subscriber.                                                           *)
ReceiveMessage(s) ==
  /\ sub
  /\ Begin(s, "message")
  /\ UNCHANGED <<place, sub, bufferVars, closeAfter, lastSoft, unixtime, stream>>

(* ProcessCommand, while the request buffer is still served: a command     *)
(* that replies and changes no subscription; SUBSCRIBE, in the tables      *)
(* before it is answered; UNSUBSCRIBE, answered before the tables change;  *)
(* QUIT and a protocol error that is answered, by one part, and close.     *)
ProcessCommand(s, subscribe, then) ==
  /\ ~closeAfter
  /\ then = "close" => Len(s) = 1
  /\ Begin(s, then)
  /\ sub' = (sub \/ subscribe)
  /\ UNCHANGED <<place, bufferVars, closeAfter, lastSoft, unixtime, stream>>

(* ParseRequestBuffer on an invalid multibulk length: only the flag.       *)
SilentProtocolError ==
  /\ Idle /\ ~closeAfter
  /\ closeAfter' = TRUE
  /\ UNCHANGED <<place, sub, bufferVars, lastSoft, unixtime, handlerVars, stream>>

(* CheckOutputBufferLimits on a buffer of n bytes. *)
LimitType == IF sub THEN "pubsub" ELSE "normal"
HardReached(n) == Hard[LimitType] # 0 /\ n >= Hard[LimitType]
SoftReached(n) == Soft[LimitType] # 0 /\ n >= Soft[LimitType]
SoftExpired(n) ==
  SoftReached(n) /\ lastSoft # 0 /\ unixtime - lastSoft > Seconds[LimitType]

NewLastSoft(n) ==
  IF ~SoftReached(n) THEN 0
  ELSE IF lastSoft = 0 THEN unixtime ELSE lastSoft

(* AsyncCloseOnOutputBufferLimitsReached: a client already scheduled for   *)
(* closing is not looked at again.                                         *)
AsyncClose(n) ==
  IF place = "open"
    THEN /\ lastSoft' = NewLastSoft(n)
         /\ place' = IF HardReached(n) \/ SoftExpired(n) THEN "closing" ELSE place
    ELSE UNCHANGED <<place, lastSoft>>

(* SetWriteEvent; registering the event does not fail (see README). *)
SetWriteEvent == sentlen = 0

(* The bytes of part p of the frame being offered. *)
Bytes(p) == [j \in 1..(p[2] - p[1] + 1) |-> <<offered, p[1] + j - 1, p[3]>>]

(* Mutant: the event is not registered for an empty buffer. *)
ReplyArmsLate(p) ==
  IF closeAfter \/ ~SetWriteEvent
    THEN UNCHANGED <<bufferVars, place, lastSoft>>
    ELSE /\ rep' = rep \o Bytes(p)
         /\ writable' = (writable \/ rep # <<>>)
         /\ AsyncClose(Len(rep'))
         /\ UNCHANGED sentlen

(* Mutant: nothing is appended for a client scheduled for closing. *)
ReplyOnlyOpen(p) ==
  IF closeAfter \/ ~SetWriteEvent \/ place # "open"
    THEN UNCHANGED <<bufferVars, place, lastSoft>>
    ELSE /\ rep' = rep \o Bytes(p)
         /\ writable' = TRUE
         /\ AsyncClose(Len(rep'))
         /\ UNCHANGED sentlen

(* Reply, ReplyBulk, ReplyStatusFormat, ...: one part p of a frame.        *)
Reply(p) ==
  IF closeAfter \/ ~SetWriteEvent
    THEN UNCHANGED <<bufferVars, place, lastSoft>>
    ELSE /\ rep' = rep \o Bytes(p)
         /\ writable' = TRUE
         /\ AsyncClose(Len(rep'))
         /\ UNCHANGED sentlen

(* The running handler replies the next part and, after the last, takes    *)
(* the subscription back or sets CLIENT_CLOSE_AFTER_REPLY.                  *)
HandlerStep ==
  /\ Running
  /\ Reply(Head(todo))
  /\ todo' = Tail(todo)
  /\ sub' = (sub /\ ~(todo' = <<>> /\ after = "leave"))
  /\ closeAfter' = (closeAfter \/ (todo' = <<>> /\ after = "close"))
  /\ UNCHANGED <<unixtime, after, offered, stream>>

(* Worker::FreeClient: a client scheduled for closing is left to the cron. *)
FreeClient == place' = IF place = "open" THEN "freed" ELSE place

(* Mutant: sentlen_ is not reset when the buffer has been sent. *)
SendReplyNoReset(k) ==
  /\ Idle /\ writable
  /\ stream' = stream \o SubSeq(rep, sentlen + 1, sentlen + k)
  /\ IF sentlen + k = Len(rep)
       THEN /\ rep' = <<>> /\ sentlen' = k /\ writable' = FALSE
            /\ IF closeAfter THEN FreeClient ELSE UNCHANGED place
       ELSE /\ sentlen' = sentlen + k
            /\ UNCHANGED <<rep, writable, place>>
  /\ UNCHANGED <<sub, closeAfter, lastSoft, unixtime, handlerVars>>

(* SendReply: the socket takes k bytes. When that empties the buffer the   *)
(* write event goes, and the client too if it was to be closed.            *)
SendReply(k) ==
  /\ Idle /\ writable
  /\ stream' = stream \o SubSeq(rep, sentlen + 1, sentlen + k)
  /\ IF sentlen + k = Len(rep)
       THEN /\ rep' = <<>> /\ sentlen' = 0 /\ writable' = FALSE
            /\ IF closeAfter THEN FreeClient ELSE UNCHANGED place
       ELSE /\ sentlen' = sentlen + k
            /\ UNCHANGED <<rep, writable, place>>
  /\ UNCHANGED <<sub, closeAfter, lastSoft, unixtime, handlerVars>>

(* ReadRequest and SendReply on an error, on the peer's close, or when the *)
(* request buffer is too long.                                             *)
Disconnect ==
  /\ Idle
  /\ FreeClient
  /\ UNCHANGED <<sub, bufferVars, closeAfter, lastSoft, unixtime, handlerVars, stream>>

(* Mutant: clients_to_close_ is not emptied. *)
WorkerCronForgets(t) ==
  /\ ~Running
  /\ unixtime' = t
  /\ UNCHANGED <<place, sub, bufferVars, closeAfter, lastSoft, handlerVars, stream>>

(* Worker::Cron: the clock, and FreeClientsInAsyncFreeQueue. *)
WorkerCron(t) ==
  /\ ~Running
  /\ unixtime' = t
  /\ place' = IF place = "closing" THEN "freed" ELSE place
  /\ UNCHANGED <<sub, bufferVars, closeAfter, lastSoft, handlerVars, stream>>

Cron == \E t \in {unixtime, unixtime + 1} : t <= MaxTime /\ WorkerCron(t)
Send == \E k \in 1..(Len(rep) - sentlen) : SendReply(k)

Command ==
  \E s \in Shapes :
    \/ ProcessCommand(s, FALSE, "stay")
    \/ ProcessCommand(s, TRUE, "stay")
    \/ ProcessCommand(s, FALSE, "leave")
    \/ ProcessCommand(s, FALSE, "close")

Next ==
  \/ \E s \in Shapes : ReceiveMessage(s)
  \/ Command
  \/ SilentProtocolError
  \/ HandlerStep
  \/ Send
  \/ Disconnect
  \/ Cron

Spec == Init /\ [][Next]_vars

(* The event loop runs the handlers that are due: a running handler goes   *)
(* on, the cron's timer fires, and SendReply is called as long as the peer *)
(* takes bytes (a peer that does not is Spec, without fairness).           *)
FairSpec == Spec /\ WF_vars(HandlerStep) /\ WF_vars(Cron) /\ WF_vars(Send)

----------------------------------------------------------------------------
Byte == (1..MaxFrames) \X (Nat \ {0}) \X (Nat \ {0})

(* Type invariant. *)
TypeOK ==
  /\ place \in {"open", "closing", "freed"}
  /\ sub \in BOOLEAN /\ writable \in BOOLEAN /\ closeAfter \in BOOLEAN
  /\ rep \in Seq(Byte) /\ stream \in Seq(Byte)
  /\ sentlen \in Nat
  /\ lastSoft \in 0..MaxTime /\ unixtime \in 0..MaxTime
  /\ after \in {"message", "stay", "leave", "close"}
  /\ offered \in 0..MaxFrames

(* What the peer has received and what is still to be sent. *)
Promised == stream \o SubSeq(rep, sentlen + 1, Len(rep))

(* The byte stream is made of whole frames in the order in which they were *)
(* handed over: although replies are refused part by part, while a buffer  *)
(* is partly sent or the client is leaving, no frame is ever sent without  *)
(* one of its parts, none is sent twice and none overtakes another.        *)
WholeFrames ==
  /\ Promised # <<>> => Promised[1][2] = 1
  /\ \A j \in 1..(Len(Promised) - 1) :
       LET b == Promised[j]
           c == Promised[j + 1]
       IN  IF b[2] < b[3] THEN c = <<b[1], b[2] + 1, b[3]>>
                          ELSE c[1] > b[1] /\ c[2] = 1
  /\ Promised # <<>> /\ ~Running => Last(Promised)[2] = Last(Promised)[3]

(* No wakeup is lost: the write event is registered exactly while there    *)
(* are bytes to send, and sentlen_ is a position inside the buffer.        *)
WriteEventArmed ==
  place # "freed" =>
    /\ writable <=> rep # <<>>
    /\ sentlen < Len(rep) \/ (sentlen = 0 /\ rep = <<>>)

(* A client that is to leave is deleted, whichever way it was sent away:   *)
(* after the answer to QUIT or to a protocol error, after what it was owed *)
(* when a protocol error was not answered, by the cron when it had reached *)
(* a limit, or with its connection, and also when it meets two of these,   *)
(* as a QUIT whose answer is the reply that reaches the limit.  Only one   *)
(* that is owed nothing and not answered stays: no SendReply comes for it. *)
LeavingEnds ==
  ((Running /\ after = "close") \/ place = "closing" \/ (closeAfter /\ rep # <<>>))
    ~> place = "freed"

(* Whatever was accepted for the peer reaches it, unless the client goes.  *)
Flushed == rep # <<>> ~> (rep = <<>> \/ place = "freed")

(* A message handed to a connected subscriber that has not asked to leave  *)
(* is in its stream, or waits to be sent (test/funcational/test.py:78).    *)
NoMessageLost ==
  after = "message" /\ place = "open" /\ ~closeAfter /\ ~Running =>
    \E j \in 1..Len(Promised) : Promised[j][1] = offered
============================================================================
