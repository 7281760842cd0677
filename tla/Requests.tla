------------------------------ MODULE Requests ------------------------------
(***************************************************************************)
(* The input side of one client (src/client.cc): ReadRequest appends what  *)
(* the socket gives to req_, ProcessRequestBuffer parses and executes as   *)
(* many commands as are complete, ParseRequestBuffer keeps what it knows   *)
(* of an incomplete one in argc_, argv_ and cur_arglen_ and trims the rest *)
(* from the buffer.  One action is one stretch of that code up to its next *)
(* branch; the actions between two reads belong to one handler.            *)
(*                                                                         *)
(* Bytes are strings of length one and "\r", "\n". Every number in the     *)
(* protocol is parsed by string2ll.                                        *)
(***************************************************************************)
EXTENDS Numbers, Buffer

CONSTANTS
  Streams,   \* what peers send: a set of sequences of bytes
  MaxRead,   \* KIDS_IOBUF_LEN
  MaxQuery,  \* KIDS_MAX_QUERYBUF_LEN
  MaxArgs,   \* 1024*1024, the longest multibulk
  MaxBulk    \* 512*1024*1024, the longest argument

ASSUME RequestAssumption ==
  /\ MaxRead \in Nat \ {0} /\ MaxQuery \in Nat /\ MaxArgs \in Nat /\ MaxBulk \in Nat
  /\ \A s \in Streams : s \in Seq(STRING)

VARIABLES
  sent,      \* all that the peer sends
  nread,     \* how much of it has been read
  req,       \* req_
  argc, argv, arglen, \* argc_, argv_, cur_arglen_
  pos,       \* pos of ParseRequestBuffer
  pc,        \* where the handler is; "idle" in the event loop
  closing,   \* CLIENT_CLOSE_AFTER_REPLY
  open,      \* the client has not been freed
  executed,  \* the commands executed, in order
  complaint  \* the protocol error that was answered, or "none"

vars == <<sent, nread, req, argc, argv, arglen, pos, pc, closing, open, executed, complaint>>
parser == <<argc, argv, arglen>>

Init ==
  /\ sent \in Streams /\ nread = 0
  /\ req = EmptyBuffer
  /\ argc = 0 /\ argv = <<>> /\ arglen = -1
  /\ pos = 0 /\ pc = "idle"
  /\ closing = FALSE /\ open = TRUE
  /\ executed = <<>> /\ complaint = "none"

----------------------------------------------------------------------------
(* ReadRequest: the socket gives n bytes. *)
ReadRequest(n) ==
  /\ pc = "idle" /\ open
  /\ nread' = nread + n
  /\ req' = append(req, SubSeq(sent, nread + 1, nread + n))
  /\ IF Len(req'.data) > MaxQuery
       THEN open' = FALSE /\ UNCHANGED pc
       ELSE pc' = "loop" /\ UNCHANGED open
  /\ UNCHANGED <<sent, parser, pos, closing, executed, complaint>>

(* ReadRequest: an error, or the end of the stream. *)
Disconnect ==
  /\ pc = "idle" /\ open
  /\ open' = FALSE
  /\ UNCHANGED <<sent, nread, req, parser, pos, pc, closing, executed, complaint>>

(* The loop of ProcessRequestBuffer. *)
ProcessRequestBuffer ==
  /\ pc = "loop"
  /\ pos' = 0
  /\ IF req.data = <<>> \/ closing
       THEN pc' = "idle" /\ req' = IF req.data = <<>> THEN EmptyBuffer ELSE req
       ELSE pc' = (IF argc = 0 THEN "header" ELSE "argument") /\ UNCHANGED req
  /\ UNCHANGED <<sent, nread, parser, closing, open, executed, complaint>>

----------------------------------------------------------------------------
(* The first "\r" after the first p bytes of the buffer; the byte after it *)
(* must be there too, but is not looked at.                                *)
Newlines(p) == {i \in (p + 1)..Len(req.data) : req.data[i] = "\r"}
Newline(p) == CHOOSE i \in Newlines(p) : \A j \in Newlines(p) : i <= j

(* Mutant: the byte after "\r" is not waited for. *)
LineAtCr(p) == Newlines(p) # {}

Line(p) == Newlines(p) # {} /\ Newline(p) + 1 <= Len(req.data)

(* The number on the line after its first character. *)
LineNumber(p) == string2ll(SubSeq(req.data, p + 2, Newline(p) - 1))

(* ParseRequestBuffer returns false, having trimmed p bytes (none where it *)
(* returns early); afterwards an empty buffer is cleared.                  *)
Return(p) ==
  /\ req' = LET b == remove_front(req, p) IN IF b.data = <<>> THEN EmptyBuffer ELSE b
  /\ pc' = "idle"

(* ProcessProtocolError, after the reply e; nothing is trimmed. *)
ProtocolError(e) ==
  /\ closing' = TRUE /\ complaint' = e
  /\ Return(0)
  /\ UNCHANGED <<sent, nread, parser, pos, open, executed>>

(* ParseRequestBuffer, the number of arguments. A bad one is not answered, *)
(* one that is not positive is a line without a command, and the "*" is    *)
(* not looked at.                                                          *)
ParseHeader ==
  /\ pc = "header"
  /\ \/ /\ ~Line(0)
        /\ Return(0)
        /\ UNCHANGED <<parser, pos, closing>>
     \/ /\ Line(0) /\ (LineNumber(0) = Failed \/ LineNumber(0) > MaxArgs)
        /\ closing' = TRUE
        /\ Return(0)
        /\ UNCHANGED <<parser, pos>>
     \/ /\ Line(0) /\ ~(LineNumber(0) = Failed \/ LineNumber(0) > MaxArgs)
        /\ LineNumber(0) <= 0
        /\ req' = remove_front(req, Newline(0) + 1)
        /\ argc' = 0 /\ argv' = <<>> /\ arglen' = -1
        /\ pc' = "loop"
        /\ UNCHANGED <<pos, closing>>
     \/ /\ Line(0) /\ LineNumber(0) # Failed /\ LineNumber(0) \in 1..MaxArgs
        /\ argc' = LineNumber(0) /\ argv' = <<>>
        /\ pos' = Newline(0) + 1
        /\ pc' = "argument"
        /\ UNCHANGED <<req, arglen, closing>>
  /\ UNCHANGED <<sent, nread, open, executed, complaint>>

(* The length of the next argument. *)
ParseLength ==
  /\ pc = "argument" /\ Len(argv) < argc /\ arglen = -1
  /\ \/ /\ ~Line(pos)
        /\ Return(pos)
        /\ UNCHANGED <<sent, nread, parser, pos, closing, open, executed, complaint>>
     \/ /\ Line(pos) /\ req.data[pos + 1] # "$"
        /\ ProtocolError("expected $")
     \/ /\ Line(pos) /\ req.data[pos + 1] = "$"
        /\ LineNumber(pos) = Failed \/ LineNumber(pos) \notin 0..MaxBulk
        /\ ProtocolError("invalid bulk length")
     \/ /\ Line(pos) /\ req.data[pos + 1] = "$"
        /\ LineNumber(pos) # Failed /\ LineNumber(pos) \in 0..MaxBulk
        /\ arglen' = LineNumber(pos)
        /\ pos' = Newline(pos) + 1
        /\ UNCHANGED <<sent, nread, req, argc, argv, pc, closing, open, executed, complaint>>

(* Mutant: the "\r\n" after the argument may come later. *)
EnoughData == Len(req.data) - pos >= arglen

(* The argument and the two bytes after it are in the buffer. *)
Enough == Len(req.data) - pos >= arglen + 2

(* The next argument. *)
ParseArgument ==
  /\ pc = "argument" /\ Len(argv) < argc /\ arglen # -1
  /\ IF Enough
       THEN /\ argv' = Append(argv, SubSeq(req.data, pos + 1, pos + arglen))
            /\ pos' = pos + arglen + 2
            /\ arglen' = -1
            /\ UNCHANGED <<req, pc>>
       ELSE Return(pos) /\ UNCHANGED <<argv, arglen, pos>>
  /\ UNCHANGED <<sent, nread, argc, closing, open, executed, complaint>>

(* All arguments are there: the buffer is trimmed and ProcessCommand runs. *)
(* QUIT marks the client and leaves argv_ alone, as nothing more is parsed.*)
ProcessCommand ==
  /\ pc = "argument" /\ Len(argv) = argc
  /\ req' = remove_front(req, pos)
  /\ executed' = Append(executed, argv)
  /\ IF argv[1] = <<"q">>
       THEN closing' = TRUE /\ UNCHANGED parser
       ELSE argc' = 0 /\ argv' = <<>> /\ arglen' = -1 /\ UNCHANGED closing
  /\ pc' = "loop"
  /\ UNCHANGED <<sent, nread, pos, open, complaint>>

Read == \E n \in 1..MaxRead : nread + n <= Len(sent) /\ ReadRequest(n)

Next ==
  \/ Read \/ Disconnect
  \/ ProcessRequestBuffer
  \/ ParseHeader \/ ParseLength \/ ParseArgument \/ ProcessCommand

Spec == Init /\ [][Next]_vars

----------------------------------------------------------------------------
(* The memory of the request buffer follows what it holds, whatever the    *)
(* pieces: the allocation has room for the bytes and never more than twice *)
(* as much, however large the buffer once was.                             *)
MemoryFollowsUse == Len(req.data) <= req.cap /\ req.cap <= 2 * Len(req.data)

(* A parser that has all of the stream before it: where it is, what it has *)
(* of the command it is in, and what was executed. Once it stops, only the *)
(* commands that were executed matter.                                     *)
At(p, ac, av, al, done) ==
  [at |-> p, argc |-> ac, argv |-> av, arglen |-> al, executed |-> done, closing |-> FALSE]
Stop(done) ==
  [at |-> 0, argc |-> 0, argv |-> <<>>, arglen |-> -1, executed |-> done, closing |-> TRUE]
Fresh == At(0, 0, <<>>, -1, <<>>)

LineEnd(s, p) ==
  CHOOSE i \in (p + 1)..Len(s) :
    s[i] = "\r" /\ \A j \in (p + 1)..(i - 1) : s[j] # "\r"
ValueAt(s, p) == string2ll(SubSeq(s, p + 2, LineEnd(s, p) - 1))

(* Reads a line next: a number of arguments, or the length of one. *)
AtLine(c) == c.argc = 0 \/ (Len(c.argv) < c.argc /\ c.arglen = -1)

(* What it reads next is in the first n bytes. *)
Ready(s, c, n) ==
  /\ ~c.closing
  /\ AtLine(c) => \E i \in (c.at + 1)..(n - 1) : s[i] = "\r"
  /\ ~AtLine(c) /\ Len(c.argv) < c.argc => c.at + c.arglen + 2 <= n

Parse(s, c) ==
  LET v == ValueAt(s, c.at)
      next == LineEnd(s, c.at) + 1
      done == Append(c.executed, c.argv)
  IN  IF c.argc = 0
        THEN IF v = Failed \/ v > MaxArgs THEN Stop(c.executed)
             ELSE At(next, IF v <= 0 THEN 0 ELSE v, <<>>, -1, c.executed)
      ELSE IF AtLine(c)
        THEN IF s[c.at + 1] # "$" \/ v = Failed \/ v \notin 0..MaxBulk
               THEN Stop(c.executed)
             ELSE At(next, c.argc, c.argv, v, c.executed)
      ELSE IF Len(c.argv) < c.argc
        THEN At(c.at + c.arglen + 2, c.argc,
                Append(c.argv, SubSeq(s, c.at + 1, c.at + c.arglen)), -1, c.executed)
      ELSE IF c.argv[1] = <<"q">> THEN Stop(done)
      ELSE At(c.at, 0, <<>>, -1, done)

(* Where it is when it has parsed all that the first n bytes allow: every  *)
(* step but the last of a command reads two bytes or more.                 *)
ParseReady(s, c, n) == IF Ready(s, c, n) THEN Parse(s, c) ELSE c
Outcome(s, n) ==
  LET run[k \in Nat] == IF k = 0 THEN Fresh ELSE ParseReady(s, run[k - 1], n)
  IN  run[2 * n + 1]

(* The same of the client's parser, whose position is in its buffer. *)
Offset == nread - Len(req.data) + (IF pc = "argument" THEN pos ELSE 0)
Here == IF closing THEN Stop(executed) ELSE At(Offset, argc, argv, arglen, executed)

(* The pieces in which the bytes arrive do not matter, nor do errors in    *)
(* them: after every read the client has executed, has marked for closing  *)
(* and knows of the unfinished command exactly what one pass over all that *)
(* was read so far gives.                                                  *)
PiecesDoNotMatter == open /\ pc = "idle" => Here = Outcome(sent, nread)
============================================================================
