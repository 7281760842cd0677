----------------------------- MODULE MCRequests -----------------------------
(***************************************************************************)
(* Streams for Requests: encodings of up to two commands whose arguments   *)
(* look like the protocol itself, with at most one byte changed; and what  *)
(* the well-formed ones ask for.                                           *)
(***************************************************************************)
EXTENDS Requests

(* Arguments: empty, a line end, a length, QUIT. *)
Args == {<<>>, <<"\r", "\n">>, <<"$", "1">>, <<"q">>}
Commands == {<<a>> : a \in Args} \cup {<<a, b>> : a, b \in Args}
Scripts == {<<c>> : c \in Commands} \cup {<<c, d>> : c, d \in Commands}

Bulk(a) == <<"$", ToString(Len(a)), "\r", "\n">> \o a \o <<"\r", "\n">>
Multibulk(c) ==
  <<"*", ToString(Len(c)), "\r", "\n">> \o FoldLeft(LAMBDA s, a : s \o Bulk(a), <<>>, c)
Encode(script) == FoldLeft(LAMBDA s, c : s \o Multibulk(c), <<>>, script)

Changed(s) == {[s EXCEPT ![i] = b] : i \in DOMAIN s, b \in {"-", "0", "1", "2", "9", "\r", "$"}}

WellFormed == {Encode(s) : s \in Scripts}
ScriptOf == [b \in WellFormed |-> CHOOSE s \in Scripts : Encode(s) = b]
MCStreams ==
  WellFormed \cup UNION {Changed(Encode(<<c, <<<<"q">>>> >>)) : c \in {d \in Commands : Len(d) = 2}}

(* The commands of a script up to the first QUIT. *)
UpToQuit(script) ==
  LET quits == {i \in DOMAIN script : script[i][1] = <<"q">>}
  IN  IF quits = {} THEN script
      ELSE SubSeq(script, 1, CHOOSE i \in quits : \A j \in quits : i <= j)

(* Whatever the pieces in which they arrive, and although their arguments  *)
(* contain line ends and lengths, exactly the commands the peer sent are   *)
(* executed, in order and up to QUIT, and all of them once all is read.    *)
CommandsAsSent ==
  sent \in WellFormed =>
    LET expected == UpToQuit(ScriptOf[sent])
    IN  /\ IsPrefix(executed, expected)
        /\ complaint = "none"
        /\ open /\ pc = "idle" /\ nread = Len(sent) => executed = expected
============================================================================
