----------------------------- MODULE MCReplyPath -----------------------------
(* A frame of one part (+OK, an error, INFO) and one of two parts, as a    *)
(* published message or the answer to SUBSCRIBE.                           *)
EXTENDS ReplyPath

MCShapes == {<<1>>, <<1, 2>>}

(* Both limits are looser for subscribers; each can be reached. *)
Limits(normal, pubsub) == [t \in {"normal", "pubsub"} |-> IF t = "normal" THEN normal ELSE pubsub]
MCHard == Limits(3, 4)
MCSoft == Limits(1, 2)
MCSeconds == Limits(0, 1)
============================================================================
