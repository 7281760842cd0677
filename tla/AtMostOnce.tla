----------------------------- MODULE AtMostOnce -----------------------------
(***************************************************************************)
(* What a buffer store promises to those who give it messages: a message   *)
(* it has accepted is held until it is either delivered, once, or lost;    *)
(* both are final.  A message that is held may come into doubt: from then  *)
(* on it may be delivered or lost any number of times.  Connections,       *)
(* files, memory and restarts do not exist here, and neither does an       *)
(* order: buffer files are not read in the order of their messages.        *)
(***************************************************************************)
EXTENDS Integers, Sequences, SequencesExt

VARIABLES accepted,   \* messages accepted so far, which are 1 to accepted
          delivered,  \* what the other side has received, in that order
          lost,       \* messages that were given up
          doubtful    \* messages that may be delivered or lost again

storeVars == <<accepted, delivered, lost, doubtful>>

Held == (1..accepted) \ (ToSet(delivered) \cup lost)

Init == accepted = 0 /\ delivered = <<>> /\ lost = {} /\ doubtful = {}

(* A message is accepted; it may be lost at once. *)
Accept ==
  /\ accepted' = accepted + 1
  /\ lost' \in {lost, lost \cup {accepted + 1}}
  /\ UNCHANGED <<delivered, doubtful>>

Deliver ==
  /\ \E m \in Held \cup doubtful : delivered' = Append(delivered, m)
  /\ UNCHANGED <<accepted, lost, doubtful>>

(* Messages are lost, and messages that were held come into doubt. *)
Lose ==
  /\ \E ms \in SUBSET (Held \cup doubtful) : lost' = lost \cup ms
  /\ \E ds \in SUBSET Held : doubtful' = doubtful \cup ds
  /\ UNCHANGED <<accepted, delivered>>

Next == Accept \/ Deliver \/ Lose

Spec == Init /\ [][Next]_storeVars
=============================================================================
