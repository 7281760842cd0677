--------------------------- MODULE BroadcastLog ---------------------------
(***************************************************************************)
(* What the message bus promises to the parts that use it: one log of      *)
(* messages, every reader reads all of it, in order and one message at a   *)
(* time, and a message is reclaimed only when every reader has gone past   *)
(* it.  Threads, locks, notices and cursors copied early do not exist      *)
(* here.                                                                   *)
(***************************************************************************)
EXTENDS Integers

CONSTANTS Readers,     \* the workers and the storer
          Capacity     \* messages the log holds at most

VARIABLES published,   \* messages appended so far
          read,        \* messages each reader has read
          reclaimed    \* messages reclaimed, a prefix of the log

logVars == <<published, read, reclaimed>>

Init ==
  /\ published = 0
  /\ read = [r \in Readers |-> 0]
  /\ reclaimed = 0

Publish ==
  /\ published - reclaimed < Capacity
  /\ published' = published + 1
  /\ UNCHANGED <<read, reclaimed>>

Read(r) ==
  /\ read[r] < published
  /\ read' = [read EXCEPT ![r] = @ + 1]
  /\ UNCHANGED <<published, reclaimed>>

Reclaim ==
  /\ \A r \in Readers : reclaimed < read[r]
  /\ reclaimed' = reclaimed + 1
  /\ UNCHANGED <<published, read>>

Next == Publish \/ (\E r \in Readers : Read(r)) \/ Reclaim

SafeSpec == Init /\ [][Next]_logVars

Spec ==
  /\ SafeSpec
  /\ \A r \in Readers : WF_logVars(Read(r))
  /\ WF_logVars(Reclaim)
============================================================================
