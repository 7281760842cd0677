------------------------- MODULE MessageBusProofs -------------------------
(***************************************************************************)
(* Safety of the message bus for every number of workers, socket pair      *)
(* capacity and queue limit.  The inductive invariant adds to the checked  *)
(* properties where the notices are (every item a consumer has not served  *)
(* has exactly one notice, in exactly one place), how stale the collector's*)
(* copies may be, and how many pushes are between check and push.          *)
(***************************************************************************)
EXTENDS MessageBus, FiniteSetTheorems, TLAPS

Place(r, s) == wait[r][s] \cup pipe[r][s]

(* Notices are named after items that were pushed, and each is in one      *)
(* place only.                                                             *)
NoticesApart ==
  \A r \in Consumers :
    /\ Outstanding(r) \subseteq 1 .. tail
    /\ \A s, u \in Workers : \A n \in Place(r, s) : n \in Place(r, u) => s = u
    /\ \A s \in Workers : \A n \in wait[r][s] : n \notin pipe[r][s]
    /\ \A s \in Workers : \A n \in hand[r] : n \notin Place(r, s)

(* A consumer has a notice in hand exactly between read() and MQNext. *)
InHand ==
  \A r \in Consumers : IF pc[r] = "next" THEN \E n \in hand[r] : hand[r] = {n}
                                         ELSE hand[r] = {}

Served(r) == (1 .. tail) \ Outstanding(r)

(* The cursor has moved once for every notice that was served. *)
CursorCountsServed ==
  \A r \in Consumers : Cardinality(Served(r)) = cursor[r]

(* The collector's copies are at or behind the cursors they were taken     *)
(* from, and none is behind head.                                          *)
CollectorSafe ==
  /\ gcpc = "scan" => gcseen <= NumWorkers /\ gccount = 0
  /\ gcpc = "free" => gcseen = NumWorkers + 1
  /\ \A p \in gcpos : head <= p
  /\ \A r \in Consumers : r < gcseen => \E p \in gcpos : p <= cursor[r]
  /\ gccount <= head

Pushing == {w \in Workers : pc[w] = "push"}

(* Workers past the limit check push at most one message each. *)
PushesBounded == size + Cardinality(Pushing) <= QueueLimit + NumWorkers - 1

IInv ==
  /\ TypeOK
  /\ NoticesApart
  /\ InHand
  /\ CursorCountsServed
  /\ CollectorSafe
  /\ NoUseAfterFree
  /\ Accounting
  /\ PushesBounded

----------------------------------------------------------------------------
(* Pick returns an element of a non-empty set of naturals. *)
LEMMA PickIn == ASSUME NEW S, S # {} PROVE Pick(S) \in S
  BY DEF Pick

(* A worker is a consumer and is not the storer. *)
LEMMA WorkerFacts ==
  /\ Workers \subseteq Consumers
  /\ Storer \in Consumers
  /\ Storer \notin Workers
  /\ 0 \in Consumers
  BY BusAssumption DEF Workers, Consumers, Storer

(* The initial state satisfies the type invariant. *)
LEMMA TypeInit == Init => TypeOK
  BY WorkerFacts, BusAssumption DEF Init, TypeOK, PCs

(* Every step preserves the types; the collector's subtraction needs the   *)
(* accounting.                                                             *)
LEMMA TypeStep ==
  ASSUME IInv, [Next]_vars PROVE TypeOK'
<1> USE WorkerFacts DEF TypeOK, IInv
<1>1. ASSUME NEW w \in Workers, PutMessage(w) PROVE TypeOK'
  BY <1>1 DEF PutMessage, busVars, noticeVars, gcVars, PCs
<1>2. ASSUME NEW w \in Workers, MQPush(w) PROVE TypeOK'
  <2>1. wait' \in [Consumers -> [Workers -> SUBSET Nat]]
    BY <1>2 DEF MQPush, AddNotify
  <2>2. pc' \in [Consumers -> PCs]
    BY <1>2 DEF MQPush, PCs
  <2>3. target' \in [Workers -> Consumers]
    BY <1>2 DEF MQPush
  <2>4. tail' \in Nat /\ size' \in Nat /\ mem' \in Nat
    BY <1>2 DEF MQPush
  <2> QED BY <1>2, <2>1, <2>2, <2>3, <2>4 DEF MQPush, gcVars
<1>3. ASSUME NEW w \in Workers, WorkerCron(w) PROVE TypeOK'
  BY <1>3 DEF WorkerCron, busVars, noticeVars, gcVars, PCs
<1>4. ASSUME NEW w \in Workers, WriteNotice(w) PROVE TypeOK'
  <2> DEFINE r == target[w]
  <2> DEFINE n == Pick(wait[r][w])
  <2>1. r \in Consumers /\ wait[r][w] \subseteq Nat /\ pipe[r][w] \subseteq Nat
    OBVIOUS
  <2>2. n \in wait[r][w]
    BY <1>4, PickIn DEF WriteNotice, CanWrite
  <2>3. wait' = [wait EXCEPT ![r][w] = @ \ {n}]
        /\ pipe' = [pipe EXCEPT ![r][w] = @ \cup {n}]
    BY <1>4 DEF WriteNotice, Decremented
  <2> HIDE DEF n, r
  <2>4. wait' \in [Consumers -> [Workers -> SUBSET Nat]]
    BY <2>1, <2>2, <2>3
  <2>5. pipe' \in [Consumers -> [Workers -> SUBSET Nat]]
    BY <2>1, <2>2, <2>3
  <2> QED BY <1>4, <2>4, <2>5 DEF WriteNotice, busVars, gcVars
<1>5. ASSUME NEW w \in Workers, NextReceiver(w) PROVE TypeOK'
  <2>1. target' \in [Workers -> Consumers]
    <3>1. target[w] \in 0 .. NumWorkers /\ NumWorkers \in Nat
      BY BusAssumption DEF Consumers
    <3>2. target[w] # NumWorkers => target[w] + 1 \in Consumers
      BY <3>1 DEF Consumers
    <3> QED BY <1>5, <3>2 DEF NextReceiver, Storer
  <2>2. pc' \in [Consumers -> PCs]
    BY <1>5 DEF NextReceiver, PCs
  <2> QED BY <1>5, <2>1, <2>2 DEF NextReceiver, busVars, noticeVars, gcVars
<1>6. ASSUME NEW r \in Consumers, MQNext(r) PROVE TypeOK'
  <2>1. cursor' \in [Consumers -> Nat]
    BY <1>6 DEF MQNext, NextItem
  <2>2. pc' \in [Consumers -> PCs]
    BY <1>6 DEF MQNext, PCs
  <2>3. hand' \in [Consumers -> SUBSET Nat]
    BY <1>6 DEF MQNext
  <2> QED BY <1>6, <2>1, <2>2, <2>3 DEF MQNext, gcVars
<1>7. ASSUME NEW w \in Workers, Publish(w) PROVE TypeOK'
  BY <1>7 DEF Publish, busVars, noticeVars, gcVars, PCs
<1>8. CASE StoreAdd
  BY <1>8 DEF StoreAdd, busVars, noticeVars, gcVars, PCs
<1>9. CASE StoreSent
  BY <1>9 DEF StoreSent, busVars, noticeVars, gcVars
<1>10. ASSUME NEW r \in Consumers, NEW s \in Workers, ReadNotice(r, s)
       PROVE TypeOK'
  <2> DEFINE n == Pick(pipe[r][s])
  <2>1. n \in pipe[r][s] /\ pipe[r][s] \subseteq Nat
    BY <1>10, PickIn DEF ReadNotice
  <2>2. pipe' = [pipe EXCEPT ![r][s] = @ \ {n}]
        /\ hand' = [hand EXCEPT ![r] = {n}]
    BY <1>10 DEF ReadNotice
  <2> HIDE DEF n
  <2>3. pipe' \in [Consumers -> [Workers -> SUBSET Nat]]
    BY <2>1, <2>2
  <2>4. hand' \in [Consumers -> SUBSET Nat]
    BY <2>1, <2>2
  <2> QED BY <1>10, <2>3, <2>4 DEF ReadNotice, busVars, gcVars, PCs
<1>11. CASE GetCursorPosition
  <2>1. gcseen \in Consumers
    BY <1>11, BusAssumption DEF GetCursorPosition, CollectorSafe, Consumers
  <2>2. gcseen' \in Nat /\ gcpc' \in {"scan", "free"}
    BY <1>11 DEF GetCursorPosition
  <2>3. cursor[gcseen] \in Nat
    BY <2>1
  <2>4. gcpos' \in SUBSET Nat
    BY <1>11, <2>3 DEF GetCursorPosition
  <2> QED BY <1>11, <2>2, <2>4 DEF GetCursorPosition, busVars, noticeVars
<1>12. CASE FreeItem
  BY <1>12 DEF FreeItem, noticeVars
<1>13. CASE FreeDone
  <2>1. size - gccount \in Nat
    BY DEF Accounting, NoUseAfterFree, CollectorSafe
  <2>2. mem - MemoryFreed \in Nat
    BY DEF Accounting, NoUseAfterFree, CollectorSafe, MemoryFreed
  <2> QED BY <1>13, <2>1, <2>2 DEF FreeDone, CountFreed, noticeVars
<1>14. CASE UNCHANGED vars
  BY <1>14 DEF vars
<1> QED
  BY <1>1, <1>2, <1>3, <1>4, <1>5, <1>6, <1>7, <1>8, <1>9, <1>10, <1>11,
     <1>12, <1>13, <1>14
  DEF Next, WorkerHandler, StorerHandler, MasterCron

----------------------------------------------------------------------------
(* What it means to be an outstanding notice, before and after a step. *)
LEMMA OutstandingMembers ==
  ASSUME NEW r, NEW n
  PROVE  /\ n \in Outstanding(r) <=>
              n \in hand[r] \/ \E s \in Workers : n \in wait[r][s] \/ n \in pipe[r][s]
         /\ n \in Outstanding(r)' <=>
              n \in hand'[r] \/ \E s \in Workers : n \in wait'[r][s] \/ n \in pipe'[r][s]
  BY DEF Outstanding

(* A step either is one of the four that move notices, or leaves notices,  *)
(* cursors and the tail alone.                                             *)
LEMMA NoticeSteps ==
  ASSUME [Next]_vars
  PROVE  \/ UNCHANGED <<tail, cursor, wait, pipe, hand>>
         \/ \E w \in Workers : MQPush(w) \/ WriteNotice(w)
         \/ \E r \in Consumers : MQNext(r)
         \/ \E r \in Consumers, s \in Workers : ReadNotice(r, s)
<1>1. ASSUME NEW w \in Workers,
             PutMessage(w) \/ WorkerCron(w) \/ NextReceiver(w) \/ Publish(w)
      PROVE  UNCHANGED <<tail, cursor, wait, pipe, hand>>
  BY <1>1 DEF PutMessage, WorkerCron, NextReceiver, Publish, busVars, noticeVars
<1>2. StoreAdd \/ StoreSent \/ MasterCron
        => UNCHANGED <<tail, cursor, wait, pipe, hand>>
  BY DEF StoreAdd, StoreSent, MasterCron, GetCursorPosition, FreeItem, FreeDone,
         busVars, noticeVars
<1>3. UNCHANGED vars => UNCHANGED <<tail, cursor, wait, pipe, hand>>
  BY DEF vars
<1> QED
  BY <1>1, <1>2, <1>3, WorkerFacts DEF Next, WorkerHandler, StorerHandler

(* The items 1 .. n are n. *)
LEMMA FirstItems ==
  ASSUME NEW n \in Nat
  PROVE  IsFiniteSet(1 .. n) /\ Cardinality(1 .. n) = n
  BY FS_Interval

(* A push gives every consumer one notice with a new name, so that the     *)
(* set of served notices stays as it is.                                   *)
LEMMA PushNotices ==
  ASSUME IInv, NEW w \in Workers, MQPush(w)
  PROVE  NoticesApart' /\ CursorCountsServed'
<1>1. tail' = tail + 1 /\ tail \in Nat
  BY DEF MQPush, IInv, TypeOK
<1>2. pipe' = pipe /\ hand' = hand /\ cursor' = cursor
  BY DEF MQPush
<1>3. ASSUME NEW r \in Consumers, NEW s \in Workers, NEW n
      PROVE  n \in wait'[r][s] <=> n \in wait[r][s] \/ (s = w /\ n = tail + 1)
  BY DEF MQPush, AddNotify, IInv, TypeOK
<1>4. ASSUME NEW r \in Consumers, NEW n
      PROVE  n \in Outstanding(r)' <=> n \in Outstanding(r) \/ n = tail + 1
  BY <1>2, <1>3, OutstandingMembers
<1>5. ASSUME NEW r \in Consumers
      PROVE  Outstanding(r) \subseteq 1 .. tail /\ tail + 1 \notin Outstanding(r)
  BY <1>1 DEF IInv, NoticesApart
<1>6. ASSUME NEW r \in Consumers PROVE Outstanding(r)' \subseteq 1 .. tail'
  BY <1>1, <1>4, <1>5
<1>7. ASSUME NEW r \in Consumers PROVE Served(r)' = Served(r)
  BY <1>1, <1>4, <1>5 DEF Served
<1>8. ASSUME NEW r \in Consumers, NEW s \in Workers
      PROVE  /\ tail + 1 \notin wait[r][s] /\ tail + 1 \notin pipe[r][s]
             /\ tail + 1 \notin hand[r]
  BY <1>5, OutstandingMembers
<1>9. ASSUME NEW r \in Consumers, NEW s \in Workers, NEW n
      PROVE  /\ n \in Place(r, s)' <=> n \in Place(r, s) \/ (s = w /\ n = tail + 1)
             /\ tail + 1 \notin Place(r, s)
  BY <1>2, <1>3, <1>8 DEF Place
<1>10. CursorCountsServed'
  BY <1>2, <1>7 DEF IInv, CursorCountsServed
<1>11. ASSUME NEW r \in Consumers
       PROVE  /\ \A s, u \in Workers : \A n \in Place(r, s)' :
                   n \in Place(r, u)' => s = u
              /\ \A s \in Workers : \A n \in wait'[r][s] : n \notin pipe'[r][s]
              /\ \A s \in Workers : \A n \in hand'[r] : n \notin Place(r, s)'
  BY <1>2, <1>3, <1>8, <1>9 DEF IInv, NoticesApart
<1> QED BY <1>6, <1>10, <1>11 DEF NoticesApart

(* A write moves one notice from a counter to the socket pair. *)
LEMMA WriteNotices ==
  ASSUME IInv, NEW w \in Workers, WriteNotice(w)
  PROVE  NoticesApart' /\ CursorCountsServed'
<1> DEFINE q == target[w]
<1> DEFINE k == Pick(wait[q][w])
<1>1. q \in Consumers /\ k \in wait[q][w]
  BY PickIn DEF WriteNotice, CanWrite, IInv, TypeOK
<1>2. tail' = tail /\ hand' = hand /\ cursor' = cursor
  BY DEF WriteNotice, busVars
<1>3. /\ wait' = [wait EXCEPT ![q][w] = @ \ {k}]
      /\ pipe' = [pipe EXCEPT ![q][w] = @ \cup {k}]
  BY DEF WriteNotice, Decremented
<1> HIDE DEF q, k
<1>4. ASSUME NEW r \in Consumers, NEW s \in Workers, NEW n
      PROVE  /\ n \in wait'[r][s] <=> n \in wait[r][s] /\ ~(r = q /\ s = w /\ n = k)
             /\ n \in pipe'[r][s] <=> n \in pipe[r][s] \/ (r = q /\ s = w /\ n = k)
  BY <1>1, <1>3 DEF IInv, TypeOK
<1>5. ASSUME NEW r \in Consumers, NEW s \in Workers, NEW n
      PROVE  n \in Place(r, s)' <=> n \in Place(r, s)
  BY <1>1, <1>4 DEF Place
<1>6. ASSUME NEW r \in Consumers PROVE Outstanding(r)' = Outstanding(r)
  <2>1. ASSUME NEW n PROVE n \in Outstanding(r)' <=> n \in Outstanding(r)
    <3>1. \A s \in Workers : n \in wait'[r][s] \/ n \in pipe'[r][s]
                         <=> n \in wait[r][s] \/ n \in pipe[r][s]
      BY <1>5 DEF Place
    <3> QED BY <1>2, <3>1, OutstandingMembers
  <2> QED BY <2>1
<1>7. CursorCountsServed'
  BY <1>2, <1>6 DEF IInv, CursorCountsServed, Served
<1>8. ASSUME NEW r \in Consumers, NEW s \in Workers, NEW n \in wait'[r][s]
      PROVE  n \notin pipe'[r][s]
  BY <1>4, <1>8 DEF IInv, NoticesApart
<1> QED BY <1>2, <1>5, <1>6, <1>7, <1>8 DEF IInv, NoticesApart

(* Reading a notice moves it from the socket pair into the hand. *)
LEMMA ReadNotices ==
  ASSUME IInv, NEW q \in Consumers, NEW w \in Workers, ReadNotice(q, w)
  PROVE  NoticesApart' /\ CursorCountsServed'
<1> DEFINE k == Pick(pipe[q][w])
<1>1. k \in pipe[q][w]
  BY PickIn DEF ReadNotice
<1>2. tail' = tail /\ wait' = wait /\ cursor' = cursor
  BY DEF ReadNotice, busVars
<1>3. /\ pipe' = [pipe EXCEPT ![q][w] = @ \ {k}]
      /\ hand' = [hand EXCEPT ![q] = {k}]
  BY DEF ReadNotice
<1> HIDE DEF k
<1>4. hand[q] = {}
  BY DEF ReadNotice, IInv, InHand
<1>5. ASSUME NEW r \in Consumers, NEW s \in Workers, NEW n
      PROVE  n \in pipe'[r][s] <=> n \in pipe[r][s] /\ ~(r = q /\ s = w /\ n = k)
  BY <1>3 DEF IInv, TypeOK
<1>6. ASSUME NEW r \in Consumers, NEW n
      PROVE  n \in hand'[r] <=> n \in hand[r] \/ (r = q /\ n = k)
  BY <1>3, <1>4 DEF IInv, TypeOK
<1>7. ASSUME NEW r \in Consumers PROVE Outstanding(r)' = Outstanding(r)
  <2>1. ASSUME NEW n PROVE n \in Outstanding(r)' <=> n \in Outstanding(r)
    BY <1>1, <1>2, <1>5, <1>6, OutstandingMembers
  <2> QED BY <2>1
<1>8. CursorCountsServed'
  BY <1>2, <1>7 DEF IInv, CursorCountsServed, Served
<1>9. ASSUME NEW r \in Consumers, NEW s \in Workers, NEW n
      PROVE  n \in Place(r, s)' <=> n \in Place(r, s) /\ ~(r = q /\ s = w /\ n = k)
  <2>1. k \notin wait[q][w]
    BY <1>1 DEF IInv, NoticesApart
  <2> QED BY <1>2, <1>5, <2>1 DEF Place
<1>10. ASSUME NEW s \in Workers PROVE k \notin Place(q, s)'
  <2>1. k \in Place(q, w)
    BY <1>1 DEF Place
  <2> QED BY <1>9, <2>1 DEF IInv, NoticesApart
<1>11. ASSUME NEW r \in Consumers
       PROVE  /\ \A s, u \in Workers : \A n \in Place(r, s)' :
                   n \in Place(r, u)' => s = u
              /\ \A s \in Workers : \A n \in wait'[r][s] : n \notin pipe'[r][s]
              /\ \A s \in Workers : \A n \in hand'[r] : n \notin Place(r, s)'
  BY <1>2, <1>5, <1>6, <1>9, <1>10 DEF IInv, NoticesApart
<1> QED BY <1>2, <1>7, <1>8, <1>11 DEF IInv, NoticesApart

(* Whoever holds a notice has an unread item: the served notices and the   *)
(* one in hand are that many different items.                              *)
LEMMA HandMeansUnread ==
  ASSUME IInv, NEW r \in Consumers, pc[r] = "next"
  PROVE  cursor[r] < tail
<1>1. PICK n \in hand[r] : hand[r] = {n}
  BY DEF IInv, InHand
<1>2. n \in 1 .. tail /\ n \notin Served(r)
  BY <1>1, OutstandingMembers DEF IInv, NoticesApart, Served
<1>3. tail \in Nat /\ cursor[r] \in Nat
  BY DEF IInv, TypeOK
<1>4. IsFiniteSet(1 .. tail) /\ Cardinality(1 .. tail) = tail
  BY <1>3, FirstItems
<1>5. Served(r) \subseteq 1 .. tail /\ Served(r) \cup {n} \subseteq 1 .. tail
  BY <1>2 DEF Served
<1>6. IsFiniteSet(Served(r))
  BY <1>4, <1>5, FS_Subset
<1>7. Cardinality(Served(r)) = cursor[r]
  BY DEF IInv, CursorCountsServed
<1>8. Cardinality(Served(r) \cup {n}) = cursor[r] + 1
  BY <1>2, <1>6, <1>7, FS_AddElement
<1>9. Cardinality(Served(r) \cup {n}) <= tail
  BY <1>4, <1>5, FS_Subset
<1> QED BY <1>3, <1>8, <1>9

(* A cursor never passes the tail. *)
LEMMA CursorWithinQueue ==
  ASSUME IInv, NEW r \in Consumers PROVE cursor[r] <= tail
<1>1. tail \in Nat /\ Served(r) \subseteq 1 .. tail
  BY DEF IInv, TypeOK, Served
<1>2. Cardinality(Served(r)) <= tail
  BY <1>1, FirstItems, FS_Subset
<1> QED BY <1>2 DEF IInv, CursorCountsServed

(* Serving the notice in hand moves the cursor by one item. *)
LEMMA NextNotices ==
  ASSUME IInv, NEW q \in Consumers, MQNext(q)
  PROVE  NoticesApart' /\ CursorCountsServed'
<1>1. PICK k \in hand[q] : hand[q] = {k}
  BY DEF MQNext, IInv, InHand
<1>2. tail' = tail /\ wait' = wait /\ pipe' = pipe /\ tail \in Nat
  BY DEF MQNext, IInv, TypeOK
<1>3. ASSUME NEW r \in Consumers
      PROVE  /\ hand'[r] = IF r = q THEN {} ELSE hand[r]
             /\ cursor'[r] = IF r = q THEN cursor[r] + 1 ELSE cursor[r]
  <2>1. cursor[q] < tail
    BY HandMeansUnread DEF MQNext
  <2> QED BY <2>1 DEF MQNext, NextItem, IInv, TypeOK
<1>4. ASSUME NEW s \in Workers PROVE k \notin wait[q][s] /\ k \notin pipe[q][s]
  BY <1>1 DEF IInv, NoticesApart, Place
<1>5. ASSUME NEW r \in Consumers, NEW n
      PROVE  n \in Outstanding(r)' <=>
               n \in Outstanding(r) /\ (r = q => n # k)
  BY <1>1, <1>2, <1>3, <1>4, OutstandingMembers
<1>6. ASSUME NEW r \in Consumers PROVE Outstanding(r)' \subseteq 1 .. tail'
  BY <1>2, <1>5 DEF IInv, NoticesApart
<1>7. k \in 1 .. tail /\ k \notin Served(q)
  BY <1>1, OutstandingMembers DEF IInv, NoticesApart, Served
<1>8. Served(q)' = Served(q) \cup {k}
  BY <1>2, <1>5, <1>7 DEF Served
<1>9. ASSUME NEW r \in Consumers, r # q PROVE Served(r)' = Served(r)
  BY <1>2, <1>5, <1>9 DEF Served
<1>10. IsFiniteSet(Served(q))
  BY <1>2, FirstItems, FS_Subset DEF Served
<1>11. Cardinality(Served(q)) = cursor[q] /\ cursor[q] \in Nat
  BY DEF IInv, TypeOK, CursorCountsServed
<1>12. Cardinality(Served(q)') = cursor[q] + 1
  BY <1>7, <1>8, <1>10, <1>11, FS_AddElement
<1>13. CursorCountsServed'
  BY <1>3, <1>9, <1>12 DEF IInv, CursorCountsServed
<1>14. ASSUME NEW r \in Consumers, NEW s \in Workers, NEW n \in hand'[r]
       PROVE  n \notin Place(r, s)'
  BY <1>2, <1>3, <1>14 DEF IInv, NoticesApart, Place
<1> QED BY <1>2, <1>6, <1>13, <1>14 DEF IInv, NoticesApart, Place

(* The notice bookkeeping is inductive. *)
LEMMA NoticesStep ==
  ASSUME IInv, [Next]_vars PROVE NoticesApart' /\ CursorCountsServed'
<1>1. CASE UNCHANGED <<tail, cursor, wait, pipe, hand>>
  <2>1. \A r : Outstanding(r)' = Outstanding(r) /\ \A s : Place(r, s)' = Place(r, s)
    BY <1>1 DEF Outstanding, Place
  <2> QED
    BY <1>1, <2>1 DEF IInv, NoticesApart, CursorCountsServed, Served
<1> QED
  BY <1>1, NoticeSteps, PushNotices, WriteNotices, ReadNotices, NextNotices

----------------------------------------------------------------------------
(* A consumer holds a notice only between its read() and its MQNext. *)
LEMMA InHandStep ==
  ASSUME IInv, [Next]_vars PROVE InHand'
<1> USE WorkerFacts DEF InHand
<1>0. pc \in [Consumers -> PCs] /\ hand \in [Consumers -> SUBSET Nat] /\ InHand
  BY DEF IInv, TypeOK
<1>1. ASSUME NEW w \in Workers,
             PutMessage(w) \/ MQPush(w) \/ WorkerCron(w) \/ WriteNotice(w)
               \/ NextReceiver(w) \/ Publish(w)
      PROVE  InHand'
  <2>1. hand' = hand
    BY <1>1 DEF PutMessage, MQPush, WorkerCron, WriteNotice, NextReceiver, Publish,
                noticeVars
  <2>2. \A r \in Consumers : pc'[r] = "next" <=> pc[r] = "next"
    BY <1>0, <1>1 DEF PutMessage, MQPush, WorkerCron, WriteNotice, NextReceiver,
                      Publish
  <2> QED BY <1>0, <2>1, <2>2
<1>2. ASSUME NEW q \in Consumers, MQNext(q) PROVE InHand'
  <2>1. \A r \in Consumers : r # q => pc'[r] = pc[r] /\ hand'[r] = hand[r]
    BY <1>0, <1>2 DEF MQNext
  <2>2. pc'[q] # "next" /\ hand'[q] = {}
    BY <1>0, <1>2 DEF MQNext
  <2> QED BY <1>0, <2>1, <2>2
<1>3. ASSUME NEW q \in Consumers, NEW s \in Workers, ReadNotice(q, s) PROVE InHand'
  <2>1. \A r \in Consumers : r # q => pc'[r] = pc[r] /\ hand'[r] = hand[r]
    BY <1>0, <1>3 DEF ReadNotice
  <2>2. \E n \in hand'[q] : hand'[q] = {n}
    BY <1>0, <1>3 DEF ReadNotice
  <2>3. pc'[q] = "next"
    BY <1>0, <1>3 DEF ReadNotice
  <2> QED BY <1>0, <2>1, <2>2, <2>3
<1>4. CASE StoreAdd
  <2>1. hand' = hand /\ \A r \in Consumers : pc'[r] = "next" <=> pc[r] = "next"
    BY <1>0, <1>4 DEF StoreAdd, noticeVars
  <2> QED BY <1>0, <2>1
<1>5. CASE StoreSent \/ MasterCron \/ UNCHANGED vars
  <2>1. hand' = hand /\ pc' = pc
    BY <1>5 DEF StoreSent, MasterCron, GetCursorPosition, FreeItem, FreeDone,
                noticeVars, vars
  <2> QED BY <1>0, <2>1
<1> QED
  BY <1>1, <1>2, <1>3, <1>4, <1>5 DEF Next, WorkerHandler, StorerHandler

(* The collector deletes only what lies behind every cursor: its copies    *)
(* are stale in one direction, since cursors only move forward.            *)
LEMMA CollectorStep ==
  ASSUME IInv, [Next]_vars PROVE CollectorSafe' /\ NoUseAfterFree' /\ Accounting'
<1> USE DEF CollectorSafe, NoUseAfterFree
<1>0. /\ tail \in Nat /\ head \in Nat /\ size \in Nat /\ mem \in Nat
      /\ cursor \in [Consumers -> Nat] /\ gcseen \in Nat /\ gcpos \subseteq Nat
      /\ gccount \in Nat /\ gcpc \in {"scan", "free"}
      /\ CollectorSafe /\ NoUseAfterFree /\ Accounting
  BY DEF IInv, TypeOK
<1>1. CASE UNCHANGED <<tail, head, size, mem, cursor, gcpc, gcseen, gcpos, gccount>>
  BY <1>0, <1>1 DEF Accounting
<1>2. ASSUME NEW w \in Workers, MQPush(w)
      PROVE  CollectorSafe' /\ NoUseAfterFree' /\ Accounting'
  BY <1>0, <1>2 DEF MQPush, gcVars, Accounting
<1>3. ASSUME NEW q \in Consumers, MQNext(q)
      PROVE  CollectorSafe' /\ NoUseAfterFree' /\ Accounting'
  <2>1. UNCHANGED <<tail, head, size, mem, gcpc, gcseen, gcpos, gccount>>
    BY <1>3 DEF MQNext, gcVars
  <2>2. \A r \in Consumers : cursor'[r] \in Nat /\ cursor[r] <= cursor'[r]
    BY <1>0, <1>3 DEF MQNext, NextItem
  <2>3. CollectorSafe'
    BY <1>0, <2>1, <2>2
  <2>4. NoUseAfterFree'
    BY <1>0, <2>1, <2>2
  <2> QED BY <1>0, <2>1, <2>3, <2>4 DEF Accounting
<1>4. CASE GetCursorPosition
  <2>1. UNCHANGED <<tail, head, size, mem, cursor, gccount>>
    BY <1>4 DEF GetCursorPosition, busVars
  <2>2. /\ gcpc = "scan" /\ gcseen' = gcseen + 1
        /\ gcpos' = gcpos \cup {cursor[gcseen]}
        /\ gcpc' = IF gcseen = NumWorkers THEN "free" ELSE "scan"
    BY <1>4 DEF GetCursorPosition, AllScanned, Storer
  <2>3. gcseen \in Consumers /\ NumWorkers \in Nat
    BY <1>0, <2>2, BusAssumption DEF Consumers
  <2>4. \A p \in gcpos' : head <= p
    BY <1>0, <2>2, <2>3
  <2>5. \A r \in Consumers : r < gcseen' => \E p \in gcpos' : p <= cursor[r]
    <3>1. \A r \in Consumers : r < gcseen' => r < gcseen \/ r = gcseen
      BY <1>0, <2>2, BusAssumption DEF Consumers
    <3> QED BY <1>0, <2>2, <2>3, <3>1
  <2>6. /\ gcpc' = "scan" => gcseen' <= NumWorkers /\ gccount' = 0
        /\ gcpc' = "free" => gcseen' = NumWorkers + 1
    BY <1>0, <2>1, <2>2, <2>3
  <2> QED BY <1>0, <2>1, <2>4, <2>5, <2>6 DEF Accounting
<1>5. CASE FreeItem
  <2>1. /\ gcpc = "free" /\ head \notin gcpos
        /\ head' = head + 1 /\ gccount' = gccount + 1
        /\ UNCHANGED <<tail, size, mem, cursor, gcpc, gcseen, gcpos>>
    BY <1>5 DEF FreeItem
  <2>2. \A p \in gcpos : head + 1 <= p
    BY <1>0, <2>1
  <2>3. \A r \in Consumers : head + 1 <= cursor[r]
    <3>1. \A r \in Consumers : r < gcseen
      BY <1>0, <2>1, BusAssumption DEF Consumers
    <3> QED BY <1>0, <2>2, <3>1
  <2>4. \A r \in Consumers : cursor[r] <= tail
    BY CursorWithinQueue
  <2>5. head + 1 <= tail
    BY <1>0, <2>3, <2>4, WorkerFacts
  <2>6. Accounting'
    BY <1>0, <2>1 DEF Accounting
  <2> QED BY <1>0, <2>1, <2>2, <2>3, <2>5, <2>6
<1>6. CASE FreeDone
  <2>1. /\ gcpc' = "scan" /\ gcseen' = 0 /\ gcpos' = {} /\ gccount' = 0
        /\ size' = size - gccount /\ mem' = mem - MemoryFreed
        /\ UNCHANGED <<tail, head, cursor>>
    BY <1>6 DEF FreeDone, CountFreed
  <2>2. Accounting'
    BY <1>0, <2>1 DEF Accounting, MemoryFreed
  <2>3. \A r \in Consumers : ~(r < 0)
    BY BusAssumption DEF Consumers
  <2> QED BY <1>0, <2>1, <2>2, <2>3, BusAssumption
<1>7. ASSUME NEW w \in Workers,
             PutMessage(w) \/ WorkerCron(w) \/ WriteNotice(w) \/ NextReceiver(w)
               \/ Publish(w)
      PROVE  UNCHANGED <<tail, head, size, mem, cursor, gcpc, gcseen, gcpos, gccount>>
  BY <1>7 DEF PutMessage, WorkerCron, WriteNotice, NextReceiver, Publish, busVars,
              gcVars
<1>8. ASSUME NEW r \in Consumers, NEW s \in Workers, ReadNotice(r, s)
      PROVE  UNCHANGED <<tail, head, size, mem, cursor, gcpc, gcseen, gcpos, gccount>>
  BY <1>8 DEF ReadNotice, busVars, gcVars
<1>9. StoreAdd \/ StoreSent \/ UNCHANGED vars
        => UNCHANGED <<tail, head, size, mem, cursor, gcpc, gcseen, gcpos, gccount>>
  BY DEF StoreAdd, StoreSent, vars, busVars, gcVars
<1> QED
  BY <1>1, <1>2, <1>3, <1>4, <1>5, <1>6, <1>7, <1>8, <1>9, WorkerFacts
  DEF Next, WorkerHandler, StorerHandler, MasterCron

(* The limit check and the push are apart, but a worker that passed the    *)
(* check pushes once: what is queued and what is about to be stays below   *)
(* the limit plus the other workers.                                       *)
LEMMA PushesStep ==
  ASSUME IInv, [Next]_vars PROVE PushesBounded'
<1>0. /\ size \in Nat /\ pc \in [Consumers -> PCs] /\ PushesBounded
      /\ QueueLimit \in Nat \ {0} /\ NumWorkers \in Nat \ {0}
  BY BusAssumption DEF IInv, TypeOK
<1>1. IsFiniteSet(Workers) /\ Cardinality(Workers) = NumWorkers
  BY <1>0, FS_Interval DEF Workers
<1>2. Pushing \subseteq Workers /\ Pushing' \subseteq Workers
  BY DEF Pushing
<1>3. /\ IsFiniteSet(Pushing) /\ Cardinality(Pushing) \in Nat
      /\ IsFiniteSet(Pushing') /\ Cardinality(Pushing') <= NumWorkers
      /\ Cardinality(Pushing') \in Nat
  BY <1>1, <1>2, FS_Subset, FS_CardinalityType
<1>4. ASSUME size' <= size, size' \in Nat, Pushing' \subseteq Pushing PROVE PushesBounded'
  <2>1. Cardinality(Pushing') <= Cardinality(Pushing)
    BY <1>3, <1>4, FS_Subset
  <2> QED BY <1>0, <1>3, <1>4, <2>1 DEF PushesBounded
<1>5. ASSUME NEW w \in Workers, PutMessage(w) PROVE PushesBounded'
  <2>1. size' = size
    BY <1>5 DEF PutMessage, busVars
  <2>2. CASE QueueFull
    <3>1. Pushing' \subseteq Pushing
      BY <1>0, <1>5, <2>2, WorkerFacts DEF PutMessage, Pushing
    <3> QED BY <1>0, <1>4, <2>1, <3>1
  <2>3. CASE ~QueueFull
    <3>1. size' <= QueueLimit - 1
      BY <1>0, <2>1, <2>3 DEF QueueFull
    <3> QED BY <1>0, <1>3, <2>1, <3>1 DEF PushesBounded
  <2> QED BY <2>2, <2>3
<1>6. ASSUME NEW w \in Workers, MQPush(w) PROVE PushesBounded'
  <2>1. w \in Pushing /\ size' = size + 1
    BY <1>6 DEF MQPush, Pushing
  <2>2. Pushing' = Pushing \ {w}
    BY <1>0, <1>6, WorkerFacts DEF MQPush, Pushing
  <2>3. Cardinality(Pushing') = Cardinality(Pushing) - 1
    BY <1>3, <2>1, <2>2, FS_RemoveElement
  <2> QED BY <1>0, <1>3, <2>1, <2>3 DEF PushesBounded
<1>7. ASSUME NEW w \in Workers,
             WorkerCron(w) \/ WriteNotice(w) \/ NextReceiver(w) \/ Publish(w)
      PROVE  PushesBounded'
  <2>1. size' = size
    BY <1>7 DEF WorkerCron, WriteNotice, NextReceiver, Publish, busVars
  <2>2. Pushing' \subseteq Pushing
    BY <1>0, <1>7, WorkerFacts
    DEF WorkerCron, WriteNotice, NextReceiver, Publish, Pushing
  <2> QED BY <1>0, <1>4, <2>1, <2>2
<1>8. ASSUME NEW r \in Consumers, MQNext(r) PROVE PushesBounded'
  <2>1. size' = size /\ Pushing' \subseteq Pushing
    BY <1>0, <1>8, WorkerFacts DEF MQNext, Pushing
  <2> QED BY <1>0, <1>4, <2>1
<1>9. ASSUME NEW r \in Consumers, NEW s \in Workers, ReadNotice(r, s)
      PROVE  PushesBounded'
  <2>1. size' = size /\ Pushing' \subseteq Pushing
    BY <1>0, <1>9, WorkerFacts DEF ReadNotice, Pushing, busVars
  <2> QED BY <1>0, <1>4, <2>1
<1>10. CASE StoreAdd
  <2>1. size' = size /\ Pushing' \subseteq Pushing
    BY <1>0, <1>10, WorkerFacts DEF StoreAdd, Pushing, busVars
  <2> QED BY <1>0, <1>4, <2>1
<1>11. CASE StoreSent \/ MasterCron \/ UNCHANGED vars
  <2>1. pc' = pc
    BY <1>11 DEF StoreSent, MasterCron, GetCursorPosition, FreeItem, FreeDone, vars
  <2>2. size' <= size /\ size' \in Nat
    <3>1. size - gccount \in Nat /\ gccount \in Nat
      BY DEF IInv, TypeOK, Accounting, NoUseAfterFree, CollectorSafe
    <3> QED
      BY <1>0, <1>11, <3>1 DEF StoreSent, MasterCron, GetCursorPosition, FreeItem,
         FreeDone, CountFreed, busVars, vars
  <2>3. Pushing' = Pushing
    BY <2>1 DEF Pushing
  <2> QED BY <1>4, <2>2, <2>3
<1> QED
  BY <1>5, <1>6, <1>7, <1>8, <1>9, <1>10, <1>11, WorkerFacts
  DEF Next, WorkerHandler, StorerHandler

(* The initial state. *)
LEMMA InvInit == Init => IInv
<1> SUFFICES ASSUME Init PROVE IInv
  OBVIOUS
<1>1. TypeOK
  BY TypeInit
<1>2. \A r \in Consumers : Outstanding(r) = {}
  BY DEF Init, Outstanding
<1>3. NoticesApart
  BY <1>2, WorkerFacts DEF Init, NoticesApart, Place
<1>4. InHand
  BY DEF Init, InHand
<1>5. CursorCountsServed
  BY FS_EmptySet DEF Init, CursorCountsServed, Served
<1>6. CollectorSafe /\ NoUseAfterFree /\ Accounting
  BY BusAssumption DEF Init, CollectorSafe, NoUseAfterFree, Accounting, Consumers
<1>7. Pushing = {}
  BY WorkerFacts DEF Init, Pushing
<1>8. PushesBounded
  BY <1>7, FS_EmptySet, BusAssumption DEF Init, PushesBounded
<1> QED BY <1>1, <1>3, <1>4, <1>5, <1>6, <1>8 DEF IInv

(* The invariant holds in every reachable state. *)
THEOREM Invariant == Spec => []IInv
<1>1. IInv /\ [Next]_vars => IInv'
  BY TypeStep, NoticesStep, InHandStep, CollectorStep, PushesStep DEF IInv
<1> QED BY InvInit, <1>1, PTL DEF Spec

(* The types of the state. *)
THEOREM TypeCorrect == Spec => []TypeOK
<1>1. IInv => TypeOK
  BY DEF IInv
<1> QED BY Invariant, <1>1, PTL

(* PublishMessage and StoreMessage never find the queue empty after a      *)
(* notice (their "wrong notice" error), with any number of workers and     *)
(* whatever the socket pairs hold.                                         *)
THEOREM NoticesAreRight == Spec => []NoWrongNotice
<1>1. IInv => NoWrongNotice
  BY HandMeansUnread DEF NoWrongNotice
<1> QED BY Invariant, <1>1, PTL

(* A message some consumer has not read always has a notice on its way. *)
THEOREM NothingForgotten == Spec => []NoForgottenMessage
<1>1. ASSUME IInv, NEW r \in Consumers, cursor[r] < tail
      PROVE  Outstanding(r) # {}
  <2>1. SUFFICES ASSUME Outstanding(r) = {} PROVE FALSE
    OBVIOUS
  <2>2. Served(r) = 1 .. tail
    BY <2>1 DEF Served
  <2>3. tail \in Nat /\ cursor[r] \in Nat
    BY <1>1 DEF IInv, TypeOK
  <2>4. cursor[r] = tail
    BY <1>1, <2>2, <2>3, FirstItems DEF IInv, CursorCountsServed
  <2> QED BY <1>1, <2>3, <2>4
<1>2. IInv => NoForgottenMessage
  BY <1>1 DEF NoForgottenMessage
<1> QED BY Invariant, <1>2, PTL

(* The unlocked collector never deletes an item a thread can reach. *)
THEOREM CollectorIsSafe == Spec => []NoUseAfterFree
<1>1. IInv => NoUseAfterFree
  BY DEF IInv
<1> QED BY Invariant, <1>1, PTL

(* size and memory_usage are exact up to the running collection. *)
THEOREM AccountingIsExact == Spec => []Accounting
<1>1. IInv => Accounting
  BY DEF IInv
<1> QED BY Invariant, <1>1, PTL

(* The check-then-push race lets the queue pass its limit by at most the   *)
(* number of workers less one.                                             *)
THEOREM QueueIsBounded == Spec => []QueueBound
<1>1. ASSUME IInv PROVE QueueBound
  <2>1. IsFiniteSet(Workers)
    BY BusAssumption, FS_Interval DEF Workers
  <2>2. IsFiniteSet(Pushing)
    BY <2>1, FS_Subset DEF Pushing
  <2>3. Cardinality(Pushing) \in Nat
    BY <2>2, FS_CardinalityType
  <2> QED
    BY <1>1, <2>3, BusAssumption DEF IInv, TypeOK, PushesBounded, QueueBound
<1> QED BY Invariant, <1>1, PTL

(* The bus implements the log its users think of: a push is a Publish      *)
(* within the capacity, MQNext reads the next message, deleting an item    *)
(* reclaims it after every reader has passed, and every other step of the  *)
(* threads is invisible.                                                   *)
THEOREM BusImplementsLog == Spec => ImplementsLog
<1>1. Init => Log!Init
  BY DEF Init, Log!Init
<1>2. ASSUME IInv, IInv', [Next]_vars PROVE [Log!Next]_Log!logVars
  <2> USE DEF Log!Next, Log!logVars
  <2>1. ASSUME NEW w \in Workers, MQPush(w) PROVE Log!Next
    <3>1. w \in Pushing /\ IsFiniteSet(Pushing)
      <4>1. IsFiniteSet(Workers)
        BY BusAssumption, FS_Interval DEF Workers
      <4> QED BY <2>1, <4>1, FS_Subset DEF MQPush, Pushing
    <3>2. Cardinality(Pushing) \in Nat \ {0}
      BY <3>1, FS_CardinalityType, FS_EmptySet
    <3>3. size < QueueLimit + NumWorkers - 1
      <4>1. size \in Nat /\ size + Cardinality(Pushing) <= QueueLimit + NumWorkers - 1
        BY <1>2 DEF IInv, TypeOK, PushesBounded
      <4> QED BY <3>2, <4>1, BusAssumption
    <3>4. tail - head <= size
      BY <1>2 DEF IInv, TypeOK, Accounting
    <3>5. tail - head < QueueLimit + NumWorkers - 1
      BY <1>2, <3>3, <3>4, BusAssumption DEF IInv, TypeOK
    <3> QED BY <2>1, <3>5 DEF MQPush, Log!Publish
  <2>2. ASSUME NEW r \in Consumers, MQNext(r) PROVE Log!Next
    <3>1. cursor[r] < tail
      BY <1>2, <2>2, HandMeansUnread DEF MQNext
    <3>2. Log!Read(r)
      BY <2>2, <3>1 DEF MQNext, NextItem, Log!Read
    <3> QED BY <3>2
  <2>3. CASE FreeItem
    <3>1. \A r \in Consumers : head < cursor[r]
      <4>1. head' = head + 1 /\ cursor' = cursor
        BY <2>3 DEF FreeItem
      <4>2. head \in Nat /\ cursor \in [Consumers -> Nat]
        BY <1>2 DEF IInv, TypeOK
      <4>3. \A r \in Consumers : head' <= cursor'[r]
        BY <1>2 DEF IInv, NoUseAfterFree
      <4> QED BY <4>1, <4>2, <4>3
    <3> QED BY <2>3, <3>1 DEF FreeItem, Log!Reclaim
  <2>4. ASSUME NEW w \in Workers,
               PutMessage(w) \/ WorkerCron(w) \/ WriteNotice(w)
                 \/ NextReceiver(w) \/ Publish(w)
        PROVE  UNCHANGED <<tail, cursor, head>>
    BY <2>4 DEF PutMessage, WorkerCron, WriteNotice, NextReceiver, Publish, busVars
  <2>5. ASSUME NEW r \in Consumers, NEW s \in Workers, ReadNotice(r, s)
        PROVE  UNCHANGED <<tail, cursor, head>>
    BY <2>5 DEF ReadNotice, busVars
  <2>6. StoreAdd \/ StoreSent \/ GetCursorPosition \/ FreeDone \/ UNCHANGED vars
          => UNCHANGED <<tail, cursor, head>>
    BY DEF StoreAdd, StoreSent, GetCursorPosition, FreeDone, vars, busVars
  <2> QED
    BY <1>2, <2>1, <2>2, <2>3, <2>4, <2>5, <2>6, WorkerFacts
    DEF Next, WorkerHandler, StorerHandler, MasterCron
<1> QED
  BY Invariant, <1>1, <1>2, PTL DEF Spec, ImplementsLog, Log!SafeSpec
============================================================================
