---------------------------- MODULE MessageBus ----------------------------
(***************************************************************************)
(* The message bus of kids: the global message queue (src/msgqueue.cc),    *)
(* the workers that push into it (Master::PutMessage), the one-byte        *)
(* notices the workers send each other and the storer over non-blocking    *)
(* socket pairs, the workers and the storer that walk the queue with a     *)
(* cursor each, and the garbage collection of the master's cron.           *)
(*                                                                         *)
(* Every thread runs one handler of its event loop at a time; pc[t] says   *)
(* where thread t is between two points at which another thread can        *)
(* observe or disturb it.  Items of the queue are numbered in the order of *)
(* the pushes: item 0 is the sentinel MQOpen allocates, the successor of   *)
(* item i is i + 1, and the items below head have been deleted.            *)
(*                                                                         *)
(* A counter msg_wait_to_notify_[s] and the bytes in a socket pair are     *)
(* kept as sets of notices.  A notice is labelled by the item whose push   *)
(* asked for it; the label is history: no step reads it, only the number   *)
(* of notices matters to the code.                                         *)
(***************************************************************************)
EXTENDS Integers, FiniteSets

CONSTANTS NumWorkers,   \* config_.worker_threads
          PipeCap,      \* notices a socket pair holds before write() fails
          QueueLimit,   \* config_.queue_limit
          MaxMsgs       \* BOUND: no PutMessage starts after so many pushes

ASSUME BusAssumption ==
  /\ NumWorkers \in Nat \ {0}
  /\ PipeCap    \in Nat \ {0}
  /\ QueueLimit \in Nat \ {0}
  /\ MaxMsgs    \in Nat

VARIABLES
  tail,        \* queue->tail
  head,        \* the oldest item not deleted (queue->head, p while the GC runs)
  size,        \* queue->size
  mem,         \* queue->memory_usage, every message weighing 1
  cursor,      \* cursor_->item of every worker and of the storer
  wait,        \* wait[r][s]: r's msg_wait_to_notify_[s]
  pipe,        \* pipe[r][s]: bytes between msg_notify_send_fd_[s] and r
  hand,        \* the notice a consumer has read and not yet served
  pc,          \* where each worker and the storer is in its handler
  target,      \* the receiver a worker's NotifyNewMessage has reached
  storeFree,   \* store_->State() == Store::Free
  gcpc,        \* where the master's cron is
  gcseen,      \* cursors the running cron has copied
  gcpos,       \* cursor_positions, as far as copied
  gccount      \* count of MQFreeOldMessages

busVars == <<tail, head, size, mem, cursor>>
noticeVars == <<wait, pipe, hand>>
gcVars == <<gcpc, gcseen, gcpos, gccount>>
vars == <<tail, head, size, mem, cursor, wait, pipe, hand, pc, target,
          storeFree, gcpc, gcseen, gcpos, gccount>>

Workers   == 0 .. NumWorkers - 1
Storer    == NumWorkers
Consumers == 0 .. NumWorkers

Pick(S) == CHOOSE x \in S : TRUE

----------------------------------------------------------------------------
(* Master::Master, Worker::Worker, Storer::Storer: an empty queue, every   *)
(* cursor on the sentinel, nothing to notify.                              *)
Init ==
  /\ tail = 0 /\ head = 0 /\ size = 0 /\ mem = 0
  /\ cursor = [r \in Consumers |-> 0]
  /\ wait = [r \in Consumers |-> [s \in Workers |-> {}]]
  /\ pipe = [r \in Consumers |-> [s \in Workers |-> {}]]
  /\ hand = [r \in Consumers |-> {}]
  /\ pc = [r \in Consumers |-> "idle"]
  /\ target = [w \in Workers |-> 0]
  /\ storeFree = TRUE
  /\ gcpc = "scan" /\ gcseen = 0 /\ gcpos = {} /\ gccount = 0

(* Mutant: > instead of >=. *)
QueueFullOffByOne == size > QueueLimit

QueueFull == size >= QueueLimit

(* Master::PutMessage, called by worker w: MQSize is compared with the     *)
(* limit under a lock that is released before the push.  A full queue      *)
(* drops the message (the counter is not part of this module).             *)
PutMessage(w) ==
  /\ pc[w] = "idle"
  /\ tail < MaxMsgs
  /\ pc' = [pc EXCEPT ![w] = IF QueueFull THEN "idle" ELSE "push"]
  /\ UNCHANGED <<busVars, noticeVars, target, storeFree, gcVars>>

(* Mutant: the storer is left out. *)
AddNotifyNoStorer(w) ==
  [r \in Consumers |-> IF r = Storer THEN wait[r]
                       ELSE [wait[r] EXCEPT ![w] = @ \cup {tail + 1}]]

(* AddNotify(w) on every worker and on the storer. *)
AddNotify(w) ==
  [r \in Consumers |-> [wait[r] EXCEPT ![w] = @ \cup {tail + 1}]]

(* MQPush, then AddNotify on every worker and on the storer: the counters  *)
(* at index w are touched by thread w alone.                               *)
MQPush(w) ==
  /\ pc[w] = "push"
  /\ tail' = tail + 1
  /\ size' = size + 1
  /\ mem' = mem + 1
  /\ wait' = AddNotify(w)
  /\ pc' = [pc EXCEPT ![w] = "notify"]
  /\ target' = [target EXCEPT ![w] = 0]
  /\ UNCHANGED <<head, cursor, pipe, hand, storeFree, gcVars>>

(* Mutant: the cron does not retry the notices. *)
WorkerCronNoRetry(w) ==
  /\ pc[w] = "idle"
  /\ UNCHANGED vars

(* Worker::Cron calls Master::NotifyNewMessage for the notices that did    *)
(* not fit into a socket pair.                                             *)
WorkerCron(w) ==
  /\ pc[w] = "idle"
  /\ pc' = [pc EXCEPT ![w] = "notify"]
  /\ target' = [target EXCEPT ![w] = 0]
  /\ UNCHANGED <<busVars, noticeVars, storeFree, gcVars>>

CanWrite(w, r) == wait[r][w] # {} /\ Cardinality(pipe[r][w]) < PipeCap

(* Mutant: the counter is not decremented. *)
NotDecremented(r, w, n) == wait

(* msg_wait_to_notify_[w]-- on receiver r. *)
Decremented(r, w, n) == [wait EXCEPT ![r][w] = @ \ {n}]

(* One write() of NotifyNewMessage that succeeds. *)
WriteNotice(w) ==
  LET r == target[w]
      n == Pick(wait[r][w])
  IN  /\ pc[w] = "notify"
      /\ CanWrite(w, r)
      /\ wait' = Decremented(r, w, n)
      /\ pipe' = [pipe EXCEPT ![r][w] = @ \cup {n}]
      /\ UNCHANGED <<busVars, hand, pc, target, storeFree, gcVars>>

(* NotifyNewMessage has nothing left for this receiver, or write() would   *)
(* block: on to the next worker, the storer last.                          *)
NextReceiver(w) ==
  /\ pc[w] = "notify"
  /\ ~CanWrite(w, target[w])
  /\ IF target[w] = Storer
       THEN pc' = [pc EXCEPT ![w] = "idle"] /\ UNCHANGED target
       ELSE target' = [target EXCEPT ![w] = @ + 1] /\ UNCHANGED pc
  /\ UNCHANGED <<busVars, noticeVars, storeFree, gcVars>>

(* The first read() of Worker::PublishMessage and Storer::StoreMessage;    *)
(* the storer leaves the byte where it is while its store is sending.      *)
ReadNotice(r, s) ==
  /\ pc[r] = "idle"
  /\ r = Storer => storeFree
  /\ pipe[r][s] # {}
  /\ LET n == Pick(pipe[r][s])
     IN  /\ pipe' = [pipe EXCEPT ![r][s] = @ \ {n}]
         /\ hand' = [hand EXCEPT ![r] = {n}]
  /\ pc' = [pc EXCEPT ![r] = "next"]
  /\ UNCHANGED <<busVars, wait, target, storeFree, gcVars>>

(* Mutant: the cursor catches up with the tail. *)
LastItem(i) == tail

(* iter->item->next *)
NextItem(i) == i + 1

(* MQNext; with no item behind the cursor the handler reports a            *)
(* "wrong notice" and returns.                                             *)
MQNext(r) ==
  /\ pc[r] = "next"
  /\ hand' = [hand EXCEPT ![r] = {}]
  /\ IF cursor[r] < tail
       THEN /\ cursor' = [cursor EXCEPT ![r] = NextItem(@)]
            /\ pc' = [pc EXCEPT ![r] = "use"]
       ELSE /\ pc' = [pc EXCEPT ![r] = "idle"]
            /\ UNCHANGED cursor
  /\ UNCHANGED <<tail, head, size, mem, wait, pipe, target, storeFree, gcVars>>

(* The rest of PublishMessage: the message under the cursor is written to  *)
(* the subscribers' buffers (module PubSub).                               *)
Publish(w) ==
  /\ pc[w] = "use"
  /\ pc' = [pc EXCEPT ![w] = "idle"]
  /\ UNCHANGED <<busVars, noticeVars, target, storeFree, gcVars>>

(* The rest of StoreMessage: store_->AddMessage, after which the store may *)
(* or may not be Free.                                                     *)
StoreAdd ==
  /\ pc[Storer] = "use"
  /\ pc' = [pc EXCEPT ![Storer] = "idle"]
  /\ storeFree' \in BOOLEAN
  /\ UNCHANGED <<busVars, noticeVars, target, gcVars>>

(* The store's own event (a reply, a reconnect) makes it Free again. *)
StoreSent ==
  /\ pc[Storer] = "idle"
  /\ ~storeFree
  /\ storeFree' = TRUE
  /\ UNCHANGED <<busVars, noticeVars, pc, target, gcVars>>

(* Mutant: the storer's cursor is left out. *)
WorkersScanned == gcseen = Storer - 1

(* The cursor about to be copied is the last one, the storer's. *)
AllScanned == gcseen = Storer

(* Master::Cron copies the cursors of the workers and then of the storer,  *)
(* one unlocked read each.                                                 *)
GetCursorPosition ==
  /\ gcpc = "scan"
  /\ gcpos' = gcpos \cup {cursor[gcseen]}
  /\ gcseen' = gcseen + 1
  /\ gcpc' = IF AllScanned THEN "free" ELSE "scan"
  /\ UNCHANGED <<busVars, noticeVars, pc, target, storeFree, gccount>>

(* One turn of MQFreeOldMessages' loop, outside the lock. *)
FreeItem ==
  /\ gcpc = "free"
  /\ head \notin gcpos
  /\ head' = head + 1
  /\ gccount' = gccount + 1
  /\ UNCHANGED <<tail, size, mem, cursor, noticeVars, pc, target, storeFree,
                 gcpc, gcseen, gcpos>>

(* Mutant: memory_freed counts the sentinel. *)
MemoryFreedSentinel == gccount

(* memory_freed leaves out the sentinel, which has no topic and content. *)
MemoryFreed == IF gccount > 0 /\ head = gccount THEN gccount - 1 ELSE gccount

(* Mutant: nothing is counted. *)
CountFreedNone == 0

CountFreed == gccount

(* The loop has met a cursor; size and memory_usage are corrected under    *)
(* the lock.                                                               *)
FreeDone ==
  /\ gcpc = "free"
  /\ head \in gcpos
  /\ size' = size - CountFreed
  /\ mem' = mem - MemoryFreed
  /\ gcpc' = "scan" /\ gcseen' = 0 /\ gcpos' = {} /\ gccount' = 0
  /\ UNCHANGED <<tail, head, cursor, noticeVars, pc, target, storeFree>>

MasterCron == GetCursorPosition \/ FreeItem \/ FreeDone

WorkerHandler(w) ==
  MQPush(w) \/ WriteNotice(w) \/ NextReceiver(w) \/ MQNext(w) \/ Publish(w)

StorerHandler == MQNext(Storer) \/ StoreAdd

Next ==
  \/ \E w \in Workers : PutMessage(w) \/ WorkerCron(w) \/ WorkerHandler(w)
  \/ StorerHandler \/ StoreSent
  \/ \E r \in Consumers, s \in Workers : ReadNotice(r, s)
  \/ MasterCron

(* A started handler runs to its end.  The event loop serves the readable  *)
(* descriptors and the timer in every iteration, so a notice descriptor    *)
(* that is readable again and again is served, and so is the cron; which   *)
(* of several notice descriptors is served is left open.  A store does not *)
(* stay busy for ever.                                                     *)
Fairness ==
  /\ \A w \in Workers : WF_vars(WorkerHandler(w)) /\ SF_vars(WorkerCron(w))
  /\ \A r \in Consumers : SF_vars(\E s \in Workers : ReadNotice(r, s))
  /\ WF_vars(StorerHandler) /\ WF_vars(StoreSent)
  /\ WF_vars(MasterCron)

Spec == Init /\ [][Next]_vars

FairSpec == Spec /\ Fairness

----------------------------------------------------------------------------
(* The notices for consumer r that have not been served. *)
Outstanding(r) ==
  hand[r] \cup UNION {wait[r][s] \cup pipe[r][s] : s \in Workers}

PCs == {"idle", "push", "notify", "next", "use"}

(* Type invariant. *)
TypeOK ==
  /\ tail \in Nat /\ head \in Nat /\ size \in Nat /\ mem \in Nat
  /\ cursor \in [Consumers -> Nat]
  /\ wait \in [Consumers -> [Workers -> SUBSET Nat]]
  /\ pipe \in [Consumers -> [Workers -> SUBSET Nat]]
  /\ hand \in [Consumers -> SUBSET Nat]
  /\ pc \in [Consumers -> PCs]
  /\ target \in [Workers -> Consumers]
  /\ storeFree \in BOOLEAN
  /\ gcpc \in {"scan", "free"}
  /\ gcseen \in Nat
  /\ gcpos \in SUBSET Nat
  /\ gccount \in Nat

(* PublishMessage and StoreMessage never reach their "wrong notice" error: *)
(* whoever has read a notice finds an unread item behind its cursor,       *)
(* whichever workers pushed and whichever socket pairs were full.          *)
NoWrongNotice == \A r \in Consumers : pc[r] = "next" => cursor[r] < tail

(* An unread item is always covered by a notice that is still to be        *)
(* written, in a socket pair or being served, so no message is forgotten   *)
(* when write() fails on a full socket pair.                               *)
NoForgottenMessage ==
  \A r \in Consumers : cursor[r] < tail => Outstanding(r) # {}

(* The garbage collector frees without the queue's lock.  It never deletes *)
(* the item a cursor points to (MQNext reads its next pointer and the      *)
(* handlers read its message after MQNext has unlocked) nor the tail       *)
(* MQPush links to, although the cursors it copied are stale.              *)
NoUseAfterFree == head <= tail /\ \A r \in Consumers : head <= cursor[r]

(* MQFreeOldMessages corrects the unsigned counters after the items are    *)
(* gone: what it subtracts is what it deleted, so queue->size counts the   *)
(* items behind the head of the last correction, memory_usage the messages *)
(* still allocated then, and neither wraps.                                *)
Accounting ==
  LET base == head - gccount
  IN  /\ size = tail - base
      /\ mem = IF base = 0 THEN tail ELSE tail - base + 1

(* PutMessage checks the limit before it pushes, without the lock between: *)
(* the queue may pass the limit, but only by the other workers' pushes     *)
(* that were already past their check.                                     *)
QueueBound == size <= QueueLimit + NumWorkers - 1

(* What the bus promises to its users: readers of one log, see             *)
(* BroadcastLog.  A log item is reclaimed when the collector deletes the   *)
(* item before it: the item at head itself stays allocated.                *)
Log == INSTANCE BroadcastLog WITH
         Readers   <- Consumers,
         Capacity  <- QueueLimit + NumWorkers - 1,
         published <- tail,
         read      <- cursor,
         reclaimed <- head

(* The threads, notices and the collector implement that log, steps only   *)
(* (what BroadcastLog forbids never happens).                              *)
ImplementsLog == Log!SafeSpec

(* ... and with its fairness: every message pushed is consumed by every    *)
(* worker and by the storer, although notices are refused and retried, and *)
(* everything all readers have passed is reclaimed.                        *)
ImplementsFairLog == Log!Spec

(* A full queue is drained again: messages are not dropped for ever. *)
QueueDrains == size >= QueueLimit ~> size < QueueLimit
=============================================================================
