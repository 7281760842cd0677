------------------------------ MODULE PubSub ------------------------------
(***************************************************************************)
(* The clients of one worker and its subscription tables: clients_ and     *)
(* clients_to_close_ (src/worker.cc), the sets sub_topics_ and             *)
(* sub_patterns_ every client keeps, and the worker's indexes              *)
(* clients_by_topic_ and pubsub_patterns_ that PublishMessage walks        *)
(* (src/pubsub.cc).  One thread runs all of it, a handler at a time; the   *)
(* hazard is the order of handlers: a client scheduled for closing goes on *)
(* sending commands, receiving messages and disconnecting until the cron.  *)
(*                                                                         *)
(* A list is kept as the number of times each element is in it: the order  *)
(* of subscribers is of no consequence, an element listed twice or left    *)
(* behind is.                                                              *)
(***************************************************************************)
EXTENDS Integers, FiniteSets

CONSTANTS Clients,    \* Client objects, a freed one may be allocated again
          Topics, Patterns,
          Matches     \* Matches[p]: the topics pattern p matches

ASSUME MatchesAssumption == IsFiniteSet(Patterns) /\ Matches \in [Patterns -> SUBSET Topics]

VARIABLES
  clients,      \* clients_
  toClose,      \* toClose[c]: times c is in clients_to_close_
  subTopics,    \* sub_topics_ of every client
  subPatterns,  \* sub_patterns_ of every client
  topicKeys,    \* keys of clients_by_topic_
  byTopic,      \* byTopic[t][c]: times c is in the list of topic t
  patterns,     \* patterns[p][c]: times <p, c> is in pubsub_patterns_
  closeAfter,   \* clients with CLIENT_CLOSE_AFTER_REPLY
  closeAsap,    \* clients with CLIENT_CLOSE_ASAP
  received      \* copies of the last message published, for each client

vars == <<clients, toClose, subTopics, subPatterns, topicKeys, byTopic, patterns,
          closeAfter, closeAsap, received>>
subVars == <<subTopics, subPatterns, topicKeys, byTopic, patterns>>

NoClient == [c \in Clients |-> 0]

(* The Client objects that have been created and not deleted. *)
Alive == clients \cup {c \in Clients : toClose[c] > 0}

Init ==
  /\ clients = {} /\ toClose = NoClient
  /\ subTopics = [c \in Clients |-> {}]
  /\ subPatterns = [c \in Clients |-> {}]
  /\ topicKeys = {}
  /\ byTopic = [t \in Topics |-> NoClient]
  /\ patterns = [p \in Patterns |-> NoClient]
  /\ closeAfter = {} /\ closeAsap = {}
  /\ received = NoClient

(* Worker::GetNewConnection with Client::Create. *)
NewClient(c) ==
  /\ c \notin Alive
  /\ clients' = clients \cup {c}
  /\ UNCHANGED <<toClose, subVars, closeAfter, closeAsap, received>>

(* Mutant: the flag is not looked at and neither is clients_. *)
CloseAsyncAgain(cs) ==
  /\ closeAsap' = closeAsap \cup cs
  /\ clients' = clients \ cs
  /\ toClose' = [c \in Clients |-> IF c \in cs THEN toClose[c] + 1 ELSE toClose[c]]

(* AsyncCloseOnOutputBufferLimitsReached and Worker::FreeClientAsync for   *)
(* the clients cs whose output buffer has reached a limit.                 *)
CloseAsync(cs) ==
  LET moved == (cs \ closeAsap) \cap clients
  IN  /\ closeAsap' = closeAsap \cup cs
      /\ clients' = clients \ moved
      /\ toClose' = [c \in Clients |-> IF c \in moved THEN toClose[c] + 1
                                                      ELSE toClose[c]]

(* What follows the replies of a command: nothing, or the output buffer    *)
(* limit is reached.                                                       *)
AfterReply(c) == \E cs \in SUBSET {c} : CloseAsync(cs)

(* A client's commands are read while the object exists and has not quit. *)
Serves(c) == c \in Alive /\ c \notin closeAfter

(* Mutant: a repeated subscription is listed again. *)
SubscribeTwice(c, ts) ==
  /\ Serves(c)
  /\ subTopics' = [subTopics EXCEPT ![c] = @ \cup ts]
  /\ topicKeys' = topicKeys \cup ts
  /\ byTopic' = [t \in Topics |->
       IF t \in ts THEN [byTopic[t] EXCEPT ![c] = @ + 1] ELSE byTopic[t]]
  /\ AfterReply(c)
  /\ UNCHANGED <<subPatterns, patterns, closeAfter, received>>

(* ProcessSubscribe: topics the client does not have yet enter both its    *)
(* own set and the worker's index.                                         *)
ProcessSubscribe(c, ts) ==
  LET new == ts \ subTopics[c]
  IN  /\ Serves(c)
      /\ subTopics' = [subTopics EXCEPT ![c] = @ \cup ts]
      /\ topicKeys' = topicKeys \cup new
      /\ byTopic' = [t \in Topics |->
           IF t \in new THEN [byTopic[t] EXCEPT ![c] = @ + 1] ELSE byTopic[t]]
      /\ AfterReply(c)
      /\ UNCHANGED <<subPatterns, patterns, closeAfter, received>>

ProcessPSubscribe(c, ps) ==
  LET new == ps \ subPatterns[c]
  IN  /\ Serves(c)
      /\ subPatterns' = [subPatterns EXCEPT ![c] = @ \cup ps]
      /\ patterns' = [p \in Patterns |->
           IF p \in new THEN [patterns[p] EXCEPT ![c] = @ + 1] ELSE patterns[p]]
      /\ AfterReply(c)
      /\ UNCHANGED <<subTopics, topicKeys, byTopic, closeAfter, received>>

(* Mutant: the client stays in the list of the topic. *)
DropTopicsKeepsList(gone) ==
  /\ subTopics' = [c \in Clients |-> subTopics[c] \ gone[c]]
  /\ UNCHANGED <<byTopic, topicKeys>>

(* UnsubscribeTopic for a set gone[c] of topics of every client: remove()  *)
(* takes the client out of the list, and an empty list out of the index.   *)
DropTopics(gone) ==
  /\ subTopics' = [c \in Clients |-> subTopics[c] \ gone[c]]
  /\ byTopic' = [t \in Topics |-> [c \in Clients |->
       IF t \in gone[c] \cap subTopics[c] THEN 0 ELSE byTopic[t][c]]]
  /\ topicKeys' = {t \in topicKeys :
       \/ \A c \in Clients : t \notin gone[c] \cap subTopics[c]
       \/ \E c \in Clients : byTopic'[t][c] > 0}

(* UnsubscribePattern for a set gone[c] of patterns of every client: the   *)
(* first entry for the pattern and the client is deleted.                  *)
DropPatterns(gone) ==
  /\ subPatterns' = [c \in Clients |-> subPatterns[c] \ gone[c]]
  /\ patterns' = [p \in Patterns |-> [c \in Clients |->
       IF p \in gone[c] \cap subPatterns[c] /\ patterns[p][c] > 0
         THEN patterns[p][c] - 1 ELSE patterns[p][c]]]

Only(c, S) == [d \in Clients |-> IF d = c THEN S ELSE {}]

(* ProcessUnSubscribe; without arguments it takes all topics. *)
ProcessUnSubscribe(c, ts) ==
  /\ Serves(c)
  /\ DropTopics(Only(c, ts))
  /\ AfterReply(c)
  /\ UNCHANGED <<subPatterns, patterns, closeAfter, received>>

ProcessPUnSubscribe(c, ps) ==
  /\ Serves(c)
  /\ DropPatterns(Only(c, ps))
  /\ AfterReply(c)
  /\ UNCHANGED <<subTopics, topicKeys, byTopic, closeAfter, received>>

(* ProcessQuit and ProcessProtocolError: no more commands are read. *)
ProcessQuit(c) ==
  /\ Serves(c)
  /\ closeAfter' = closeAfter \cup {c}
  /\ AfterReply(c)
  /\ UNCHANGED <<subVars, received>>

(* Mutant: only the topics are given back. *)
ForgetPatterns(cs) ==
  /\ DropTopics([c \in Clients |-> IF c \in cs THEN subTopics[c] ELSE {}])
  /\ UNCHANGED <<subPatterns, patterns>>

(* Client::~Client: all subscriptions of the clients cs are taken back. *)
Unsubscribe(cs) ==
  /\ DropTopics([c \in Clients |-> IF c \in cs THEN subTopics[c] ELSE {}])
  /\ DropPatterns([c \in Clients |-> IF c \in cs THEN subPatterns[c] ELSE {}])

(* delete on the clients cs; a new object starts without flags. *)
Delete(cs) ==
  /\ Unsubscribe(cs)
  /\ closeAfter' = closeAfter \ cs
  /\ closeAsap' = closeAsap \ cs

(* Worker::FreeClient, on a read error, on the peer's close or after the   *)
(* last reply: a client already scheduled for closing is left to the cron. *)
FreeClient(c) ==
  /\ c \in Alive
  /\ IF c \in clients
       THEN clients' = clients \ {c} /\ Delete({c})
       ELSE UNCHANGED <<clients, subVars, closeAfter, closeAsap>>
  /\ UNCHANGED <<toClose, received>>

(* Worker::Cron: FreeClientsInAsyncFreeQueue. *)
WorkerCron ==
  /\ Delete({c \in Clients : toClose[c] > 0})
  /\ toClose' = NoClient
  /\ UNCHANGED <<clients, received>>

(* The entries of pubsub_patterns_ for client c that match topic t. *)
Entries(c, t) ==
  UNION {{p} \X (1..patterns[p][c]) : p \in {q \in Patterns : t \in Matches[q]}}

(* Copies of a message on topic t that PublishMessage hands to client c. *)
Copies(c, t) ==
  (IF t \in topicKeys THEN byTopic[t][c] ELSE 0) + Cardinality(Entries(c, t))

(* Worker::PublishMessage for a message on topic t; a client that has quit *)
(* takes nothing more into its buffer.                                     *)
PublishMessage(t) ==
  /\ received' = [c \in Clients |-> Copies(c, t)]
  /\ \E cs \in SUBSET {c \in Clients \ closeAfter : received'[c] > 0} :
       CloseAsync(cs)
  /\ UNCHANGED <<subVars, closeAfter>>

Command(c) ==
  \/ \E ts \in SUBSET Topics \ {{}} :
       ProcessSubscribe(c, ts) \/ ProcessUnSubscribe(c, ts)
  \/ ProcessUnSubscribe(c, subTopics[c])
  \/ \E ps \in SUBSET Patterns \ {{}} :
       ProcessPSubscribe(c, ps) \/ ProcessPUnSubscribe(c, ps)
  \/ ProcessPUnSubscribe(c, subPatterns[c])
  \/ ProcessQuit(c)

Next ==
  \/ \E c \in Clients : NewClient(c) \/ Command(c) \/ FreeClient(c)
  \/ \E t \in Topics : PublishMessage(t)
  \/ WorkerCron

Spec == Init /\ [][Next]_vars

----------------------------------------------------------------------------
(* Type invariant. *)
TypeOK ==
  /\ clients \subseteq Clients
  /\ toClose \in [Clients -> Nat]
  /\ subTopics \in [Clients -> SUBSET Topics]
  /\ subPatterns \in [Clients -> SUBSET Patterns]
  /\ topicKeys \subseteq Topics
  /\ byTopic \in [Topics -> [Clients -> Nat]]
  /\ patterns \in [Patterns -> [Clients -> Nat]]
  /\ closeAfter \subseteq Clients /\ closeAsap \subseteq Clients
  /\ received \in [Clients -> Nat]

(* A client is deleted once: it is never in clients_to_close_ twice, nor   *)
(* in clients_ and in clients_to_close_ at the same time.                  *)
DeletedOnce ==
  \A c \in Clients : toClose[c] <= (IF c \in clients THEN 0 ELSE 1)

(* The worker's indexes say exactly what the own sets of the allocated     *)
(* clients say, each subscription once: PublishMessage misses none and     *)
(* never calls ReceiveMessage on a client that was deleted.                *)
IndexesAgree ==
  /\ \A c \in Clients, t \in Topics :
       byTopic[t][c] = IF c \in Alive /\ t \in subTopics[c] THEN 1 ELSE 0
  /\ \A c \in Clients, p \in Patterns :
       patterns[p][c] = IF c \in Alive /\ p \in subPatterns[c] THEN 1 ELSE 0
  /\ topicKeys = {t \in Topics : \E c \in Clients : t \in subTopics[c]}

(* A client gets one copy for its subscription to the topic and one for    *)
(* each of its patterns that match, and nothing it did not subscribe to.   *)
ReceivesItsSubscriptions ==
  [][\A t \in Topics : PublishMessage(t) =>
       \A c \in Clients : received'[c] =
         (IF t \in subTopics[c] THEN 1 ELSE 0)
           + Cardinality({p \in subPatterns[c] : t \in Matches[p]})]_vars
============================================================================
