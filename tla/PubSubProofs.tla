--------------------------- MODULE PubSubProofs ---------------------------
(***************************************************************************)
(* The subscription tables of a worker stay consistent for any sets of     *)
(* clients, topics and patterns: nobody is deleted twice, the worker's     *)
(* indexes agree with the clients' sets, no deleted client is in an index, *)
(* and a message reaches every client once for each subscription.          *)
(***************************************************************************)
EXTENDS PubSub, FiniteSetTheorems, TLAPS

(* The state without the message history. *)
StateOK ==
  /\ clients \subseteq Clients
  /\ toClose \in [Clients -> Nat]
  /\ subTopics \in [Clients -> SUBSET Topics]
  /\ subPatterns \in [Clients -> SUBSET Patterns]
  /\ topicKeys \subseteq Topics
  /\ byTopic \in [Topics -> [Clients -> Nat]]
  /\ patterns \in [Patterns -> [Clients -> Nat]]

(* Subscriptions belong to clients that exist. *)
OnlyAliveSubscribe ==
  \A c \in Clients : c \notin Alive => subTopics[c] = {} /\ subPatterns[c] = {}

(* The worker's indexes and the clients' own sets, each subscription once. *)
TablesAgree ==
  /\ \A c \in Clients, t \in Topics :
       byTopic[t][c] = IF t \in subTopics[c] THEN 1 ELSE 0
  /\ \A c \in Clients, p \in Patterns :
       patterns[p][c] = IF p \in subPatterns[c] THEN 1 ELSE 0
  /\ topicKeys = {t \in Topics : \E c \in Clients : t \in subTopics[c]}

IInv == StateOK /\ DeletedOnce /\ TablesAgree /\ OnlyAliveSubscribe

----------------------------------------------------------------------------
(* Who is alive. *)
LEMMA AliveMembers ==
  ASSUME NEW c \in Clients
  PROVE  /\ c \in Alive <=> c \in clients \/ toClose[c] > 0
         /\ c \in Alive' <=> c \in clients' \/ toClose'[c] > 0
  BY DEF Alive

(* Scheduling clients for closing moves them between the two lists and     *)
(* leaves everybody alive.                                                 *)
LEMMA CloseAsyncKeeps ==
  ASSUME IInv, NEW cs \in SUBSET Clients, CloseAsync(cs)
  PROVE  /\ clients' \subseteq Clients /\ toClose' \in [Clients -> Nat]
         /\ DeletedOnce'
         /\ \A c \in Clients : c \in Alive' <=> c \in Alive
<1> DEFINE moved == (cs \ closeAsap) \cap clients
<1>1. /\ clients' = clients \ moved
      /\ toClose' = [c \in Clients |-> IF c \in moved THEN toClose[c] + 1
                                                      ELSE toClose[c]]
  BY DEF CloseAsync
<1>2. moved \subseteq clients
  OBVIOUS
<1> HIDE DEF moved
<1>3. \A c \in Clients : toClose[c] \in Nat
  BY DEF IInv, StateOK
<1>4. clients' \subseteq Clients /\ toClose' \in [Clients -> Nat]
  BY <1>1, <1>2, <1>3 DEF IInv, StateOK
<1>5. \A c \in moved : c \in Clients /\ toClose[c] = 0
  BY <1>2, <1>3 DEF IInv, StateOK, DeletedOnce
<1>6. ASSUME NEW c \in Clients
      PROVE  toClose'[c] <= (IF c \in clients' THEN 0 ELSE 1)
  BY <1>1, <1>2, <1>3, <1>5 DEF IInv, DeletedOnce
<1>7. ASSUME NEW c \in Clients PROVE c \in Alive' <=> c \in Alive
  BY <1>1, <1>2, <1>3, <1>5, AliveMembers
<1> QED BY <1>4, <1>6, <1>7 DEF DeletedOnce

(* The same for what follows a command. *)
LEMMA AfterReplyKeeps ==
  ASSUME IInv, NEW c \in Clients, AfterReply(c)
  PROVE  /\ clients' \subseteq Clients /\ toClose' \in [Clients -> Nat]
         /\ DeletedOnce'
         /\ \A d \in Clients : d \in Alive' <=> d \in Alive
<1>1. PICK cs \in SUBSET {c} : CloseAsync(cs)
  BY DEF AfterReply
<1> QED BY <1>1, CloseAsyncKeeps

(* The part of the invariant that is about subscriptions. *)
TablesOK ==
  /\ subTopics \in [Clients -> SUBSET Topics]
  /\ subPatterns \in [Clients -> SUBSET Patterns]
  /\ topicKeys \subseteq Topics
  /\ byTopic \in [Topics -> [Clients -> Nat]]
  /\ patterns \in [Patterns -> [Clients -> Nat]]
  /\ TablesAgree

(* Unsubscribing any topics of any clients keeps index and sets together. *)
LEMMA DropTopicsKeeps ==
  ASSUME TablesOK, NEW gone \in [Clients -> SUBSET Topics], DropTopics(gone)
  PROVE  /\ subTopics' \in [Clients -> SUBSET Topics]
         /\ topicKeys' \subseteq Topics
         /\ byTopic' \in [Topics -> [Clients -> Nat]]
         /\ \A c \in Clients : subTopics'[c] = subTopics[c] \ gone[c]
         /\ \A c \in Clients, t \in Topics :
              byTopic'[t][c] = IF t \in subTopics'[c] THEN 1 ELSE 0
         /\ topicKeys' = {t \in Topics : \E c \in Clients : t \in subTopics'[c]}
<1>1. \A c \in Clients : subTopics'[c] = subTopics[c] \ gone[c]
  BY DEF DropTopics
<1>2. \A c \in Clients, t \in Topics :
        byTopic'[t][c] = IF t \in gone[c] \cap subTopics[c] THEN 0 ELSE byTopic[t][c]
  BY DEF DropTopics
<1>3. subTopics' \in [Clients -> SUBSET Topics]
  BY DEF DropTopics, TablesOK
<1>4. \A c \in Clients, t \in Topics :
        byTopic'[t][c] = IF t \in subTopics'[c] THEN 1 ELSE 0
  BY <1>1, <1>2 DEF TablesOK, TablesAgree
<1>5. byTopic' \in [Topics -> [Clients -> Nat]]
  BY <1>4 DEF DropTopics, TablesOK
<1>6. ASSUME NEW t \in Topics
      PROVE  t \in topicKeys' <=> \E c \in Clients : t \in subTopics'[c]
  <2>1. t \in topicKeys <=> \E c \in Clients : t \in subTopics[c]
    BY DEF TablesOK, TablesAgree
  <2>2. t \in topicKeys' <=>
          /\ t \in topicKeys
          /\ \/ \A c \in Clients : t \notin gone[c] \cap subTopics[c]
             \/ \E c \in Clients : byTopic'[t][c] > 0
    BY DEF DropTopics
  <2>3. (\E c \in Clients : byTopic'[t][c] > 0)
          <=> \E c \in Clients : t \in subTopics'[c]
    BY <1>4
  <2> QED BY <1>1, <2>1, <2>2, <2>3
<1>7. topicKeys' \subseteq Topics
  BY DEF DropTopics, TablesOK
<1> QED BY <1>1, <1>3, <1>4, <1>5, <1>6, <1>7

LEMMA DropPatternsKeeps ==
  ASSUME TablesOK, NEW gone \in [Clients -> SUBSET Patterns], DropPatterns(gone)
  PROVE  /\ subPatterns' \in [Clients -> SUBSET Patterns]
         /\ patterns' \in [Patterns -> [Clients -> Nat]]
         /\ \A c \in Clients : subPatterns'[c] = subPatterns[c] \ gone[c]
         /\ \A c \in Clients, p \in Patterns :
              patterns'[p][c] = IF p \in subPatterns'[c] THEN 1 ELSE 0
<1>1. \A c \in Clients : subPatterns'[c] = subPatterns[c] \ gone[c]
  BY DEF DropPatterns
<1>2. subPatterns' \in [Clients -> SUBSET Patterns]
  BY DEF DropPatterns, TablesOK
<1>3. \A c \in Clients, p \in Patterns :
        patterns'[p][c] = IF p \in gone[c] \cap subPatterns[c] /\ patterns[p][c] > 0
                            THEN patterns[p][c] - 1 ELSE patterns[p][c]
  BY DEF DropPatterns
<1>4. \A c \in Clients, p \in Patterns :
        patterns'[p][c] = IF p \in subPatterns'[c] THEN 1 ELSE 0
  BY <1>1, <1>3 DEF TablesOK, TablesAgree
<1>5. patterns' \in [Patterns -> [Clients -> Nat]]
  BY <1>4 DEF DropPatterns, TablesOK
<1> QED BY <1>1, <1>2, <1>4, <1>5

(* The tables are part of the invariant. *)
LEMMA InvTables == IInv => TablesOK
  BY DEF IInv, StateOK, TablesOK

(* Deleting clients takes back exactly their subscriptions. *)
LEMMA DeleteKeeps ==
  ASSUME IInv, NEW cs \in SUBSET Clients, Delete(cs)
  PROVE  /\ TablesOK'
         /\ \A c \in Clients : c \in cs => subTopics'[c] = {} /\ subPatterns'[c] = {}
         /\ \A c \in Clients : c \notin cs => /\ subTopics'[c] = subTopics[c]
                                             /\ subPatterns'[c] = subPatterns[c]
<1> DEFINE gt == [c \in Clients |-> IF c \in cs THEN subTopics[c] ELSE {}]
<1> DEFINE gp == [c \in Clients |-> IF c \in cs THEN subPatterns[c] ELSE {}]
<1>1. DropTopics(gt) /\ DropPatterns(gp)
  BY DEF Delete, Unsubscribe
<1>2. gt \in [Clients -> SUBSET Topics] /\ gp \in [Clients -> SUBSET Patterns]
  BY DEF IInv, StateOK
<1>3. \A c \in Clients : /\ gt[c] = IF c \in cs THEN subTopics[c] ELSE {}
                         /\ gp[c] = IF c \in cs THEN subPatterns[c] ELSE {}
  OBVIOUS
<1> HIDE DEF gt, gp
<1>4. TablesOK
  BY InvTables
<1>5. /\ subTopics' \in [Clients -> SUBSET Topics]
      /\ topicKeys' \subseteq Topics
      /\ byTopic' \in [Topics -> [Clients -> Nat]]
      /\ \A c \in Clients : subTopics'[c] = subTopics[c] \ gt[c]
      /\ \A c \in Clients, t \in Topics :
           byTopic'[t][c] = IF t \in subTopics'[c] THEN 1 ELSE 0
      /\ topicKeys' = {t \in Topics : \E c \in Clients : t \in subTopics'[c]}
  BY <1>1, <1>2, <1>4, DropTopicsKeeps
<1>6. /\ subPatterns' \in [Clients -> SUBSET Patterns]
      /\ patterns' \in [Patterns -> [Clients -> Nat]]
      /\ \A c \in Clients : subPatterns'[c] = subPatterns[c] \ gp[c]
      /\ \A c \in Clients, p \in Patterns :
           patterns'[p][c] = IF p \in subPatterns'[c] THEN 1 ELSE 0
  BY <1>1, <1>2, <1>4, DropPatternsKeeps
<1>7. TablesOK'
  BY <1>5, <1>6 DEF TablesOK, TablesAgree
<1>8. ASSUME NEW c \in Clients, c \in cs PROVE subTopics'[c] = {} /\ subPatterns'[c] = {}
  BY <1>3, <1>5, <1>6, <1>8
<1>9. ASSUME NEW c \in Clients, c \notin cs
      PROVE  subTopics'[c] = subTopics[c] /\ subPatterns'[c] = subPatterns[c]
  BY <1>3, <1>5, <1>6, <1>9
<1> QED BY <1>7, <1>8, <1>9

(* A command of client c: what it does to the tables, and that nobody but  *)
(* c gains a subscription.                                                 *)
LEMMA CommandKeeps ==
  ASSUME IInv, NEW c \in Clients, Command(c)
  PROVE  /\ TablesOK' /\ c \in Alive /\ AfterReply(c)
         /\ \A d \in Clients : d # c => /\ subTopics'[d] \subseteq subTopics[d]
                                        /\ subPatterns'[d] \subseteq subPatterns[d]
<1> USE InvTables
<1>0. subTopics \in [Clients -> SUBSET Topics] /\ subPatterns \in [Clients -> SUBSET Patterns]
  BY DEF TablesOK
<1>1. ASSUME NEW ts \in SUBSET Topics, ProcessSubscribe(c, ts)
      PROVE  TablesOK' /\ \A d \in Clients : d # c =>
               subTopics'[d] \subseteq subTopics[d] /\ subPatterns'[d] \subseteq subPatterns[d]
  <2>1. /\ subTopics' = [subTopics EXCEPT ![c] = @ \cup ts]
        /\ topicKeys' = topicKeys \cup (ts \ subTopics[c])
        /\ subPatterns' = subPatterns /\ patterns' = patterns
    BY <1>1 DEF ProcessSubscribe
  <2>2. byTopic' = [t \in Topics |-> IF t \in ts \ subTopics[c]
                      THEN [byTopic[t] EXCEPT ![c] = @ + 1] ELSE byTopic[t]]
    BY <1>1 DEF ProcessSubscribe
  <2>3. \A d \in Clients : subTopics'[d] =
          IF d = c THEN subTopics[d] \cup ts ELSE subTopics[d]
    BY <1>0, <2>1
  <2>4. \A t \in Topics : byTopic[t] \in [Clients -> Nat]
    BY DEF TablesOK
  <2>5. \A d \in Clients, t \in Topics : byTopic'[t][d] =
          IF d = c /\ t \in ts \ subTopics[c] THEN byTopic[t][d] + 1 ELSE byTopic[t][d]
    BY <2>2, <2>4
  <2>6. \A d \in Clients, t \in Topics :
          byTopic'[t][d] = IF t \in subTopics'[d] THEN 1 ELSE 0
    <3> TAKE d \in Clients, t \in Topics
    <3>1. byTopic[t][d] = IF t \in subTopics[d] THEN 1 ELSE 0
      BY DEF TablesOK, TablesAgree
    <3>2. byTopic'[t][d] = IF d = c /\ t \in ts \ subTopics[c] THEN byTopic[t][d] + 1
                                                             ELSE byTopic[t][d]
      BY <2>5
    <3>3. subTopics'[d] = IF d = c THEN subTopics[d] \cup ts ELSE subTopics[d]
      BY <2>3
    <3> QED BY <3>1, <3>2, <3>3
  <2>7. topicKeys' = {t \in Topics : \E d \in Clients : t \in subTopics'[d]}
    BY <2>1, <2>3 DEF TablesOK, TablesAgree
  <2>8. byTopic' \in [Topics -> [Clients -> Nat]]
    <3>1. \A t \in Topics :
            [byTopic[t] EXCEPT ![c] = @ + 1] \in [Clients -> Nat]
      BY <2>4
    <3> QED BY <2>2, <2>4, <3>1
  <2>9. subTopics' \in [Clients -> SUBSET Topics] /\ topicKeys' \subseteq Topics
    BY <1>0, <2>1, <2>7
  <2> QED BY <2>1, <2>3, <2>6, <2>7, <2>8, <2>9 DEF TablesOK, TablesAgree
<1>2. ASSUME NEW ps \in SUBSET Patterns, ProcessPSubscribe(c, ps)
      PROVE  TablesOK' /\ \A d \in Clients : d # c =>
               subTopics'[d] \subseteq subTopics[d] /\ subPatterns'[d] \subseteq subPatterns[d]
  <2>1. /\ subPatterns' = [subPatterns EXCEPT ![c] = @ \cup ps]
        /\ UNCHANGED <<subTopics, topicKeys, byTopic>>
    BY <1>2 DEF ProcessPSubscribe
  <2>2. patterns' = [p \in Patterns |-> IF p \in ps \ subPatterns[c]
                      THEN [patterns[p] EXCEPT ![c] = @ + 1] ELSE patterns[p]]
    BY <1>2 DEF ProcessPSubscribe
  <2>3. \A d \in Clients : subPatterns'[d] =
          IF d = c THEN subPatterns[d] \cup ps ELSE subPatterns[d]
    BY <1>0, <2>1
  <2>4. \A p \in Patterns : patterns[p] \in [Clients -> Nat]
    BY DEF TablesOK
  <2>5. \A d \in Clients, p \in Patterns : patterns'[p][d] =
          IF d = c /\ p \in ps \ subPatterns[c] THEN patterns[p][d] + 1 ELSE patterns[p][d]
    BY <2>2, <2>4
  <2>6. \A d \in Clients, p \in Patterns :
          patterns'[p][d] = IF p \in subPatterns'[d] THEN 1 ELSE 0
    <3> TAKE d \in Clients, p \in Patterns
    <3>1. patterns[p][d] = IF p \in subPatterns[d] THEN 1 ELSE 0
      BY DEF TablesOK, TablesAgree
    <3>2. patterns'[p][d] = IF d = c /\ p \in ps \ subPatterns[c] THEN patterns[p][d] + 1
                                                                ELSE patterns[p][d]
      BY <2>5
    <3>3. subPatterns'[d] = IF d = c THEN subPatterns[d] \cup ps ELSE subPatterns[d]
      BY <2>3
    <3> QED BY <3>1, <3>2, <3>3
  <2>7. patterns' \in [Patterns -> [Clients -> Nat]]
    <3>1. \A p \in Patterns :
            [patterns[p] EXCEPT ![c] = @ + 1] \in [Clients -> Nat]
      BY <2>4
    <3> QED BY <2>2, <2>4, <3>1
  <2>8. subPatterns' \in [Clients -> SUBSET Patterns]
    BY <1>0, <2>1
  <2> QED BY <2>1, <2>3, <2>6, <2>7, <2>8 DEF TablesOK, TablesAgree
<1>3. ASSUME NEW ts \in SUBSET Topics, ProcessUnSubscribe(c, ts)
      PROVE  TablesOK' /\ \A d \in Clients : d # c =>
               subTopics'[d] \subseteq subTopics[d] /\ subPatterns'[d] \subseteq subPatterns[d]
  <2>1. Only(c, ts) \in [Clients -> SUBSET Topics]
    BY DEF Only
  <2>2. DropTopics(Only(c, ts)) /\ subPatterns' = subPatterns /\ patterns' = patterns
    BY <1>3 DEF ProcessUnSubscribe
  <2> QED BY <2>1, <2>2, DropTopicsKeeps DEF TablesOK, TablesAgree
<1>4. ASSUME NEW ps \in SUBSET Patterns, ProcessPUnSubscribe(c, ps)
      PROVE  TablesOK' /\ \A d \in Clients : d # c =>
               subTopics'[d] \subseteq subTopics[d] /\ subPatterns'[d] \subseteq subPatterns[d]
  <2>1. Only(c, ps) \in [Clients -> SUBSET Patterns]
    BY DEF Only
  <2>2. DropPatterns(Only(c, ps)) /\ UNCHANGED <<subTopics, topicKeys, byTopic>>
    BY <1>4 DEF ProcessPUnSubscribe
  <2> QED BY <2>1, <2>2, DropPatternsKeeps DEF TablesOK, TablesAgree
<1>5. CASE ProcessQuit(c)
  <2>1. UNCHANGED <<subTopics, subPatterns, topicKeys, byTopic, patterns>>
    BY <1>5 DEF ProcessQuit, subVars
  <2> QED BY <1>5, <2>1 DEF ProcessQuit, Serves, TablesOK, TablesAgree
<1>6. subTopics[c] \in SUBSET Topics /\ subPatterns[c] \in SUBSET Patterns
  BY <1>0
<1>7. c \in Alive /\ AfterReply(c)
  BY DEF Command, ProcessSubscribe, ProcessPSubscribe, ProcessUnSubscribe,
         ProcessPUnSubscribe, ProcessQuit, Serves
<1> QED BY <1>1, <1>2, <1>3, <1>4, <1>5, <1>6, <1>7 DEF Command

(* Every handler of the worker preserves the invariant. *)
LEMMA InvStep == IInv /\ [Next]_vars => IInv'
<1> SUFFICES ASSUME IInv, [Next]_vars PROVE IInv'
  OBVIOUS
<1>0. /\ TablesOK /\ clients \subseteq Clients /\ toClose \in [Clients -> Nat]
      /\ DeletedOnce /\ OnlyAliveSubscribe
  BY InvTables DEF IInv, StateOK
<1>1. ASSUME TablesOK', clients' \subseteq Clients, toClose' \in [Clients -> Nat],
             DeletedOnce', OnlyAliveSubscribe'
      PROVE  IInv'
  BY <1>1 DEF IInv, StateOK, TablesOK
<1>2. ASSUME NEW c \in Clients, NewClient(c) PROVE IInv'
  <2>1. /\ clients' = clients \cup {c} /\ toClose' = toClose /\ c \notin Alive
        /\ UNCHANGED <<subTopics, subPatterns, topicKeys, byTopic, patterns>>
    BY <1>2 DEF NewClient, subVars
  <2>2. toClose[c] = 0
    BY <1>0, <2>1, AliveMembers
  <2>3. DeletedOnce'
    BY <1>0, <2>1, <2>2 DEF DeletedOnce
  <2>4. OnlyAliveSubscribe'
    BY <1>0, <2>1, AliveMembers DEF OnlyAliveSubscribe
  <2>5. TablesOK'
    BY <1>0, <2>1 DEF TablesOK, TablesAgree
  <2> QED BY <1>0, <1>1, <2>1, <2>3, <2>4, <2>5
<1>3. ASSUME NEW c \in Clients, Command(c) PROVE IInv'
  <2>1. /\ TablesOK' /\ c \in Alive /\ AfterReply(c)
        /\ \A d \in Clients : d # c => /\ subTopics'[d] \subseteq subTopics[d]
                                       /\ subPatterns'[d] \subseteq subPatterns[d]
    BY <1>3, CommandKeeps
  <2>2. /\ clients' \subseteq Clients /\ toClose' \in [Clients -> Nat] /\ DeletedOnce'
        /\ \A d \in Clients : d \in Alive' <=> d \in Alive
    BY <2>1, AfterReplyKeeps
  <2>3. OnlyAliveSubscribe'
    BY <1>0, <2>1, <2>2 DEF OnlyAliveSubscribe
  <2> QED BY <1>1, <2>1, <2>2, <2>3
<1>4. ASSUME NEW c \in Clients, FreeClient(c) PROVE IInv'
  <2>1. CASE c \in clients
    <3>1. Delete({c}) /\ clients' = clients \ {c} /\ toClose' = toClose
      BY <1>4, <2>1 DEF FreeClient
    <3>2. /\ TablesOK' /\ subTopics'[c] = {} /\ subPatterns'[c] = {}
          /\ \A d \in Clients : d # c => /\ subTopics'[d] = subTopics[d]
                                         /\ subPatterns'[d] = subPatterns[d]
      BY <3>1, DeleteKeeps
    <3>3. DeletedOnce'
      BY <1>0, <3>1 DEF DeletedOnce
    <3>4. OnlyAliveSubscribe'
      BY <1>0, <3>1, <3>2, AliveMembers DEF OnlyAliveSubscribe
    <3> QED BY <1>0, <1>1, <3>1, <3>2, <3>3, <3>4
  <2>2. CASE c \notin clients
    <3>1. UNCHANGED <<clients, toClose, subTopics, subPatterns, topicKeys, byTopic,
                      patterns>>
      BY <1>4, <2>2 DEF FreeClient, subVars
    <3>2. \A d \in Clients : d \in Alive' <=> d \in Alive
      BY <3>1, AliveMembers
    <3> QED
      BY <1>0, <1>1, <3>1, <3>2 DEF TablesOK, TablesAgree, DeletedOnce,
         OnlyAliveSubscribe
  <2> QED BY <2>1, <2>2
<1>5. ASSUME NEW t \in Topics, PublishMessage(t) PROVE IInv'
  <2>1. PICK cs \in SUBSET Clients : CloseAsync(cs)
    BY <1>5 DEF PublishMessage
  <2>2. UNCHANGED <<subTopics, subPatterns, topicKeys, byTopic, patterns>>
    BY <1>5 DEF PublishMessage, subVars
  <2>3. /\ clients' \subseteq Clients /\ toClose' \in [Clients -> Nat] /\ DeletedOnce'
        /\ \A d \in Clients : d \in Alive' <=> d \in Alive
    BY <2>1, CloseAsyncKeeps
  <2> QED
    BY <1>0, <1>1, <2>2, <2>3 DEF TablesOK, TablesAgree, OnlyAliveSubscribe
<1>6. CASE WorkerCron
  <2> DEFINE cs == {c \in Clients : toClose[c] > 0}
  <2>1. Delete(cs) /\ toClose' = [c \in Clients |-> 0] /\ clients' = clients
    BY <1>6 DEF WorkerCron, NoClient
  <2>2. /\ TablesOK'
        /\ \A c \in Clients : c \in cs => subTopics'[c] = {} /\ subPatterns'[c] = {}
        /\ \A c \in Clients : c \notin cs => /\ subTopics'[c] = subTopics[c]
                                            /\ subPatterns'[c] = subPatterns[c]
    BY <2>1, DeleteKeeps
  <2>3. DeletedOnce'
    BY <2>1 DEF DeletedOnce
  <2>4. OnlyAliveSubscribe'
    BY <1>0, <2>1, <2>2, AliveMembers DEF OnlyAliveSubscribe
  <2> QED BY <1>0, <1>1, <2>1, <2>2, <2>3, <2>4
<1>7. CASE UNCHANGED vars
  <2>1. \A d \in Clients : d \in Alive' <=> d \in Alive
    BY <1>7, AliveMembers DEF vars
  <2> QED
    BY <1>0, <1>1, <1>7, <2>1 DEF vars, TablesOK, TablesAgree, DeletedOnce,
       OnlyAliveSubscribe
<1> QED BY <1>2, <1>3, <1>4, <1>5, <1>6, <1>7 DEF Next

(* No handler order makes the tables inconsistent. *)
THEOREM Invariant == Spec => []IInv
<1>1. Init => IInv
  BY DEF Init, NoClient, IInv, StateOK, DeletedOnce, TablesAgree, OnlyAliveSubscribe
<1> QED BY <1>1, InvStep, PTL DEF Spec

(* A client is deleted once. *)
THEOREM ClientsDeletedOnce == Spec => []DeletedOnce
<1>1. IInv => DeletedOnce
  BY DEF IInv
<1> QED BY Invariant, <1>1, PTL

(* The worker's indexes and the clients' own sets agree. *)
THEOREM IndexesAlwaysAgree == Spec => []IndexesAgree
<1>1. IInv => IndexesAgree
  BY DEF IInv, TablesAgree, OnlyAliveSubscribe, IndexesAgree
<1> QED BY Invariant, <1>1, PTL

(* The list of patterns has one entry for each pattern of a client's own   *)
(* set: the entries that match are as many as the patterns that do.        *)
LEMMA EntriesCounted ==
  ASSUME IInv, NEW c \in Clients, NEW t
  PROVE  Cardinality(Entries(c, t)) = Cardinality({p \in subPatterns[c] : t \in Matches[p]})
<1> DEFINE P == {p \in subPatterns[c] : t \in Matches[p]}
           f == [p \in P |-> <<p, 1>>]
<1>1. P \subseteq Patterns /\ IsFiniteSet(P)
  <2>1. P \in SUBSET Patterns
    BY DEF IInv, StateOK
  <2> HIDE DEF P
  <2> QED BY <2>1, MatchesAssumption, FS_Subset
<1>2. \A p \in Patterns :
        1..patterns[p][c] = IF p \in subPatterns[c] THEN {1} ELSE {}
  <2>1. \A p \in Patterns : patterns[p][c] = IF p \in subPatterns[c] THEN 1 ELSE 0
    BY DEF IInv, TablesAgree
  <2>2. 1..1 = {1} /\ 1..0 = {}
    OBVIOUS
  <2> QED BY <2>1, <2>2
<1>3. ASSUME NEW e PROVE e \in Entries(c, t) <=> \E p \in P : e = <<p, 1>>
  <2>1. e \in Entries(c, t) <=>
          \E p \in Patterns : t \in Matches[p] /\ e \in {p} \X (1..patterns[p][c])
    BY DEF Entries
  <2>2. \A p \in Patterns : e \in {p} \X (1..patterns[p][c]) <=>
          p \in subPatterns[c] /\ e = <<p, 1>>
    <3> SUFFICES ASSUME NEW p \in Patterns
                 PROVE  e \in {p} \X (1..patterns[p][c]) <=> p \in subPatterns[c] /\ e = <<p, 1>>
      OBVIOUS
    <3>1. CASE p \in subPatterns[c]
      <4>1. 1..patterns[p][c] = {1}
        BY <1>2, <3>1
      <4> QED BY <3>1, <4>1
    <3>2. CASE p \notin subPatterns[c]
      <4>1. 1..patterns[p][c] = {}
        BY <1>2, <3>2
      <4> QED BY <3>2, <4>1
    <3> QED BY <3>1, <3>2
  <2> QED BY <1>1, <2>1, <2>2
<1>4. f \in Bijection(P, Entries(c, t))
  <2>1. f \in [P -> Entries(c, t)]
    BY <1>3
  <2>2. \A p, q \in P : f[p] = f[q] => p = q
    OBVIOUS
  <2>3. \A e \in Entries(c, t) : \E p \in P : f[p] = e
    BY <1>3
  <2> HIDE DEF P, f
  <2> QED BY <2>1, <2>2, <2>3 DEF Bijection, Injection, Surjection, IsInjective
<1>5. ExistsBijection(P, Entries(c, t))
  BY <1>4 DEF ExistsBijection
<1> HIDE DEF P
<1> QED BY <1>1, <1>5, FS_Bijection DEF P

(* PublishMessage hands a client one copy for its subscription to the      *)
(* topic and one for each of its patterns that match, whatever commands    *)
(* and disconnects came before.                                            *)
THEOREM Receives == Spec => ReceivesItsSubscriptions
<1>1. ASSUME IInv, NEW t \in Topics, PublishMessage(t), NEW c \in Clients
      PROVE  received'[c] = (IF t \in subTopics[c] THEN 1 ELSE 0)
               + Cardinality({p \in subPatterns[c] : t \in Matches[p]})
  <2>1. received'[c] = Copies(c, t)
    BY <1>1 DEF PublishMessage
  <2>2. (IF t \in topicKeys THEN byTopic[t][c] ELSE 0) = IF t \in subTopics[c] THEN 1 ELSE 0
    BY <1>1 DEF IInv, TablesAgree
  <2>3. Cardinality(Entries(c, t)) = Cardinality({p \in subPatterns[c] : t \in Matches[p]})
    BY <1>1, EntriesCounted
  <2> QED BY <2>1, <2>2, <2>3 DEF Copies
<1>2. IInv /\ [Next]_vars =>
        [\A t \in Topics : PublishMessage(t) =>
           \A c \in Clients : received'[c] =
             (IF t \in subTopics[c] THEN 1 ELSE 0)
               + Cardinality({p \in subPatterns[c] : t \in Matches[p]})]_vars
  BY <1>1
<1> QED BY <1>2, Invariant, PTL DEF Spec, ReceivesItsSubscriptions
============================================================================
