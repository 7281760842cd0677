------------------------------ MODULE StoreTree ------------------------------
(***************************************************************************)
(* The tree of stores of the storer thread: what the configuration check   *)
(* accepts (CheckStoreConfig, src/conf.cc), what is made of it             *)
(* (Store::Create, src/store/store.cc), and how MultipleStore,             *)
(* PriorityStore and NullStore open, hand on messages and run their crons  *)
(* over network stores and file stores.  Buffer stores have a module of    *)
(* their own; here they only appear in configurations.                     *)
(*                                                                         *)
(* A configuration is a record of sequences indexed by node, node 1 is the *)
(* root and children have larger numbers than their parent.                *)
(***************************************************************************)
EXTENDS TopicFiles, Sequences, SequencesExt, FiniteSets

CONSTANTS
  Confs,     \* configurations that are parsed
  Started,   \* the ones with which the storer is started
  Topics,    \* topics of messages
  Reconnect, \* reconnect_interval_
  Start,     \* the time of the start is one of these
  MaxTime    \* bound on the clock

ASSUME TreeAssumption ==
  /\ Reconnect \in Nat /\ MaxTime \in Nat
  /\ Start \subseteq Nat \ {0} /\ \A t \in Start : t >= Rotate

VARIABLES
  conf,      \* the configuration
  phase,     \* "parsed", "refused", "accepted", "running"
  isOpen,    \* is_open_ of the multiple, priority and null stores
  link,      \* network stores: connected, state_ and last_reconnect_
  file,      \* file stores
  reachable, \* network stores whose remote kids can be reached
  disk,      \* directories and files can be created
  unixtime,  \* the storer's clock, 0 before its first cron
  now,       \* the time
  missed,    \* history: the last first second of a period in which no cron ran
  holders,   \* history: the stores that took the last message
  dropped    \* history: whether the last message was counted as dropped

vars == <<conf, phase, isOpen, link, file, reachable, disk, unixtime, now, missed,
          holders, dropped>>
environment == <<conf, reachable, disk>>

Nodes(c) == DOMAIN c.type
Children(c, i) == ToSet(c.children[i])
Edges(c) == {e \in Nodes(c) \X Nodes(c) : e[2] \in Children(c, e[1])}

(* The nodes that are reached from node r along these edges, which lead to *)
(* larger numbers.                                                         *)
Reached(nodes, r, edges) ==
  LET reached[i \in nodes] ==
        i = r \/ \E p \in 1..(i - 1) : reached[p] /\ <<p, i>> \in edges
  IN  {i \in nodes : reached[i]}

(* The values of type, success and buffer; "nosuch" stands for every word  *)
(* that the check does not know.                                           *)
Words == {"multiple", "priority", "buffer", "network", "file", "null", "nosuch",
          "any", "all", "none", "primary", "secondary"}

(* What the grammar builds: sections nest, so that every store but the     *)
(* root is in the section of one that was begun before, and of no other.   *)
WellFormed(c) ==
  /\ c \in [type : Seq(Words), children : Seq(Seq(Nat)), success : Seq(Words),
            topic : Seq(SUBSET Topics), buffer : Seq(Words), address : Seq(BOOLEAN)]
  /\ \A key \in DOMAIN c : Len(c[key]) = Len(c.type)
  /\ \A i \in Nodes(c) : Children(c, i) \subseteq (i + 1)..Len(c.type)
  /\ \A p, q \in Nodes(c) : p # q => Children(c, p) \cap Children(c, q) = {}
  /\ Nodes(c) = Reached(Nodes(c), 1, Edges(c))

ASSUME ConfsAssumption == \A c \in Confs : c.type # <<>> => WellFormed(c)

Simple == {"network", "file", "null"}

(* No buffer stores; what is written inside a simple store is not built. *)
ASSUME StartedAssumption ==
  \A c \in Started : \A i \in Nodes(c) :
    \/ c.type[i] \in {"multiple", "priority"}
    \/ c.type[i] \in Simple /\ c.children[i] = <<>>

----------------------------------------------------------------------------
(* Mutant: the stores of a multiple or priority store are not checked. *)
ChildrenUnchecked(c, i, ok) == c.children[i] # <<>>

(* A multiple or priority store has stores, all of them well formed. *)
ChildrenChecked(c, i, ok) == c.children[i] # <<>> /\ \A j \in Children(c, i) : ok[j]

(* A buffer store has a primary and a secondary, in any order. *)
BufferPair(c, i) ==
  /\ Len(c.children[i]) = 2
  /\ {c.buffer[j] : j \in Children(c, i)} = {"primary", "secondary"}

(* CheckStoreConfig: a type it does not know is refused. *)
CheckStoreConfig(c) ==
  LET ok[i \in Nodes(c)] ==
        CASE c.type[i] \in {"multiple", "priority"} -> ChildrenChecked(c, i, ok)
          [] c.type[i] = "buffer" -> BufferPair(c, i) /\ \A j \in Children(c, i) : ok[j]
          [] c.type[i] = "network" -> c.address[i]
          [] c.type[i] \in {"file", "null"} -> TRUE
          [] OTHER -> FALSE
  IN  ok[1]

(* What CheckStoreConfig does to an accepted configuration: the primary of *)
(* a buffer store comes first, a store without a topic gets all.           *)
Checked(c) ==
  [c EXCEPT !.children = [i \in Nodes(c) |->
              IF c.type[i] = "buffer" /\ c.buffer[c.children[i][1]] = "secondary"
                THEN Reverse(c.children[i]) ELSE c.children[i]],
            !.topic = [i \in Nodes(c) |-> IF c.topic[i] = {} THEN Topics ELSE c.topic[i]]]

(* The store of a configuration that has none. *)
NoStore == [type |-> <<"null">>, children |-> <<<<>>>>, success |-> <<"any">>,
            topic |-> <<Topics>>, buffer |-> <<"none">>, address |-> <<FALSE>>]

(* Store::Create of the type makes a store. *)
Creates(type) == type \in {"multiple", "buffer", "network", "file", "null", "priority"}

(* The nodes for which a store is created: those of composite stores. *)
Built(c) ==
  Reached(Nodes(c), 1, {e \in Edges(c) : c.type[e[1]] \in {"multiple", "priority", "buffer"}})

----------------------------------------------------------------------------
Networks == {i \in Nodes(conf) : conf.type[i] = "network"}
Files == {i \in Nodes(conf) : conf.type[i] = "file"}
All(i) == conf.success[i] = "all"
NeedsAll(i) == conf.type[i] = "multiple" /\ All(i)

(* The result of Open of every store: multiple stores ask all of theirs    *)
(* and need one or all of them, priority stores do not mind.               *)
OpenResult ==
  LET o[i \in Nodes(conf)] ==
        CASE conf.type[i] = "network" -> i \in reachable
          [] conf.type[i] = "file" -> disk
          [] conf.type[i] \in {"null", "priority"} -> TRUE
          [] conf.type[i] = "multiple" ->
               IF All(i) THEN \A j \in Children(conf, i) : o[j]
                         ELSE \E j \in Children(conf, i) : o[j]
  IN  o

(* NetworkStore::Open of a new store; state_ is set only if it succeeds.   *)
NewLink(t) ==
  {l \in [Networks -> [up : BOOLEAN, state : {"Free", "garbage"}, lastTry : {t}]] :
     \A i \in Networks : l[i].up = (i \in reachable) /\ (l[i].up => l[i].state = "Free")}

(* A tree is created and opened by a thread with clock t, at time u. *)
OpenTree(t, u) ==
  /\ isOpen' = OpenResult
  /\ link' \in NewLink(t)
  /\ file' = [i \in Files |-> FileOpen(NewFileStore, u, disk)]

Period(t) == IF Rotate > 0 THEN t - (t % Rotate) ELSE 0

(* missed at time t, when the storer's clock was last set to u. *)
Missed(u, t) == IF Period(t - 1) > u THEN Period(t - 1) ELSE missed

Init ==
  /\ conf \in Confs /\ phase = "parsed"
  /\ isOpen = <<>> /\ link = <<>> /\ file = <<>>
  /\ reachable \in SUBSET Networks
  /\ disk \in BOOLEAN
  /\ unixtime = 0 /\ now \in Start /\ missed = Period(now - 1)
  /\ holders = {} /\ dropped = FALSE

(* ParseConfig ends with CheckKidsConfig. *)
CheckKidsConfig ==
  /\ phase = "parsed"
  /\ \/ conf.type = <<>> /\ phase' = "accepted" /\ conf' = NoStore
     \/ /\ conf.type # <<>> /\ CheckStoreConfig(conf)
        /\ phase' = "accepted" /\ conf' = Checked(conf)
     \/ /\ conf.type # <<>> /\ ~CheckStoreConfig(conf)
        /\ phase' = "refused" /\ UNCHANGED conf
  /\ UNCHANGED <<isOpen, link, file, reachable, disk, unixtime, now, missed, holders, dropped>>

(* Storer::Create, by the main thread. *)
Create ==
  /\ phase = "accepted" /\ conf \in Started
  /\ phase' = "running"
  /\ OpenTree(now, now)
  /\ UNCHANGED <<environment, unixtime, now, missed, holders, dropped>>

(* State() of the tree: one store that is sending blocks all. Memory that  *)
(* was never written may look like that.                                   *)
Sending == \E i \in Networks : link[i].state # "Free"

(* DoAddMessage of a simple store succeeds. *)
Takes(i, topic) ==
  CASE conf.type[i] = "network" -> link[i].up
    [] conf.type[i] = "file" -> FileAccepts(file[i], topic, disk)
    [] conf.type[i] = "null" -> TRUE

(* AddMessage of every store would succeed: the topic is one of its own    *)
(* and DoAddMessage does.                                                  *)
Accepts(topic) ==
  LET a[i \in Nodes(conf)] ==
        /\ topic \in conf.topic[i]
        /\ CASE conf.type[i] \in Simple -> Takes(i, topic)
             [] NeedsAll(i) -> \A j \in Children(conf, i) : a[j]
             [] OTHER -> \E j \in Children(conf, i) : a[j]
  IN  a

(* Mutant: a priority store goes on after a success. *)
ReachesAll(p, i, accepts) == i \in Children(conf, p)

(* Whether store p hands a message on to its store i: a multiple store     *)
(* does to all, a priority store until one succeeds.                       *)
Reaches(p, i, accepts) ==
  \E k \in DOMAIN conf.children[p] :
    /\ conf.children[p][k] = i
    /\ conf.type[p] = "priority" => \A j \in 1..(k - 1) : ~accepts[conf.children[p][j]]

Asked(topic) ==
  LET accepts == Accepts(topic)
  IN  Reached(Nodes(conf), 1, {e \in Edges(conf) :
                          topic \in conf.topic[e[1]] /\ Reaches(e[1], e[2], accepts)})

(* Storer::StoreMessage: the next message has this topic. *)
StoreMessage(topic) ==
  LET took == {i \in Asked(topic) : /\ conf.type[i] \in Simple
                                    /\ topic \in conf.topic[i] /\ Takes(i, topic)}
  IN  /\ phase = "running" /\ ~Sending
      /\ link' = [i \in Networks |->
                    IF i \in took THEN [link[i] EXCEPT !.state = "Sending"] ELSE link[i]]
      /\ file' = [i \in Files |->
                    IF i \in took THEN FileAdd(file[i], topic, unixtime, now) ELSE file[i]]
      /\ holders' = took
      /\ dropped' = ~Accepts(topic)[1]
      /\ UNCHANGED <<environment, phase, isOpen, unixtime, now, missed>>

(* The stores whose cron runs: those of stores that are open. *)
Cronned == Reached(Nodes(conf), 1, {e \in Edges(conf) : isOpen[e[1]]})

(* NetworkStore::Cron. *)
LinkCron(i) ==
  LET l == link[i]
  IN  IF ~l.up /\ now - l.lastTry >= Reconnect
        THEN [up |-> i \in reachable, lastTry |-> now,
              state |-> IF i \in reachable THEN "Free" ELSE l.state]
        ELSE l

(* Storer::Cron; d seconds pass in it, before a file store that rotates    *)
(* asks for the time: NetworkStore::Open connects and waits for the remote *)
(* or for the timeout of the system.                                       *)
Cron(d) ==
  /\ phase = "running"
  /\ unixtime' = now /\ now' = now + d /\ missed' = Missed(now, now + d)
  /\ link' = [i \in Networks |-> IF i \in Cronned THEN LinkCron(i) ELSE link[i]]
  /\ \E failing \in [Files -> IF disk THEN {{}} ELSE SUBSET Topics] :
       file' = [i \in Files |->
                  IF i \in Cronned THEN FileCron(file[i], now, now', disk, failing[i])
                                  ELSE file[i]]
  /\ UNCHANGED <<environment, phase, isOpen, holders, dropped>>

(* Storer::Cron that ends with DoConfigReload, for the same configuration: *)
(* nothing is left of what the old tree did in its last cron.              *)
Reload(d) ==
  /\ phase = "running"
  /\ unixtime' = now /\ now' = now + d /\ missed' = Missed(now, now + d)
  /\ OpenTree(now, now')
  /\ UNCHANGED <<environment, phase, holders, dropped>>

(* ReadReply of an answer: OnMsgSent. *)
OnMsgSent(i) ==
  /\ phase = "running" /\ link[i].up /\ link[i].state = "Sending"
  /\ link' = [link EXCEPT ![i].state = "Free"]
  /\ UNCHANGED <<environment, phase, isOpen, file, unixtime, now, missed, holders, dropped>>

(* Mutant: the state is not reset. *)
LinkCloseKeepsState(l) == [l EXCEPT !.up = FALSE]

(* NetworkStore::Close. *)
LinkClose(l) == [l EXCEPT !.up = FALSE, !.state = "Free"]

(* ReadReply or SendRequest meets the end of the connection. *)
OnDisconnect(i) ==
  /\ phase = "running" /\ link[i].up /\ i \notin reachable
  /\ link' = [link EXCEPT ![i] = LinkClose(@)]
  /\ UNCHANGED <<environment, phase, isOpen, file, unixtime, now, missed, holders, dropped>>

(* A second passes, with a cron in it or without. *)
Tick ==
  /\ phase = "running"
  /\ now < MaxTime /\ now' = now + 1 /\ missed' = Missed(unixtime, now + 1)
  /\ UNCHANGED <<environment, phase, isOpen, link, file, unixtime, holders, dropped>>

(* A remote goes away or comes back; the disk fills or is emptied. *)
Outside ==
  /\ phase = "running"
  /\ \/ \E i \in Networks :
          /\ reachable' = IF i \in reachable THEN reachable \ {i} ELSE reachable \cup {i}
          /\ UNCHANGED disk
     \/ disk' = ~disk /\ UNCHANGED reachable
  /\ UNCHANGED <<conf, phase, isOpen, link, file, unixtime, now, missed, holders, dropped>>

Next ==
  \/ CheckKidsConfig \/ Create
  \/ \E t \in Topics : StoreMessage(t)
  \/ \E d \in 0..(MaxTime - now) : Cron(d) \/ Reload(d)
  \/ \E i \in Networks : OnMsgSent(i) \/ OnDisconnect(i)
  \/ Tick \/ Outside

Spec == Init /\ [][Next]_vars

----------------------------------------------------------------------------
(* Every configuration that the check accepts can be built: Store::Create  *)
(* knows every type in the tree, so that nobody calls a store that is not  *)
(* there, and a buffer store gets its primary as the first of two stores,  *)
(* however they were written down.                                         *)
AcceptedIsBuilt ==
  phase \in {"accepted", "running"} =>
    \A i \in Built(conf) :
      /\ Creates(conf.type[i])
      /\ conf.type[i] = "buffer" =>
           [k \in DOMAIN conf.children[i] |-> conf.buffer[conf.children[i][k]]]
             = <<"primary", "secondary">>

Ancestors(i) == {j \in Nodes(conf) \ {i} : i \in Reached(Nodes(conf), j, Edges(conf))}

(* The cron of store i runs. A multiple store that did not open never runs *)
(* the crons of its stores, although it goes on handing them messages.     *)
Served(i) == \A j \in Ancestors(i) : isOpen[j]

(* A message is in the file of the period in which it is stored: no open   *)
(* file is left over from an earlier period than that of the storer's last *)
(* cron, also when it was opened before the first, by a thread without a   *)
(* clock, and when seconds pass during a rotation.  Two things keep one    *)
(* open, and nothing else does.  The cron that rotates must run in the     *)
(* first second of a period: when that second is missed, files of before   *)
(* it stay until a later period begins.  And a store that is opened in a   *)
(* new period, by a cron or a reload of the old one, takes messages by the *)
(* clock of the old one, and its last_rotate_ keeps it from rotating.      *)
RightPeriod ==
  phase = "running" /\ unixtime # 0 =>
    \A i \in Files : file[i].isOpen /\ Served(i) =>
      \A t \in DOMAIN file[i].files :
        LET p == Period(file[i].files[t].name)
        IN  \/ p = Period(unixtime)
            \/ p < missed
            \/ p < Period(file[i].lastRotate)

(* What was written is offered to the system within the flush interval, or *)
(* with the first cron after it, whether rotations come in between or not  *)
(* (doc/store.md: flush); what the system refused is kept and offered      *)
(* again within the same time.  So in the last cron no file had waited     *)
(* that long for its flush; an interval of zero means every cron.          *)
FlushTried ==
  phase = "running" =>
    \A i \in Files : file[i].isOpen /\ Served(i) /\ Flush # -1 =>
      \A t \in DOMAIN file[i].files :
        LET d == file[i].files[t].dirty
        IN  d # 0 => unixtime - d < IF Flush = 0 THEN 1 ELSE Flush

(* Two stores hold the same message only if a multiple store is where      *)
(* their branches part: below a priority store the first success ends it.  *)
(* The one way round it is a multiple store in between that needs all its  *)
(* stores: one that fails hides the success of another.                    *)
StoredOnce ==
  \A i, j \in holders : i # j =>
    LET common == Ancestors(i) \cap Ancestors(j)
        parting == CHOOSE k \in common : \A l \in common : l <= k
    IN  \/ conf.type[parting] = "multiple"
        \/ \E k \in Ancestors(i) \cup Ancestors(j) :
             parting < k /\ NeedsAll(k)

(* When the storer waits, some remote has still to answer or to end the    *)
(* connection: a connection that is lost in the middle of a message does   *)
(* not leave the tree blocked. Only a network store that has never been    *)
(* connected may block it otherwise, by an uninitialised state_.           *)
BlockedForAReason ==
  phase = "running" =>
    \A i \in Networks : link[i].state # "Free" => link[i].up \/ link[i].state = "garbage"
============================================================================
