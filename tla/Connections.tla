---------------------------- MODULE Connections ----------------------------
(***************************************************************************)
(* How a connection gets from the master thread to a worker and how many a *)
(* host may have.  The master accepts (AcceptTcpHandler,                   *)
(* AcceptUnixHandler), counts per host (ShouldAccept, src/master.cc),      *)
(* chooses a worker in turn and puts the descriptor into its conn_queue_   *)
(* with a notice on a socket pair (PutNewConnection, src/worker.cc).  The  *)
(* worker reads the notice and then takes the front of the queue           *)
(* (GetNewConnection).  Deleting the client gives the count back           *)
(* (Client::~Client, RemoveClient).  Master and workers are threads.       *)
(***************************************************************************)
EXTENDS Integers, Sequences, SequencesExt, FiniteSets

CONSTANTS
  NumWorkers,  \* worker_threads
  Hosts,       \* remote addresses
  LongNames,   \* those whose text does not fit the buffer of Client::~Client
  MaxClients,  \* max_clients
  Wrap,        \* connected_clients_ counts modulo Wrap (uint16_t)
  AcceptErrors, \* whether accept() may fail
  PipeCap,     \* notices the socket pair holds
  MaxConns     \* bound on the connections accepted

Workers == 0..(NumWorkers - 1)
Conns == 1..MaxConns

(* Connections of the unix socket, and a name that is no host's: "?" when  *)
(* the peer's name is unknown, or what an unwritten buffer holds.          *)
Unix == "unix"
Other == "other"

ASSUME ConnAssumption ==
  /\ NumWorkers \in Nat \ {0} /\ PipeCap \in Nat \ {0} /\ MaxConns \in Nat
  /\ AcceptErrors \in BOOLEAN /\ LongNames \subseteq Hosts
  /\ Wrap \in Nat /\ MaxClients \in 1..(Wrap - 1)
  /\ Unix \notin Hosts /\ Other \notin Hosts

VARIABLES
  count,   \* connected_clients_
  last,    \* last_thread_
  put,     \* the master is in PutNewConnection, the queue's lock released
  queue,   \* conn_queue_ of every worker
  wait,    \* conn_wait_to_notify_ of every worker
  pipe,    \* notices on the way to every worker
  hand,    \* the worker has read a notice and not yet taken a connection
  host,    \* where every connection comes from
  place,   \* "none", "queued", "client" or "closed"
  stray    \* for checking: clients that were not the host's, given back as its

vars == <<count, last, put, queue, wait, pipe, hand, host, place, stray>>

Init ==
  /\ count = [h \in Hosts \cup {Other} |-> 0]
  /\ last = -1 /\ put = FALSE
  /\ queue = [w \in Workers |-> <<>>]
  /\ wait = [w \in Workers |-> 0] /\ pipe = [w \in Workers |-> 0]
  /\ hand = [w \in Workers |-> FALSE]
  /\ host = [c \in Conns |-> Unix] /\ place = [c \in Conns |-> "none"]
  /\ stray = [h \in Hosts |-> 0]

(* Mutant: the limit itself is still below the limit. *)
BelowOrAt(h) == count[h] <= MaxClients

(* Master::ShouldAccept: the test, and the count it takes. *)
Below(h) == count[h] < MaxClients
Counted(h) == [count EXCEPT ![h] = (@ + 1) % Wrap]

(* A descriptor that has not been used. *)
Fresh(c) == place[c] = "none" /\ \A d \in Conns : d < c => place[d] # "none"

(* Master::AssignNewConnection up to the unlock in PutNewConnection. *)
AssignNewConnection(c, from) ==
  /\ last' = (last + 1) % NumWorkers
  /\ queue' = [queue EXCEPT ![last'] = Append(@, c)]
  /\ host' = [host EXCEPT ![c] = from]
  /\ place' = [place EXCEPT ![c] = "queued"]
  /\ put' = TRUE
  /\ UNCHANGED <<wait, pipe, hand, stray>>

AcceptTcp(c, h) ==
  /\ ~put /\ Fresh(c)
  /\ Below(h)
  /\ count' = Counted(h)
  /\ AssignNewConnection(c, h)

(* ShouldAccept says no: the descriptor is closed. *)
RefuseTcp(c, h) ==
  /\ ~put /\ Fresh(c)
  /\ ~Below(h)
  /\ host' = [host EXCEPT ![c] = h]
  /\ place' = [place EXCEPT ![c] = "closed"]
  /\ UNCHANGED <<count, last, put, queue, wait, pipe, hand, stray>>

(* accept() fails: ShouldAccept has already been asked about a buffer that *)
(* was not written, which may hold any host's address.                     *)
AcceptFails(h) ==
  /\ AcceptErrors /\ ~put
  /\ count' = IF Below(h) THEN Counted(h) ELSE count
  /\ UNCHANGED <<last, put, queue, wait, pipe, hand, host, place, stray>>

(* The unix socket has no limit. *)
AcceptUnix(c) ==
  /\ ~put /\ Fresh(c)
  /\ AssignNewConnection(c, Unix)
  /\ UNCHANGED count

(* How many of n notices the loop of PutNewConnection writes into a pipe   *)
(* that has room for some.                                                 *)
NoticesWritten(n, room) == IF n <= room THEN n ELSE room

(* Mutant: notices that do not fit are forgotten. *)
PutForgets ==
  LET n == NoticesWritten(wait[last] + 1, PipeCap - pipe[last])
  IN  /\ put /\ put' = FALSE
      /\ wait' = [wait EXCEPT ![last] = 0]
      /\ pipe' = [pipe EXCEPT ![last] = @ + n]
      /\ UNCHANGED <<count, last, queue, hand, host, place, stray>>

(* Mutant: a notice only for the first connection of the queue. *)
PutNotifiesFirst ==
  LET due == wait[last] + (IF Len(queue[last]) = 1 THEN 1 ELSE 0)
      n == NoticesWritten(due, PipeCap - pipe[last])
  IN  /\ put /\ put' = FALSE
      /\ wait' = [wait EXCEPT ![last] = due - n]
      /\ pipe' = [pipe EXCEPT ![last] = @ + n]
      /\ UNCHANGED <<count, last, queue, hand, host, place, stray>>

(* The rest of PutNewConnection: one more notice to write, then as many as *)
(* the socket pair takes.                                                  *)
PutNewConnection ==
  LET due == wait[last] + 1
      n == NoticesWritten(due, PipeCap - pipe[last])
  IN  /\ put /\ put' = FALSE
      /\ wait' = [wait EXCEPT ![last] = due - n]
      /\ pipe' = [pipe EXCEPT ![last] = @ + n]
      /\ UNCHANGED <<count, last, queue, hand, host, place, stray>>

(* Worker::GetNewConnection reads a notice ... *)
ReadNotice(w) ==
  /\ pipe[w] > 0 /\ ~hand[w]
  /\ pipe' = [pipe EXCEPT ![w] = @ - 1]
  /\ hand' = [hand EXCEPT ![w] = TRUE]
  /\ UNCHANGED <<count, last, put, queue, wait, host, place, stray>>

(* Mutant: the descriptor stays in the queue. *)
TakeLeaves(w) ==
  /\ hand[w] /\ queue[w] # <<>>
  /\ hand' = [hand EXCEPT ![w] = FALSE]
  /\ place' = [place EXCEPT ![Head(queue[w])] = "client"]
  /\ UNCHANGED <<count, last, put, queue, wait, pipe, host, stray>>

(* ... and takes the front of the queue for a new client. *)
TakeConnection(w) ==
  /\ hand[w] /\ queue[w] # <<>>
  /\ hand' = [hand EXCEPT ![w] = FALSE]
  /\ queue' = [queue EXCEPT ![w] = Tail(@)]
  /\ place' = [place EXCEPT ![Head(queue[w])] = "client"]
  /\ UNCHANGED <<count, last, put, wait, pipe, host, stray>>

(* anetPeerToString: "?" when getpeername fails, the peer's address when   *)
(* it is one that fits.  A peer of the unix socket has no address: the     *)
(* AF_INET6 branch prints bytes that nobody wrote.  When the text does not *)
(* fit, inet_ntop leaves ip unwritten.  Either way any name may result, a  *)
(* host's too: that of the client this stack was last used for.            *)
PeerNames(c) ==
  IF host[c] = Unix \/ host[c] \in LongNames THEN Hosts \cup {Other}
                                            ELSE {host[c], Other}

(* Master::RemoveClient. *)
Removed(h) == [count EXCEPT ![h] = (@ - 1) % Wrap]

(* Client::~Client: the count goes back to the name the peer has now. *)
DeleteClient(c) ==
  /\ place[c] = "client"
  /\ place' = [place EXCEPT ![c] = "closed"]
  /\ \E h \in PeerNames(c) :
       /\ count' = Removed(h)
       /\ stray' = [g \in Hosts |-> IF g = h /\ g # host[c] THEN stray[g] + 1 ELSE stray[g]]
  /\ UNCHANGED <<last, put, queue, wait, pipe, hand, host>>

Next ==
  \/ \E c \in Conns, h \in Hosts : AcceptTcp(c, h) \/ RefuseTcp(c, h)
  \/ \E h \in Hosts \cup {Other} : AcceptFails(h)
  \/ \E c \in Conns : AcceptUnix(c) \/ DeleteClient(c)
  \/ PutNewConnection
  \/ \E w \in Workers : ReadNotice(w) \/ TakeConnection(w)

Spec == Init /\ [][Next]_vars

(* The threads run: handlers that are due are called. *)
FairSpec ==
  /\ Spec
  /\ WF_vars(PutNewConnection)
  /\ \A w \in Workers : WF_vars(ReadNotice(w)) /\ WF_vars(TakeConnection(w))

----------------------------------------------------------------------------
(* Type invariant. *)
TypeOK ==
  /\ count \in [Hosts \cup {Other} -> 0..(Wrap - 1)]
  /\ last \in Workers \cup {-1} /\ put \in BOOLEAN
  /\ queue \in [Workers -> Seq(Conns)]
  /\ wait \in [Workers -> Nat] /\ pipe \in [Workers -> 0..PipeCap]
  /\ hand \in [Workers -> BOOLEAN]
  /\ host \in [Conns -> Hosts \cup {Unix}]
  /\ place \in [Conns -> {"none", "queued", "client", "closed"}]
  /\ stray \in [Hosts -> Nat]

(* Every queued connection has one notice: written, read, or waiting to be *)
(* written. GetNewConnection takes front() without looking, so a notice    *)
(* too many would take from an empty queue.                                *)
OneNoticeEach ==
  \A w \in Workers :
    Len(queue[w]) = wait[w] + pipe[w] + (IF hand[w] THEN 1 ELSE 0)
                      + (IF put /\ last = w THEN 1 ELSE 0)

(* A descriptor belongs to one owner: it is in one queue, once, exactly    *)
(* while it has no client and is not closed, so that no worker reads or    *)
(* closes a descriptor of another's.                                       *)
OneOwner ==
  \A c \in Conns :
    Cardinality({p \in Workers \X Conns :
                   p[2] <= Len(queue[p[1]]) /\ queue[p[1]][p[2]] = c})
      = IF place[c] = "queued" THEN 1 ELSE 0

Open(h) == {c \in Conns : host[c] = h /\ place[c] \in {"queued", "client"}}

(* A host has more than max_clients connections only by one for every      *)
(* client of another host, or of the unix socket, whose deletion gave a    *)
(* count back under this host's name (Client::~Client asks for the name    *)
(* again); doc/config.md has no such exception, its limit is not held      *)
(* then.  Nothing else lets one more in: no count given back under no      *)
(* host's name, no count taken by an accept() that failed, no count that   *)
(* wrapped around.                                                         *)
LimitHeld == \A h \in Hosts : Cardinality(Open(h)) <= MaxClients + stray[h]

(* The connection is among those whose notice the worker can read. *)
Noticed(c, w) ==
  \E i \in 1..(pipe[w] + (IF hand[w] THEN 1 ELSE 0)) :
    i <= Len(queue[w]) /\ queue[w][i] = c

(* A connection assigned to a worker gets its client, or the worker has    *)
(* notices that did not fit (they wait for its next connection).  One      *)
(* whose turn has a notice gets its client however many others wait.       *)
Served ==
  \A c \in Conns : \A w \in Workers :
    /\ (c \in ToSet(queue[w])) ~> (place[c] # "queued" \/ wait[w] > 0)
    /\ Noticed(c, w) ~> (place[c] # "queued")
============================================================================
