------------------------- MODULE ConnectionsProofs -------------------------
(***************************************************************************)
(* The way of a connection from the master to a worker, for any number of  *)
(* workers, hosts and connections: one notice for every queued descriptor, *)
(* one owner for every descriptor, at most one client in its life, and the *)
(* limit of a host.                                                        *)
(*                                                                         *)
(* OneNoticeEach is inductive once types are known.  OneOwner counts       *)
(* places; the proof says the same of the places themselves (InPlace).     *)
(* LimitHeld rests on what a host's counter may differ by: it counts the   *)
(* host's connections, at most, but for the counts given back for clients  *)
(* that were not the host's (stray); once those have taken it below zero   *)
(* it has wrapped, and is too large by Wrap.                               *)
(***************************************************************************)
EXTENDS Connections, FiniteSetTheorems, SequenceTheorems, TLAPS

(* The queues hold the queued connections, each in one place. *)
InPlace ==
  /\ \A w \in Workers : \A i \in 1..Len(queue[w]) : place[queue[w][i]] = "queued"
  /\ \A v, w \in Workers : \A i \in 1..Len(queue[v]), j \in 1..Len(queue[w]) :
       queue[v][i] = queue[w][j] => v = w /\ i = j
  /\ \A c \in Conns : place[c] = "queued" =>
       \E w \in Workers : \E i \in 1..Len(queue[w]) : queue[w][i] = c

(* The counter of a host with so many connections, so many of which were   *)
(* given back for others: it counts at least the rest and is within the    *)
(* limit, or it has wrapped.                                               *)
Counts(open, n, strays) ==
  \/ open <= n + strays /\ n <= MaxClients
  \/ open + Wrap <= n + strays

CountBounds == \A h \in Hosts : Counts(Cardinality(Open(h)), count[h], stray[h])

(* A connection is being put into the queue of a worker. *)
PutSomewhere == put => last \in Workers

Inv == TypeOK /\ PutSomewhere /\ OneNoticeEach /\ InPlace /\ CountBounds

----------------------------------------------------------------------------
(* How the counters move: they stay below Wrap, and below the limit they   *)
(* count by one.                                                           *)
LEMMA Counting ==
  ASSUME NEW n \in 0..(Wrap - 1)
  PROVE  /\ (n + 1) % Wrap \in 0..(Wrap - 1) /\ (n - 1) % Wrap \in 0..(Wrap - 1)
         /\ n < MaxClients => (n + 1) % Wrap = n + 1
         /\ n > 0 => (n - 1) % Wrap = n - 1
  BY ConnAssumption

(* The next worker in turn. *)
LEMMA NextWorker ==
  ASSUME TypeOK
  PROVE  (last + 1) % NumWorkers \in Workers
  BY ConnAssumption DEF TypeOK, Workers

(* What is written fits. *)
LEMMA Written ==
  ASSUME NEW n \in Nat, NEW room \in Nat
  PROVE  /\ NoticesWritten(n, room) \in 0..n
         /\ NoticesWritten(n, room) <= room
  BY DEF NoticesWritten

----------------------------------------------------------------------------
(* Types. *)
LEMMA TypeStep ==
  ASSUME TypeOK, PutSomewhere, [Next]_vars
  PROVE  TypeOK' /\ PutSomewhere'
<1> USE ConnAssumption DEF TypeOK, PutSomewhere
<1>1. ASSUME NEW c \in Conns, NEW from \in Hosts \cup {Unix}, AssignNewConnection(c, from)
      PROVE  /\ last' \in Workers /\ put' = TRUE
             /\ queue' \in [Workers -> Seq(Conns)]
             /\ host' \in [Conns -> Hosts \cup {Unix}]
             /\ place' \in [Conns -> {"none", "queued", "client", "closed"}]
             /\ wait' = wait /\ pipe' = pipe /\ hand' = hand /\ stray' = stray
  <2>1. last' \in Workers
    BY <1>1, NextWorker DEF AssignNewConnection
  <2>2. Append(queue[last'], c) \in Seq(Conns)
    BY <2>1
  <2> QED BY <1>1, <2>1, <2>2 DEF AssignNewConnection
<1>2. ASSUME NEW h \in Hosts \cup {Other}
      PROVE  /\ Counted(h) \in [Hosts \cup {Other} -> 0..(Wrap - 1)]
             /\ Removed(h) \in [Hosts \cup {Other} -> 0..(Wrap - 1)]
  BY Counting DEF Counted, Removed
<1>3. ASSUME NEW c \in Conns, NEW h \in Hosts, AcceptTcp(c, h) \/ RefuseTcp(c, h)
      PROVE  TypeOK' /\ PutSomewhere'
  <2>1. CASE AcceptTcp(c, h)
    BY <1>1, <1>2, <2>1 DEF AcceptTcp
  <2>2. CASE RefuseTcp(c, h)
    BY <2>2 DEF RefuseTcp
  <2> QED BY <1>3, <2>1, <2>2
<1>4. ASSUME NEW h \in Hosts \cup {Other}, AcceptFails(h)
      PROVE  TypeOK' /\ PutSomewhere'
  BY <1>2, <1>4 DEF AcceptFails
<1>5. ASSUME NEW c \in Conns, AcceptUnix(c) \/ DeleteClient(c)
      PROVE  TypeOK' /\ PutSomewhere'
  <2>1. CASE AcceptUnix(c)
    BY <1>1, <2>1 DEF AcceptUnix
  <2>2. CASE DeleteClient(c)
    <3>1. PICK h \in PeerNames(c) :
            /\ count' = Removed(h)
            /\ stray' = [g \in Hosts |-> IF g = h /\ g # host[c] THEN stray[g] + 1 ELSE stray[g]]
      BY <2>2 DEF DeleteClient
    <3>2. h \in Hosts \cup {Other}
      BY <3>1 DEF PeerNames
    <3>3. stray' \in [Hosts -> Nat]
      BY <3>1
    <3>4. count' \in [Hosts \cup {Other} -> 0..(Wrap - 1)]
      BY <1>2, <3>1, <3>2
    <3> QED BY <2>2, <3>3, <3>4 DEF DeleteClient
  <2> QED BY <1>5, <2>1, <2>2
<1>6. CASE PutNewConnection
  <2> DEFINE due == wait[last] + 1
             n == NoticesWritten(due, PipeCap - pipe[last])
  <2>1. last \in Workers /\ due \in Nat /\ PipeCap - pipe[last] \in Nat
    BY <1>6 DEF PutNewConnection
  <2>2. n \in 0..due /\ n <= PipeCap - pipe[last]
    BY <2>1, Written
  <2>3. due - n \in Nat /\ pipe[last] + n \in 0..PipeCap
    BY <2>1, <2>2
  <2>4. /\ put' = FALSE
        /\ wait' = [wait EXCEPT ![last] = due - n]
        /\ pipe' = [pipe EXCEPT ![last] = pipe[last] + n]
        /\ UNCHANGED <<count, last, queue, hand, host, place, stray>>
    BY <1>6 DEF PutNewConnection
  <2> HIDE DEF due, n
  <2> QED BY <2>1, <2>3, <2>4
<1>7. ASSUME NEW w \in Workers, ReadNotice(w) \/ TakeConnection(w)
      PROVE  TypeOK' /\ PutSomewhere'
  <2>1. CASE ReadNotice(w)
    BY <2>1 DEF ReadNotice
  <2>2. CASE TakeConnection(w)
    <3>1. Tail(queue[w]) \in Seq(Conns) /\ Head(queue[w]) \in Conns
      BY <2>2 DEF TakeConnection
    <3> QED BY <2>2, <3>1 DEF TakeConnection
  <2> QED BY <1>7, <2>1, <2>2
<1>8. CASE UNCHANGED vars
  BY <1>8 DEF vars
<1> QED BY <1>3, <1>4, <1>5, <1>6, <1>7, <1>8 DEF Next

----------------------------------------------------------------------------
(* A notice that was read, and one that is still to be written. *)
Held(w) == IF hand[w] THEN 1 ELSE 0
Putting(w) == IF put /\ last = w THEN 1 ELSE 0

(* OneNoticeEach, and the kinds of numbers it is about. *)
LEMMA NoticeTerms ==
  /\ OneNoticeEach <=> \A w \in Workers :
       Len(queue[w]) = wait[w] + pipe[w] + Held(w) + Putting(w)
  /\ \A w \in Workers : Held(w) \in {0, 1} /\ Putting(w) \in {0, 1}
  /\ TypeOK => \A w \in Workers :
       queue[w] \in Seq(Conns) /\ Len(queue[w]) \in Nat /\ wait[w] \in Nat /\ pipe[w] \in 0..PipeCap
<1>1. OneNoticeEach <=> \A w \in Workers :
        Len(queue[w]) = wait[w] + pipe[w] + Held(w) + Putting(w)
  BY DEF OneNoticeEach, Held, Putting
<1>2. \A w \in Workers : Held(w) \in {0, 1} /\ Putting(w) \in {0, 1}
  BY DEF Held, Putting
<1>3. TypeOK => \A w \in Workers :
        queue[w] \in Seq(Conns) /\ Len(queue[w]) \in Nat /\ wait[w] \in Nat /\ pipe[w] \in 0..PipeCap
  BY DEF TypeOK
<1> QED BY <1>1, <1>2, <1>3

(* One notice for every queued descriptor. *)
LEMMA NoticeStep ==
  ASSUME Inv, [Next]_vars
  PROVE  OneNoticeEach'
<1> USE ConnAssumption
<1>t. TypeOK /\ PutSomewhere
  BY DEF Inv
<1>n. \A w \in Workers :
        /\ Len(queue[w]) = wait[w] + pipe[w] + Held(w) + Putting(w)
        /\ Held(w) \in {0, 1} /\ Putting(w) \in {0, 1}
        /\ queue[w] \in Seq(Conns) /\ Len(queue[w]) \in Nat
        /\ wait[w] \in Nat /\ pipe[w] \in 0..PipeCap
  BY NoticeTerms DEF Inv
<1>q. (\A w \in Workers : Len(queue'[w]) = wait'[w] + pipe'[w] + Held(w)' + Putting(w)')
        => OneNoticeEach'
  BY DEF OneNoticeEach, Held, Putting
<1>0. ASSUME UNCHANGED <<last, put, queue, wait, pipe, hand>>
      PROVE  OneNoticeEach'
  BY <1>0 DEF Inv, OneNoticeEach
<1>1. ASSUME NEW c \in Conns, NEW from \in Hosts \cup {Unix}, ~put,
             AssignNewConnection(c, from)
      PROVE  OneNoticeEach'
  <2>1. last' \in Workers
    BY <1>t, <1>1, NextWorker DEF AssignNewConnection
  <2>2. ASSUME NEW w \in Workers
        PROVE  Len(queue'[w]) = Len(queue[w]) + (IF last' = w THEN 1 ELSE 0)
    <3>1. queue' = [queue EXCEPT ![last'] = Append(queue[last'], c)]
      BY <1>1 DEF AssignNewConnection
    <3>2. Len(Append(queue[last'], c)) = Len(queue[last']) + 1
      BY <1>n, <2>1
    <3>3. CASE w = last'
      BY <1>t, <2>1, <3>1, <3>2, <3>3 DEF TypeOK
    <3>4. CASE w # last'
      BY <1>t, <1>n, <3>1, <3>4 DEF TypeOK
    <3> QED BY <3>3, <3>4
  <2>3. ASSUME NEW w \in Workers
        PROVE  /\ Putting(w) = 0 /\ Putting(w)' = (IF last' = w THEN 1 ELSE 0)
               /\ wait'[w] = wait[w] /\ pipe'[w] = pipe[w] /\ Held(w)' = Held(w)
    <3>1. put' = TRUE /\ UNCHANGED <<wait, pipe, hand>>
      BY <1>1 DEF AssignNewConnection
    <3>2. Putting(w) = 0
      BY <1>1 DEF Putting
    <3>3. Putting(w)' = IF last' = w THEN 1 ELSE 0
      BY <3>1 DEF Putting
    <3>4. Held(w)' = Held(w)
      BY <3>1 DEF Held
    <3> QED BY <3>1, <3>2, <3>3, <3>4
  <2>4. ASSUME NEW w \in Workers
        PROVE  Len(queue'[w]) = wait'[w] + pipe'[w] + Held(w)' + Putting(w)'
    <3>1. /\ Len(queue[w]) = wait[w] + pipe[w] + Held(w) + 0
          /\ wait[w] \in Nat /\ pipe[w] \in Nat /\ Held(w) \in Nat
      BY <1>n, <2>3
    <3>2. CASE last' = w
      <4>1. Len(queue'[w]) = Len(queue[w]) + 1
        BY <2>2, <3>2
      <4>2. Putting(w)' = 1 /\ wait'[w] = wait[w] /\ pipe'[w] = pipe[w] /\ Held(w)' = Held(w)
        BY <2>3, <3>2
      <4> QED BY <3>1, <4>1, <4>2
    <3>3. CASE last' # w
      <4>1. Len(queue'[w]) = Len(queue[w]) + 0
        BY <2>2, <3>3
      <4>2. Putting(w)' = 0 /\ wait'[w] = wait[w] /\ pipe'[w] = pipe[w] /\ Held(w)' = Held(w)
        BY <2>3, <3>3
      <4> QED BY <3>1, <4>1, <4>2
    <3> QED BY <3>2, <3>3
  <2> QED BY <1>q, <2>4
<1>2. ASSUME NEW c \in Conns, NEW h \in Hosts, AcceptTcp(c, h) \/ RefuseTcp(c, h)
      PROVE  OneNoticeEach'
  BY <1>0, <1>1, <1>2 DEF AcceptTcp, RefuseTcp
<1>3. ASSUME NEW h \in Hosts \cup {Other}, AcceptFails(h)
      PROVE  OneNoticeEach'
  BY <1>0, <1>3 DEF AcceptFails
<1>4. ASSUME NEW c \in Conns, AcceptUnix(c) \/ DeleteClient(c)
      PROVE  OneNoticeEach'
  BY <1>0, <1>1, <1>4 DEF AcceptUnix, DeleteClient
<1>5. CASE PutNewConnection
  <2> DEFINE due == wait[last] + 1
             n == NoticesWritten(due, PipeCap - pipe[last])
  <2>1. last \in Workers /\ due \in Nat /\ PipeCap - pipe[last] \in Nat
    BY <1>t, <1>n, <1>5 DEF PutNewConnection, PutSomewhere
  <2>2. n \in 0..due
    BY <2>1, Written
  <2>3. /\ put /\ put' = FALSE
        /\ wait' = [wait EXCEPT ![last] = (wait[last] + 1) - n]
        /\ pipe' = [pipe EXCEPT ![last] = pipe[last] + n]
        /\ UNCHANGED <<last, queue, hand>>
    BY <1>5 DEF PutNewConnection
  <2> HIDE DEF due, n
  <2>4. ASSUME NEW w \in Workers
        PROVE  /\ wait'[w] = IF w = last THEN (wait[last] + 1) - n ELSE wait[w]
               /\ pipe'[w] = IF w = last THEN pipe[last] + n ELSE pipe[w]
    <3>1. w \in DOMAIN wait /\ w \in DOMAIN pipe
      BY <1>t DEF TypeOK
    <3>2. wait'[w] = IF w = last THEN (wait[last] + 1) - n ELSE wait[w]
      BY <2>3, <3>1
    <3>3. pipe'[w] = IF w = last THEN pipe[last] + n ELSE pipe[w]
      BY <2>3, <3>1
    <3> QED BY <3>2, <3>3
  <2>5. ASSUME NEW w \in Workers
        PROVE  /\ Putting(w) = IF w = last THEN 1 ELSE 0
               /\ Putting(w)' = 0 /\ Held(w)' = Held(w) /\ queue' = queue
    BY <2>3 DEF Putting, Held
  <2>6. ASSUME NEW w \in Workers
        PROVE  Len(queue'[w]) = wait'[w] + pipe'[w] + Held(w)' + Putting(w)'
    <3>1. CASE w = last
      <4>1. /\ wait'[w] = (wait[w] + 1) - n /\ pipe'[w] = pipe[w] + n
            /\ Putting(w) = 1 /\ Putting(w)' = 0 /\ Held(w)' = Held(w)
            /\ queue' = queue
        BY <2>4, <2>5, <3>1
      <4>2. n \in Nat
        BY <2>1, <2>2
      <4>3. /\ Len(queue[w]) = wait[w] + pipe[w] + Held(w) + 1
            /\ wait[w] \in Nat /\ pipe[w] \in Nat /\ Held(w) \in Nat
        BY <1>n, <4>1
      <4>4. wait[w] + pipe[w] + Held(w) + 1 = ((wait[w] + 1) - n) + (pipe[w] + n) + Held(w) + 0
        <5>1. /\ n \in Nat /\ wait[w] \in Nat /\ pipe[w] \in Nat /\ Held(w) \in Nat
          BY <4>2, <4>3, Zenon
        <5> QED BY <5>1
      <4> QED BY <4>1, <4>3, <4>4
    <3>2. CASE w # last
      BY <1>n, <2>4, <2>5, <3>2
    <3> QED BY <3>1, <3>2
  <2> QED BY <1>q, <2>6
<1>6. ASSUME NEW w \in Workers, ReadNotice(w) \/ TakeConnection(w)
      PROVE  OneNoticeEach'
  <2>1. CASE ReadNotice(w)
    <3>1. ASSUME NEW u \in Workers
          PROVE  /\ pipe'[u] = IF u = w THEN pipe[w] - 1 ELSE pipe[u]
                 /\ queue' = queue /\ wait' = wait
      BY <1>t, <2>1 DEF ReadNotice, TypeOK
    <3>2. ASSUME NEW u \in Workers
          PROVE  /\ Held(w) = 0 /\ Held(u)' = (IF u = w THEN 1 ELSE Held(u))
                 /\ Putting(u)' = Putting(u)
      BY <1>t, <2>1 DEF ReadNotice, Held, Putting, TypeOK
    <3> QED BY <1>n, <1>q, <3>1, <3>2
  <2>2. CASE TakeConnection(w)
    <3>1. ASSUME NEW u \in Workers
          PROVE  /\ Len(queue'[u]) = IF u = w THEN Len(queue[w]) - 1 ELSE Len(queue[u])
                 /\ pipe' = pipe /\ wait' = wait
      BY <1>t, <1>n, <2>2 DEF TakeConnection, TypeOK
    <3>2. ASSUME NEW u \in Workers
          PROVE  /\ Held(w) = 1 /\ Held(u)' = (IF u = w THEN 0 ELSE Held(u))
                 /\ Putting(u)' = Putting(u)
      <4>1. /\ hand \in [Workers -> BOOLEAN] /\ hand[w]
            /\ hand' = [hand EXCEPT ![w] = FALSE] /\ UNCHANGED <<put, last>>
        BY <1>t, <2>2 DEF TakeConnection, TypeOK
      <4>2. hand'[u] = IF u = w THEN FALSE ELSE hand[u]
        BY <4>1
      <4>3. Held(w) = 1 /\ Held(u)' = IF u = w THEN 0 ELSE Held(u)
        BY <4>1, <4>2 DEF Held
      <4>4. Putting(u)' = Putting(u)
        BY <4>1 DEF Putting
      <4> QED BY <4>3, <4>4
    <3>3. ASSUME NEW u \in Workers
          PROVE  Len(queue'[u]) = wait'[u] + pipe'[u] + Held(u)' + Putting(u)'
      <4>1. CASE u = w
        <5>1. /\ Len(queue[w]) = wait[w] + pipe[w] + 1 + Putting(w)
              /\ wait[w] \in Nat /\ pipe[w] \in Nat /\ Putting(w) \in Nat
          BY <1>n, <3>2
        <5> QED BY <3>1, <3>2, <4>1, <5>1
      <4>2. CASE u # w
        BY <1>n, <3>1, <3>2, <4>2
      <4> QED BY <4>1, <4>2
    <3> QED BY <1>q, <3>3
  <2> QED BY <1>6, <2>1, <2>2
<1>7. CASE UNCHANGED vars
  BY <1>0, <1>7 DEF vars
<1> QED BY <1>2, <1>3, <1>4, <1>5, <1>6, <1>7 DEF Next

(* A connection that gets into a queue, and one that leaves it. *)
LEMMA PlaceStep ==
  ASSUME Inv, [Next]_vars
  PROVE  InPlace'
<1> USE ConnAssumption
<1>t. TypeOK /\ InPlace
  BY DEF Inv
<1>1. ASSUME NEW c \in Conns, NEW from \in Hosts \cup {Unix}, Fresh(c),
             AssignNewConnection(c, from)
      PROVE  InPlace'
  <2> DEFINE v == last'
  <2>1. v \in Workers
    BY <1>t, <1>1, NextWorker DEF AssignNewConnection
  <2> HIDE DEF v
  <2>2. /\ queue' = [queue EXCEPT ![v] = Append(@, c)]
        /\ place' = [place EXCEPT ![c] = "queued"]
        /\ place[c] = "none"
    BY <1>1 DEF AssignNewConnection, Fresh, v
  <2>3. /\ \A w \in Workers : queue[w] \in Seq(Conns)
        /\ \A w \in Workers : \A i \in 1..Len(queue[w]) : queue[w][i] \in Conns
    BY <1>t DEF TypeOK
  <2>4. /\ queue'[v] = Append(queue[v], c)
        /\ Len(queue'[v]) = Len(queue[v]) + 1 /\ queue'[v][Len(queue[v]) + 1] = c
        /\ \A i \in 1..Len(queue[v]) : queue'[v][i] = queue[v][i]
        /\ \A w \in Workers \ {v} : queue'[w] = queue[w]
    BY <1>t, <2>1, <2>2, <2>3 DEF TypeOK
  <2>5. ASSUME NEW w \in Workers, NEW i \in 1..Len(queue'[w])
        PROVE  \/ w = v /\ i = Len(queue[v]) + 1 /\ queue'[w][i] = c
               \/ i \in 1..Len(queue[w]) /\ queue'[w][i] = queue[w][i] /\ queue[w][i] # c
    BY <1>t, <2>1, <2>2, <2>3, <2>4 DEF InPlace
  <2>6. \A w \in Workers : \A i \in 1..Len(queue[w]) :
          i \in 1..Len(queue'[w]) /\ queue'[w][i] = queue[w][i]
    BY <2>1, <2>3, <2>4
  <2>7. \A w \in Workers : \A i \in 1..Len(queue'[w]) : place'[queue'[w][i]] = "queued"
    BY <1>t, <2>2, <2>3, <2>5 DEF InPlace, TypeOK
  <2>8. ASSUME NEW u \in Workers, NEW w \in Workers,
               NEW i \in 1..Len(queue'[u]), NEW j \in 1..Len(queue'[w]),
               queue'[u][i] = queue'[w][j]
        PROVE  u = w /\ i = j
    <3>1. \/ u = v /\ i = Len(queue[v]) + 1 /\ queue'[u][i] = c
          \/ i \in 1..Len(queue[u]) /\ queue'[u][i] = queue[u][i] /\ queue[u][i] # c
      BY <2>5
    <3>2. \/ w = v /\ j = Len(queue[v]) + 1 /\ queue'[w][j] = c
          \/ j \in 1..Len(queue[w]) /\ queue'[w][j] = queue[w][j] /\ queue[w][j] # c
      BY <2>5
    <3>3. CASE queue'[u][i] = c
      BY <2>8, <3>1, <3>2, <3>3
    <3>4. CASE queue'[u][i] # c
      <4>1. i \in 1..Len(queue[u]) /\ j \in 1..Len(queue[w]) /\ queue[u][i] = queue[w][j]
        BY <2>8, <3>1, <3>2, <3>4
      <4> QED BY <1>t, <4>1 DEF InPlace
    <3> QED BY <3>3, <3>4
  <2>9. ASSUME NEW d \in Conns, place'[d] = "queued"
        PROVE  \E w \in Workers : \E i \in 1..Len(queue'[w]) : queue'[w][i] = d
    <3>1. CASE d = c
      BY <2>1, <2>3, <2>4, <3>1
    <3>2. CASE d # c
      <4>1. place[d] = "queued"
        BY <1>t, <2>2, <2>9, <3>2 DEF TypeOK
      <4>2. PICK w \in Workers : \E i \in 1..Len(queue[w]) : queue[w][i] = d
        BY <1>t, <4>1 DEF InPlace
      <4> QED BY <2>6, <4>2
    <3> QED BY <3>1, <3>2
  <2> QED BY <2>7, <2>8, <2>9 DEF InPlace
<1>2. ASSUME NEW c \in Conns, NEW h \in Hosts, AcceptTcp(c, h) \/ RefuseTcp(c, h)
      PROVE  InPlace'
  <2>1. CASE AcceptTcp(c, h)
    BY <1>1, <2>1 DEF AcceptTcp
  <2>2. CASE RefuseTcp(c, h)
    BY <1>t, <2>2 DEF RefuseTcp, Fresh, InPlace, TypeOK
  <2> QED BY <1>2, <2>1, <2>2
<1>3. ASSUME NEW h \in Hosts \cup {Other}, AcceptFails(h)
      PROVE  InPlace'
  BY <1>t, <1>3 DEF AcceptFails, InPlace
<1>4. ASSUME NEW c \in Conns, AcceptUnix(c) \/ DeleteClient(c)
      PROVE  InPlace'
  <2>1. CASE AcceptUnix(c)
    BY <1>1, <2>1 DEF AcceptUnix
  <2>2. CASE DeleteClient(c)
    BY <1>t, <2>2 DEF DeleteClient, InPlace, TypeOK
  <2> QED BY <1>4, <2>1, <2>2
<1>5. CASE PutNewConnection
  BY <1>t, <1>5 DEF PutNewConnection, InPlace
<1>6. ASSUME NEW v \in Workers, ReadNotice(v) \/ TakeConnection(v)
      PROVE  InPlace'
  <2>1. CASE ReadNotice(v)
    BY <1>t, <2>1 DEF ReadNotice, InPlace
  <2>2. CASE TakeConnection(v)
    <3> DEFINE c == Head(queue[v])
    <3>1. queue[v] \in Seq(Conns) /\ queue[v] # <<>> /\ c = queue[v][1]
      BY <1>t, <2>2 DEF TakeConnection, TypeOK
    <3>2. /\ c \in Conns /\ 1 \in 1..Len(queue[v])
          /\ Len(Tail(queue[v])) = Len(queue[v]) - 1
          /\ \A i \in 1..Len(Tail(queue[v])) : Tail(queue[v])[i] = queue[v][i + 1]
      BY <3>1
    <3>3. /\ queue' = [queue EXCEPT ![v] = Tail(queue[v])]
          /\ place' = [place EXCEPT ![c] = "client"]
      BY <2>2 DEF TakeConnection
    <3>4. \A w \in Workers : \A i \in 1..Len(queue[w]) : queue[w][i] \in Conns
      BY <1>t DEF TypeOK
    <3>5. ASSUME NEW w \in Workers, NEW i \in 1..Len(queue'[w])
          PROVE  \/ /\ w = v /\ i + 1 \in 1..Len(queue[v])
                    /\ queue'[w][i] = queue[v][i + 1] /\ queue'[w][i] # c
                 \/ /\ w # v /\ i \in 1..Len(queue[w])
                    /\ queue'[w][i] = queue[w][i] /\ queue'[w][i] # c
      <4>1. CASE w = v
        <5>1. queue'[w] = Tail(queue[v])
          BY <1>t, <3>3, <4>1 DEF TypeOK
        <5>2. i + 1 \in 1..Len(queue[v]) /\ i + 1 # 1 /\ queue'[w][i] = queue[v][i + 1]
          BY <3>1, <3>2, <5>1
        <5> QED BY <1>t, <3>1, <3>2, <4>1, <5>2 DEF InPlace
      <4>2. CASE w # v
        <5>1. queue'[w] = queue[w]
          BY <1>t, <3>3, <4>2 DEF TypeOK
        <5> QED BY <1>t, <3>1, <3>2, <4>2, <5>1 DEF InPlace
      <4> QED BY <4>1, <4>2
    <3> HIDE DEF c
    <3>6. ASSUME NEW w \in Workers, NEW i \in 1..Len(queue'[w])
          PROVE  place'[queue'[w][i]] = "queued"
      <4>1. queue'[w][i] \in Conns /\ place[queue'[w][i]] = "queued" /\ queue'[w][i] # c
        BY <1>t, <3>4, <3>5 DEF InPlace
      <4> QED BY <1>t, <3>3, <4>1 DEF TypeOK
    <3>7. ASSUME NEW u \in Workers, NEW w \in Workers,
                 NEW i \in 1..Len(queue'[u]), NEW j \in 1..Len(queue'[w]),
                 queue'[u][i] = queue'[w][j]
          PROVE  u = w /\ i = j
      <4>1. \A x, y \in Workers : \A k \in 1..Len(queue[x]), l \in 1..Len(queue[y]) :
              queue[x][k] = queue[y][l] => x = y /\ k = l
        BY <1>t DEF InPlace
      <4>2. i \in Int /\ j \in Int
        BY <3>7
      <4>3. CASE u = v /\ w = v
        <5>1. i + 1 \in 1..Len(queue[v]) /\ j + 1 \in 1..Len(queue[v])
          BY <3>5, <4>3
        <5>2. queue[v][i + 1] = queue[v][j + 1]
          BY <3>5, <3>7, <4>3
        <5>3. i + 1 = j + 1
          BY <4>1, <5>1, <5>2
        <5> QED BY <4>2, <4>3, <5>3
      <4>4. CASE u # v /\ w # v
        <5>1. i \in 1..Len(queue[u]) /\ j \in 1..Len(queue[w])
          BY <3>5, <4>4
        <5>2. queue[u][i] = queue[w][j]
          BY <3>5, <3>7, <4>4
        <5> QED BY <4>1, <5>1, <5>2
      <4>5. CASE u = v /\ w # v
        <5>1. i + 1 \in 1..Len(queue[v]) /\ j \in 1..Len(queue[w])
          BY <3>5, <4>5
        <5>2. queue[v][i + 1] = queue[w][j]
          BY <3>5, <3>7, <4>5
        <5> QED BY <4>1, <4>5, <5>1, <5>2
      <4>6. CASE u # v /\ w = v
        <5>1. i \in 1..Len(queue[u]) /\ j + 1 \in 1..Len(queue[v])
          BY <3>5, <4>6
        <5>2. queue[u][i] = queue[v][j + 1]
          BY <3>5, <3>7, <4>6
        <5> QED BY <4>1, <4>6, <5>1, <5>2
      <4> QED BY <4>3, <4>4, <4>5, <4>6
    <3>8. ASSUME NEW d \in Conns, place'[d] = "queued"
          PROVE  \E w \in Workers : \E i \in 1..Len(queue'[w]) : queue'[w][i] = d
      <4>1. d # c /\ place[d] = "queued"
        BY <1>t, <3>2, <3>3, <3>8 DEF TypeOK
      <4>2. PICK w \in Workers : \E i \in 1..Len(queue[w]) : queue[w][i] = d
        BY <1>t, <4>1 DEF InPlace
      <4>3. PICK i \in 1..Len(queue[w]) : queue[w][i] = d
        BY <4>2
      <4>4. CASE w # v
        BY <1>t, <3>3, <4>3, <4>4 DEF TypeOK
      <4>5. CASE w = v
        <5>1. i # 1
          BY <3>1, <4>1, <4>3, <4>5
        <5>2. i - 1 \in 1..Len(Tail(queue[v])) /\ Tail(queue[v])[i - 1] = d
          BY <3>1, <3>2, <4>3, <4>5, <5>1
        <5> QED BY <1>t, <3>3, <5>2 DEF TypeOK
      <4> QED BY <4>4, <4>5
    <3> QED BY <3>6, <3>7, <3>8 DEF InPlace
  <2> QED BY <1>6, <2>1, <2>2
<1>7. CASE UNCHANGED vars
  BY <1>t, <1>7 DEF vars, InPlace
<1> QED BY <1>2, <1>3, <1>4, <1>5, <1>6, <1>7 DEF Next
----------------------------------------------------------------------------
(* The connections of a host, and what one more or less does to them. *)
LEMMA OpenIsFinite ==
  ASSUME NEW h
  PROVE  /\ IsFiniteSet(Open(h)) /\ Cardinality(Open(h)) \in Nat
         /\ IsFiniteSet(Open(h)')
<1>1. IsFiniteSet(Conns)
  BY ConnAssumption, FS_Interval DEF Conns
<1>2. Open(h) \in SUBSET Conns /\ Open(h)' \in SUBSET Conns
  BY DEF Open
<1> QED BY <1>1, <1>2, FS_Subset, FS_CardinalityType

(* What a step may do to a host's counter: one more connection and one     *)
(* more counted, a count taken by an accept that failed, a connection less *)
(* whose count went elsewhere, one given back, and a stray one.            *)
LEMMA CountsKept ==
  ASSUME NEW o \in Nat, NEW n \in 0..(Wrap - 1), NEW s \in Nat, Counts(o, n, s)
  PROVE  /\ n < MaxClients => Counts(o + 1, (n + 1) % Wrap, s) /\ Counts(o, (n + 1) % Wrap, s)
         /\ o > 0 => Counts(o - 1, n, s) /\ Counts(o - 1, (n - 1) % Wrap, s)
         /\ Counts(o, (n - 1) % Wrap, s + 1)
<1> USE ConnAssumption DEF Counts
<1>1. n < MaxClients => (n + 1) % Wrap = n + 1
  BY Counting
<1>2. (n > 0 => (n - 1) % Wrap = n - 1) /\ (n = 0 => (n - 1) % Wrap = Wrap - 1)
  <2>1. n > 0 => (n - 1) % Wrap = n - 1
    BY Counting
  <2>2. (0 - 1) % Wrap = Wrap - 1
    OBVIOUS
  <2> QED BY <2>1, <2>2
<1>3. n < MaxClients => Counts(o + 1, (n + 1) % Wrap, s) /\ Counts(o, (n + 1) % Wrap, s)
  BY <1>1
<1>4. o > 0 => Counts(o - 1, n, s) /\ Counts(o - 1, (n - 1) % Wrap, s)
  BY <1>2
<1>5. Counts(o, (n - 1) % Wrap, s + 1)
  BY <1>2
<1> QED BY <1>3, <1>4, <1>5

LEMMA CountStep ==
  ASSUME Inv, [Next]_vars
  PROVE  CountBounds'
<1> USE ConnAssumption
<1>t. TypeOK /\ CountBounds
  BY DEF Inv
<1>c. \A h \in Hosts :
        /\ count[h] \in 0..(Wrap - 1) /\ stray[h] \in Nat /\ h # Other /\ h # Unix
        /\ Cardinality(Open(h)) \in Nat
        /\ Counts(Cardinality(Open(h)), count[h], stray[h])
  BY <1>t, OpenIsFinite DEF TypeOK, CountBounds
<1>p. (\A h \in Hosts : Counts(Cardinality(Open(h)'), count'[h], stray'[h])) => CountBounds'
  BY DEF CountBounds
<1>0. ASSUME \A h \in Hosts : Open(h)' = Open(h) /\ count'[h] = count[h] /\ stray'[h] = stray[h]
      PROVE  CountBounds'
  BY <1>c, <1>p, <1>0
<1>1. ASSUME NEW c \in Conns, NEW from \in Hosts \cup {Unix}, Fresh(c),
             AssignNewConnection(c, from), NEW h \in Hosts
      PROVE  /\ Open(h)' = IF h = from THEN Open(h) \cup {c} ELSE Open(h)
             /\ c \notin Open(h) /\ stray' = stray
  <2>1. /\ host' = [host EXCEPT ![c] = from] /\ place' = [place EXCEPT ![c] = "queued"]
        /\ place[c] = "none" /\ stray' = stray
    BY <1>1 DEF AssignNewConnection, Fresh
  <2> QED BY <1>t, <2>1 DEF TypeOK, Open
<1>2. ASSUME NEW c \in Conns, NEW g \in Hosts, AcceptTcp(c, g) \/ RefuseTcp(c, g)
      PROVE  CountBounds'
  <2>1. CASE AcceptTcp(c, g)
    <3>1. Fresh(c) /\ AssignNewConnection(c, g) /\ count[g] < MaxClients /\ count' = Counted(g)
      BY <2>1 DEF AcceptTcp, Below
    <3>2. ASSUME NEW h \in Hosts
          PROVE  Counts(Cardinality(Open(h)'), count'[h], stray'[h])
      <4>1. CASE h = g
        <5>1. Open(g)' = Open(g) \cup {c} /\ c \notin Open(g) /\ stray' = stray
          BY <1>1, <3>1
        <5>2. count'[g] = (count[g] + 1) % Wrap
          BY <1>t, <3>1 DEF Counted, TypeOK
        <5>3. Cardinality(Open(g)') = Cardinality(Open(g)) + 1
          BY <5>1, OpenIsFinite, FS_AddElement
        <5> QED BY <1>c, <3>1, <4>1, <5>1, <5>2, <5>3, CountsKept
      <4>2. CASE h # g
        <5>1. Open(h)' = Open(h) /\ stray' = stray
          BY <1>1, <3>1, <4>2
        <5>2. count'[h] = count[h]
          BY <1>t, <3>1, <4>2 DEF Counted, TypeOK
        <5> QED BY <1>c, <5>1, <5>2
      <4> QED BY <4>1, <4>2
    <3> QED BY <1>p, <3>2
  <2>2. CASE RefuseTcp(c, g)
    <3>1. ASSUME NEW h \in Hosts PROVE Open(h)' = Open(h) /\ count' = count /\ stray' = stray
      <4>1. /\ host' = [host EXCEPT ![c] = g] /\ place' = [place EXCEPT ![c] = "closed"]
            /\ place[c] = "none" /\ count' = count /\ stray' = stray
        BY <2>2 DEF RefuseTcp, Fresh
      <4> QED BY <1>t, <4>1 DEF TypeOK, Open
    <3> QED BY <1>0, <3>1
  <2> QED BY <1>2, <2>1, <2>2
<1>3. ASSUME NEW g \in Hosts \cup {Other}, AcceptFails(g)
      PROVE  CountBounds'
  <2>1. ASSUME NEW h \in Hosts PROVE Open(h)' = Open(h) /\ stray' = stray
    BY <1>3 DEF AcceptFails, Open
  <2>2. ASSUME NEW h \in Hosts
        PROVE  \/ count'[h] = count[h]
               \/ count[h] < MaxClients /\ count'[h] = (count[h] + 1) % Wrap
    BY <1>t, <1>3 DEF AcceptFails, Below, Counted, TypeOK
  <2>3. ASSUME NEW h \in Hosts
        PROVE  Counts(Cardinality(Open(h)'), count'[h], stray'[h])
    BY <1>c, <2>1, <2>2, CountsKept
  <2> QED BY <1>p, <2>3
<1>4. ASSUME NEW c \in Conns, AcceptUnix(c) \/ DeleteClient(c)
      PROVE  CountBounds'
  <2>1. CASE AcceptUnix(c)
    <3>1. ASSUME NEW h \in Hosts PROVE Open(h)' = Open(h) /\ count' = count /\ stray' = stray
      BY <1>c, <1>1, <2>1 DEF AcceptUnix
    <3> QED BY <1>0, <3>1
  <2>2. CASE DeleteClient(c)
    <3>1. PICK g \in PeerNames(c) :
            /\ count' = Removed(g)
            /\ stray' = [h \in Hosts |-> IF h = g /\ h # host[c] THEN stray[h] + 1 ELSE stray[h]]
      BY <2>2 DEF DeleteClient
    <3>2. place[c] = "client" /\ place' = [place EXCEPT ![c] = "closed"] /\ host' = host
      BY <2>2 DEF DeleteClient
    <3>3. g \in Hosts \cup {Other}
      BY <1>t, <3>1 DEF PeerNames, TypeOK
    <3>4. ASSUME NEW h \in Hosts
          PROVE  Open(h)' = Open(h) \ {c} /\ (c \in Open(h) <=> h = host[c])
      BY <1>t, <3>2 DEF TypeOK, Open
    <3>5. ASSUME NEW h \in Hosts
          PROVE  /\ count'[h] = IF h = g THEN (count[h] - 1) % Wrap ELSE count[h]
                 /\ stray'[h] = IF h = g /\ h # host[c] THEN stray[h] + 1 ELSE stray[h]
      BY <1>t, <3>1, <3>3 DEF Removed, TypeOK
    <3>6. ASSUME NEW h \in Hosts
          PROVE  Counts(Cardinality(Open(h)'), count'[h], stray'[h])
      <4>1. CASE h = host[c]
        <5>1. c \in Open(h) /\ Open(h)' = Open(h) \ {c} /\ stray'[h] = stray[h]
          BY <3>4, <3>5, <4>1
        <5>2. Cardinality(Open(h)') = Cardinality(Open(h)) - 1
          BY <5>1, OpenIsFinite, FS_RemoveElement
        <5>3. Cardinality(Open(h)) > 0
          <6>1. Cardinality(Open(h)) # 0
            BY <5>1, OpenIsFinite, FS_EmptySet
          <6> QED BY <1>c, <6>1
        <5> QED BY <1>c, <3>5, <5>1, <5>2, <5>3, CountsKept
      <4>2. CASE h # host[c]
        <5>1. Open(h)' = Open(h)
          BY <3>4, <4>2
        <5> QED BY <1>c, <3>5, <4>2, <5>1, CountsKept
      <4> QED BY <4>1, <4>2
    <3> QED BY <1>p, <3>6
  <2> QED BY <1>4, <2>1, <2>2
<1>5. CASE PutNewConnection
  <2>1. ASSUME NEW h \in Hosts PROVE Open(h)' = Open(h) /\ count' = count /\ stray' = stray
    BY <1>5 DEF PutNewConnection, Open
  <2> QED BY <1>0, <2>1
<1>6. ASSUME NEW w \in Workers, ReadNotice(w) \/ TakeConnection(w)
      PROVE  CountBounds'
  <2>1. CASE ReadNotice(w)
    <3>1. ASSUME NEW h \in Hosts PROVE Open(h)' = Open(h) /\ count' = count /\ stray' = stray
      BY <2>1 DEF ReadNotice, Open
    <3> QED BY <1>0, <3>1
  <2>2. CASE TakeConnection(w)
    <3>1. queue[w] \in Seq(Conns) /\ queue[w] # <<>>
      BY <1>t, <2>2 DEF TypeOK, TakeConnection
    <3>2. /\ 1 \in 1..Len(queue[w]) /\ Head(queue[w]) = queue[w][1]
          /\ Head(queue[w]) \in Conns
      BY <3>1
    <3>3. place[Head(queue[w])] = "queued"
      BY <3>2 DEF Inv, InPlace
    <3>4. place' = [place EXCEPT ![Head(queue[w])] = "client"] /\ UNCHANGED <<host, count, stray>>
      BY <2>2 DEF TakeConnection
    <3>5. ASSUME NEW h \in Hosts PROVE Open(h)' = Open(h)
      BY <1>t, <3>2, <3>3, <3>4 DEF TypeOK, Open
    <3> QED BY <1>0, <3>4, <3>5
  <2> QED BY <1>6, <2>1, <2>2
<1>7. CASE UNCHANGED vars
  <2>1. ASSUME NEW h \in Hosts PROVE Open(h)' = Open(h) /\ count' = count /\ stray' = stray
    BY <1>7 DEF vars, Open
  <2> QED BY <1>0, <2>1
<1> QED BY <1>2, <1>3, <1>4, <1>5, <1>6, <1>7 DEF Next
----------------------------------------------------------------------------
LEMMA Start ==
  Init => Inv
<1> SUFFICES ASSUME Init PROVE Inv
  OBVIOUS
<1> USE ConnAssumption DEF Init
<1>1. TypeOK /\ PutSomewhere
  <2>1. 0 \in 0..(Wrap - 1) /\ 0 \in 0..PipeCap
    OBVIOUS
  <2>2. <<>> \in Seq(Conns)
    OBVIOUS
  <2>3. count \in [Hosts \cup {Other} -> 0..(Wrap - 1)]
    BY <2>1
  <2>4. queue \in [Workers -> Seq(Conns)]
    BY <2>2
  <2>5. wait \in [Workers -> Nat] /\ pipe \in [Workers -> 0..PipeCap] /\ hand \in [Workers -> BOOLEAN]
    BY <2>1
  <2>6. stray \in [Hosts -> Nat]
    OBVIOUS
  <2> QED BY <2>3, <2>4, <2>5, <2>6 DEF TypeOK, PutSomewhere
<1>2. OneNoticeEach
  BY DEF OneNoticeEach
<1>3. InPlace
  BY DEF InPlace
<1>4. CountBounds
  <2>1. ASSUME NEW h \in Hosts PROVE Open(h) = {} /\ count[h] = 0
    <3>1. \A c \in Conns : place[c] = "none"
      OBVIOUS
    <3>2. Open(h) = {}
      BY <3>1 DEF Open
    <3>3. count[h] = 0
      OBVIOUS
    <3> QED BY <3>2, <3>3
  <2>2. ASSUME NEW h \in Hosts
        PROVE  Counts(Cardinality(Open(h)), count[h], stray[h])
    <3>1. Cardinality(Open(h)) = 0 /\ count[h] = 0 /\ stray[h] = 0
      BY <2>1, FS_EmptySet
    <3> QED BY <3>1 DEF Counts
  <2> QED BY <2>2 DEF CountBounds
<1> QED BY <1>1, <1>2, <1>3, <1>4 DEF Inv

LEMMA Invariance ==
  Spec => []Inv
<1>1. ASSUME Inv, [Next]_vars PROVE Inv'
  BY <1>1, TypeStep, NoticeStep, PlaceStep, CountStep DEF Inv
<1> QED BY <1>1, Start, PTL DEF Spec

(* The variables keep their types whatever the threads do: counters stay   *)
(* in their sixteen bits, the socket pair is never overfilled and no       *)
(* negative number of notices waits (PutNewConnection, ShouldAccept).      *)
THEOREM TypeCorrect ==
  Spec => []TypeOK
<1>1. Inv => TypeOK
  BY DEF Inv
<1> QED BY <1>1, Invariance, PTL

(* One notice for every descriptor in a conn_queue_, wherever the threads  *)
(* are between PutNewConnection and GetNewConnection.                      *)
THEOREM Notices ==
  Spec => []OneNoticeEach
<1>1. Inv => OneNoticeEach
  BY DEF Inv
<1> QED BY <1>1, Invariance, PTL

(* A worker that has read a notice finds a descriptor: the front() that    *)
(* GetNewConnection takes without looking is never that of an empty queue. *)
THEOREM NeverEmptyHanded ==
  Spec => [](\A w \in Workers : hand[w] => queue[w] # <<>>)
<1>1. Inv => \A w \in Workers : hand[w] => queue[w] # <<>>
  <2> SUFFICES ASSUME Inv, NEW w \in Workers, hand[w], queue[w] = <<>>
               PROVE  FALSE
    OBVIOUS
  <2>1. Len(queue[w]) = wait[w] + pipe[w] + Held(w) + Putting(w)
    BY NoticeTerms DEF Inv
  <2>2. Held(w) = 1 /\ Putting(w) \in Nat /\ wait[w] \in Nat /\ pipe[w] \in Nat
    BY NoticeTerms DEF Inv, Held
  <2>3. Len(queue[w]) = 0
    OBVIOUS
  <2> QED BY <2>1, <2>2, <2>3
<1> QED BY <1>1, Invariance, PTL

(* A queue is no longer than there are descriptors. *)
LEMMA QueueBounded ==
  ASSUME TypeOK, InPlace, NEW w \in Workers
  PROVE  Len(queue[w]) <= MaxConns
<1>1. queue[w] \in Seq(Conns) /\ Len(queue[w]) \in Nat
  BY DEF TypeOK
<1>2. queue[w] \in Injection(1..Len(queue[w]), Conns)
  <2>1. queue[w] \in [1..Len(queue[w]) -> Conns]
    BY <1>1
  <2>2. \A i, j \in 1..Len(queue[w]) : queue[w][i] = queue[w][j] => i = j
    BY DEF InPlace
  <2> QED BY <2>1, <2>2, Zenon DEF Injection, IsInjective
<1>3. IsFiniteSet(Conns) /\ Cardinality(Conns) = MaxConns
  BY ConnAssumption, FS_Interval DEF Conns
<1>4. IsFiniteSet(1..Len(queue[w])) /\ Cardinality(1..Len(queue[w])) = Len(queue[w])
  BY <1>1, FS_Interval
<1> QED BY <1>2, <1>3, <1>4, FS_Injection

(* Every descriptor is in one queue, once, exactly while it has neither a  *)
(* client nor been closed: no two workers ever serve the same one.         *)
THEOREM Owners ==
  Spec => []OneOwner
<1>1. Inv => OneOwner
  <2> SUFFICES ASSUME Inv, NEW c \in Conns
               PROVE  Cardinality({p \in Workers \X Conns :
                                     p[2] <= Len(queue[p[1]]) /\ queue[p[1]][p[2]] = c})
                        = IF place[c] = "queued" THEN 1 ELSE 0
    BY DEF OneOwner
  <2> DEFINE P == {p \in Workers \X Conns :
                     p[2] <= Len(queue[p[1]]) /\ queue[p[1]][p[2]] = c}
  <2>1. TypeOK /\ InPlace /\ \A w \in Workers : Len(queue[w]) \in Nat
    BY DEF Inv, TypeOK
  <2>2. ASSUME NEW w \in Workers, NEW i \in 1..Len(queue[w]), queue[w][i] = c
        PROVE  <<w, i>> \in P
    <3>1. i \in Conns
      BY <2>1, QueueBounded, ConnAssumption DEF Conns
    <3> QED BY <2>1, <2>2, <3>1
  <2>3. ASSUME NEW p \in P
        PROVE  /\ p[1] \in Workers /\ p[2] \in 1..Len(queue[p[1]])
               /\ queue[p[1]][p[2]] = c /\ p = <<p[1], p[2]>>
    BY <2>1 DEF Conns
  <2> HIDE DEF P
  <2>4. CASE place[c] = "queued"
    <3>1. PICK w \in Workers : \E i \in 1..Len(queue[w]) : queue[w][i] = c
      BY <2>1, <2>4 DEF InPlace
    <3>2. PICK i \in 1..Len(queue[w]) : queue[w][i] = c
      BY <3>1
    <3>3. ASSUME NEW p \in P PROVE p = <<w, i>>
      BY <2>1, <2>3, <3>2 DEF InPlace
    <3>4. P = {<<w, i>>}
      BY <2>2, <3>2, <3>3
    <3> QED BY <2>4, <3>4, FS_Singleton DEF P
  <2>5. CASE place[c] # "queued"
    <3>1. P = {}
      BY <2>1, <2>3, <2>5 DEF InPlace
    <3> QED BY <2>5, <3>1, FS_EmptySet DEF P
  <2> QED BY <2>4, <2>5
<1> QED BY <1>1, Invariance, PTL

(* A host has no more connections than max_clients and the clients of      *)
(* others that were deleted under its name, for all hosts, names, workers  *)
(* and orders of accepting and deleting (ShouldAccept, Client::~Client).   *)
THEOREM Limit ==
  Spec => []LimitHeld
<1>1. Inv => LimitHeld
  <2> SUFFICES ASSUME Inv, NEW h \in Hosts
               PROVE  Cardinality(Open(h)) <= MaxClients + stray[h]
    BY DEF LimitHeld
  <2>1. /\ Cardinality(Open(h)) \in Nat /\ count[h] \in 0..(Wrap - 1) /\ stray[h] \in Nat
        /\ Counts(Cardinality(Open(h)), count[h], stray[h])
    BY ConnAssumption, OpenIsFinite DEF Inv, TypeOK, CountBounds
  <2> QED BY <2>1, ConnAssumption DEF Counts
<1> QED BY <1>1, Invariance, PTL

----------------------------------------------------------------------------
(* A step of a connection's life. *)
Moves == {<<"none", "queued">>, <<"none", "closed">>,
          <<"queued", "client">>, <<"client", "closed">>}

(* A descriptor is handed on once: accepted or refused, taken by the one   *)
(* worker it was queued for, closed when that worker deletes its client,   *)
(* and never taken again, by whatever threads and notices.                 *)
HandedOnce ==
  [][\A c \in Conns :
       /\ place'[c] # place[c] => <<place[c], place'[c]>> \in Moves
       /\ place[c] # "none" => host'[c] = host[c]]_vars

LEMMA OneMove ==
  ASSUME Inv, Next, NEW c \in Conns
  PROVE  /\ place'[c] # place[c] => <<place[c], place'[c]>> \in Moves
         /\ place[c] # "none" => host'[c] = host[c]
<1>t. place \in [Conns -> {"none", "queued", "client", "closed"}]
      /\ host \in [Conns -> Hosts \cup {Unix}]
  BY DEF Inv, TypeOK
<1>1. ASSUME NEW d \in Conns, NEW from, NEW to \in {"queued", "closed"}, place[d] = "none",
             place' = [place EXCEPT ![d] = to], host' = [host EXCEPT ![d] = from]
      PROVE  /\ place'[c] # place[c] => <<place[c], place'[c]>> \in Moves
             /\ place[c] # "none" => host'[c] = host[c]
  BY <1>t, <1>1 DEF Moves
<1>2. ASSUME NEW d \in Conns, NEW h \in Hosts, AcceptTcp(d, h) \/ RefuseTcp(d, h)
      PROVE  /\ place'[c] # place[c] => <<place[c], place'[c]>> \in Moves
             /\ place[c] # "none" => host'[c] = host[c]
  BY <1>1, <1>2 DEF AcceptTcp, RefuseTcp, AssignNewConnection, Fresh
<1>3. ASSUME NEW d \in Conns, AcceptUnix(d)
      PROVE  /\ place'[c] # place[c] => <<place[c], place'[c]>> \in Moves
             /\ place[c] # "none" => host'[c] = host[c]
  BY <1>1, <1>3 DEF AcceptUnix, AssignNewConnection, Fresh
<1>4. ASSUME UNCHANGED <<place, host>>
      PROVE  /\ place'[c] # place[c] => <<place[c], place'[c]>> \in Moves
             /\ place[c] # "none" => host'[c] = host[c]
  BY <1>4
<1>5. ASSUME NEW h \in Hosts \cup {Other}, AcceptFails(h) PROVE UNCHANGED <<place, host>>
  BY <1>5 DEF AcceptFails
<1>6. CASE PutNewConnection
  BY <1>4, <1>6 DEF PutNewConnection
<1>7. ASSUME NEW w \in Workers, ReadNotice(w) PROVE UNCHANGED <<place, host>>
  BY <1>7 DEF ReadNotice
<1>8. ASSUME NEW w \in Workers, TakeConnection(w)
      PROVE  /\ place'[c] # place[c] => <<place[c], place'[c]>> \in Moves
             /\ place[c] # "none" => host'[c] = host[c]
  <2>1. queue[w] \in Seq(Conns) /\ queue[w] # <<>>
    BY <1>8 DEF TakeConnection, Inv, TypeOK
  <2>2. Head(queue[w]) = queue[w][1] /\ 1 \in 1..Len(queue[w]) /\ Head(queue[w]) \in Conns
    BY <2>1
  <2>3. place[Head(queue[w])] = "queued"
    BY <2>2 DEF Inv, InPlace
  <2>4. place' = [place EXCEPT ![Head(queue[w])] = "client"] /\ host' = host
    BY <1>8 DEF TakeConnection
  <2> QED BY <1>t, <2>2, <2>3, <2>4 DEF Moves
<1>9. ASSUME NEW d \in Conns, DeleteClient(d)
      PROVE  /\ place'[c] # place[c] => <<place[c], place'[c]>> \in Moves
             /\ place[c] # "none" => host'[c] = host[c]
  BY <1>t, <1>9 DEF DeleteClient, Moves
<1> QED BY <1>2, <1>3, <1>4, <1>5, <1>6, <1>7, <1>8, <1>9 DEF Next

(* GetNewConnection takes front() of a queue that the master's thread      *)
(* fills, at a notice that was written after the queue's lock was given    *)
(* up, and never gets a descriptor that has, or had, a client.             *)
THEOREM Lifecycle ==
  Spec => HandedOnce
<1> DEFINE A == \A c \in Conns :
                  /\ place'[c] # place[c] => <<place[c], place'[c]>> \in Moves
                  /\ place[c] # "none" => host'[c] = host[c]
<1>1. ASSUME Inv, [Next]_vars PROVE [A]_vars
  BY <1>1, OneMove
<1>2. HandedOnce <=> [][A]_vars
  BY DEF HandedOnce
<1> QED BY <1>1, <1>2, Invariance, PTL DEF Spec
============================================================================
