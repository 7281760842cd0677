--------------------------- MODULE StoreTreeProofs ---------------------------
(***************************************************************************)
(* The tree of stores, for any configurations the grammar can build and    *)
(* any times, intervals and topics.                                        *)
(*                                                                         *)
(* The check, the cron and the acceptance of a message are recursive over  *)
(* the tree.  Each is shown to have the value its equation says; facts     *)
(* about paths then come from the first store on one, in the order of the  *)
(* numbers, for which they fail.  The invariant has a part for each store: *)
(* a network store sends only while it is connected; a file store whose    *)
(* cron runs has files of the period of the storer's clock, and a file is  *)
(* dirty only since the last flush, which was less than the interval ago.  *)
(***************************************************************************)
EXTENDS StoreTree, SequenceTheorems, WellFoundedInduction, TLAPS

----------------------------------------------------------------------------
(* The recursive definitions have the values their equations say: there is *)
(* a function that satisfies them, the members of a least set.             *)
IsReached(g, n, r, E) ==
  g = [i \in 1..n |-> i = r \/ \E p \in 1..(i - 1) : g[p] /\ <<p, i>> \in E]

LEMMA ReachedFixpoint ==
  ASSUME NEW n \in Nat, NEW r, NEW E
  PROVE  \E g : IsReached(g, n, r, E)
<1> DEFINE Closed(S) == /\ r \in 1..n => r \in S
                        /\ \A i \in 1..n : \A p \in 1..(i - 1) :
                             p \in S /\ <<p, i>> \in E => i \in S
           L == {i \in 1..n : \A S \in SUBSET (1..n) : Closed(S) => i \in S}
           g == [i \in 1..n |-> i \in L]
           Rule(i) == i = r \/ \E p \in 1..(i - 1) : p \in L /\ <<p, i>> \in E
<1>1. Closed(L)
  OBVIOUS
<1>2. L \in SUBSET (1..n)
  OBVIOUS
<1>3. ASSUME NEW i \in L PROVE Rule(i)
  <2> SUFFICES ASSUME ~Rule(i) PROVE FALSE
    OBVIOUS
  <2> DEFINE S == L \ {i}
  <2>1. Closed(S)
    <3> HIDE DEF L
    <3> QED BY <1>1
  <2>2. S \in SUBSET (1..n)
    BY <1>2
  <2>3. i \in S
    BY <1>3, <2>1, <2>2
  <2> QED BY <2>3
<1>4. ASSUME NEW i \in 1..n, Rule(i) PROVE i \in L
  <2> HIDE DEF L
  <2> QED BY <1>1, <1>4
<1> HIDE DEF L
<1>5. \A i \in 1..n : \A p \in 1..(i - 1) : p \in 1..n
  OBVIOUS
<1>6. ASSUME NEW i \in 1..n
      PROVE  g[i] = (i = r \/ \E p \in 1..(i - 1) : g[p] /\ <<p, i>> \in E)
  <2>1. (\E p \in 1..(i - 1) : g[p] /\ <<p, i>> \in E)
          <=> (\E p \in 1..(i - 1) : p \in L /\ <<p, i>> \in E)
    BY <1>5
  <2>2. g[i] = (i \in L)
    OBVIOUS
  <2>3. i \in L <=> Rule(i)
    BY <1>3, <1>4
  <2> HIDE DEF g
  <2> QED BY <2>1, <2>2, <2>3
<1>7. g = [i \in 1..n |-> g[i]]
  OBVIOUS
<1> HIDE DEF g
<1>8. g = [i \in 1..n |-> i = r \/ \E p \in 1..(i - 1) : g[p] /\ <<p, i>> \in E]
  BY <1>6, <1>7
<1> QED BY <1>8 DEF IsReached

LEMMA ReachedRule ==
  ASSUME NEW n \in Nat, NEW r, NEW E
  PROVE  /\ Reached(1..n, r, E) \in SUBSET 1..n
         /\ \A i \in 1..n : i \in Reached(1..n, r, E) <=>
              i = r \/ \E p \in 1..(i - 1) : p \in Reached(1..n, r, E) /\ <<p, i>> \in E
<1> DEFINE reached[i \in 1..n] ==
             i = r \/ \E p \in 1..(i - 1) : reached[p] /\ <<p, i>> \in E
<1>1. Reached(1..n, r, E) = {i \in 1..n : reached[i]}
  BY DEF Reached
<1>2. reached = CHOOSE g : IsReached(g, n, r, E)
  BY DEF IsReached
<1>3. IsReached(reached, n, r, E)
  <2>1. \E g : IsReached(g, n, r, E)
    BY ReachedFixpoint, Zenon
  <2> HIDE DEF reached
  <2> QED BY <1>2, <2>1, Zenon
<1> HIDE DEF reached
<1>4. \A i \in 1..n : \A p \in 1..(i - 1) : p \in 1..n
  OBVIOUS
<1> QED BY <1>1, <1>3, <1>4 DEF IsReached

(* A set of naturals has a least element. *)
LEMMA Minimum ==
  ASSUME NEW S \in SUBSET Nat, S # {}
  PROVE  \E x \in S : \A y \in S : x <= y
<1> DEFINE R == OpToRel(<, Nat)
<1>1. IsWellFoundedOn(R, Nat)
  BY NatLessThanWellFounded
<1>2. R = {ss \in Nat \X Nat : ss[1] < ss[2]}
  BY Zenon DEF OpToRel
<1> HIDE DEF R
<1>3. PICK x \in S : \A y \in S : ~(<<y, x>> \in R)
  BY <1>1, WFMin
<1>4. ASSUME NEW y \in S PROVE x <= y
  <2>1. x \in Nat /\ y \in Nat
    OBVIOUS
  <2>2. y < x => <<y, x>> \in R
    BY <1>2, <2>1
  <2> QED BY <1>3, <2>1, <2>2
<1> QED BY <1>4

(* Whatever is reached from a node has no smaller number. *)
LEMMA ReachedUp ==
  ASSUME NEW n \in Nat, NEW r \in Nat, NEW E,
         NEW i \in Reached(1..n, r, E)
  PROVE  r <= i
<1> DEFINE B == {k \in Reached(1..n, r, E) : k < r}
<1>1. /\ Reached(1..n, r, E) \in SUBSET (1..n)
      /\ \A k \in 1..n : k \in Reached(1..n, r, E) <=>
           k = r \/ \E p \in 1..(k - 1) : p \in Reached(1..n, r, E) /\ <<p, k>> \in E
  BY ReachedRule
<1>2. B \in SUBSET Nat
  BY <1>1
<1>3. ASSUME B # {} PROVE FALSE
  <2>1. PICK x \in B : \A y \in B : x <= y
    BY <1>2, <1>3, Minimum
  <2>0. x \in 1..n /\ x \in Reached(1..n, r, E) /\ x < r /\ x # r
    BY <1>1
  <2>2. PICK p \in 1..(x - 1) : p \in Reached(1..n, r, E)
    BY <1>1, <2>0
  <2>3. x \in Nat /\ p \in Nat /\ p < x /\ x < r
    BY <2>0
  <2>4. p \in B
    BY <2>2, <2>3
  <2>5. x <= p
    BY <2>1, <2>4
  <2> QED BY <2>3, <2>5
<1>4. i \in Nat
  BY <1>1
<1> QED BY <1>3, <1>4

(* What is reached from a node is reached from where an edge to it begins. *)
LEMMA ReachedFrom ==
  ASSUME NEW n \in Nat, NEW E, NEW p \in 1..n, NEW j \in 1..n,
         p < j, <<p, j>> \in E
  PROVE  Reached(1..n, j, E) \in SUBSET Reached(1..n, p, E)
<1> DEFINE B == {k \in Reached(1..n, j, E) : k \notin Reached(1..n, p, E)}
<1>1. /\ Reached(1..n, j, E) \in SUBSET (1..n)
      /\ \A k \in 1..n : k \in Reached(1..n, j, E) <=>
           k = j \/ \E q \in 1..(k - 1) : q \in Reached(1..n, j, E) /\ <<q, k>> \in E
  BY ReachedRule
<1>2. \A k \in 1..n : k \in Reached(1..n, p, E) <=>
           k = p \/ \E q \in 1..(k - 1) : q \in Reached(1..n, p, E) /\ <<q, k>> \in E
  BY ReachedRule
<1>3. B \in SUBSET Nat
  BY <1>1
<1>4. ASSUME B # {} PROVE FALSE
  <2>1. PICK x \in B : \A y \in B : x <= y
    BY <1>3, <1>4, Minimum
  <2>2. x \in 1..n /\ x \in Reached(1..n, j, E) /\ x \notin Reached(1..n, p, E)
    BY <1>1
  <2>3. p \in Reached(1..n, p, E) /\ p \in 1..(j - 1)
    BY <1>2
  <2>4. x # j
    BY <1>2, <2>2, <2>3
  <2>5. PICK q \in 1..(x - 1) : q \in Reached(1..n, j, E) /\ <<q, x>> \in E
    BY <1>1, <2>2, <2>4
  <2>6. q \notin B
    BY <2>1, <2>2, <2>5
  <2>7. q \in Reached(1..n, p, E)
    BY <2>5, <2>6
  <2> QED BY <1>2, <2>2, <2>5, <2>7
<1> QED BY <1>4

----------------------------------------------------------------------------
(* Trees. *)
LEMMA Shape ==
  ASSUME NEW c, WellFormed(c)
  PROVE  /\ Len(c.type) \in Nat /\ Nodes(c) = 1..Len(c.type)
         /\ \A i \in Nodes(c) : c.type[i] \in Words /\ c.children[i] \in Seq(Nat)
         /\ \A i \in Nodes(c) : Children(c, i) \in SUBSET ((i + 1)..Len(c.type))
         /\ \A p, q \in Nodes(c) : p # q => Children(c, p) \cap Children(c, q) = {}
         /\ Nodes(c) = Reached(Nodes(c), 1, Edges(c))
<1>1. c.type \in Seq(Words) /\ c.children \in Seq(Seq(Nat))
  BY DEF WellFormed
<1>2. Len(c.children) = Len(c.type)
  <2>1. "children" \in DOMAIN c
    BY DEF WellFormed
  <2> QED BY <2>1 DEF WellFormed
<1>3. Len(c.type) \in Nat /\ Nodes(c) = 1..Len(c.type)
  BY <1>1 DEF Nodes
<1>4. \A i \in Nodes(c) : c.type[i] \in Words /\ c.children[i] \in Seq(Nat)
  BY <1>1, <1>2, <1>3
<1> QED BY <1>3, <1>4 DEF WellFormed

(* A store all of whose ancestors are open is one whose cron runs. *)
LEMMA ServedRuns ==
  ASSUME WellFormed(conf), NEW i \in Nodes(conf), Served(i)
  PROVE  i \in Cronned
<1> DEFINE n == Len(conf.type)
           E == Edges(conf)
           O == {e \in Edges(conf) : isOpen[e[1]]}
           A == Ancestors(i) \cup {i}
           B == {j \in A : j \notin Cronned}
<1>1. n \in Nat /\ Nodes(conf) = 1..n /\ 1..n = Reached(Nodes(conf), 1, E)
  BY Shape
<1>r. ASSUME NEW r, NEW F
      PROVE  \A j \in 1..n : j \in Reached(Nodes(conf), r, F) <=>
               j = r \/ \E p \in 1..(j - 1) : p \in Reached(Nodes(conf), r, F) /\ <<p, j>> \in F
  <2> HIDE DEF n
  <2> QED BY <1>1, ReachedRule
<1>2. \A j \in 1..n : j = 1 \/ \E p \in 1..(j - 1) : <<p, j>> \in E
  <2> HIDE DEF n, E
  <2> QED BY <1>1, <1>r
<1>3. \A j \in 1..n : j \in Cronned <=>
        j = 1 \/ \E p \in 1..(j - 1) : p \in Cronned /\ <<p, j>> \in O
  <2>1. Cronned = Reached(Nodes(conf), 1, O)
    BY DEF Cronned
  <2> HIDE DEF n, O
  <2> QED BY <1>r, <2>1
<1>4. A \in SUBSET (1..n) /\ B \in SUBSET Nat
  BY <1>1 DEF Ancestors
<1>5. ASSUME B # {} PROVE FALSE
  <2>1. PICK j \in B : \A y \in B : j <= y
    BY <1>4, <1>5, Minimum
  <2>2. j \in 1..n /\ j \in A /\ j \notin Cronned /\ j # 1
    BY <1>3, <1>4
  <2>3. PICK p \in 1..(j - 1) : <<p, j>> \in E
    BY <1>2, <2>2
  <2>4. p \in 1..n /\ p < j
    BY <1>1, <2>2, <2>3
  <2>5. i \in Reached(Nodes(conf), j, E)
    <3>1. CASE j = i
      BY <1>1, <3>1, ReachedRule
    <3>2. CASE j # i
      BY <2>2, <3>2 DEF Ancestors
    <3> QED BY <3>1, <3>2
  <2>6. i \in Reached(Nodes(conf), p, E)
    BY <1>1, <2>2, <2>3, <2>4, <2>5, ReachedFrom
  <2>7. j <= i
    BY <1>1, <2>2, <2>5, ReachedUp
  <2>8. p # i
    BY <1>1, <2>2, <2>4, <2>7
  <2>9. p \in Ancestors(i)
    BY <1>1, <2>4, <2>6, <2>8 DEF Ancestors
  <2>10. isOpen[p]
    BY <2>9 DEF Served
  <2>11. p \in Cronned
    BY <1>4, <2>1, <2>4, <2>9
  <2>12. <<p, j>> \in O
    BY <2>3, <2>10
  <2> QED BY <1>3, <2>2, <2>3, <2>11, <2>12
<1> QED BY <1>5

----------------------------------------------------------------------------
(* Periods. *)
LEMMA PeriodOrder ==
  ASSUME NEW a \in Nat, NEW b \in Nat, a <= b
  PROVE  /\ Period(a) <= Period(b)
         /\ Period(b) <= a => Period(a) = Period(b)
<1>1. CASE Rotate = -1
  BY <1>1 DEF Period
<1>2. CASE Rotate > 0
  <2> DEFINE q == a \div Rotate
             u == b \div Rotate
             m == a % Rotate
             w == b % Rotate
  <2>1. /\ q \in Int /\ m \in 0..(Rotate - 1) /\ a = Rotate * q + m
        /\ Rotate \in Nat
    BY <1>2, IntervalAssumption
  <2>2. u \in Int /\ w \in 0..(Rotate - 1) /\ b = Rotate * u + w
    BY <1>2, IntervalAssumption
  <2>3. Period(a) = a - m /\ Period(b) = b - w
    BY <1>2, Zenon DEF Period, m, w
  <2> HIDE DEF q, u, m, w
  <2>4. \A x, y \in Int : x < y => Rotate * x + Rotate <= Rotate * y
    <3> SUFFICES ASSUME NEW x \in Int, NEW y \in Int, x < y
                 PROVE  Rotate * x + Rotate <= Rotate * y
      OBVIOUS
    <3>1. y - x - 1 \in Nat
      OBVIOUS
    <3>2. Rotate * (y - x - 1) >= 0
      BY <2>1, <3>1
    <3>3. Rotate * (y - x - 1) = Rotate * y - Rotate * x - Rotate
      BY <2>1
    <3>4. Rotate * y \in Int /\ Rotate * x \in Int
      BY <2>1
    <3> QED BY <2>1, <3>2, <3>3, <3>4
  <2>5. Rotate * q \in Int /\ Rotate * u \in Int
    BY <2>1, <2>2
  <2>6. ~(u < q)
    BY <2>1, <2>2, <2>4, <2>5
  <2>7. CASE q = u
    BY <2>1, <2>2, <2>3, <2>5, <2>7
  <2>8. CASE q < u
    <3>1. Rotate * q + Rotate <= Rotate * u
      BY <2>1, <2>2, <2>4, <2>8
    <3> QED BY <2>1, <2>2, <2>3, <2>5, <3>1
  <2> QED BY <2>1, <2>2, <2>6, <2>7, <2>8
<1> QED BY <1>1, <1>2, IntervalAssumption

LEMMA Periods ==
  ASSUME Rotate > 0, NEW t \in Nat
  PROVE  /\ Period(t) \in Nat /\ Period(t) <= t
         /\ t >= Rotate => Period(t) > 0
         /\ Period(Period(t)) = Period(t)
         /\ (t + 1) % Rotate # 0 => Period(t + 1) = Period(t)
         /\ (t + 1) % Rotate = 0 => Period(t + 1) = t + 1
<1>1. Period(t) \in Nat /\ Period(t) <= t
  BY IntervalAssumption DEF Period
<1>2. t >= Rotate => Period(t) > 0
  BY IntervalAssumption DEF Period
<1>3. Period(Period(t)) = Period(t)
  BY IntervalAssumption DEF Period
<1>4. ASSUME (t + 1) % Rotate # 0 PROVE Period(t + 1) = Period(t)
  <2>1. Period(t + 1) <= t
    BY <1>4, IntervalAssumption DEF Period
  <2> QED BY <2>1, PeriodOrder
<1>5. (t + 1) % Rotate = 0 => Period(t + 1) = t + 1
  BY IntervalAssumption DEF Period
<1> QED BY <1>1, <1>2, <1>3, <1>4, <1>5
----------------------------------------------------------------------------
(* File stores. *)
FileEntry == [name : Nat, dirty : Nat]
FileStore == [isOpen : BOOLEAN, files : UNION {[S -> FileEntry] : S \in SUBSET Topics},
              lastFlush : Nat, lastRotate : Nat]

(* A file store at time t: its intervals have begun, its files are not of  *)
(* a time to come.                                                         *)
FileTyped(f, t) ==
  /\ f \in FileStore /\ f.lastFlush <= t /\ f.lastRotate <= t
  /\ \A topic \in DOMAIN f.files : f.files[topic].name <= t

(* A file whose store is called, when the clock is c and m was missed. *)
InPeriod(f, x, c, m) ==
  c # 0 => \/ Period(x.name) = Period(c)
           \/ Period(x.name) < m
           \/ Period(x.name) < Period(f.lastRotate)
Flushing(f, x, c) ==
  Flush # -1 /\ x.dirty # 0 =>
    f.lastFlush <= x.dirty /\ (c <= x.dirty \/ c - f.lastFlush < Flush)
FileGood(f, c, m) ==
  f.isOpen => \A topic \in DOMAIN f.files :
    InPeriod(f, f.files[topic], c, m) /\ Flushing(f, f.files[topic], c)

LEMMA PeriodNat ==
  ASSUME NEW t \in Nat
  PROVE  Period(t) \in Nat /\ Period(t) <= t
  BY Periods, IntervalAssumption DEF Period

LEMMA Maps ==
  ASSUME NEW f \in FileStore
  PROVE  /\ DOMAIN f.files \in SUBSET Topics
         /\ \A t \in DOMAIN f.files : f.files[t] \in FileEntry
         /\ f.isOpen \in BOOLEAN /\ f.lastFlush \in Nat /\ f.lastRotate \in Nat
<1>1. PICK S \in SUBSET Topics : f.files \in [S -> FileEntry]
  BY DEF FileStore
<1> QED BY <1>1 DEF FileStore

LEMMA EmptyMap ==
  NoFiles \in UNION {[S -> FileEntry] : S \in SUBSET Topics} /\ DOMAIN NoFiles = {}
<1>1. NoFiles \in [{} -> FileEntry]
  BY DEF NoFiles
<1> QED BY <1>1

(* A store that is opened again, from scratch or by a rotation. *)
LEMMA FileOpened ==
  ASSUME NEW f \in FileStore, f.isOpen \/ f.files = NoFiles, NEW t \in Nat,
         NEW d \in BOOLEAN
  PROVE  /\ FileTyped(FileOpen(f, t, d), t)
         /\ DOMAIN FileOpen(f, t, d).files = {}
<1>1. PICK g \in FileStore : g = FileClose(f) /\ g.files = NoFiles
  <2>1. CASE f.isOpen
    <3>1. FileClose(f) = [f EXCEPT !.isOpen = FALSE, !.files = NoFiles]
      BY <2>1 DEF FileClose
    <3>2. [f EXCEPT !.isOpen = FALSE, !.files = NoFiles] \in FileStore
      BY EmptyMap DEF FileStore
    <3>3. [f EXCEPT !.isOpen = FALSE, !.files = NoFiles].files = NoFiles
      BY DEF FileStore
    <3> QED BY <3>1, <3>2, <3>3
  <2>2. CASE ~f.isOpen
    BY <2>2 DEF FileClose
  <2> QED BY <2>1, <2>2
<1>2. FileOpen(f, t, d) = [g EXCEPT !.isOpen = d, !.lastFlush = t, !.lastRotate = t]
  BY <1>1 DEF FileOpen
<1>3. /\ FileOpen(f, t, d) \in FileStore /\ FileOpen(f, t, d).files = NoFiles
      /\ FileOpen(f, t, d).lastFlush = t /\ FileOpen(f, t, d).lastRotate = t
  BY <1>1, <1>2 DEF FileStore
<1> QED BY <1>3, EmptyMap DEF FileTyped

LEMMA NewStore ==
  NewFileStore \in FileStore /\ NewFileStore.files = NoFiles
  BY EmptyMap DEF NewFileStore, FileStore

LEMMA FileAdded ==
  ASSUME NEW f \in FileStore, NEW topic \in Topics, NEW u \in Nat, NEW t \in Nat,
         NameTime(u, t) \in Nat
  PROVE  LET g == FileAdd(f, topic, u, t)
         IN  /\ g \in FileStore /\ DOMAIN g.files = DOMAIN f.files \cup {topic}
             /\ g.isOpen = f.isOpen /\ g.lastFlush = f.lastFlush
             /\ g.lastRotate = f.lastRotate
             /\ \A x \in DOMAIN g.files :
                  /\ g.files[x].name = IF x \in DOMAIN f.files THEN f.files[x].name
                                       ELSE NameTime(u, t)
                  /\ g.files[x].dirty = t \/ (x \in DOMAIN f.files
                                              /\ g.files[x].dirty = f.files[x].dirty)
<1> DEFINE old == IF topic \in DOMAIN f.files THEN f.files[topic]
                  ELSE [name |-> NameTime(u, t), dirty |-> 0]
           new == IF old.dirty = 0 THEN [old EXCEPT !.dirty = t] ELSE old
           F == [x \in DOMAIN f.files \cup {topic} |-> IF x = topic THEN new ELSE f.files[x]]
           g == FileAdd(f, topic, u, t)
<1>1. g = [f EXCEPT !.files = F]
  BY DEF FileAdd
<1>2. old \in FileEntry
  BY Maps DEF FileEntry
<1>3. old.name = IF topic \in DOMAIN f.files THEN f.files[topic].name ELSE NameTime(u, t)
  OBVIOUS
<1>4. topic \notin DOMAIN f.files => old.dirty = 0
  OBVIOUS
<1>5. topic \in DOMAIN f.files => old.dirty = f.files[topic].dirty
  OBVIOUS
<1> HIDE DEF old
<1>6. /\ new \in FileEntry /\ new.name = old.name
      /\ new.dirty = t \/ (old.dirty # 0 /\ new.dirty = old.dirty)
  BY <1>2 DEF FileEntry
<1> HIDE DEF new
<1>7. F \in [DOMAIN f.files \cup {topic} -> FileEntry]
  BY <1>6, Maps
<1>8. DOMAIN f.files \cup {topic} \in SUBSET Topics
  BY Maps
<1>9. F \in UNION {[S -> FileEntry] : S \in SUBSET Topics}
  BY <1>7, <1>8
<1>10. DOMAIN F = DOMAIN f.files \cup {topic}
  OBVIOUS
<1>11. ASSUME NEW x \in DOMAIN f.files \cup {topic}
       PROVE  /\ F[x].name = IF x \in DOMAIN f.files THEN f.files[x].name ELSE NameTime(u, t)
              /\ F[x].dirty = t \/ (x \in DOMAIN f.files /\ F[x].dirty = f.files[x].dirty)
  <2>1. CASE x = topic
    <3>1. F[x] = new
      BY <2>1
    <3> QED BY <1>3, <1>4, <1>5, <1>6, <2>1, <3>1
  <2>2. CASE x # topic
    <3>1. F[x] = f.files[x] /\ x \in DOMAIN f.files
      BY <2>2
    <3> QED BY <3>1
  <2> QED BY <2>1, <2>2
<1> HIDE DEF F
<1>12. /\ g \in FileStore /\ g.files = F /\ g.isOpen = f.isOpen
       /\ g.lastFlush = f.lastFlush /\ g.lastRotate = f.lastRotate
  BY <1>1, <1>9 DEF FileStore
<1> HIDE DEF g
<1>13. \A x \in DOMAIN g.files :
         /\ g.files[x].name = IF x \in DOMAIN f.files THEN f.files[x].name ELSE NameTime(u, t)
         /\ g.files[x].dirty = t \/ (x \in DOMAIN f.files /\ g.files[x].dirty = f.files[x].dirty)
  BY <1>10, <1>11, <1>12
<1> QED BY <1>10, <1>12, <1>13 DEF g

LEMMA FileFlushed ==
  ASSUME NEW f \in FileStore, NEW t \in Nat, NEW S
  PROVE  LET g == FileFlush(f, t, S)
         IN  /\ g \in FileStore /\ DOMAIN g.files = DOMAIN f.files
             /\ g.isOpen = f.isOpen /\ g.lastFlush = t /\ g.lastRotate = f.lastRotate
             /\ \A x \in DOMAIN f.files :
                  g.files[x].name = f.files[x].name /\ g.files[x].dirty \in {0, t}
<1> DEFINE F == [x \in DOMAIN f.files |->
                   [f.files[x] EXCEPT !.dirty = IF @ # 0 /\ x \in S THEN t ELSE 0]]
           g == FileFlush(f, t, S)
<1>1. g = [f EXCEPT !.files = F, !.lastFlush = t]
  BY DEF FileFlush
<1>2. ASSUME NEW x \in DOMAIN f.files
      PROVE  F[x] \in FileEntry /\ F[x].name = f.files[x].name /\ F[x].dirty \in {0, t}
  <2>1. f.files[x] \in FileEntry
    BY Maps
  <2>2. PICK z \in {0, t} : F[x] = [f.files[x] EXCEPT !.dirty = z]
    OBVIOUS
  <2> HIDE DEF F
  <2> QED BY <2>1, <2>2 DEF FileEntry
<1>3. F \in [DOMAIN f.files -> FileEntry] /\ DOMAIN F = DOMAIN f.files
  BY <1>2
<1>4. F \in UNION {[D -> FileEntry] : D \in SUBSET Topics}
  BY <1>3, Maps
<1> HIDE DEF F
<1>5. /\ g \in FileStore /\ g.files = F /\ g.isOpen = f.isOpen /\ g.lastFlush = t
      /\ g.lastRotate = f.lastRotate
  BY <1>1, <1>4 DEF FileStore
<1> HIDE DEF g
<1> QED BY <1>2, <1>3, <1>5 DEF g
----------------------------------------------------------------------------
(* Clocks: u is the storer's, t the time, m the history of what it missed. *)
ClockOK(u, t) ==
  /\ u \in Nat /\ t \in Nat \ {0} /\ t >= Rotate
  /\ u # 0 => u <= t /\ u >= Rotate
MissedOK(u, t, m) ==
  /\ m \in Nat /\ m <= Period(t - 1)
  /\ Period(t - 1) > u => m = Period(t - 1)

(* Time goes on to v, with a clock w. *)
LEMMA MissedGrows ==
  ASSUME NEW u, NEW t, NEW m, ClockOK(u, t), MissedOK(u, t, m),
         NEW w \in Nat, NEW v \in Nat, t <= v
  PROVE  LET n == IF Period(v - 1) > w THEN Period(v - 1) ELSE m
         IN  MissedOK(w, v, n) /\ m <= n
<1>1. t - 1 \in Nat /\ v - 1 \in Nat /\ t - 1 <= v - 1
  BY DEF ClockOK
<1>2. /\ Period(t - 1) \in Nat /\ Period(v - 1) \in Nat
      /\ Period(t - 1) <= Period(v - 1)
  BY <1>1, PeriodNat, PeriodOrder
<1> QED BY <1>2 DEF MissedOK

LEMMA NamedInPeriod ==
  ASSUME NEW u, NEW t, ClockOK(u, t)
  PROVE  /\ NameTime(u, t) \in Nat /\ NameTime(u, t) <= t
         /\ u # 0 => Period(NameTime(u, t)) = Period(u)
<1>1. u \in Nat /\ t \in Nat \ {0} /\ (u # 0 => u <= t)
  BY DEF ClockOK
<1>2. CASE Rotate = -1
  <2>1. NameTime(u, t) = (IF u = 0 THEN t ELSE u)
    BY <1>2 DEF NameTime
  <2> QED BY <1>1, <1>2, <2>1 DEF Period
<1>3. CASE Rotate > 0
  <2>1. NameTime(u, t) = IF Period(u) = 0 THEN t ELSE Period(u)
    BY <1>3 DEF NameTime, Period
  <2>2. CASE u = 0
    <3>1. Period(u) = 0
      BY <1>1, <1>3, <2>2, Periods
    <3> QED BY <1>1, <2>1, <2>2, <3>1
  <2>3. CASE u # 0
    <3>1. /\ Period(u) \in Nat /\ Period(u) > 0 /\ Period(u) <= u
          /\ Period(Period(u)) = Period(u)
      BY <1>1, <1>3, <2>3, Periods DEF ClockOK
    <3> QED BY <1>1, <2>1, <2>3, <3>1
  <2> QED BY <2>2, <2>3
<1> QED BY <1>2, <1>3, IntervalAssumption

LEMMA AddGood ==
  ASSUME NEW f, NEW u, NEW t, NEW m, ClockOK(u, t), FileTyped(f, t), NEW topic \in Topics
  PROVE  LET g == FileAdd(f, topic, u, t)
         IN  FileTyped(g, t) /\ (FileGood(f, u, m) => FileGood(g, u, m))
<1> DEFINE g == FileAdd(f, topic, u, t)
<1>0. u \in Nat /\ t \in Nat /\ u <= t
  BY DEF ClockOK
<1>1. /\ NameTime(u, t) \in Nat /\ NameTime(u, t) <= t
      /\ u # 0 => Period(NameTime(u, t)) = Period(u)
  BY NamedInPeriod
<1>2. /\ f \in FileStore /\ f.lastFlush <= t /\ f.lastRotate <= t
      /\ \A x \in DOMAIN f.files : f.files[x].name <= t
  BY DEF FileTyped
<1>3. /\ g \in FileStore /\ DOMAIN g.files = DOMAIN f.files \cup {topic}
      /\ g.isOpen = f.isOpen /\ g.lastFlush = f.lastFlush /\ g.lastRotate = f.lastRotate
      /\ \A x \in DOMAIN g.files :
           /\ g.files[x].name = IF x \in DOMAIN f.files THEN f.files[x].name
                                ELSE NameTime(u, t)
           /\ g.files[x].dirty = t \/ (x \in DOMAIN f.files
                                       /\ g.files[x].dirty = f.files[x].dirty)
  <2>1. u \in Nat /\ t \in Nat /\ NameTime(u, t) \in Nat /\ f \in FileStore
    BY <1>0, <1>1, <1>2
  <2> QED BY <2>1, FileAdded
<1> HIDE DEF g
<1>4. FileTyped(g, t)
  BY <1>1, <1>2, <1>3 DEF FileTyped
<1>5. ASSUME FileGood(f, u, m), g.isOpen, NEW x \in DOMAIN g.files
      PROVE  InPeriod(g, g.files[x], u, m) /\ Flushing(g, g.files[x], u)
  <2>1. x \in DOMAIN f.files =>
          InPeriod(f, f.files[x], u, m) /\ Flushing(f, f.files[x], u)
    BY <1>3, <1>5 DEF FileGood
  <2>2. InPeriod(g, g.files[x], u, m)
    <3>1. CASE x \in DOMAIN f.files
      BY <1>3, <2>1, <3>1 DEF InPeriod
    <3>2. CASE x \notin DOMAIN f.files
      BY <1>1, <1>3, <3>2 DEF InPeriod
    <3> QED BY <3>1, <3>2
  <2>3. Flushing(g, g.files[x], u)
    <3>1. CASE g.files[x].dirty = t
      BY <1>0, <1>2, <1>3, <3>1 DEF Flushing
    <3>2. CASE x \in DOMAIN f.files /\ g.files[x].dirty = f.files[x].dirty
      BY <1>3, <2>1, <3>2 DEF Flushing
    <3> QED BY <1>3, <3>1, <3>2
  <2> QED BY <2>2, <2>3
<1> QED BY <1>4, <1>5 DEF FileGood, g

(* With a cron at time t the period goes on, or a rotation is due, or the  *)
(* store was opened in the new period, or its first second was missed.     *)
LEMMA PeriodGoesOn ==
  ASSUME NEW f, NEW u, NEW t, NEW m, ClockOK(u, t), MissedOK(u, t, m), FileTyped(f, t),
         ~RotateDue(f, t), NEW x, x.name \in Nat, x.name <= t, InPeriod(f, x, u, m)
  PROVE  InPeriod(f, x, t, m)
<1> DEFINE p == Period(x.name)
<1>1. u \in Nat /\ t \in Nat \ {0} /\ u <= t /\ t - 1 \in Nat
  BY DEF ClockOK
<1>2. f.lastRotate \in Nat /\ f.lastRotate <= t
  BY Maps DEF FileTyped
<1>3. /\ p \in Nat /\ p <= Period(t) /\ Period(t) \in Nat
      /\ Period(u) \in Nat /\ Period(u) <= u
  BY <1>1, PeriodNat, PeriodOrder
<1>4. u # 0 => p = Period(u) \/ p < m \/ p < Period(f.lastRotate)
  BY DEF InPeriod
<1>5. CASE Rotate = -1
  BY <1>5 DEF InPeriod, Period
<1>6. CASE Rotate > 0 /\ t % Rotate # 0
  <2>1. Period(t) = Period(t - 1)
    <3>1. (t - 1) + 1 = t
      BY <1>1
    <3> QED BY <1>1, <1>6, <3>1, Periods
  <2>2. CASE Period(t) > u
    <3>1. m = Period(t)
      BY <2>1, <2>2 DEF MissedOK
    <3> QED BY <1>3, <3>1 DEF InPeriod
  <2>3. CASE Period(t) <= u
    <3>1. Period(u) = Period(t)
      BY <1>1, <2>3, PeriodOrder
    <3>2. CASE u = 0
      <4>1. p = Period(t)
        BY <1>3, <2>3, <3>2
      <4> QED BY <4>1 DEF InPeriod
    <3>3. CASE u # 0
      BY <1>4, <3>1, <3>3 DEF InPeriod
    <3> QED BY <3>2, <3>3
  <2> QED BY <1>1, <1>3, <2>2, <2>3
<1>7. CASE Rotate > 0 /\ t % Rotate = 0
  <2>1. f.lastRotate = t
    BY <1>1, <1>2, <1>7, IntervalAssumption DEF RotateDue
  <2> QED BY <1>3, <2>1 DEF InPeriod
<1> QED BY <1>5, <1>6, <1>7, IntervalAssumption

LEMMA CronGood ==
  ASSUME NEW f, NEW u, NEW t, NEW m, ClockOK(u, t), MissedOK(u, t, m), FileTyped(f, t),
         NEW v \in Nat, t <= v, NEW d \in BOOLEAN, NEW S
  PROVE  LET g == FileCron(f, t, v, d, S)
         IN  FileTyped(g, v) /\ (FileGood(f, u, m) => FileGood(g, t, m))
<1> DEFINE g == FileCron(f, t, v, d, S)
<1>0. t \in Nat /\ u \in Nat
  BY DEF ClockOK
<1>1. /\ f \in FileStore /\ f.lastFlush <= t /\ f.lastRotate <= t
      /\ f.lastFlush \in Nat /\ f.lastRotate \in Nat
      /\ \A x \in DOMAIN f.files : f.files[x].name \in Nat /\ f.files[x].name <= t
  BY Maps DEF FileTyped, FileEntry
<1>2. FileTyped(f, v)
  BY <1>0, <1>1 DEF FileTyped
<1>3. CASE ~f.isOpen
  <2>1. g = f
    BY <1>3 DEF FileCron
  <2> QED BY <1>2, <1>3, <2>1 DEF FileGood
<1>4. CASE f.isOpen /\ RotateDue(f, t)
  <2>1. g = FileOpen(f, v, d)
    BY <1>4 DEF FileCron
  <2>2. FileTyped(g, v) /\ DOMAIN g.files = {}
    BY <1>1, <1>4, <2>1, FileOpened
  <2> QED BY <2>2 DEF FileGood
<1>5. CASE f.isOpen /\ ~RotateDue(f, t) /\ FlushDue(f, t)
  <2>1. g = FileFlush(f, t, S)
    BY <1>5 DEF FileCron
  <2>2. /\ g \in FileStore /\ DOMAIN g.files = DOMAIN f.files
        /\ g.isOpen = f.isOpen /\ g.lastFlush = t /\ g.lastRotate = f.lastRotate
        /\ \A x \in DOMAIN f.files :
             g.files[x].name = f.files[x].name /\ g.files[x].dirty \in {0, t}
    <3> DEFINE h == FileFlush(f, t, S)
    <3>1. /\ h \in FileStore /\ DOMAIN h.files = DOMAIN f.files
          /\ h.isOpen = f.isOpen /\ h.lastFlush = t /\ h.lastRotate = f.lastRotate
          /\ \A x \in DOMAIN f.files :
               h.files[x].name = f.files[x].name /\ h.files[x].dirty \in {0, t}
      BY <1>0, <1>1, FileFlushed
    <3>2. g = h
      BY <2>1
    <3> HIDE DEF g, h
    <3> QED BY <3>1, <3>2
  <2> HIDE DEF g
  <2>3. FileTyped(g, v)
    BY <1>0, <1>1, <2>2 DEF FileTyped
  <2>4. ASSUME FileGood(f, u, m), NEW x \in DOMAIN g.files
        PROVE  InPeriod(g, g.files[x], t, m) /\ Flushing(g, g.files[x], t)
    <3>1. x \in DOMAIN f.files /\ InPeriod(f, f.files[x], u, m)
      BY <1>5, <2>2, <2>4 DEF FileGood
    <3>2. InPeriod(f, f.files[x], t, m)
      BY <1>1, <1>5, <3>1, PeriodGoesOn
    <3>3. InPeriod(g, g.files[x], t, m)
      BY <2>2, <3>1, <3>2 DEF InPeriod
    <3>4. Flushing(g, g.files[x], t)
      BY <1>0, <2>2, <3>1 DEF Flushing
    <3> QED BY <3>3, <3>4
  <2> QED BY <2>3, <2>4 DEF FileGood, g
<1>6. CASE f.isOpen /\ ~RotateDue(f, t) /\ ~FlushDue(f, t)
  <2>1. g = f
    BY <1>6 DEF FileCron
  <2> HIDE DEF g
  <2>2. ASSUME FileGood(f, u, m), NEW x \in DOMAIN f.files
        PROVE  InPeriod(f, f.files[x], t, m) /\ Flushing(f, f.files[x], t)
    <3>1. InPeriod(f, f.files[x], u, m) /\ Flushing(f, f.files[x], u)
      BY <1>6, <2>2 DEF FileGood
    <3>2. InPeriod(f, f.files[x], t, m)
      BY <1>1, <1>6, <3>1, PeriodGoesOn
    <3>3. Flush # -1 => t - f.lastFlush < Flush
      BY <1>0, <1>1, <1>6, IntervalAssumption DEF FlushDue
    <3>4. Flushing(f, f.files[x], t)
      BY <3>1, <3>3 DEF Flushing
    <3> QED BY <3>2, <3>4
  <2> QED BY <1>2, <2>1, <2>2 DEF FileGood, g
<1> QED BY <1>3, <1>4, <1>5, <1>6

(* More is missed. *)
LEMMA GoodGrows ==
  ASSUME NEW f \in FileStore, NEW c, NEW m \in Nat, NEW n \in Nat, m <= n,
         FileGood(f, c, m)
  PROVE  FileGood(f, c, n)
<1>1. ASSUME NEW x \in DOMAIN f.files, InPeriod(f, f.files[x], c, m)
      PROVE  InPeriod(f, f.files[x], c, n)
  <2>1. Period(f.files[x].name) \in Nat
    BY Maps, PeriodNat DEF FileEntry
  <2> QED BY <1>1, <2>1 DEF InPeriod
<1> QED BY <1>1 DEF FileGood
----------------------------------------------------------------------------
(* The configuration check. *)
Verdict(c, i, ok) ==
  CASE c.type[i] \in {"multiple", "priority"} -> ChildrenChecked(c, i, ok)
    [] c.type[i] = "buffer" -> BufferPair(c, i) /\ \A j \in Children(c, i) : ok[j]
    [] c.type[i] = "network" -> c.address[i]
    [] c.type[i] \in {"file", "null"} -> TRUE
    [] OTHER -> FALSE
IsVerdict(ok, c) == ok = [i \in Nodes(c) |-> Verdict(c, i, ok)]

(* The part of the verdict that is about the node itself. *)
Composite(c, i) == c.type[i] \in {"multiple", "priority", "buffer"}
Fine(c, i) ==
  \/ c.type[i] \in {"multiple", "priority"} /\ c.children[i] # <<>>
  \/ c.type[i] = "buffer" /\ BufferPair(c, i)
  \/ c.type[i] = "network" /\ c.address[i]
  \/ c.type[i] \in {"file", "null"}

LEMMA Addresses ==
  ASSUME NEW c, WellFormed(c), NEW i \in Nodes(c)
  PROVE  c.address[i] \in BOOLEAN
<1>1. c.address \in Seq(BOOLEAN) /\ "address" \in DOMAIN c
  BY DEF WellFormed
<1>2. Len(c.address) = Len(c.type)
  BY <1>1 DEF WellFormed
<1> QED BY <1>1, <1>2, Shape

LEMMA VerdictIs ==
  ASSUME NEW c, WellFormed(c), NEW i \in Nodes(c), NEW ok
  PROVE  /\ Verdict(c, i, ok) \in BOOLEAN
         /\ Verdict(c, i, ok) <=>
              Fine(c, i) /\ (Composite(c, i) => \A j \in Children(c, i) : ok[j])
<1>1. c.address[i] \in BOOLEAN
  BY Addresses
<1>2. CASE c.type[i] \in {"multiple", "priority"}
  BY <1>2 DEF Verdict, ChildrenChecked, Fine, Composite
<1>3. CASE c.type[i] = "buffer"
  BY <1>3 DEF Verdict, Fine, Composite
<1>4. CASE c.type[i] = "network"
  BY <1>1, <1>4 DEF Verdict, Fine, Composite
<1>5. CASE c.type[i] \in {"file", "null"}
  BY <1>5 DEF Verdict, Fine, Composite
<1>6. CASE c.type[i] \notin {"multiple", "priority", "buffer", "network", "file", "null"}
  BY <1>6 DEF Verdict, Fine, Composite
<1> QED BY <1>2, <1>3, <1>4, <1>5, <1>6

LEMMA VerdictFixpoint ==
  ASSUME NEW c, WellFormed(c)
  PROVE  \E g : IsVerdict(g, c)
<1> DEFINE N == Nodes(c)
           Bad(i, S) == ~Fine(c, i) \/ (Composite(c, i) /\ \E j \in Children(c, i) : j \in S)
           Closed(S) == \A i \in N : Bad(i, S) => i \in S
           B == {i \in N : \A S \in SUBSET N : Closed(S) => i \in S}
           g == [i \in N |-> i \notin B]
<1>1. ASSUME NEW i \in N, Bad(i, B) PROVE i \in B
  <2> SUFFICES ASSUME NEW S \in SUBSET N, Closed(S) PROVE i \in S
    OBVIOUS
  <2>1. \A j \in B : j \in S
    OBVIOUS
  <2>2. Bad(i, S)
    <3> HIDE DEF B
    <3> QED BY <1>1, <2>1
  <2> QED BY <2>2
<1>2. ASSUME NEW i \in B PROVE Bad(i, B)
  <2> SUFFICES ASSUME ~Bad(i, B) PROVE FALSE
    OBVIOUS
  <2> DEFINE S == B \ {i}
  <2>1. Closed(S)
    <3> HIDE DEF B
    <3> QED BY <1>1
  <2>2. S \in SUBSET N
    OBVIOUS
  <2>3. i \in S
    BY <1>2, <2>1, <2>2
  <2> QED BY <2>3
<1>3. \A i \in N : Children(c, i) \in SUBSET N
  <2>1. N = 1..Len(c.type) /\ Len(c.type) \in Nat
    BY Shape
  <2>2. \A i \in N : Children(c, i) \in SUBSET ((i + 1)..Len(c.type))
    BY Shape
  <2> QED BY <2>1, <2>2
<1> HIDE DEF B
<1>4. ASSUME NEW i \in N PROVE g[i] = Verdict(c, i, g)
  <2>1. g[i] = (i \notin B) /\ \A j \in Children(c, i) : g[j] = (j \notin B)
    BY <1>3
  <2>2. (i \notin B) <=> Fine(c, i) /\ (Composite(c, i) => \A j \in Children(c, i) : j \notin B)
    BY <1>1, <1>2
  <2> HIDE DEF g
  <2>3. /\ Verdict(c, i, g) \in BOOLEAN
        /\ Verdict(c, i, g) <=>
              Fine(c, i) /\ (Composite(c, i) => \A j \in Children(c, i) : g[j])
    BY VerdictIs
  <2> QED BY <2>1, <2>2, <2>3
<1>5. g = [i \in N |-> g[i]]
  OBVIOUS
<1> HIDE DEF g
<1>6. g = [i \in N |-> Verdict(c, i, g)]
  BY <1>4, <1>5
<1> QED BY <1>6 DEF IsVerdict

(* What is built of a configuration that passed is fine, node by node. *)
LEMMA PassedIsFine ==
  ASSUME NEW c, WellFormed(c), c.type # <<>>, CheckStoreConfig(c), NEW i \in Built(c)
  PROVE  i \in Nodes(c) /\ Fine(c, i)
<1> DEFINE ok[k \in Nodes(c)] ==
             CASE c.type[k] \in {"multiple", "priority"} -> ChildrenChecked(c, k, ok)
               [] c.type[k] = "buffer" -> BufferPair(c, k) /\ \A j \in Children(c, k) : ok[j]
               [] c.type[k] = "network" -> c.address[k]
               [] c.type[k] \in {"file", "null"} -> TRUE
               [] OTHER -> FALSE
           n == Len(c.type)
           E == {e \in Edges(c) : c.type[e[1]] \in {"multiple", "priority", "buffer"}}
           B == {k \in Built(c) : ~ok[k]}
<1>1. ok[1]
  BY DEF CheckStoreConfig
<1>2. ok = CHOOSE g : IsVerdict(g, c)
  BY DEF IsVerdict, Verdict
<1> HIDE DEF ok
<1>3. IsVerdict(ok, c)
  <2>1. \E g : IsVerdict(g, c)
    BY VerdictFixpoint, Zenon
  <2> QED BY <1>2, <2>1, Zenon
<1>4. n \in Nat /\ Nodes(c) = 1..n
  BY Shape
<1>5. \A k \in 1..n : ok[k] <=>
        Fine(c, k) /\ (Composite(c, k) => \A j \in Children(c, k) : ok[j])
  <2> SUFFICES ASSUME NEW k \in 1..n
               PROVE  ok[k] <=>
                        Fine(c, k) /\ (Composite(c, k) => \A j \in Children(c, k) : ok[j])
    OBVIOUS
  <2>1. ok[k] = Verdict(c, k, ok)
    BY <1>3, <1>4 DEF IsVerdict
  <2> QED BY <1>4, <2>1, VerdictIs
<1>6. /\ Built(c) \in SUBSET (1..n)
      /\ \A k \in 1..n : k \in Built(c) <=>
           k = 1 \/ \E p \in 1..(k - 1) : p \in Built(c) /\ <<p, k>> \in E
  <2>1. Built(c) = Reached(1..n, 1, E)
    BY <1>4 DEF Built
  <2> HIDE DEF n, E
  <2> QED BY <1>4, <2>1, ReachedRule
<1>7. ASSUME B # {} PROVE FALSE
  <2>1. B \in SUBSET Nat
    BY <1>6
  <2>2. PICK x \in B : \A y \in B : x <= y
    BY <1>7, <2>1, Minimum
  <2>3. x \in 1..n /\ x \in Built(c) /\ ~ok[x] /\ x # 1
    BY <1>1, <1>6
  <2>4. PICK p \in 1..(x - 1) : p \in Built(c) /\ <<p, x>> \in E
    BY <1>6, <2>3
  <2>5. p \in 1..n /\ p < x
    BY <1>4, <2>3, <2>4
  <2>6. ok[p]
    BY <2>2, <2>3, <2>4, <2>5
  <2>7. x \in Children(c, p) /\ Composite(c, p)
    BY <2>4 DEF Edges, Composite
  <2> QED BY <1>5, <2>3, <2>5, <2>6, <2>7
<1> QED BY <1>4, <1>5, <1>6, <1>7

(* The order of a store's children does not matter for the shape. *)
LEMMA Reversed ==
  ASSUME NEW s \in Seq(Nat)
  PROVE  /\ Reverse(s) \in Seq(Nat) /\ Len(Reverse(s)) = Len(s)
         /\ ToSet(Reverse(s)) = ToSet(s)
         /\ \A i \in 1..Len(s) : Reverse(s)[i] = s[(Len(s) - i) + 1]
<1> DEFINE n == Len(s)
           t == Reverse(s)
<1>1. n \in Nat /\ s \in [1..n -> Nat]
  OBVIOUS
<1>2. \A i \in 1..n : (n - i) + 1 \in 1..n /\ (n - ((n - i) + 1)) + 1 = i
  BY <1>1
<1>3. t = [i \in 1..n |-> s[(n - i) + 1]]
  BY DEF Reverse
<1>4. t \in [1..n -> Nat]
  BY <1>1, <1>2, <1>3
<1>5. t \in Seq(Nat) /\ Len(t) = n
  BY <1>1, <1>4
<1>6. DOMAIN t = 1..n /\ DOMAIN s = 1..n
  BY <1>1, <1>4
<1>7. \A i \in 1..n : t[i] = s[(n - i) + 1] /\ t[(n - i) + 1] = s[i]
  BY <1>2, <1>3
<1> HIDE DEF t, n
<1>8. ToSet(t) = ToSet(s)
  BY <1>2, <1>6, <1>7 DEF ToSet
<1> QED BY <1>5, <1>7, <1>8 DEF t, n

LEMMA IsSequence ==
  ASSUME NEW X, NEW n \in Nat, NEW f \in [1..n -> X]
  PROVE  f \in Seq(X) /\ Len(f) = n
  OBVIOUS

LEMMA CheckedTree ==
  ASSUME NEW c, WellFormed(c), c.type # <<>>
  PROVE  /\ WellFormed(Checked(c))
         /\ Built(Checked(c)) = Built(c) /\ Nodes(Checked(c)) = Nodes(c)
         /\ Checked(c).type = c.type /\ Checked(c).buffer = c.buffer
         /\ \A i \in Nodes(c) : Checked(c).children[i] =
              IF c.type[i] = "buffer" /\ c.buffer[c.children[i][1]] = "secondary"
                THEN Reverse(c.children[i]) ELSE c.children[i]
<1> DEFINE n == Len(c.type)
           d == Checked(c)
           C == [i \in Nodes(c) |->
                   IF c.type[i] = "buffer" /\ c.buffer[c.children[i][1]] = "secondary"
                     THEN Reverse(c.children[i]) ELSE c.children[i]]
           T == [i \in Nodes(c) |-> IF c.topic[i] = {} THEN Topics ELSE c.topic[i]]
           Conf == [type : Seq(Words), children : Seq(Seq(Nat)), success : Seq(Words),
                    topic : Seq(SUBSET Topics), buffer : Seq(Words), address : Seq(BOOLEAN)]
<1>1. /\ n \in Nat /\ Nodes(c) = 1..n
      /\ \A i \in 1..n : c.children[i] \in Seq(Nat)
      /\ \A i \in 1..n : Children(c, i) \in SUBSET ((i + 1)..n)
      /\ \A p, q \in 1..n : p # q => Children(c, p) \cap Children(c, q) = {}
      /\ 1..n = Reached(1..n, 1, Edges(c))
  BY Shape
<1>2. c \in Conf /\ d = [c EXCEPT !.children = C, !.topic = T]
  BY DEF WellFormed, Checked
<1>3. /\ c.type \in Seq(Words) /\ c.topic \in Seq(SUBSET Topics) /\ Len(c.topic) = n
      /\ Len(c.success) = n /\ Len(c.buffer) = n /\ Len(c.address) = n
  <2>1. {"topic", "success", "buffer", "address"} \in SUBSET DOMAIN c
    BY <1>2
  <2> QED BY <1>2, <2>1 DEF WellFormed
<1>4. \A i \in 1..n : C[i] \in Seq(Nat) /\ ToSet(C[i]) = ToSet(c.children[i])
  BY <1>1, Reversed
<1>5. C \in Seq(Seq(Nat)) /\ Len(C) = n
  <2>1. C \in [1..n -> Seq(Nat)]
    BY <1>1, <1>4
  <2> HIDE DEF C
  <2> QED BY <1>1, <2>1, IsSequence, Zenon
<1>6. T \in Seq(SUBSET Topics) /\ Len(T) = n
  <2>1. \A i \in 1..n : c.topic[i] \in SUBSET Topics
    BY <1>3
  <2>2. T \in [1..n -> SUBSET Topics]
    BY <1>1, <2>1
  <2> HIDE DEF T
  <2> QED BY <1>1, <2>2
<1>c. \A i \in Nodes(c) : C[i] =
        IF c.type[i] = "buffer" /\ c.buffer[c.children[i][1]] = "secondary"
          THEN Reverse(c.children[i]) ELSE c.children[i]
  OBVIOUS
<1> HIDE DEF C, T
<1>7. /\ d \in Conf /\ d.type = c.type /\ d.children = C /\ d.topic = T
      /\ d.success = c.success /\ d.buffer = c.buffer /\ d.address = c.address
  BY <1>2, <1>5, <1>6
<1> HIDE DEF d
<1>8. Nodes(d) = 1..n
  BY <1>1, <1>7 DEF Nodes
<1>9. \A i \in 1..n : Children(d, i) = Children(c, i)
  BY <1>4, <1>7 DEF Children
<1>10. Edges(d) = Edges(c)
  BY <1>1, <1>8, <1>9 DEF Edges
<1>11. ASSUME NEW key \in DOMAIN d PROVE Len(d[key]) = Len(d.type)
  <2>1. key \in {"type", "children", "success", "topic", "buffer", "address"}
    BY <1>7
  <2> QED BY <1>3, <1>5, <1>6, <1>7, <2>1
<1>12. WellFormed(d)
  BY <1>1, <1>7, <1>8, <1>9, <1>10, <1>11 DEF WellFormed
<1>13. Built(d) = Built(c)
  BY <1>1, <1>7, <1>8, <1>10 DEF Built
<1> QED BY <1>1, <1>7, <1>8, <1>12, <1>13, <1>c DEF d

(* CheckKidsConfig leaves the primary in front. *)
LEMMA PrimaryFirst ==
  ASSUME NEW c, WellFormed(c), c.type # <<>>, CheckStoreConfig(c), NEW i \in Built(Checked(c))
  PROVE  /\ Creates(Checked(c).type[i])
         /\ Checked(c).type[i] = "buffer" =>
              [k \in DOMAIN Checked(c).children[i] |-> Checked(c).buffer[Checked(c).children[i][k]]]
                = <<"primary", "secondary">>
<1> DEFINE d == Checked(c)
           s == c.children[i]
<1>1. /\ i \in Built(c) /\ i \in Nodes(c) /\ d.type = c.type /\ d.buffer = c.buffer
      /\ d.children[i] =
           IF c.type[i] = "buffer" /\ c.buffer[c.children[i][1]] = "secondary"
             THEN Reverse(c.children[i]) ELSE c.children[i]
  <2>1. i \in Built(c)
    BY CheckedTree
  <2>2. i \in Nodes(c)
    BY <2>1, PassedIsFine
  <2> QED BY <2>1, <2>2, CheckedTree
<1>2. Fine(c, i)
  BY <1>1, PassedIsFine
<1>3. Creates(d.type[i])
  BY <1>1, <1>2 DEF Fine, Creates
<1>4. ASSUME c.type[i] = "buffer"
      PROVE  [k \in DOMAIN d.children[i] |-> d.buffer[d.children[i][k]]] = <<"primary", "secondary">>
  <2>1. Len(s) = 2 /\ {c.buffer[j] : j \in ToSet(s)} = {"primary", "secondary"}
    BY <1>2, <1>4 DEF Fine, BufferPair, Children
  <2>2. s \in Seq(Nat)
    BY <1>1, Shape
  <2>3. DOMAIN s = 1..2 /\ ToSet(s) = {s[1], s[2]}
    <3>1. DOMAIN s = 1..2
      BY <2>1, <2>2
    <3>2. 1..2 = {1, 2}
      OBVIOUS
    <3> QED BY <3>1, <3>2 DEF ToSet
  <2>4. {c.buffer[s[1]], c.buffer[s[2]]} = {"primary", "secondary"}
    BY <2>1, <2>3
  <2>5. ASSUME NEW t, t \in Seq(Nat), Len(t) = 2, d.children[i] = t,
               c.buffer[t[1]] = "primary", c.buffer[t[2]] = "secondary"
        PROVE  [k \in DOMAIN d.children[i] |-> d.buffer[d.children[i][k]]]
                 = <<"primary", "secondary">>
    <3>1. DOMAIN t = 1..2
      BY <2>5
    <3>2. [k \in DOMAIN d.children[i] |-> d.buffer[d.children[i][k]]]
            = [k \in 1..2 |-> c.buffer[t[k]]]
      BY <1>1, <2>5, <3>1
    <3>3. [k \in 1..2 |-> c.buffer[t[k]]] = <<"primary", "secondary">>
      BY <2>5
    <3> QED BY <3>2, <3>3
  <2>6. CASE c.buffer[s[1]] = "secondary"
    <3>1. d.children[i] = Reverse(s)
      BY <1>1, <1>4, <2>6
    <3>2. /\ Reverse(s) \in Seq(Nat) /\ Len(Reverse(s)) = 2
          /\ Reverse(s)[1] = s[2] /\ Reverse(s)[2] = s[1]
      <4> DEFINE t == Reverse(s)
      <4>1. /\ t \in Seq(Nat) /\ Len(t) = Len(s)
            /\ \A k \in 1..Len(s) : t[k] = s[(Len(s) - k) + 1]
        BY <2>2, Reversed
      <4> HIDE DEF t
      <4>2. t[1] = s[(2 - 1) + 1] /\ t[2] = s[(2 - 2) + 1]
        BY <2>1, <4>1
      <4> QED BY <2>1, <4>1, <4>2 DEF t
    <3>3. c.buffer[s[2]] = "primary"
      BY <2>4, <2>6
    <3> QED BY <2>5, <2>6, <3>1, <3>2, <3>3
  <2>7. CASE c.buffer[s[1]] # "secondary"
    <3>1. d.children[i] = s
      BY <1>1, <2>7
    <3>2. c.buffer[s[1]] = "primary" /\ c.buffer[s[2]] = "secondary"
      BY <2>4, <2>7
    <3> QED BY <2>1, <2>2, <2>5, <3>1, <3>2
  <2> QED BY <2>6, <2>7
<1> QED BY <1>1, <1>3, <1>4

(* The store of a configuration that has none is built too. *)
LEMMA DefaultTree ==
  /\ WellFormed(NoStore)
  /\ \A i \in Built(NoStore) : NoStore.type[i] = "null"
<1>0. /\ <<"null">> \in Seq(Words) /\ <<"any">> \in Seq(Words) /\ <<"none">> \in Seq(Words)
      /\ <<<<>>>> \in Seq(Seq(Nat)) /\ <<Topics>> \in Seq(SUBSET Topics)
      /\ <<FALSE>> \in Seq(BOOLEAN)
  <2>1. <<>> \in Seq(Nat) /\ Topics \in SUBSET Topics
    OBVIOUS
  <2>2. ASSUME NEW X, NEW x \in X PROVE <<x>> \in Seq(X)
    OBVIOUS
  <2>3. "null" \in Words /\ "any" \in Words /\ "none" \in Words
    BY DEF Words
  <2>4. FALSE \in BOOLEAN
    OBVIOUS
  <2> QED BY <2>1, <2>2, <2>3, <2>4, Zenon
<1>1. /\ NoStore \in [type : Seq(Words), children : Seq(Seq(Nat)), success : Seq(Words),
            topic : Seq(SUBSET Topics), buffer : Seq(Words), address : Seq(BOOLEAN)]
      /\ NoStore.type = <<"null">> /\ NoStore.children = <<<<>>>>
      /\ DOMAIN NoStore = {"type", "children", "success", "topic", "buffer", "address"}
      /\ NoStore.success = <<"any">> /\ NoStore.topic = <<Topics>>
      /\ NoStore.buffer = <<"none">> /\ NoStore.address = <<FALSE>>
  BY <1>0 DEF NoStore
<1>2. Nodes(NoStore) = 1..1 /\ 1..1 = {1} /\ Len(NoStore.type) = 1
  BY <1>1 DEF Nodes
<1>3. Children(NoStore, 1) = {}
  <2>1. NoStore.children[1] = <<>> /\ DOMAIN <<>> = {}
    BY <1>1
  <2> QED BY <2>1 DEF Children, ToSet
<1>4. \A key \in DOMAIN NoStore : Len(NoStore[key]) = 1
  <2>1. ASSUME NEW x PROVE Len(<<x>>) = 1
    OBVIOUS
  <2> QED BY <1>1, <2>1
<1>5. ASSUME NEW E PROVE Reached(1..1, 1, E) = 1..1
  <2>1. 1 \in Nat /\ 1 \in 1..1
    OBVIOUS
  <2>2. /\ Reached(1..1, 1, E) \in SUBSET (1..1)
        /\ \A i \in 1..1 : i \in Reached(1..1, 1, E) <=>
             i = 1 \/ \E p \in 1..(i - 1) : p \in Reached(1..1, 1, E) /\ <<p, i>> \in E
    BY <2>1, ReachedRule, Zenon
  <2> QED BY <1>2, <2>1, <2>2
<1>6. WellFormed(NoStore)
  BY <1>1, <1>2, <1>3, <1>4, <1>5 DEF WellFormed
<1>7. \A i \in Built(NoStore) : i = 1
  BY <1>2, <1>5 DEF Built
<1> QED BY <1>1, <1>6, <1>7
----------------------------------------------------------------------------
(* The invariant. *)
Link == [up : BOOLEAN, state : {"Free", "Sending", "garbage"}, lastTry : Nat]

(* Only a connected network store is sending. *)
LinksGood == link \in [Networks -> Link]
             /\ \A i \in Networks : link[i].state = "Sending" => link[i].up

(* Every file store, and those that are called. *)
FilesGood ==
  \A i \in Files :
    /\ FileTyped(file[i], now)
    /\ i \in Cronned => FileGood(file[i], unixtime, missed)

TimesGood == ClockOK(unixtime, now) /\ MissedOK(unixtime, now, missed)

Inv ==
  /\ TimesGood /\ disk \in BOOLEAN
  /\ phase \in {"parsed", "refused", "accepted", "running"}
  /\ phase = "parsed" => conf \in Confs
  /\ phase \in {"accepted", "running"} => WellFormed(conf)
  /\ AcceptedIsBuilt
  /\ phase = "running" => LinksGood /\ FilesGood

LEMMA SameNodes ==
  ASSUME conf' = conf
  PROVE  Networks' = Networks /\ Files' = Files
  BY DEF Networks, Files, Nodes

LEMMA CheckStep ==
  ASSUME Inv, CheckKidsConfig
  PROVE  Inv'
<1>1. /\ phase = "parsed" /\ conf \in Confs /\ unixtime' = unixtime /\ now' = now
      /\ missed' = missed /\ disk' = disk
  BY DEF Inv, CheckKidsConfig
<1>2. (TimesGood /\ disk \in BOOLEAN)'
  BY <1>1 DEF Inv, TimesGood
<1>3. CASE conf.type = <<>> /\ phase' = "accepted" /\ conf' = NoStore
  <2>1. WellFormed(conf') /\ \A i \in Built(conf') : conf'.type[i] = "null"
    BY <1>3, DefaultTree
  <2>2. AcceptedIsBuilt'
    BY <2>1 DEF AcceptedIsBuilt, Creates
  <2> QED BY <1>2, <1>3, <2>1, <2>2 DEF Inv
<1>4. CASE /\ conf.type # <<>> /\ CheckStoreConfig(conf)
           /\ phase' = "accepted" /\ conf' = Checked(conf)
  <2>1. WellFormed(conf)
    BY <1>1, <1>4, ConfsAssumption
  <2>2. WellFormed(conf')
    BY <1>4, <2>1, CheckedTree
  <2>3. \A i \in Built(conf') :
          /\ Creates(conf'.type[i])
          /\ conf'.type[i] = "buffer" =>
               [k \in DOMAIN conf'.children[i] |-> conf'.buffer[conf'.children[i][k]]]
                 = <<"primary", "secondary">>
    BY <1>4, <2>1, PrimaryFirst
  <2>4. AcceptedIsBuilt'
    BY <2>3 DEF AcceptedIsBuilt
  <2> QED BY <1>2, <1>4, <2>2, <2>4 DEF Inv
<1>5. CASE phase' = "refused"
  BY <1>2, <1>5 DEF Inv, AcceptedIsBuilt
<1> QED BY <1>3, <1>4, <1>5 DEF CheckKidsConfig

LEMMA OpenStep ==
  ASSUME disk \in BOOLEAN, NEW t \in Nat, NEW u \in Nat, OpenTree(t, u), conf' = conf,
         now' = u
  PROVE  LinksGood' /\ FilesGood'
<1>1. Networks' = Networks /\ Files' = Files
  BY SameNodes
<1>2. LinksGood'
  <2>1. link' \in [Networks -> [up : BOOLEAN, state : {"Free", "garbage"}, lastTry : {t}]]
    BY DEF OpenTree, NewLink
  <2>2. \A i \in Networks : link'[i] \in [up : BOOLEAN, state : {"Free", "garbage"}, lastTry : {t}]
    BY <2>1
  <2>3. \A i \in Networks : link'[i] \in Link /\ link'[i].state # "Sending"
    BY <2>2 DEF Link
  <2>4. link' \in [Networks -> Link]
    BY <2>1, <2>3
  <2> QED BY <1>1, <2>3, <2>4 DEF LinksGood
<1>3. ASSUME NEW i \in Files PROVE FileTyped(file'[i], now') /\ DOMAIN file'[i].files = {}
  <2>1. file'[i] = FileOpen(NewFileStore, u, disk)
    BY DEF OpenTree
  <2>2. FileTyped(file'[i], u) /\ DOMAIN file'[i].files = {}
    BY <2>1, NewStore, FileOpened
  <2> QED BY <2>2
<1>4. FilesGood'
  BY <1>1, <1>3 DEF FilesGood, FileGood
<1> QED BY <1>2, <1>4

(* The parts of the invariant that a running tree's steps have to show. *)
LEMMA RunningStep ==
  ASSUME Inv, phase = "running", phase' = phase, conf' = conf,
         TimesGood', disk' \in BOOLEAN, LinksGood', FilesGood'
  PROVE  Inv'
<1>1. AcceptedIsBuilt' /\ WellFormed(conf')
  BY DEF Inv, AcceptedIsBuilt
<1> QED BY <1>1 DEF Inv

LEMMA CreateStep ==
  ASSUME Inv, Create
  PROVE  Inv'
<1>1. /\ phase = "accepted" /\ phase' = "running" /\ OpenTree(now, now) /\ conf' = conf
      /\ now' = now /\ unixtime' = unixtime /\ missed' = missed /\ disk' = disk
  BY DEF Create, environment
<1>2. disk \in BOOLEAN /\ now \in Nat /\ TimesGood' /\ WellFormed(conf)
  BY <1>1 DEF Inv, TimesGood, ClockOK
<1>3. LinksGood' /\ FilesGood'
  BY <1>1, <1>2, OpenStep
<1>4. AcceptedIsBuilt'
  BY <1>1 DEF Inv, AcceptedIsBuilt
<1> QED BY <1>1, <1>2, <1>3, <1>4 DEF Inv

(* The clock is set, and time goes on, in a cron. *)
LEMMA CronTimes ==
  ASSUME TimesGood, NEW d \in Nat, unixtime' = now, now' = now + d,
         missed' = Missed(now, now + d)
  PROVE  /\ now \in Nat \ {0} /\ now' \in Nat /\ now <= now' /\ TimesGood'
         /\ missed \in Nat /\ missed' \in Nat /\ missed <= missed'
<1>1. ClockOK(unixtime, now) /\ MissedOK(unixtime, now, missed)
  BY DEF TimesGood
<1>2. now \in Nat \ {0} /\ now + d \in Nat /\ now <= now + d /\ now >= Rotate
  BY <1>1 DEF ClockOK
<1>3. MissedOK(now, now + d, Missed(now, now + d)) /\ missed <= Missed(now, now + d)
  BY <1>1, <1>2, MissedGrows DEF Missed
<1>4. ClockOK(unixtime', now')
  BY <1>2, IntervalAssumption DEF ClockOK
<1> QED BY <1>1, <1>2, <1>3, <1>4 DEF TimesGood, MissedOK

LEMMA ReloadStep ==
  ASSUME Inv, NEW d \in Nat, Reload(d)
  PROVE  Inv'
<1>1. /\ phase = "running" /\ phase' = phase /\ OpenTree(now, now') /\ conf' = conf
      /\ unixtime' = now /\ now' = now + d /\ missed' = Missed(now, now + d)
      /\ disk' = disk
  BY DEF Reload, environment
<1>2. disk \in BOOLEAN /\ TimesGood
  BY <1>1 DEF Inv
<1>3. TimesGood' /\ now \in Nat /\ now' \in Nat
  BY <1>1, <1>2, CronTimes
<1>4. LinksGood' /\ FilesGood'
  BY <1>1, <1>2, <1>3, OpenStep
<1> QED BY <1>1, <1>2, <1>3, <1>4, RunningStep

LEMMA StoreStep ==
  ASSUME Inv, NEW topic \in Topics, StoreMessage(topic)
  PROVE  Inv'
<1> DEFINE took == {i \in Asked(topic) : /\ conf.type[i] \in Simple
                                         /\ topic \in conf.topic[i] /\ Takes(i, topic)}
<1>1. /\ phase = "running" /\ phase' = phase /\ conf' = conf /\ isOpen' = isOpen
      /\ unixtime' = unixtime /\ now' = now /\ missed' = missed /\ disk' = disk
      /\ link' = [i \in Networks |->
                    IF i \in took THEN [link[i] EXCEPT !.state = "Sending"] ELSE link[i]]
      /\ file' = [i \in Files |->
                    IF i \in took THEN FileAdd(file[i], topic, unixtime, now) ELSE file[i]]
  BY DEF StoreMessage, environment
<1>2. Networks' = Networks /\ Files' = Files /\ Cronned' = Cronned
  BY <1>1, SameNodes DEF Cronned, Edges, Nodes, Children
<1>3. /\ LinksGood /\ FilesGood /\ ClockOK(unixtime, now) /\ TimesGood'
      /\ disk \in BOOLEAN
  BY <1>1 DEF Inv, TimesGood
<1>4. \A i \in Networks : i \in took => link[i].up
  BY DEF Networks, Simple, Takes
<1> HIDE DEF took
<1>5. ASSUME NEW i \in Networks
      PROVE  link'[i] \in Link /\ (link'[i].state = "Sending" => link'[i].up)
  <2>1. link[i] \in Link /\ (link[i].state = "Sending" => link[i].up)
    BY <1>3 DEF LinksGood
  <2>2. CASE i \in took
    <3>1. link'[i] = [link[i] EXCEPT !.state = "Sending"]
      BY <1>1, <2>2
    <3>2. link'[i] \in Link /\ link'[i].up = link[i].up
      BY <2>1, <3>1 DEF Link
    <3> QED BY <1>4, <2>2, <3>2
  <2>3. CASE i \notin took
    BY <1>1, <2>1, <2>3
  <2> QED BY <2>2, <2>3
<1>6. LinksGood'
  BY <1>1, <1>2, <1>5 DEF LinksGood
<1>7. ASSUME NEW i \in Files
      PROVE  /\ FileTyped(file'[i], now)
             /\ i \in Cronned => FileGood(file'[i], unixtime, missed)
  <2>1. /\ FileTyped(file[i], now)
        /\ i \in Cronned => FileGood(file[i], unixtime, missed)
    BY <1>3 DEF FilesGood
  <2>2. CASE i \in took
    <3>1. file'[i] = FileAdd(file[i], topic, unixtime, now)
      BY <1>1, <2>2
    <3> QED BY <1>3, <2>1, <3>1, AddGood
  <2>3. CASE i \notin took
    BY <1>1, <2>1, <2>3
  <2> QED BY <2>2, <2>3
<1>8. FilesGood'
  BY <1>1, <1>2, <1>7 DEF FilesGood
<1> QED BY <1>1, <1>3, <1>6, <1>8, RunningStep

LEMMA TypedLater ==
  ASSUME NEW f, NEW t \in Nat, NEW v \in Nat, t <= v, FileTyped(f, t)
  PROVE  FileTyped(f, v)
<1>1. /\ f.lastFlush \in Nat /\ f.lastRotate \in Nat
      /\ \A x \in DOMAIN f.files : f.files[x].name \in Nat
  BY Maps DEF FileTyped, FileEntry
<1> QED BY <1>1 DEF FileTyped

LEMMA CronStep ==
  ASSUME Inv, NEW d \in Nat, Cron(d)
  PROVE  Inv'
<1>1. /\ phase = "running" /\ phase' = phase /\ conf' = conf /\ isOpen' = isOpen
      /\ unixtime' = now /\ now' = now + d /\ missed' = Missed(now, now + d)
      /\ disk' = disk
      /\ link' = [i \in Networks |-> IF i \in Cronned THEN LinkCron(i) ELSE link[i]]
  BY DEF Cron, environment
<1>2. PICK failing :
        file' = [i \in Files |->
                   IF i \in Cronned THEN FileCron(file[i], now, now', disk, failing[i])
                                   ELSE file[i]]
  BY DEF Cron
<1>3. Networks' = Networks /\ Files' = Files /\ Cronned' = Cronned
  BY <1>1, SameNodes DEF Cronned, Edges, Nodes, Children
<1>4. /\ LinksGood /\ FilesGood /\ TimesGood /\ disk \in BOOLEAN
      /\ ClockOK(unixtime, now) /\ MissedOK(unixtime, now, missed)
  BY <1>1 DEF Inv, TimesGood
<1>5. /\ now \in Nat \ {0} /\ now' \in Nat /\ now <= now' /\ TimesGood'
      /\ missed \in Nat /\ missed' \in Nat /\ missed <= missed'
  BY <1>1, <1>4, CronTimes
<1>6. ASSUME NEW i \in Networks
      PROVE  link'[i] \in Link /\ (link'[i].state = "Sending" => link'[i].up)
  <2>1. link[i] \in Link /\ (link[i].state = "Sending" => link[i].up)
    BY <1>4 DEF LinksGood
  <2>2. CASE i \in Cronned /\ ~link[i].up /\ now - link[i].lastTry >= Reconnect
    <3>1. link'[i] = [up |-> i \in reachable, lastTry |-> now,
                      state |-> IF i \in reachable THEN "Free" ELSE link[i].state]
      BY <1>1, <2>2 DEF LinkCron
    <3>2. link[i].state \in {"Free", "garbage"}
      BY <2>1, <2>2 DEF Link
    <3>3. link'[i].state \in {"Free", "garbage"}
      BY <3>1, <3>2
    <3>4. link'[i] \in Link
      BY <1>5, <3>1, <3>2 DEF Link
    <3> QED BY <3>3, <3>4
  <2>3. CASE ~(i \in Cronned /\ ~link[i].up /\ now - link[i].lastTry >= Reconnect)
    <3>1. link'[i] = link[i]
      BY <1>1, <2>3 DEF LinkCron
    <3> QED BY <2>1, <3>1
  <2> QED BY <2>2, <2>3
<1>7. LinksGood'
  BY <1>1, <1>3, <1>6 DEF LinksGood
<1>8. ASSUME NEW i \in Files
      PROVE  FileTyped(file'[i], now') /\ (i \in Cronned => FileGood(file'[i], now, missed'))
  <2>1. /\ FileTyped(file[i], now)
        /\ i \in Cronned => FileGood(file[i], unixtime, missed)
    BY <1>4 DEF FilesGood
  <2>2. CASE i \in Cronned
    <3>1. file'[i] = FileCron(file[i], now, now', disk, failing[i])
      BY <1>2, <2>2
    <3>2. FileTyped(file'[i], now') /\ FileGood(file'[i], now, missed)
      BY <1>4, <1>5, <2>1, <2>2, <3>1, CronGood
    <3>3. file'[i] \in FileStore
      BY <3>2 DEF FileTyped
    <3> QED BY <1>5, <3>2, <3>3, GoodGrows
  <2>3. CASE i \notin Cronned
    <3>1. file'[i] = file[i]
      BY <1>2, <2>3
    <3> QED BY <1>5, <2>1, <2>3, <3>1, TypedLater
  <2> QED BY <2>2, <2>3
<1>9. FilesGood'
  BY <1>1, <1>3, <1>8 DEF FilesGood
<1> QED BY <1>1, <1>4, <1>5, <1>7, <1>9, RunningStep

LEMMA OnMsgSentStep ==
  ASSUME Inv, NEW i \in Networks, OnMsgSent(i) \/ OnDisconnect(i)
  PROVE  Inv'
<1>1. /\ phase = "running" /\ phase' = phase /\ conf' = conf /\ isOpen' = isOpen
      /\ unixtime' = unixtime /\ now' = now /\ missed' = missed /\ disk' = disk
      /\ file' = file
  BY DEF OnMsgSent, OnDisconnect, environment
<1>2. Networks' = Networks /\ Files' = Files /\ Cronned' = Cronned
  BY <1>1, SameNodes DEF Cronned, Edges, Nodes, Children
<1>3. LinksGood /\ FilesGood /\ TimesGood' /\ disk \in BOOLEAN
  BY <1>1 DEF Inv, TimesGood
<1>4. /\ link' \in [Networks -> Link] /\ link'[i].state = "Free"
      /\ \A j \in Networks : j # i => link'[j] = link[j]
  <2>1. link \in [Networks -> Link] /\ link[i] \in Link
    BY <1>3 DEF LinksGood
  <2>2. PICK l \in Link : l.state = "Free" /\ link' = [link EXCEPT ![i] = l]
    <3>1. CASE OnMsgSent(i)
      <4>1. [link[i] EXCEPT !.state = "Free"] \in Link
        BY <2>1 DEF Link
      <4>2. [link[i] EXCEPT !.state = "Free"].state = "Free"
        BY <2>1 DEF Link
      <4>3. link' = [link EXCEPT ![i] = [link[i] EXCEPT !.state = "Free"]]
        BY <2>1, <3>1 DEF OnMsgSent
      <4> QED BY <4>1, <4>2, <4>3
    <3>2. CASE OnDisconnect(i)
      <4>1. LinkClose(link[i]) \in Link
        BY <2>1 DEF Link, LinkClose
      <4>2. LinkClose(link[i]).state = "Free"
        BY <2>1 DEF Link, LinkClose
      <4>3. link' = [link EXCEPT ![i] = LinkClose(link[i])]
        BY <2>1, <3>2 DEF OnDisconnect
      <4> QED BY <4>1, <4>2, <4>3
    <3> QED BY <3>1, <3>2
  <2> QED BY <2>1, <2>2
<1>5. LinksGood'
  BY <1>2, <1>3, <1>4 DEF LinksGood
<1>6. FilesGood'
  BY <1>1, <1>2, <1>3 DEF FilesGood
<1> QED BY <1>1, <1>3, <1>5, <1>6, RunningStep

LEMMA TickStep ==
  ASSUME Inv, Tick
  PROVE  Inv'
<1>1. /\ phase = "running" /\ phase' = phase /\ conf' = conf /\ isOpen' = isOpen
      /\ unixtime' = unixtime /\ now' = now + 1 /\ missed' = Missed(unixtime, now + 1)
      /\ disk' = disk /\ file' = file /\ link' = link
  BY DEF Tick, environment
<1>2. Networks' = Networks /\ Files' = Files /\ Cronned' = Cronned
  BY <1>1, SameNodes DEF Cronned, Edges, Nodes, Children
<1>3. /\ LinksGood /\ FilesGood /\ disk \in BOOLEAN
      /\ ClockOK(unixtime, now) /\ MissedOK(unixtime, now, missed)
  BY <1>1 DEF Inv, TimesGood
<1>4. /\ unixtime \in Nat /\ now \in Nat /\ now + 1 \in Nat /\ now <= now + 1
      /\ ClockOK(unixtime', now')
  BY <1>1, <1>3, IntervalAssumption DEF ClockOK
<1>5. MissedOK(unixtime', now', missed') /\ missed <= missed'
  BY <1>1, <1>3, <1>4, MissedGrows DEF Missed
<1>6. TimesGood' /\ missed \in Nat /\ missed' \in Nat
  BY <1>3, <1>4, <1>5 DEF TimesGood, MissedOK
<1>7. ASSUME NEW i \in Files
      PROVE  FileTyped(file[i], now') /\ (i \in Cronned => FileGood(file[i], unixtime, missed'))
  <2>1. /\ FileTyped(file[i], now) /\ file[i] \in FileStore
        /\ i \in Cronned => FileGood(file[i], unixtime, missed)
    BY <1>3 DEF FilesGood, FileTyped
  <2>2. FileTyped(file[i], now')
    BY <1>1, <1>4, <2>1, TypedLater
  <2> QED BY <1>5, <1>6, <2>1, <2>2, GoodGrows
<1>8. FilesGood'
  BY <1>1, <1>2, <1>7 DEF FilesGood
<1>9. LinksGood'
  BY <1>1, <1>2, <1>3 DEF LinksGood
<1> QED BY <1>1, <1>3, <1>6, <1>8, <1>9, RunningStep

LEMMA OutsideStep ==
  ASSUME Inv, Outside
  PROVE  Inv'
<1>1. /\ phase = "running" /\ phase' = phase /\ conf' = conf /\ isOpen' = isOpen
      /\ unixtime' = unixtime /\ now' = now /\ missed' = missed /\ file' = file
      /\ link' = link
  BY DEF Outside
<1>2. Networks' = Networks /\ Files' = Files /\ Cronned' = Cronned
  BY <1>1, SameNodes DEF Cronned, Edges, Nodes, Children
<1>3. LinksGood /\ FilesGood /\ TimesGood' /\ disk \in BOOLEAN
  BY <1>1 DEF Inv, TimesGood
<1>4. disk' \in BOOLEAN
  BY <1>3 DEF Outside
<1>5. LinksGood' /\ FilesGood'
  BY <1>1, <1>2, <1>3 DEF LinksGood, FilesGood
<1> QED BY <1>1, <1>3, <1>4, <1>5, RunningStep

LEMMA Stutter ==
  ASSUME Inv, UNCHANGED vars
  PROVE  Inv'
<1>1. /\ phase' = phase /\ conf' = conf /\ isOpen' = isOpen /\ disk' = disk
      /\ unixtime' = unixtime /\ now' = now /\ missed' = missed /\ file' = file
      /\ link' = link
  BY DEF vars
<1>2. Networks' = Networks /\ Files' = Files /\ Cronned' = Cronned
  BY <1>1, SameNodes DEF Cronned, Edges, Nodes, Children
<1>3. CASE phase = "running"
  <2>1. LinksGood /\ FilesGood /\ TimesGood' /\ disk \in BOOLEAN
    BY <1>1, <1>3 DEF Inv, TimesGood
  <2>2. LinksGood' /\ FilesGood'
    BY <1>1, <1>2, <2>1 DEF LinksGood, FilesGood
  <2> QED BY <1>1, <1>3, <2>1, <2>2, RunningStep
<1>4. CASE phase # "running"
  BY <1>1, <1>4 DEF Inv, AcceptedIsBuilt, TimesGood
<1> QED BY <1>3, <1>4

(* The parts of Inv hold in every state of every behaviour: what is        *)
(* accepted is a tree that can be built, a network store is sending only   *)
(* while it is connected, and a file store whose cron runs has no file of  *)
(* an earlier period without a reason and none that waits for a flush.     *)
THEOREM Invariance == Spec => []Inv
<1>1. Init => Inv
  <2> SUFFICES ASSUME Init PROVE Inv
    OBVIOUS
  <2>1. now \in Nat \ {0} /\ now >= Rotate /\ now - 1 \in Nat
    BY TreeAssumption DEF Init
  <2>2. Period(now - 1) \in Nat
    BY <2>1, PeriodNat
  <2>3. TimesGood
    BY <2>1, <2>2 DEF Init, TimesGood, ClockOK, MissedOK
  <2> QED BY <2>3 DEF Init, Inv, AcceptedIsBuilt
<1>2. Inv /\ [Next]_vars => Inv'
  <2> SUFFICES ASSUME Inv, [Next]_vars PROVE Inv'
    OBVIOUS
  <2>1. CASE CheckKidsConfig BY <2>1, CheckStep
  <2>2. CASE Create BY <2>2, CreateStep
  <2>3. CASE \E t \in Topics : StoreMessage(t) BY <2>3, StoreStep
  <2>4. CASE \E d \in 0..(MaxTime - now) : Cron(d) \/ Reload(d)
    BY <2>4, CronStep, ReloadStep
  <2>5. CASE \E i \in Networks : OnMsgSent(i) \/ OnDisconnect(i) BY <2>5, OnMsgSentStep
  <2>6. CASE Tick BY <2>6, TickStep
  <2>7. CASE Outside BY <2>7, OutsideStep
  <2>8. CASE UNCHANGED vars BY <2>8, Stutter
  <2> QED BY <2>1, <2>2, <2>3, <2>4, <2>5, <2>6, <2>7, <2>8 DEF Next
<1> QED BY <1>1, <1>2, PTL DEF Spec

(* Whatever the grammar builds and CheckStoreConfig accepts, Store::Create *)
(* can make: no type it does not know anywhere below the root, and every   *)
(* buffer store with its primary first and its secondary second.           *)
THEOREM AcceptedTrees == Spec => []AcceptedIsBuilt
<1>1. Inv => AcceptedIsBuilt
  BY DEF Inv
<1> QED BY <1>1, Invariance, PTL

(* FileStore::Cron and DoAddMessage keep every file of a store whose cron  *)
(* runs in the period of the storer's clock, whatever the interval and     *)
(* however long the crons take: only a first second of a period without a  *)
(* cron, or an Open in the period after that of the clock, leaves one.     *)
THEOREM Rotations == Spec => []RightPeriod
<1>1. Inv => RightPeriod
  <2> SUFFICES ASSUME Inv, phase = "running", unixtime # 0, NEW i \in Files,
                      file[i].isOpen, Served(i), NEW t \in DOMAIN file[i].files
               PROVE  LET p == Period(file[i].files[t].name)
                      IN  \/ p = Period(unixtime)
                          \/ p < missed
                          \/ p < Period(file[i].lastRotate)
    BY DEF RightPeriod
  <2>1. i \in Cronned
    BY ServedRuns DEF Inv, Files
  <2>2. FileGood(file[i], unixtime, missed)
    BY <2>1 DEF Inv, FilesGood
  <2>3. InPeriod(file[i], file[i].files[t], unixtime, missed)
    BY <2>2 DEF FileGood
  <2> QED BY <2>3 DEF InPeriod
<1> QED BY <1>1, Invariance, PTL

(* FileStore::Cron asks in time for every file to be flushed, and again in *)
(* time for one whose flush failed, whatever the two intervals are and     *)
(* however long the crons take.                                            *)
THEOREM Flushes == Spec => []FlushTried
<1>1. Inv => FlushTried
  <2> SUFFICES ASSUME Inv, phase = "running", NEW i \in Files, file[i].isOpen, Served(i),
                      Flush # -1, NEW t \in DOMAIN file[i].files,
                      file[i].files[t].dirty # 0
               PROVE  unixtime - file[i].files[t].dirty < IF Flush = 0 THEN 1 ELSE Flush
    BY DEF FlushTried
  <2> DEFINE d == file[i].files[t].dirty
             s == file[i].lastFlush
  <2>1. i \in Cronned
    BY ServedRuns DEF Inv, Files
  <2>2. FileTyped(file[i], now) /\ FileGood(file[i], unixtime, missed)
    BY <2>1 DEF Inv, FilesGood
  <2>3. s <= d /\ (unixtime <= d \/ unixtime - s < Flush)
    BY <2>2 DEF FileGood, Flushing
  <2>4. s \in Nat /\ d \in Nat
    BY <2>2, Maps DEF FileTyped, FileEntry
  <2>5. unixtime \in Nat
    BY DEF Inv, TimesGood, ClockOK
  <2> HIDE DEF s
  <2> QED BY <2>3, <2>4, <2>5, IntervalAssumption
<1> QED BY <1>1, Invariance, PTL

(* NetworkStore::Close resets state_ wherever the connection ends, so that *)
(* Storer::StoreMessage does not wait for a store that cannot answer.      *)
THEOREM NotBlocked == Spec => []BlockedForAReason
<1>1. Inv => BlockedForAReason
  BY DEF Inv, LinksGood, BlockedForAReason, Link
<1> QED BY <1>1, Invariance, PTL
----------------------------------------------------------------------------
(* Who takes a message.  Accepts is the function its equation says: again  *)
(* the members of a least set.                                             *)
Decision(topic, i, a) ==
  /\ topic \in conf.topic[i]
  /\ CASE conf.type[i] \in Simple -> Takes(i, topic)
       [] NeedsAll(i) -> \A j \in Children(conf, i) : a[j]
       [] OTHER -> \E j \in Children(conf, i) : a[j]
IsDecision(a, topic) == a = [i \in Nodes(conf) |-> Decision(topic, i, a)]

(* The tree that runs. *)
Running == phase = "running" /\ WellFormed(conf) /\ conf \in Started /\ LinksGood

LEMMA Kinds ==
  ASSUME Running, NEW i \in Nodes(conf)
  PROVE  \/ conf.type[i] \in {"multiple", "priority"} /\ conf.type[i] \notin Simple
         \/ conf.type[i] \in Simple /\ Children(conf, i) = {}
  BY StartedAssumption DEF Running, Simple, Children, ToSet

LEMMA DecisionIs ==
  ASSUME Running, NEW i \in Nodes(conf), NEW topic, NEW a
  PROVE  /\ Decision(topic, i, a) \in BOOLEAN
         /\ Decision(topic, i, a) <=>
              /\ topic \in conf.topic[i]
              /\ \/ conf.type[i] \in Simple /\ Takes(i, topic)
                 \/ NeedsAll(i) /\ \A j \in Children(conf, i) : a[j]
                 \/ /\ conf.type[i] \notin Simple /\ ~NeedsAll(i)
                    /\ \E j \in Children(conf, i) : a[j]
<1>1. CASE conf.type[i] \in Simple
  <2>1. Takes(i, topic) \in BOOLEAN
    <3>1. CASE conf.type[i] = "network"
      <4>1. i \in Networks
        BY <3>1 DEF Networks
      <4>2. link[i] \in Link
        BY <4>1 DEF Running, LinksGood
      <4> QED BY <3>1, <4>2 DEF Takes, Link
    <3>2. CASE conf.type[i] = "file"
      BY <3>2 DEF Takes, FileAccepts
    <3>3. CASE conf.type[i] = "null"
      BY <3>3 DEF Takes
    <3> QED BY <1>1, <3>1, <3>2, <3>3 DEF Simple
  <2> QED BY <1>1, <2>1 DEF Decision, Simple, NeedsAll
<1>2. CASE conf.type[i] = "priority"
  BY <1>2 DEF Decision, Simple, NeedsAll
<1>3. CASE conf.type[i] = "multiple"
  BY <1>3 DEF Decision, Simple, NeedsAll
<1> QED BY <1>1, <1>2, <1>3, Kinds

LEMMA DecisionFixpoint ==
  ASSUME Running, NEW topic
  PROVE  \E a : IsDecision(a, topic)
<1> DEFINE N == Nodes(conf)
           Good(i, S) ==
             /\ topic \in conf.topic[i]
             /\ \/ conf.type[i] \in Simple /\ Takes(i, topic)
                \/ NeedsAll(i) /\ \A j \in Children(conf, i) : j \in S
                \/ /\ conf.type[i] \notin Simple /\ ~NeedsAll(i)
                   /\ \E j \in Children(conf, i) : j \in S
           Closed(S) == \A i \in N : Good(i, S) => i \in S
           L == {i \in N : \A S \in SUBSET N : Closed(S) => i \in S}
           a == [i \in N |-> i \in L]
<1>1. ASSUME NEW i \in N, Good(i, L) PROVE i \in L
  <2> SUFFICES ASSUME NEW S \in SUBSET N, Closed(S) PROVE i \in S
    OBVIOUS
  <2>1. \A j \in L : j \in S
    OBVIOUS
  <2>2. Good(i, S)
    <3> HIDE DEF L
    <3> QED BY <1>1, <2>1
  <2> QED BY <2>2
<1>2. ASSUME NEW i \in L PROVE Good(i, L)
  <2> SUFFICES ASSUME ~Good(i, L) PROVE FALSE
    OBVIOUS
  <2> DEFINE S == L \ {i}
  <2>1. Closed(S)
    <3> HIDE DEF L
    <3> QED BY <1>1
  <2>2. S \in SUBSET N
    OBVIOUS
  <2>3. i \in S
    BY <1>2, <2>1, <2>2
  <2> QED BY <2>3
<1>3. \A i \in N : Children(conf, i) \in SUBSET N
  <2>1. N = 1..Len(conf.type) /\ Len(conf.type) \in Nat
    BY Shape DEF Running
  <2>2. \A i \in N : Children(conf, i) \in SUBSET ((i + 1)..Len(conf.type))
    BY Shape DEF Running
  <2> QED BY <2>1, <2>2
<1> HIDE DEF L
<1>4. ASSUME NEW i \in N PROVE a[i] = Decision(topic, i, a)
  <2>1. a[i] = (i \in L) /\ \A j \in Children(conf, i) : a[j] = (j \in L)
    BY <1>3
  <2>2. (i \in L) <=> Good(i, L)
    BY <1>1, <1>2
  <2> HIDE DEF a
  <2>3. /\ Decision(topic, i, a) \in BOOLEAN
        /\ Decision(topic, i, a) <=>
             /\ topic \in conf.topic[i]
             /\ \/ conf.type[i] \in Simple /\ Takes(i, topic)
                \/ NeedsAll(i) /\ \A j \in Children(conf, i) : a[j]
                \/ /\ conf.type[i] \notin Simple /\ ~NeedsAll(i)
                   /\ \E j \in Children(conf, i) : a[j]
    BY DecisionIs
  <2>4. (\A j \in Children(conf, i) : a[j]) <=> (\A j \in Children(conf, i) : j \in L)
    BY <2>1
  <2>5. (\E j \in Children(conf, i) : a[j]) <=> (\E j \in Children(conf, i) : j \in L)
    BY <2>1
  <2>6. Decision(topic, i, a) <=> Good(i, L)
    BY <2>3, <2>4, <2>5, Zenon
  <2> QED BY <2>1, <2>2, <2>3, <2>6
<1>5. a = [i \in N |-> a[i]]
  OBVIOUS
<1> HIDE DEF a
<1>6. a = [i \in N |-> Decision(topic, i, a)]
  BY <1>4, <1>5
<1> QED BY <1>6 DEF IsDecision

LEMMA AcceptsRule ==
  ASSUME Running, NEW i \in Nodes(conf), NEW topic
  PROVE  Accepts(topic)[i] <=>
           /\ topic \in conf.topic[i]
           /\ \/ conf.type[i] \in Simple /\ Takes(i, topic)
              \/ NeedsAll(i) /\ \A j \in Children(conf, i) : Accepts(topic)[j]
              \/ /\ conf.type[i] \notin Simple /\ ~NeedsAll(i)
                 /\ \E j \in Children(conf, i) : Accepts(topic)[j]
<1> DEFINE a[k \in Nodes(conf)] ==
             /\ topic \in conf.topic[k]
             /\ CASE conf.type[k] \in Simple -> Takes(k, topic)
                  [] NeedsAll(k) -> \A j \in Children(conf, k) : a[j]
                  [] OTHER -> \E j \in Children(conf, k) : a[j]
<1>0. a = Accepts(topic)
  BY DEF Accepts
<1>1. a = CHOOSE g : IsDecision(g, topic)
  BY DEF IsDecision, Decision
<1> HIDE DEF a
<1>2. IsDecision(a, topic)
  <2>1. \E g : IsDecision(g, topic)
    BY DecisionFixpoint, Zenon
  <2> QED BY <1>1, <2>1, Zenon
<1>3. a[i] = Decision(topic, i, a)
  BY <1>2 DEF IsDecision
<1>4. a[i] <=>
        /\ topic \in conf.topic[i]
        /\ \/ conf.type[i] \in Simple /\ Takes(i, topic)
           \/ NeedsAll(i) /\ \A j \in Children(conf, i) : a[j]
           \/ /\ conf.type[i] \notin Simple /\ ~NeedsAll(i)
              /\ \E j \in Children(conf, i) : a[j]
  BY <1>3, DecisionIs
<1> QED BY <1>0, <1>4

(* A success is a success to every store above it, up to one that needs    *)
(* all of its stores: follow the branch from the store upwards.            *)
LEMMA Branch ==
  ASSUME Running, NEW topic, NEW x \in Asked(topic), Accepts(topic)[x],
         NEW k \in Ancestors(x), \A m \in Ancestors(x) : k < m => ~NeedsAll(m)
  PROVE  \E c \in Children(conf, k) :
           /\ x \in Reached(Nodes(conf), c, Edges(conf))
           /\ Accepts(topic)[c] /\ Reaches(k, c, Accepts(topic))
<1> DEFINE n == Len(conf.type)
           E == Edges(conf)
           acc == Accepts(topic)
           F == {e \in Edges(conf) : topic \in conf.topic[e[1]] /\ Reaches(e[1], e[2], acc)}
           asked == Asked(topic)
           below == Reached(1..n, k, E)
           Above(y) == x \in Reached(1..n, y, E)
           D == {y \in 1..n : y # k /\ y \in below /\ Above(y) /\ y \in asked /\ acc[y]}
<1>1. /\ n \in Nat /\ Nodes(conf) = 1..n
      /\ \A i \in 1..n : Children(conf, i) \in SUBSET ((i + 1)..n)
      /\ \A p, q \in 1..n : p # q => Children(conf, p) \cap Children(conf, q) = {}
  BY Shape DEF Running
<1>2. \A p, q \in 1..n : <<p, q>> \in E <=> q \in Children(conf, p)
  BY <1>1 DEF Edges
<1>3. k \in 1..n /\ k # x /\ Above(k)
  BY <1>1 DEF Ancestors
<1>4. asked = Reached(1..n, 1, F)
  BY <1>1 DEF Asked
<1>5. \A p, q \in 1..n : <<p, q>> \in F <=>
        <<p, q>> \in E /\ topic \in conf.topic[p] /\ Reaches(p, q, acc)
  OBVIOUS
<1> HIDE DEF n, E, F, acc, asked
<1>6. /\ asked \in SUBSET (1..n)
      /\ \A i \in 1..n : i \in asked <=>
           i = 1 \/ \E p \in 1..(i - 1) : p \in asked /\ <<p, i>> \in F
  BY <1>1, <1>4, ReachedRule
<1>7. \A i \in 1..n : i \in below <=>
           i = k \/ \E p \in 1..(i - 1) : p \in below /\ <<p, i>> \in E
  BY <1>1, ReachedRule
<1>8. x \in D
  <2>1. x \in 1..n
    BY <1>6 DEF asked
  <2>2. Above(x)
    BY <1>1, <2>1, ReachedRule
  <2> QED BY <1>3, <2>1, <2>2 DEF asked, acc
<1>9. PICK y \in D : \A z \in D : y <= z
  <2>1. D \in SUBSET Nat
    OBVIOUS
  <2> HIDE DEF D
  <2> QED BY <1>8, <2>1, Minimum
<1>10. y \in 1..n /\ y # k /\ y \in below /\ Above(y) /\ y \in asked /\ acc[y]
  BY <1>9
<1>11. k <= y
  BY <1>1, <1>3, <1>10, ReachedUp
<1>12. PICK p \in 1..(y - 1) : p \in asked /\ <<p, y>> \in F
  BY <1>1, <1>3, <1>6, <1>10, <1>11
<1>13. PICK q \in 1..(y - 1) : q \in below /\ <<q, y>> \in E
  BY <1>7, <1>10
<1>14. p \in 1..n /\ q \in 1..n /\ p < y
  BY <1>1, <1>10
<1>15. /\ <<p, y>> \in E /\ topic \in conf.topic[p] /\ Reaches(p, y, acc)
       /\ y \in Children(conf, p) /\ p = q
  BY <1>1, <1>2, <1>5, <1>10, <1>12, <1>13, <1>14
<1>16. Above(p)
  BY <1>1, <1>10, <1>14, <1>15, ReachedFrom
<1>17. CASE p = k
  <2>1. y \in Children(conf, k) /\ x \in Reached(Nodes(conf), y, Edges(conf))
    BY <1>1, <1>10, <1>15, <1>17 DEF E
  <2>2. Accepts(topic)[y] /\ Reaches(k, y, Accepts(topic))
    BY <1>10, <1>15, <1>17 DEF acc
  <2> QED BY <2>1, <2>2
<1>18. CASE p # k
  <2>1. k <= p
    BY <1>1, <1>3, <1>13, <1>14, <1>15, ReachedUp
  <2>2. k < p
    BY <1>3, <1>14, <1>18, <2>1
  <2>3. y <= x
    BY <1>1, <1>10, ReachedUp
  <2>4. x \in 1..n
    BY <1>8
  <2>5. p \in Ancestors(x)
    BY <1>1, <1>10, <1>14, <1>16, <2>3, <2>4 DEF Ancestors, E
  <2>6. ~NeedsAll(p)
    BY <2>2, <2>5
  <2>7. conf.type[p] \notin Simple
    BY <1>1, <1>14, <1>15, Kinds
  <2>8. acc[p]
    BY <1>1, <1>10, <1>14, <1>15, <2>6, <2>7, AcceptsRule DEF acc
  <2>9. p \in D
    BY <1>12, <1>13, <1>14, <1>15, <1>16, <1>18, <2>8
  <2> QED BY <1>9, <1>10, <1>14, <2>9
<1> QED BY <1>17, <1>18

(* A store from which another is reached has stores. *)
LEMMA HasStores ==
  ASSUME WellFormed(conf), NEW i \in Nodes(conf), NEW j \in Nodes(conf), j # i,
         j \in Reached(Nodes(conf), i, Edges(conf))
  PROVE  Children(conf, i) # {}
<1> DEFINE n == Len(conf.type)
           E == Edges(conf)
           R == Reached(1..n, i, E)
           D == R \ {i}
<1>1. n \in Nat /\ Nodes(conf) = 1..n
  BY Shape
<1>2. \A p, q \in 1..n : <<p, q>> \in E => q \in Children(conf, p)
  BY DEF Edges
<1> HIDE DEF n, E
<1>3. /\ R \in SUBSET (1..n)
      /\ \A k \in 1..n : k \in R <=> k = i \/ \E p \in 1..(k - 1) : p \in R /\ <<p, k>> \in E
  BY <1>1, ReachedRule
<1>4. j \in D
  BY <1>1 DEF E
<1> HIDE DEF R
<1>5. PICK y \in D : \A z \in D : y <= z
  <2>1. \A d \in D : d \in Nat
    BY <1>3
  <2> HIDE DEF D
  <2>2. D \in SUBSET Nat /\ D # {}
    BY <1>4, <2>1
  <2> QED BY <2>2, Minimum
<1>6. y \in 1..n /\ y \in R /\ y # i
  BY <1>3
<1>7. PICK p \in 1..(y - 1) : p \in R /\ <<p, y>> \in E
  BY <1>3, <1>6
<1>8. p \in 1..n /\ p < y
  BY <1>1, <1>6
<1>9. p = i
  BY <1>5, <1>6, <1>7, <1>8
<1> QED BY <1>2, <1>6, <1>7, <1>8, <1>9

(* A bounded set has a largest element. *)
LEMMA Maximum ==
  ASSUME NEW n \in Nat, NEW S \in SUBSET (1..n), S # {}
  PROVE  \E x \in S : \A y \in S : y <= x
<1> DEFINE T == {n - y : y \in S}
<1>1. T \in SUBSET Nat /\ T # {}
  OBVIOUS
<1>2. PICK t \in T : \A u \in T : t <= u
  <2> HIDE DEF T
  <2> QED BY <1>1, Minimum
<1>3. PICK x \in S : t = n - x
  OBVIOUS
<1>4. ASSUME NEW y \in S PROVE y <= x
  <2>1. n - y \in T
    OBVIOUS
  <2>2. n - x <= n - y
    BY <1>2, <1>3, <2>1
  <2>3. x \in Nat /\ y \in Nat
    OBVIOUS
  <2> QED BY <2>2, <2>3
<1> QED BY <1>4

(* Two stores that take the same message. *)
LEMMA TakenOnce ==
  ASSUME Running, NEW topic, NEW i \in Asked(topic), NEW j \in Asked(topic), i # j,
         conf.type[i] \in Simple, topic \in conf.topic[i], Takes(i, topic),
         conf.type[j] \in Simple, topic \in conf.topic[j], Takes(j, topic)
  PROVE  LET common == Ancestors(i) \cap Ancestors(j)
             parting == CHOOSE k \in common : \A l \in common : l <= k
         IN  \/ conf.type[parting] = "multiple"
             \/ \E k \in Ancestors(i) \cup Ancestors(j) : parting < k /\ NeedsAll(k)
<1> DEFINE n == Len(conf.type)
           E == Edges(conf)
           acc == Accepts(topic)
           common == Ancestors(i) \cap Ancestors(j)
           parting == CHOOSE k \in common : \A l \in common : l <= k
<1>1. /\ n \in Nat /\ Nodes(conf) = 1..n /\ 1..n = Reached(1..n, 1, E)
      /\ \A m \in 1..n : Children(conf, m) \in SUBSET ((m + 1)..n)
  BY Shape DEF Running
<1>2. i \in 1..n /\ j \in 1..n
  <2>1. Asked(topic) \in SUBSET (1..n)
    <3> DEFINE F == {e \in Edges(conf) : topic \in conf.topic[e[1]] /\ Reaches(e[1], e[2], acc)}
    <3>1. Asked(topic) = Reached(1..n, 1, F)
      BY <1>1 DEF Asked
    <3> HIDE DEF F, n
    <3> QED BY <1>1, <3>1, ReachedRule
  <2> QED BY <2>1
<1>3. acc[i] /\ acc[j]
  BY <1>1, <1>2, AcceptsRule
<1>4. Children(conf, i) = {} /\ Children(conf, j) = {}
  BY <1>1, <1>2, Kinds
<1> HIDE DEF n, acc
<1>5. ASSUME NEW a \in {i, j}, NEW b \in 1..n, b \in Reached(1..n, a, E)
      PROVE  b = a
  BY <1>1, <1>2, <1>4, <1>5, HasStores DEF Running, E
<1> HIDE DEF E
<1>6. 1 \in 1..n /\ i # 1 /\ j # 1
  BY <1>1, <1>2, <1>5
<1>7. 1 \in common
  BY <1>1, <1>2, <1>6 DEF Ancestors, E
<1>8. common \in SUBSET (1..n)
  BY <1>1 DEF Ancestors
<1>9. parting \in common /\ \A l \in common : l <= parting
  <2> HIDE DEF common
  <2>1. \E k \in common : \A l \in common : l <= k
    BY <1>1, <1>7, <1>8, Maximum
  <2> QED BY <2>1
<1> HIDE DEF parting
<1> SUFFICES ASSUME conf.type[parting] # "multiple",
                    \A k \in Ancestors(i) \cup Ancestors(j) : parting < k => ~NeedsAll(k)
             PROVE  FALSE
  BY DEF parting
<1>10. parting \in 1..n /\ parting \in Ancestors(i) /\ parting \in Ancestors(j)
  BY <1>8, <1>9
<1>11. PICK c \in Children(conf, parting) :
         i \in Reached(1..n, c, E) /\ acc[c] /\ Reaches(parting, c, acc)
  BY <1>1, <1>3, <1>10, Branch DEF acc, E
<1>12. PICK d \in Children(conf, parting) :
         j \in Reached(1..n, d, E) /\ acc[d] /\ Reaches(parting, d, acc)
  BY <1>1, <1>3, <1>10, Branch DEF acc, E
<1>13. c \in 1..n /\ d \in 1..n /\ parting < c
  BY <1>1, <1>10
<1>14. conf.type[parting] = "priority"
  BY <1>1, <1>10, <1>11, Kinds
<1>15. c # d
  <2> SUFFICES ASSUME c = d PROVE FALSE
    OBVIOUS
  <2>1. c # i /\ c # j
    BY <1>2, <1>5, <1>11, <1>12
  <2>2. c \in common
    BY <1>1, <1>11, <1>12, <1>13, <2>1 DEF Ancestors, E
  <2> QED BY <1>9, <1>10, <1>13, <2>2
<1>16. PICK a \in DOMAIN conf.children[parting] :
         /\ conf.children[parting][a] = c
         /\ \A m \in 1..(a - 1) : ~acc[conf.children[parting][m]]
  BY <1>11, <1>14 DEF Reaches
<1>17. PICK b \in DOMAIN conf.children[parting] :
         /\ conf.children[parting][b] = d
         /\ \A m \in 1..(b - 1) : ~acc[conf.children[parting][m]]
  BY <1>12, <1>14 DEF Reaches
<1>18. a \in Nat \ {0} /\ b \in Nat \ {0}
  <2>1. conf.children[parting] \in Seq(Nat)
    BY <1>1, <1>10, Shape DEF Running
  <2> QED BY <2>1
<1>19. a \in 1..(b - 1) \/ b \in 1..(a - 1) \/ a = b
  BY <1>18
<1> QED BY <1>11, <1>12, <1>15, <1>16, <1>17, <1>19

(* StoredOnce of two stores depends on the configuration alone. *)
Parted(i, j) ==
  LET common == Ancestors(i) \cap Ancestors(j)
      parting == CHOOSE k \in common : \A l \in common : l <= k
  IN  \/ conf.type[parting] = "multiple"
      \/ \E k \in Ancestors(i) \cup Ancestors(j) : parting < k /\ NeedsAll(k)

LEMMA SameParted ==
  ASSUME conf' = conf, NEW i, NEW j, Parted(i, j)
  PROVE  Parted(i, j)'
  BY DEF Parted, Ancestors, NeedsAll, All

(* What holds of the message that was stored last. *)
Once ==
  /\ phase = "running" => conf \in Started
  /\ phase # "running" => holders = {}
  /\ StoredOnce

(* PriorityStore::DoAddMessage stops at the first store that succeeds: in  *)
(* every tree of multiple, priority and simple stores that the grammar can *)
(* build, however deep, a message is stored twice only on the two sides of *)
(* a multiple store or next to one that needs all of its stores.           *)
THEOREM OneCopy == Spec => []StoredOnce
<1>1. Init => Once
  BY DEF Init, Once, StoredOnce
<1>2. Inv /\ Once /\ [Next]_vars => Once'
  <2> SUFFICES ASSUME Inv, Once, [Next]_vars PROVE Once'
    OBVIOUS
  <2>1. CASE CheckKidsConfig
    BY <2>1 DEF CheckKidsConfig, Once, StoredOnce
  <2>2. CASE Create
    BY <2>2 DEF Create, environment, Once, StoredOnce
  <2>3. ASSUME NEW topic \in Topics, StoreMessage(topic) PROVE Once'
    <3>1. Running
      BY <2>3 DEF StoreMessage, Inv, Once, Running
    <3>2. /\ conf' = conf /\ phase' = "running"
          /\ holders' = {i \in Asked(topic) : /\ conf.type[i] \in Simple
                                              /\ topic \in conf.topic[i] /\ Takes(i, topic)}
      BY <2>3 DEF StoreMessage, environment
    <3>3. ASSUME NEW i \in holders', NEW j \in holders', i # j
          PROVE  Parted(i, j)'
      <4>1. Parted(i, j)
        BY <3>1, <3>2, <3>3, TakenOnce DEF Parted
      <4> QED BY <3>2, <4>1, SameParted
    <3>4. StoredOnce'
      BY <3>3 DEF StoredOnce, Parted
    <3> QED BY <3>1, <3>2, <3>4 DEF Once, Running
  <2>4. ASSUME UNCHANGED <<conf, phase, holders>> PROVE Once'
    <3>1. ASSUME NEW i \in holders, NEW j \in holders, i # j PROVE Parted(i, j)'
      <4>1. Parted(i, j)
        BY <3>1 DEF Once, StoredOnce, Parted
      <4> QED BY <2>4, <4>1, SameParted
    <3>2. StoredOnce'
      BY <2>4, <3>1 DEF StoredOnce, Parted
    <3> QED BY <2>4, <3>2 DEF Once
  <2>5. CASE \E d \in 0..(MaxTime - now) : Cron(d) \/ Reload(d)
    BY <2>4, <2>5 DEF Cron, Reload, environment
  <2>6. CASE \E i \in Networks : OnMsgSent(i) \/ OnDisconnect(i)
    BY <2>4, <2>6 DEF OnMsgSent, OnDisconnect, environment
  <2>7. CASE Tick BY <2>4, <2>7 DEF Tick, environment
  <2>8. CASE Outside BY <2>4, <2>8 DEF Outside
  <2>9. CASE UNCHANGED vars BY <2>4, <2>9 DEF vars
  <2> QED BY <2>1, <2>2, <2>3, <2>5, <2>6, <2>7, <2>8, <2>9 DEF Next
<1>3. Once => StoredOnce
  BY DEF Once
<1> QED BY <1>1, <1>2, <1>3, Invariance, PTL DEF Spec
=============================================================================
