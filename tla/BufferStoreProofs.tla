------------------------- MODULE BufferStoreProofs -------------------------
(***************************************************************************)
(* A buffer store loses and repeats no message unnoticed, for any number   *)
(* of messages, outages, reloads and crashes and any configuration.        *)
(*                                                                         *)
(* Conserved counts places.  The proof speaks of sets: the messages at the *)
(* remote, with the agent, in memory, in buffer files and given up make up *)
(* the messages taken, and no two of these sets meet (OnePlace); and no    *)
(* sequence holds a message twice, and no two files share one (NoRepeats). *)
(* All but the last hold up to the messages in again, those of a file that *)
(* was read and not deleted.  Every action moves messages from one set to  *)
(* another.                                                                *)
(***************************************************************************)
EXTENDS BufferStore, FiniteSetTheorems, SequenceTheorems, WellFoundedInduction, TLAPS

(* No message is in sequence s twice, or only one of A; no message is. *)
UniqueBut(s, A) == \A i, j \in 1..Len(s) : s[i] = s[j] => i = j \/ s[i] \in A
Unique(s) == UniqueBut(s, {})

----------------------------------------------------------------------------
(* Sequences of messages. *)
LEMMA Elements ==
  ASSUME NEW s \in Seq(Msgs)
  PROVE  /\ Len(s) \in Nat /\ DOMAIN s = 1..Len(s) /\ ToSet(s) \in SUBSET Msgs
         /\ \A m : m \in ToSet(s) <=> \E i \in 1..Len(s) : s[i] = m
         /\ \A i \in 1..Len(s) : s[i] \in ToSet(s)
  BY DEF ToSet

LEMMA EmptyElements ==
  ToSet(<<>>) = {} /\ Unique(<<>>) /\ \A A : UniqueBut(<<>>, A)
<1>1. <<>> \in Seq(Msgs) /\ Len(<<>>) = 0 /\ 1..0 = {}
  OBVIOUS
<1>2. \A m : m \in ToSet(<<>>) <=> \E i \in 1..Len(<<>>) : <<>>[i] = m
  BY <1>1, Elements
<1>3. ToSet(<<>>) = {}
  BY <1>1, <1>2
<1>4. \A A : UniqueBut(<<>>, A)
  BY <1>1 DEF UniqueBut
<1> QED BY <1>3, <1>4 DEF Unique

LEMMA AppendElements ==
  ASSUME NEW s \in Seq(Msgs), NEW m \in Msgs, NEW A
  PROVE  /\ Append(s, m) \in Seq(Msgs) /\ ToSet(Append(s, m)) = ToSet(s) \cup {m}
         /\ UniqueBut(s, A) /\ (m \in ToSet(s) => m \in A) => UniqueBut(Append(s, m), A)
<1> DEFINE t == Append(s, m)
<1>1. /\ t \in Seq(Msgs) /\ Len(t) = Len(s) + 1 /\ t[Len(s) + 1] = m /\ Len(s) \in Nat
      /\ \A i \in 1..Len(s) : t[i] = s[i]
  BY AppendProperties
<1> HIDE DEF t
<1>2. \A i \in 1..Len(t) : i \in 1..Len(s) \/ i = Len(s) + 1
  BY <1>1
<1>3. \A i \in 1..Len(s) : i \in 1..Len(t)
  BY <1>1
<1>4. Len(s) + 1 \in 1..Len(t)
  BY <1>1
<1>5. ToSet(t) = ToSet(s) \cup {m}
  <2>1. \A x : x \in ToSet(t) <=> \E i \in 1..Len(t) : t[i] = x
    BY <1>1, Elements
  <2>2. \A x : x \in ToSet(s) <=> \E i \in 1..Len(s) : s[i] = x
    BY Elements
  <2>3. \A x : x \in ToSet(t) <=> x \in ToSet(s) \/ x = m
    BY <1>1, <1>2, <1>3, <1>4, <2>1, <2>2
  <2> QED BY <2>3
<1>6. ASSUME UniqueBut(s, A), m \in ToSet(s) => m \in A PROVE UniqueBut(t, A)
  <2> SUFFICES ASSUME NEW i \in 1..Len(t), NEW j \in 1..Len(t), t[i] = t[j]
               PROVE  i = j \/ t[i] \in A
    BY DEF UniqueBut
  <2>1. CASE i \in 1..Len(s) /\ j \in 1..Len(s)
    BY <1>1, <1>6, <2>1 DEF UniqueBut
  <2>2. CASE i \in 1..Len(s) /\ j = Len(s) + 1
    BY <1>1, <1>6, <2>2, Elements
  <2>3. CASE i = Len(s) + 1 /\ j \in 1..Len(s)
    BY <1>1, <1>6, <2>3, Elements
  <2> QED BY <1>2, <2>1, <2>2, <2>3
<1> QED BY <1>1, <1>5, <1>6 DEF t

LEMMA ConcatElements ==
  ASSUME NEW s \in Seq(Msgs), NEW t \in Seq(Msgs), NEW A
  PROVE  /\ s \o t \in Seq(Msgs) /\ ToSet(s \o t) = ToSet(s) \cup ToSet(t)
         /\ UniqueBut(s, A) /\ UniqueBut(t, A) /\ ToSet(s) \cap ToSet(t) \subseteq A
              => UniqueBut(s \o t, A)
<1> DEFINE u == s \o t
<1>1. /\ u \in Seq(Msgs) /\ Len(u) = Len(s) + Len(t) /\ Len(s) \in Nat /\ Len(t) \in Nat
      /\ \A i \in 1..(Len(s) + Len(t)) : u[i] = IF i <= Len(s) THEN s[i] ELSE t[i - Len(s)]
  BY ConcatProperties
<1> HIDE DEF u
<1>2. \A i \in 1..Len(s) : i \in 1..Len(u) /\ u[i] = s[i]
  BY <1>1
<1>3. ASSUME NEW i \in 1..Len(t) PROVE Len(s) + i \in 1..Len(u) /\ u[Len(s) + i] = t[i]
  <2>1. Len(s) + i \in 1..(Len(s) + Len(t)) /\ ~(Len(s) + i <= Len(s)) /\ (Len(s) + i) - Len(s) = i
    BY <1>1
  <2> QED BY <1>1, <2>1
<1>4. ASSUME NEW i \in 1..Len(u)
      PROVE  i \in 1..Len(s) \/ \E j \in 1..Len(t) : i = Len(s) + j
  <2>1. CASE i <= Len(s)
    BY <1>1, <2>1
  <2>2. CASE ~(i <= Len(s))
    <3>1. i - Len(s) \in 1..Len(t) /\ i = Len(s) + (i - Len(s))
      BY <1>1, <2>2
    <3> QED BY <3>1
  <2> QED BY <2>1, <2>2
<1>5. ASSUME NEW m \in ToSet(u) PROVE m \in ToSet(s) \/ m \in ToSet(t)
  <2>1. PICK i \in 1..Len(u) : u[i] = m
    BY <1>1, <1>5, Elements
  <2>2. CASE i \in 1..Len(s)
    BY <1>2, <2>1, <2>2, Elements
  <2>3. CASE \E j \in 1..Len(t) : i = Len(s) + j
    <3>1. PICK j \in 1..Len(t) : i = Len(s) + j
      BY <2>3
    <3>2. t[j] = m
      BY <1>3, <2>1, <3>1
    <3> QED BY <3>2, Elements
  <2> QED BY <1>4, <2>2, <2>3
<1>6. ASSUME NEW m, m \in ToSet(s) \/ m \in ToSet(t) PROVE m \in ToSet(u)
  <2>1. CASE m \in ToSet(s)
    <3>1. PICK i \in 1..Len(s) : s[i] = m
      BY <2>1, Elements
    <3>2. i \in 1..Len(u) /\ u[i] = m
      BY <1>2, <3>1
    <3> QED BY <1>1, <3>2, Elements
  <2>2. CASE m \in ToSet(t)
    <3>1. PICK i \in 1..Len(t) : t[i] = m
      BY <2>2, Elements
    <3>2. Len(s) + i \in 1..Len(u) /\ u[Len(s) + i] = m
      BY <1>3, <3>1
    <3> QED BY <1>1, <3>2, Elements
  <2> QED BY <1>6, <2>1, <2>2
<1>7. ASSUME UniqueBut(s, A), UniqueBut(t, A), ToSet(s) \cap ToSet(t) \subseteq A
      PROVE  UniqueBut(u, A)
  <2> SUFFICES ASSUME NEW i \in 1..Len(u), NEW j \in 1..Len(u), u[i] = u[j]
               PROVE  i = j \/ u[i] \in A
    BY DEF UniqueBut
  <2>0. \A k \in 1..Len(s), l \in 1..Len(t) : s[k] = t[l] => s[k] \in A
    BY <1>7, Elements
  <2>1. CASE i \in 1..Len(s) /\ j \in 1..Len(s)
    BY <1>2, <1>7, <2>1 DEF UniqueBut
  <2>2. CASE i \notin 1..Len(s) /\ j \notin 1..Len(s)
    <3>1. PICK k \in 1..Len(t) : i = Len(s) + k
      BY <1>4, <2>2
    <3>2. PICK l \in 1..Len(t) : j = Len(s) + l
      BY <1>4, <2>2
    <3>3. t[k] = t[l] /\ u[i] = t[k]
      BY <1>3, <3>1, <3>2
    <3> QED BY <1>7, <3>1, <3>2, <3>3 DEF UniqueBut
  <2>3. CASE i \in 1..Len(s) /\ j \notin 1..Len(s)
    <3>1. PICK l \in 1..Len(t) : j = Len(s) + l
      BY <1>4, <2>3
    <3> QED BY <1>2, <1>3, <2>0, <2>3, <3>1
  <2>4. CASE i \notin 1..Len(s) /\ j \in 1..Len(s)
    <3>1. PICK k \in 1..Len(t) : i = Len(s) + k
      BY <1>4, <2>4
    <3> QED BY <1>2, <1>3, <2>0, <2>4, <3>1
  <2> QED BY <2>1, <2>2, <2>3, <2>4
<1> QED BY <1>1, <1>5, <1>6, <1>7 DEF u

(* A sequence cut in two. *)
LEMMA CutElements ==
  ASSUME NEW s \in Seq(Msgs), NEW k \in 0..Len(s), NEW A
  PROVE  /\ SubSeq(s, 1, k) \in Seq(Msgs) /\ SubSeq(s, k + 1, Len(s)) \in Seq(Msgs)
         /\ Len(SubSeq(s, 1, k)) = k
         /\ ToSet(s) = ToSet(SubSeq(s, 1, k)) \cup ToSet(SubSeq(s, k + 1, Len(s)))
         /\ ToSet(SubSeq(s, k + 1, Len(s))) = {s[j] : j \in (k + 1)..Len(s)}
         /\ UniqueBut(s, A) =>
              /\ UniqueBut(SubSeq(s, 1, k), A) /\ UniqueBut(SubSeq(s, k + 1, Len(s)), A)
              /\ ToSet(SubSeq(s, 1, k)) \cap ToSet(SubSeq(s, k + 1, Len(s))) \subseteq A
<1> DEFINE a == SubSeq(s, 1, k)
           b == SubSeq(s, k + 1, Len(s))
           n == Len(s)
<1>1. n \in Nat /\ k \in Nat /\ k <= n /\ \A i \in 1..n : s[i] \in Msgs
  OBVIOUS
<1>2. a \in Seq(Msgs) /\ Len(a) = k /\ \A i \in 1..k : a[i] = s[i]
  <2>1. \A i \in 1..k : s[i] \in Msgs
    BY <1>1
  <2>2. /\ a \in Seq(Msgs) /\ Len(a) = (IF 1 <= k THEN k - 1 + 1 ELSE 0)
        /\ \A i \in 1..(k - 1 + 1) : a[i] = s[1 + i - 1]
    BY <1>1, <2>1, SubSeqProperties
  <2> QED BY <1>1, <2>2
<1>3. b \in Seq(Msgs) /\ Len(b) = n - k /\ \A i \in 1..(n - k) : b[i] = s[k + i]
  <2>1. \A i \in (k + 1)..n : i \in 1..n
    BY <1>1
  <2>2. k + 1 \in Int /\ n \in Int
    BY <1>1
  <2>3. /\ b \in Seq(Msgs) /\ Len(b) = (IF k + 1 <= n THEN n - (k + 1) + 1 ELSE 0)
        /\ \A i \in 1..(n - (k + 1) + 1) : b[i] = s[(k + 1) + i - 1]
    BY <1>1, <2>1, <2>2, SubSeqProperties
  <2>4. Len(b) = n - k
    BY <1>1, <2>3
  <2>5. ASSUME NEW i \in 1..(n - k) PROVE b[i] = s[k + i]
    <3>1. i \in 1..(n - (k + 1) + 1) /\ (k + 1) + i - 1 = k + i
      BY <1>1
    <3>2. b[i] = s[(k + 1) + i - 1]
      BY <2>3, <3>1
    <3> QED BY <3>1, <3>2
  <2> QED BY <2>3, <2>4, <2>5
<1> HIDE DEF a, b
<1>4. ASSUME NEW i \in 1..(n - k) PROVE k + i \in 1..n /\ k + i \in (k + 1)..n /\ ~(k + i <= k)
  BY <1>1
<1>5. ASSUME NEW i \in 1..n
      PROVE  i \in 1..k \/ \E j \in 1..(n - k) : i = k + j
  <2>1. i <= k \/ (i - k \in 1..(n - k) /\ i = k + (i - k))
    BY <1>1
  <2> QED BY <1>1, <2>1
<1>6. ToSet(b) = {s[j] : j \in (k + 1)..n}
  <2>1. \A j \in (k + 1)..n : j - k \in 1..(n - k) /\ k + (j - k) = j
    BY <1>1
  <2>2. ASSUME NEW m \in ToSet(b) PROVE m \in {s[j] : j \in (k + 1)..n}
    BY <1>3, <1>4, <2>2, Elements
  <2>3. ASSUME NEW j \in (k + 1)..n PROVE s[j] \in ToSet(b)
    <3>1. b[j - k] = s[k + (j - k)] /\ j - k \in 1..Len(b)
      BY <1>3, <2>1
    <3> QED BY <1>3, <2>1, <3>1, Elements
  <2> QED BY <2>2, <2>3
<1>7. ToSet(s) = ToSet(a) \cup ToSet(b)
  <2>1. ASSUME NEW m \in ToSet(s) PROVE m \in ToSet(a) \/ m \in ToSet(b)
    <3>1. PICK i \in 1..n : s[i] = m
      BY <2>1, Elements
    <3>2. CASE i \in 1..k
      BY <1>2, <3>1, <3>2, Elements
    <3>3. CASE \E j \in 1..(n - k) : i = k + j
      BY <1>3, <3>1, <3>3, Elements
    <3> QED BY <1>5, <3>2, <3>3
  <2>2. \A i \in 1..k : i \in 1..n
    BY <1>1
  <2>3. ASSUME NEW m \in ToSet(a) PROVE m \in ToSet(s)
    BY <1>2, <2>2, <2>3, Elements
  <2>4. ASSUME NEW m \in ToSet(b) PROVE m \in ToSet(s)
    BY <1>3, <1>4, <2>4, Elements
  <2> QED BY <2>1, <2>3, <2>4
<1>8. ASSUME UniqueBut(s, A)
      PROVE  UniqueBut(a, A) /\ UniqueBut(b, A) /\ ToSet(a) \cap ToSet(b) \subseteq A
  <2>1. \A i \in 1..k : i \in 1..n
    BY <1>1
  <2>2. UniqueBut(a, A)
    BY <1>2, <1>8, <2>1 DEF UniqueBut
  <2>3. UniqueBut(b, A)
    <3> SUFFICES ASSUME NEW i \in 1..(n - k), NEW j \in 1..(n - k), b[i] = b[j]
                 PROVE  i = j \/ b[i] \in A
      BY <1>3 DEF UniqueBut
    <3>1. k + i = k + j \/ b[i] \in A
      BY <1>3, <1>4, <1>8 DEF UniqueBut
    <3> QED BY <1>1, <3>1
  <2>4. ASSUME NEW m \in ToSet(a), m \in ToSet(b) PROVE m \in A
    <3>1. PICK i \in 1..k : a[i] = m
      BY <1>2, <2>4, Elements
    <3>2. PICK j \in 1..(n - k) : b[j] = m
      BY <1>3, <2>4, Elements
    <3>3. s[i] = s[k + j] /\ i \in 1..n /\ k + j \in 1..n
      BY <1>2, <1>3, <1>4, <2>1, <3>1, <3>2
    <3>4. i = k + j \/ s[i] \in A
      BY <1>8, <3>3 DEF UniqueBut
    <3>5. i # k + j
      BY <1>1
    <3> QED BY <1>2, <3>1, <3>4, <3>5
  <2> QED BY <2>2, <2>3, <2>4
<1> QED BY <1>2, <1>3, <1>6, <1>7, <1>8 DEF a, b

LEMMA HeadElements ==
  ASSUME NEW s \in Seq(Msgs), s # <<>>, NEW A
  PROVE  /\ Head(s) \in Msgs /\ Tail(s) \in Seq(Msgs)
         /\ ToSet(s) = {Head(s)} \cup ToSet(Tail(s))
         /\ UniqueBut(s, A) =>
              UniqueBut(Tail(s), A) /\ (Head(s) \in ToSet(Tail(s)) => Head(s) \in A)
<1>1. Len(s) \in Nat /\ 1 \in 0..Len(s) /\ Head(s) = s[1] /\ s[1] \in Msgs
  BY EmptySeq
<1>2. Tail(s) = SubSeq(s, 1 + 1, Len(s))
  BY TailIsSubSeq
<1> DEFINE a == SubSeq(s, 1, 1)
<1>3. a \in Seq(Msgs) /\ Len(a) = 1 /\ a[1] = s[1]
  BY <1>1
<1> HIDE DEF a
<1>4. ToSet(a) = {s[1]}
  <2>1. \A i \in 1..Len(a) : i = 1
    BY <1>3
  <2>2. 1 \in 1..Len(a)
    BY <1>3
  <2> QED BY <1>3, <2>1, <2>2, Elements
<1>5. /\ Tail(s) \in Seq(Msgs) /\ ToSet(s) = ToSet(a) \cup ToSet(Tail(s))
      /\ UniqueBut(s, A) => UniqueBut(Tail(s), A) /\ ToSet(a) \cap ToSet(Tail(s)) \subseteq A
  <2> DEFINE b == SubSeq(s, 1 + 1, Len(s))
  <2>1. /\ b \in Seq(Msgs) /\ ToSet(s) = ToSet(a) \cup ToSet(b)
        /\ UniqueBut(s, A) => UniqueBut(b, A) /\ ToSet(a) \cap ToSet(b) \subseteq A
    BY <1>1, CutElements, Zenon DEF a
  <2>2. Tail(s) = b
    BY <1>2
  <2> HIDE DEF b
  <2> QED BY <2>1, <2>2
<1> QED BY <1>1, <1>4, <1>5
----------------------------------------------------------------------------
(* Buffer files. *)
Secondary == [old : SUBSET (Seq(Msgs) \ {<<>>}), cur : Seq(Msgs), isOpen : BOOLEAN]

(* The messages in the files of s, and files that repeat none. *)
Stored(s) == {m \in Msgs : m \in ToSet(s.cur) \/ \E f \in s.old : m \in ToSet(f)}
FilesOK(s) ==
  /\ s \in Secondary
  /\ ~s.isOpen => s.cur = <<>>
  /\ Unique(s.cur)
  /\ \A f \in s.old : Unique(f) /\ ToSet(f) \cap ToSet(s.cur) = {}
  /\ \A f, g \in s.old : ToSet(f) \cap ToSet(g) # {} => f = g

LEMMA CloseFiles ==
  ASSUME NEW s, FilesOK(s)
  PROVE  FilesOK(SecClose(s)) /\ Stored(SecClose(s)) = Stored(s) /\ ~SecClose(s).isOpen
<1>1. CASE ~s.isOpen
  BY <1>1 DEF SecClose
<1>2. CASE s.isOpen
  <2> DEFINE c == SecClose(s)
  <2>1. c = [old |-> IF s.cur = <<>> THEN s.old ELSE s.old \cup {s.cur},
             cur |-> <<>>, isOpen |-> FALSE]
    BY <1>2 DEF SecClose
  <2>2. s \in Secondary /\ s.cur \in Seq(Msgs) /\ s.old \in SUBSET (Seq(Msgs) \ {<<>>})
    BY DEF FilesOK, Secondary
  <2>3. CASE s.cur = <<>>
    <3>1. c.old = s.old /\ c.cur = <<>> /\ c.isOpen = FALSE
      BY <2>1, <2>3
    <3>2. c \in Secondary
      BY <2>1, <2>2, <2>3 DEF Secondary
    <3> HIDE DEF c
    <3>3. FilesOK(c)
      BY <2>3, <3>1, <3>2 DEF FilesOK
    <3>4. Stored(c) = Stored(s)
      BY <2>3, <3>1 DEF Stored
    <3> QED BY <3>1, <3>3, <3>4 DEF c
  <2>4. CASE s.cur # <<>>
    <3>1. c.old = s.old \cup {s.cur} /\ c.cur = <<>> /\ c.isOpen = FALSE
      BY <2>1, <2>4
    <3>2. c \in Secondary
      BY <2>1, <2>2, <2>4 DEF Secondary
    <3> HIDE DEF c
    <3>3. FilesOK(c)
      <4>1. \A f \in c.old : Unique(f) /\ ToSet(f) \cap ToSet(<<>>) = {}
        BY <3>1, EmptyElements DEF FilesOK
      <4>2. \A f, g \in c.old : ToSet(f) \cap ToSet(g) # {} => f = g
        BY <3>1 DEF FilesOK
      <4> QED BY <3>1, <3>2, <4>1, <4>2, EmptyElements DEF FilesOK
    <3>4. Stored(c) = Stored(s)
      BY <3>1, EmptyElements DEF Stored
    <3> QED BY <3>1, <3>3, <3>4 DEF c
  <2> QED BY <2>3, <2>4
<1> QED BY <1>1, <1>2

LEMMA OpenFiles ==
  ASSUME NEW s, FilesOK(s), NEW t \in SecOpen(s)
  PROVE  FilesOK(t) /\ Stored(t) = Stored(s)
<1> DEFINE c == SecClose(s)
<1>1. FilesOK(c) /\ Stored(c) = Stored(s) /\ ~c.isOpen
  BY CloseFiles
<1>2. \/ t = [c EXCEPT !.isOpen = TRUE]
      \/ \E f \in c.old : t = [old |-> c.old \ {f}, cur |-> f, isOpen |-> TRUE]
      \/ t = c
  BY DEF SecOpen
<1> HIDE DEF c
<1>3. /\ c \in Secondary /\ c.cur = <<>> /\ c.old \in SUBSET (Seq(Msgs) \ {<<>>})
      /\ \A f \in c.old : Unique(f)
      /\ \A f, g \in c.old : ToSet(f) \cap ToSet(g) # {} => f = g
  BY <1>1 DEF FilesOK, Secondary
<1>4. CASE t = [c EXCEPT !.isOpen = TRUE]
  <2>1. t.old = c.old /\ t.cur = c.cur /\ t.isOpen = TRUE /\ t \in Secondary
    BY <1>3, <1>4 DEF Secondary
  <2>2. FilesOK(t)
    BY <1>1, <2>1 DEF FilesOK
  <2>3. Stored(t) = Stored(c)
    BY <2>1 DEF Stored
  <2> QED BY <1>1, <2>2, <2>3
<1>5. ASSUME NEW f \in c.old, t = [old |-> c.old \ {f}, cur |-> f, isOpen |-> TRUE]
      PROVE  FilesOK(t) /\ Stored(t) = Stored(s)
  <2>1. t.old = c.old \ {f} /\ t.cur = f /\ t.isOpen = TRUE /\ t \in Secondary
    BY <1>3, <1>5 DEF Secondary
  <2>2. FilesOK(t)
    BY <1>3, <2>1 DEF FilesOK
  <2>3. Stored(t) = Stored(c)
    BY <1>3, <2>1, EmptyElements DEF Stored
  <2> QED BY <1>1, <2>2, <2>3
<1> QED BY <1>1, <1>2, <1>4, <1>5

LEMMA EnsureFiles ==
  ASSUME NEW s, FilesOK(s), NEW t \in SecEnsure(s)
  PROVE  FilesOK(t) /\ Stored(t) = Stored(s)
  BY OpenFiles DEF SecEnsure

LEMMA WriteFiles ==
  ASSUME NEW t, FilesOK(t), t.isOpen, NEW m \in Msgs, m \notin Stored(t)
  PROVE  /\ FilesOK([t EXCEPT !.cur = Append(@, m)])
         /\ Stored([t EXCEPT !.cur = Append(@, m)]) = Stored(t) \cup {m}
<1> DEFINE u == [t EXCEPT !.cur = Append(@, m)]
<1>1. t \in Secondary /\ t.cur \in Seq(Msgs) /\ Unique(t.cur)
  BY DEF FilesOK, Secondary
<1>2. m \notin ToSet(t.cur) /\ \A f \in t.old : m \notin ToSet(f)
  BY DEF Stored
<1>3. /\ Append(t.cur, m) \in Seq(Msgs) /\ ToSet(Append(t.cur, m)) = ToSet(t.cur) \cup {m}
      /\ Unique(Append(t.cur, m))
  BY <1>1, <1>2, AppendElements DEF Unique
<1>4. u \in Secondary /\ u.old = t.old /\ u.cur = Append(t.cur, m) /\ u.isOpen = t.isOpen
  BY <1>1, <1>3 DEF Secondary
<1> HIDE DEF u
<1>5. FilesOK(u)
  BY <1>2, <1>3, <1>4 DEF FilesOK
<1>6. Stored(u) = Stored(t) \cup {m}
  BY <1>3, <1>4 DEF Stored
<1> QED BY <1>5, <1>6 DEF u

(* A set of naturals has a least element. *)
LEMMA Minimum ==
  ASSUME NEW S \in SUBSET Nat, S # {}
  PROVE  \E x \in S : \A y \in S : x <= y
<1> DEFINE R == OpToRel(<, Nat)
<1>1. IsWellFoundedOn(R, Nat)
  BY NatLessThanWellFounded
<1>2. R = {ss \in Nat \X Nat : ss[1] < ss[2]}
  BY Zenon DEF OpToRel
<1> HIDE DEF R
<1>3. PICK x \in S : \A y \in S : ~(<<y, x>> \in R)
  BY <1>1, WFMin
<1>4. ASSUME NEW y \in S PROVE x <= y
  <2>1. x \in Nat /\ y \in Nat
    OBVIOUS
  <2>2. y < x => <<y, x>> \in R
    BY <1>2, <2>1
  <2> QED BY <1>3, <2>1, <2>2
<1> QED BY <1>4

(* What is read of a file is its beginning. *)
LEMMA ReadMessages ==
  ASSUME NEW f \in Seq(Msgs)
  PROVE  /\ GetMessages(f) \in Seq(Msgs) /\ ToSet(GetMessages(f)) \in SUBSET ToSet(f)
         /\ Unique(f) => Unique(GetMessages(f))
<1> DEFINE bad == {i \in DOMAIN f : f[i] \in Empty}
           first == CHOOSE i \in bad : \A j \in bad : i <= j
           k == first - 1
<1>1. CASE bad = {}
  BY <1>1 DEF GetMessages
<1>2. CASE bad # {}
  <2>1. bad \in SUBSET Nat /\ bad \in SUBSET (1..Len(f))
    BY Elements
  <2>2. \E i \in bad : \A j \in bad : i <= j
    BY <1>2, <2>1, Minimum
  <2>3. first \in bad
    BY <2>2
  <2>4. k \in 0..Len(f)
    <3>1. first \in 1..Len(f) /\ Len(f) \in Nat
      BY <2>1, <2>3
    <3> HIDE DEF first
    <3> QED BY <3>1
  <2>5. GetMessages(f) = SubSeq(f, 1, k)
    BY <1>2 DEF GetMessages
  <2> HIDE DEF k, bad
  <2>6. /\ SubSeq(f, 1, k) \in Seq(Msgs)
        /\ ToSet(f) = ToSet(SubSeq(f, 1, k)) \cup ToSet(SubSeq(f, k + 1, Len(f)))
        /\ UniqueBut(f, {}) => UniqueBut(SubSeq(f, 1, k), {})
    BY <2>4, CutElements
  <2> QED BY <2>5, <2>6 DEF Unique
<1> QED BY <1>1, <1>2
----------------------------------------------------------------------------
GivenUp(f) == {m \in Msgs : f[m] # "none"}
Upto(n) == {m \in Msgs : m <= n}

(* The sets make up T, and two of them meet in A only. *)
Parted(R, W, D, F, G, T, A) ==
  /\ R \cup W \cup D \cup F \cup G = T
  /\ R \cap W \subseteq A /\ R \cap D \subseteq A /\ R \cap F \subseteq A /\ R \cap G \subseteq A
  /\ W \cap D \subseteq A /\ W \cap F \subseteq A /\ W \cap G \subseteq A
  /\ D \cap F \subseteq A /\ D \cap G \subseteq A /\ F \cap G \subseteq A
  /\ A \subseteq T

OnePlace ==
  Parted(ToSet(remote), ToSet(wire), ToSet(deque), Stored(sec), GivenUp(fate), Upto(taken),
         again)
NoRepeats ==
  /\ UniqueBut(remote, again) /\ UniqueBut(wire, again) /\ UniqueBut(deque, again)
  /\ FilesOK(sec)

(* A process that does not run has nothing in memory and no file open. *)
Quiet == ~running => wire = <<>> /\ deque = <<>> /\ ~sec.isOpen

Inv == /\ TypeOK /\ NoRepeats /\ OnePlace /\ Quiet /\ NothingStranded
       /\ acks <= Len(remote)

(* What the steps have to show of the places. *)
Places ==
  /\ remote \in Seq(Msgs) /\ wire \in Seq(Msgs) /\ deque \in Seq(Msgs)
  /\ NoRepeats /\ OnePlace

LEMMA InvPlaces ==
  ASSUME Inv
  PROVE  /\ Places /\ taken \in Nat
         /\ UniqueBut(remote, again) /\ UniqueBut(wire, again) /\ UniqueBut(deque, again)
         /\ FilesOK(sec)
         /\ Parted(ToSet(remote), ToSet(wire), ToSet(deque), Stored(sec), GivenUp(fate),
                   Upto(taken), again)
         /\ \A m \in Msgs : fate[m] # "none" <=> m \in GivenUp(fate)
         /\ ToSet(remote) \in SUBSET Msgs /\ ToSet(wire) \in SUBSET Msgs
         /\ ToSet(deque) \in SUBSET Msgs /\ Stored(sec) \in SUBSET Msgs
<1>1. Places /\ taken \in Nat
  BY BoundsAssumption DEF Inv, Places, TypeOK
<1> QED BY <1>1, Elements DEF Places, NoRepeats, OnePlace, GivenUp, Stored

(* Starting and reloading a store. *)
LEMMA OpenPlaces ==
  ASSUME NEW s, FilesOK(s), Open(s)
  PROVE  /\ FilesOK(sec') /\ Stored(sec') = Stored(s)
         /\ wire' = <<>> /\ deque' = <<>> /\ acks' = 0 /\ again' = again
         /\ up' = net /\ sending' \in BOOLEAN /\ sinceTry' = 0
<1>1. sec' = s \/ sec' \in SecOpen(s)
  BY DEF Open
<1>2. FilesOK(sec') /\ Stored(sec') = Stored(s)
  BY <1>1, OpenFiles
<1> QED BY <1>2 DEF Open

LEMMA CreatePlaces ==
  ASSUME Inv, Create
  PROVE  Places'
<1>1. wire = <<>> /\ deque = <<>>
  BY DEF Inv, Quiet, Create
<1>2. FilesOK(sec) /\ Open(sec) /\ UNCHANGED <<remote, taken, fate>>
  BY InvPlaces DEF Create
<1>3. /\ FilesOK(sec') /\ Stored(sec') = Stored(sec) /\ wire' = wire /\ deque' = deque
      /\ again' = again
  BY <1>1, <1>2, OpenPlaces
<1> QED BY <1>2, <1>3, InvPlaces DEF Places, NoRepeats, OnePlace

LEMMA ReloadPlaces ==
  ASSUME Inv, DoConfigReload
  PROVE  Places'
<1>1. FilesOK(SecClose(sec)) /\ Stored(SecClose(sec)) = Stored(sec) /\ Open(SecClose(sec))
  BY InvPlaces, CloseFiles DEF DoConfigReload
<1>2. /\ FilesOK(sec') /\ Stored(sec') = Stored(sec) /\ wire' = <<>> /\ deque' = <<>>
      /\ again' = again
  BY <1>1, OpenPlaces
<1>3. UNCHANGED <<remote, taken>>
  BY DEF DoConfigReload
<1>4. GivenUp(fate') = GivenUp(fate) \cup ToSet(deque) \cup ToSet(wire)
  <2>1. fate' = [m \in Msgs |-> IF m \in ToSet(deque) THEN "close"
                                ELSE IF m \in ToSet(wire) THEN "wire" ELSE fate[m]]
    BY DEF DoConfigReload
  <2>2. ToSet(deque) \in SUBSET Msgs /\ ToSet(wire) \in SUBSET Msgs
    BY InvPlaces
  <2> QED BY <2>1, <2>2 DEF GivenUp
<1>5. Parted(ToSet(remote), {}, {}, Stored(sec), GivenUp(fate), Upto(taken), again)'
  <2>1. Parted(ToSet(remote), {}, {}, Stored(sec),
               GivenUp(fate) \cup ToSet(deque) \cup ToSet(wire), Upto(taken), again)
    BY InvPlaces DEF Parted
  <2> QED BY <1>2, <1>3, <1>4, <2>1
<1>6. <<>> \in Seq(Msgs) /\ ToSet(<<>>) = {} /\ UniqueBut(<<>>, again)
  BY EmptyElements
<1> QED BY <1>2, <1>3, <1>5, <1>6, InvPlaces DEF Places, NoRepeats, OnePlace

(* What a crash leaves of the files. *)
LEMMA CrashFiles ==
  ASSUME NEW s, FilesOK(s), NEW k \in 0..Len(s.cur), NEW t,
         t = [old |-> IF k = 0 THEN s.old ELSE s.old \cup {SubSeq(s.cur, 1, k)},
              cur |-> <<>>, isOpen |-> FALSE]
  PROVE  /\ FilesOK(t)
         /\ Stored(s) = Stored(t) \cup {s.cur[j] : j \in (k + 1)..Len(s.cur)}
         /\ Stored(t) \cap {s.cur[j] : j \in (k + 1)..Len(s.cur)} = {}
         /\ {s.cur[j] : j \in (k + 1)..Len(s.cur)} \in SUBSET Msgs
<1> DEFINE a == SubSeq(s.cur, 1, k)
           b == SubSeq(s.cur, k + 1, Len(s.cur))
           X == {s.cur[j] : j \in (k + 1)..Len(s.cur)}
<1>1. /\ s.cur \in Seq(Msgs) /\ s.old \in SUBSET (Seq(Msgs) \ {<<>>}) /\ Unique(s.cur)
      /\ \A f \in s.old : Unique(f) /\ ToSet(f) \cap ToSet(s.cur) = {}
      /\ \A f, g \in s.old : ToSet(f) \cap ToSet(g) # {} => f = g
  BY DEF FilesOK, Secondary
<1>2. /\ a \in Seq(Msgs) /\ Len(a) = k /\ ToSet(b) = X
      /\ ToSet(s.cur) = ToSet(a) \cup ToSet(b) /\ Unique(a) /\ ToSet(a) \cap ToSet(b) = {}
  <2>1. /\ a \in Seq(Msgs) /\ Len(a) = k /\ ToSet(b) = X
        /\ ToSet(s.cur) = ToSet(a) \cup ToSet(b)
        /\ UniqueBut(s.cur, {}) => UniqueBut(a, {}) /\ ToSet(a) \cap ToSet(b) \subseteq {}
    BY <1>1, CutElements
  <2> QED BY <1>1, <2>1 DEF Unique
<1>3. X \in SUBSET Msgs /\ X \in SUBSET ToSet(s.cur)
  BY <1>1, <1>2, Elements
<1>4. \A f \in s.old : f \in Seq(Msgs) /\ ToSet(f) \in SUBSET Msgs
  BY <1>1, Elements
<1>e. ToSet(<<>>) = {} /\ Unique(<<>>) /\ <<>> \in Seq(Msgs) /\ Len(<<>>) = 0
  BY EmptyElements
<1> HIDE DEF a, b, X
<1>5. CASE k = 0
  <2>1. t.old = s.old /\ t.cur = <<>> /\ t.isOpen = FALSE /\ t \in Secondary
    BY <1>1, <1>5 DEF Secondary
  <2>2. a = <<>>
    BY <1>2, <1>5, EmptySeq
  <2>3. FilesOK(t)
    BY <1>1, <1>e, <2>1 DEF FilesOK
  <2>4. ToSet(s.cur) = X
    BY <1>2, <1>e, <2>2
  <2>5. Stored(s) = Stored(t) \cup X /\ Stored(t) \cap X = {}
    BY <1>1, <1>3, <1>e, <2>1, <2>4 DEF Stored
  <2> QED BY <1>3, <2>3, <2>5 DEF X
<1>6. CASE k # 0
  <2>1. a # <<>>
    BY <1>2, <1>e, <1>6
  <2>2. t.old = s.old \cup {a} /\ t.cur = <<>> /\ t.isOpen = FALSE /\ t \in Secondary
    BY <1>1, <1>2, <1>6, <2>1 DEF Secondary, a
  <2>3. FilesOK(t)
    <3>1. \A f \in t.old : Unique(f) /\ ToSet(f) \cap ToSet(<<>>) = {}
      BY <1>1, <1>2, <1>e, <2>2
    <3>2. \A f \in s.old : ToSet(f) \cap ToSet(a) = {}
      BY <1>1, <1>2
    <3>3. \A f, g \in t.old : ToSet(f) \cap ToSet(g) # {} => f = g
      BY <1>1, <2>2, <3>2
    <3> QED BY <1>e, <2>2, <3>1, <3>3 DEF FilesOK
  <2>4. Stored(s) = Stored(t) \cup X
    BY <1>2, <1>3, <1>e, <2>2 DEF Stored
  <2>5. Stored(t) \cap X = {}
    BY <1>1, <1>2, <1>3, <1>e, <2>2 DEF Stored
  <2> QED BY <1>3, <2>3, <2>4, <2>5 DEF X
<1> QED BY <1>5, <1>6

LEMMA CrashPlaces ==
  ASSUME Inv, Crash
  PROVE  Places'
<1> DEFINE X(k) == {sec.cur[j] : j \in (k + 1)..Len(sec.cur)}
<1>1. PICK k \in 0..Len(sec.cur) :
        /\ sec' = [old |-> IF k = 0 THEN sec.old ELSE sec.old \cup {SubSeq(sec.cur, 1, k)},
                   cur |-> <<>>, isOpen |-> FALSE]
        /\ fate' = GiveUp(ToSet(deque) \cup ToSet(wire) \cup X(k), "crash")
  BY DEF Crash
<1>2. wire' = <<>> /\ deque' = <<>> /\ UNCHANGED <<remote, taken, again>>
  BY DEF Crash, directory
<1>3. /\ FilesOK(sec') /\ Stored(sec) = Stored(sec') \cup X(k) /\ Stored(sec') \cap X(k) = {}
      /\ X(k) \in SUBSET Msgs
  <2>1. FilesOK(sec)
    BY InvPlaces
  <2> QED BY <1>1, <2>1, CrashFiles
<1> HIDE DEF X
<1>4. GivenUp(fate') = GivenUp(fate) \cup ToSet(deque) \cup ToSet(wire) \cup X(k)
  <2>1. ToSet(deque) \in SUBSET Msgs /\ ToSet(wire) \in SUBSET Msgs
    BY InvPlaces
  <2> QED BY <1>1, <1>3, <2>1 DEF GivenUp, GiveUp
<1>5. Parted(ToSet(remote), {}, {}, Stored(sec), GivenUp(fate), Upto(taken), again)'
  <2>1. Parted(ToSet(remote), {}, {}, Stored(sec'), GivenUp(fate'), Upto(taken),
               again)
    BY <1>3, <1>4, InvPlaces DEF Parted
  <2> QED BY <1>2, <2>1
<1>6. <<>> \in Seq(Msgs) /\ ToSet(<<>>) = {} /\ UniqueBut(<<>>, again)
  BY EmptyElements
<1> QED BY <1>2, <1>3, <1>5, <1>6, InvPlaces DEF Places, NoRepeats, OnePlace
(* What one message more makes of the messages taken. *)
LEMMA NextMessage ==
  ASSUME Inv, taken < MaxMsgs
  PROVE  /\ taken + 1 \in Msgs /\ Upto(taken + 1) = Upto(taken) \cup {taken + 1}
         /\ taken + 1 \notin Upto(taken)
<1>1. taken \in Nat /\ MaxMsgs \in Nat
  BY InvPlaces, BoundsAssumption
<1> QED BY <1>1 DEF Upto, Msgs

LEMMA SecondaryPlaces ==
  ASSUME Inv, NEW s, FilesOK(s), Stored(s) = Stored(sec), NEW m \in Msgs,
         m \notin Stored(sec), m \notin GivenUp(fate), ToSecondary(m, s)
  PROVE  /\ FilesOK(sec')
         /\ \/ Stored(sec') = Stored(sec) \cup {m} /\ GivenUp(fate') = GivenUp(fate)
            \/ Stored(sec') = Stored(sec) /\ GivenUp(fate') = GivenUp(fate) \cup {m}
<1>1. PICK t \in SecEnsure(s) :
        IF t.isOpen
          THEN sec' = [t EXCEPT !.cur = Append(@, m)] /\ UNCHANGED fate
          ELSE sec' = t /\ fate' = GiveUp({m}, "drop")
  BY DEF ToSecondary
<1>2. FilesOK(t) /\ Stored(t) = Stored(sec)
  BY EnsureFiles
<1>3. CASE t.isOpen
  <2>1. sec' = [t EXCEPT !.cur = Append(@, m)] /\ fate' = fate
    BY <1>1, <1>3
  <2>2. FilesOK(sec') /\ Stored(sec') = Stored(t) \cup {m}
    BY <1>2, <1>3, <2>1, WriteFiles
  <2> QED BY <1>2, <2>1, <2>2
<1>4. CASE ~t.isOpen
  <2>1. sec' = t /\ fate' = GiveUp({m}, "drop")
    BY <1>1, <1>4
  <2>2. GivenUp(fate') = GivenUp(fate) \cup {m}
    BY <2>1 DEF GivenUp, GiveUp
  <2> QED BY <1>2, <2>1, <2>2
<1> QED BY <1>3, <1>4

LEMMA StorePlaces ==
  ASSUME Inv, StoreMessage
  PROVE  Places'
<1> DEFINE m == taken + 1
           R == ToSet(remote)
           W == ToSet(wire)
           D == ToSet(deque)
           F == Stored(sec)
           G == GivenUp(fate)
           T == Upto(taken)
<1>1. m \in Msgs /\ Upto(m) = T \cup {m} /\ m \notin T
  BY NextMessage DEF StoreMessage
<1>2. /\ taken' = m /\ DoAddMessage(m) /\ deque' = deque /\ remote' = remote
      /\ again' = again
  BY DEF StoreMessage, directory
<1>3. Parted(R, W, D, F, G, T, again)
  BY InvPlaces
<1>4. m \notin R /\ m \notin W /\ m \notin D /\ m \notin F /\ m \notin G
  BY <1>1, <1>3 DEF Parted
<1>5. /\ remote \in Seq(Msgs) /\ wire \in Seq(Msgs) /\ deque \in Seq(Msgs)
      /\ UniqueBut(remote, again) /\ UniqueBut(wire, again) /\ UniqueBut(deque, again)
      /\ FilesOK(sec)
  BY InvPlaces DEF Places
<1>6. CASE state = "kToPrimary" /\ up
  <2>1. wire' = Append(wire, m) /\ UNCHANGED <<sec, fate>>
    BY <1>2, <1>6 DEF DoAddMessage, Log
  <2>2. wire' \in Seq(Msgs) /\ ToSet(wire') = W \cup {m} /\ UniqueBut(wire', again)
    BY <1>1, <1>4, <1>5, <2>1, AppendElements
  <2>3. Parted(R, W \cup {m}, D, F, G, T \cup {m}, again)
    BY <1>3, <1>4 DEF Parted
  <2> QED BY <1>1, <1>2, <1>5, <2>1, <2>2, <2>3 DEF Places, NoRepeats, OnePlace
<1>7. ASSUME NEW s, FilesOK(s), Stored(s) = F, ToSecondary(m, s), wire' = wire
      PROVE  Places'
  <2>1. /\ FilesOK(sec')
        /\ \/ Stored(sec') = F \cup {m} /\ GivenUp(fate') = G
           \/ Stored(sec') = F /\ GivenUp(fate') = G \cup {m}
    BY <1>1, <1>4, <1>7, SecondaryPlaces
  <2>2. Parted(R, W, D, F \cup {m}, G, T \cup {m}, again)
    BY <1>3, <1>4 DEF Parted
  <2>3. Parted(R, W, D, F, G \cup {m}, T \cup {m}, again)
    BY <1>3, <1>4 DEF Parted
  <2>4. Parted(R, W, D, Stored(sec'), GivenUp(fate'), T \cup {m}, again)
    BY <2>1, <2>2, <2>3
  <2> QED BY <1>1, <1>2, <1>5, <1>7, <2>1, <2>4 DEF Places, NoRepeats, OnePlace
<1>8. CASE state = "kToPrimary" /\ ~up
  <2>1. wire' = wire /\ \E s \in SecOpen(sec) : ToSecondary(m, s)
    BY <1>2, <1>8 DEF DoAddMessage
  <2>2. PICK s \in SecOpen(sec) : ToSecondary(m, s)
    BY <2>1
  <2>3. FilesOK(s) /\ Stored(s) = F
    BY <1>5, OpenFiles
  <2> QED BY <1>7, <2>1, <2>2, <2>3
<1>9. CASE state \in {"kToSecondary", "kTransfering"}
  <2>1. wire' = wire /\ ToSecondary(m, sec)
    BY <1>2, <1>9 DEF DoAddMessage
  <2> QED BY <1>5, <1>7, <2>1
<1>10. CASE state = "garbage"
  <2>1. fate' = GiveUp({m}, "ignored") /\ UNCHANGED <<wire, sec>>
    BY <1>2, <1>10 DEF DoAddMessage
  <2>2. GivenUp(fate') = G \cup {m}
    BY <1>1, <2>1 DEF GivenUp, GiveUp
  <2>3. Parted(R, W, D, F, G \cup {m}, T \cup {m}, again)
    BY <1>3, <1>4 DEF Parted
  <2> QED BY <1>1, <1>2, <1>5, <2>1, <2>2, <2>3 DEF Places, NoRepeats, OnePlace
<1> QED BY <1>2, <1>6, <1>8, <1>9, <1>10 DEF DoAddMessage

LEMMA SendPlaces ==
  ASSUME Inv, SendRequest
  PROVE  Places'
<1> DEFINE h == Head(wire)
           V == ToSet(Tail(wire))
<1>1. /\ wire # <<>> /\ wire' = Tail(wire) /\ remote' = Append(remote, h)
      /\ UNCHANGED <<deque, sec, taken, fate, again>>
  BY DEF SendRequest, directory
<1>2. /\ remote \in Seq(Msgs) /\ wire \in Seq(Msgs) /\ deque \in Seq(Msgs)
      /\ UniqueBut(remote, again) /\ UniqueBut(wire, again) /\ UniqueBut(deque, again)
      /\ FilesOK(sec)
  BY InvPlaces DEF Places
<1>3. /\ h \in Msgs /\ wire' \in Seq(Msgs) /\ ToSet(wire) = {h} \cup V
      /\ UniqueBut(wire', again) /\ (h \in V => h \in again)
  BY <1>1, <1>2, HeadElements
<1>4. Parted(ToSet(remote), ToSet(wire), ToSet(deque), Stored(sec), GivenUp(fate), Upto(taken),
             again)
  BY InvPlaces
<1>5. h \in ToSet(remote) => h \in again
  BY <1>3, <1>4 DEF Parted
<1>6. /\ remote' \in Seq(Msgs) /\ ToSet(remote') = ToSet(remote) \cup {h}
      /\ UniqueBut(remote', again)
  BY <1>1, <1>2, <1>3, <1>5, AppendElements
<1> HIDE DEF h, V
<1>7. Parted(ToSet(remote) \cup {h}, V, ToSet(deque), Stored(sec), GivenUp(fate), Upto(taken),
             again)
  BY <1>3, <1>4 DEF Parted
<1>8. ToSet(wire') = V
  BY <1>1 DEF V
<1> QED BY <1>1, <1>2, <1>3, <1>6, <1>7, <1>8 DEF Places, NoRepeats, OnePlace

LEMMA DisconnectPlaces ==
  ASSUME Inv, OnDisconnect
  PROVE  Places'
<1>1. /\ wire' = <<>> /\ fate' = GiveUp(ToSet(wire), "wire")
      /\ UNCHANGED <<deque, sec, remote, taken, again>>
  BY DEF OnDisconnect, directory
<1>2. GivenUp(fate') = GivenUp(fate) \cup ToSet(wire)
  <2>1. ToSet(wire) \in SUBSET Msgs
    BY InvPlaces
  <2> QED BY <1>1, <2>1 DEF GivenUp, GiveUp
<1>3. Parted(ToSet(remote), {}, ToSet(deque), Stored(sec), GivenUp(fate'), Upto(taken),
             again)
  BY <1>2, InvPlaces DEF Parted
<1>4. <<>> \in Seq(Msgs) /\ ToSet(<<>>) = {} /\ UniqueBut(<<>>, again)
  BY EmptyElements
<1> QED BY <1>1, <1>3, <1>4, InvPlaces DEF Places, NoRepeats, OnePlace
(* What leaves msg_to_transfer_ and what stays. *)
LEMMA CronCut ==
  ASSUME Inv
  PROVE  /\ Leaving \in 0..Len(deque)
         /\ SubSeq(deque, 1, Leaving) \in Seq(Msgs) /\ Rest \in Seq(Msgs)
         /\ ToSet(deque) = ToSet(SubSeq(deque, 1, Leaving)) \cup ToSet(Rest)
         /\ ToSet(SubSeq(deque, 1, Leaving)) \cap ToSet(Rest) \subseteq again
         /\ UniqueBut(SubSeq(deque, 1, Leaving), again) /\ UniqueBut(Rest, again)
<1>1. deque \in Seq(Msgs) /\ UniqueBut(deque, again) /\ Len(deque) \in Nat
  BY InvPlaces DEF Places
<1>2. Leaving \in 0..Len(deque)
  BY <1>1, BoundsAssumption DEF Leaving
<1> QED BY <1>1, <1>2, CutElements DEF Rest

(* The file that is read leaves the directory, and nothing else does; when *)
(* it could not be deleted, nothing does.                                  *)
LEMMA CronFiles ==
  ASSUME Inv, NEW failing, NEW f \in Candidates(failing)
  PROVE  /\ FilesOK(SecondaryRead(f, failing)) /\ f \in Seq(Msgs) /\ Unique(f)
         /\ ToSet(f) \subseteq Stored(sec)
         /\ "delete" \in failing => Stored(SecondaryRead(f, failing)) = Stored(sec)
         /\ "delete" \notin failing =>
              Stored(SecondaryRead(f, failing)) = Stored(sec) \ ToSet(f)
<1> DEFINE c == SecClose(sec)
           s == SecondaryRead(f, failing)
<1>0. FilesOK(sec)
  BY InvPlaces
<1>1. FilesOK(c) /\ Stored(c) = Stored(sec) /\ ~c.isOpen
  BY <1>0, CloseFiles
<1>2. (f = <<>> /\ (Reads(failing) => c.old = {})) \/ (Reads(failing) /\ f \in c.old)
  BY DEF Candidates
<1>e. ToSet(<<>>) = {} /\ Unique(<<>>) /\ <<>> \in Seq(Msgs)
  BY EmptyElements
<1> HIDE DEF c
<1>3. /\ c \in Secondary /\ c.cur = <<>> /\ c.old \in SUBSET (Seq(Msgs) \ {<<>>})
      /\ \A g \in c.old : Unique(g)
      /\ \A g, h \in c.old : ToSet(g) \cap ToSet(h) # {} => g = h
  BY <1>1 DEF FilesOK, Secondary
<1>4. CASE ~Reads(failing)
  <2>1. s = sec /\ f = <<>>
    BY <1>2, <1>4 DEF SecondaryRead
  <2> QED BY <1>0, <1>e, <2>1
<1>5. CASE Reads(failing)
  <2>3. f \in Seq(Msgs) /\ Unique(f)
    BY <1>2, <1>3, <1>e
  <2>4. ToSet(f) \in SUBSET Msgs /\ (f \notin c.old => f = <<>>)
    BY <1>2, <2>3, Elements
  <2>8. ToSet(f) \subseteq Stored(c)
    BY <1>e, <2>4 DEF Stored
  <2>9. CASE "delete" \in failing
    <3>1. s = c
      BY <1>5, <2>9 DEF SecondaryRead, DeleteOldestMessages, c
    <3> QED BY <1>1, <2>3, <2>8, <2>9, <3>1
  <2>10. CASE "delete" \notin failing
    <3>1. s = [c EXCEPT !.old = @ \ {f}]
      BY <1>5, <2>10 DEF SecondaryRead, DeleteOldestMessages, c
    <3>2. s.old = c.old \ {f} /\ s.cur = <<>> /\ s.isOpen = c.isOpen /\ s \in Secondary
      BY <1>3, <3>1 DEF Secondary
    <3> HIDE DEF s
    <3>5. FilesOK(s)
      BY <1>3, <1>e, <3>2 DEF FilesOK
    <3>6. Stored(c) = Stored(s) \cup ToSet(f)
      BY <1>3, <1>e, <2>4, <3>2 DEF Stored
    <3>7. Stored(s) \cap ToSet(f) = {}
      BY <1>3, <1>e, <2>4, <3>2 DEF Stored
    <3>8. Stored(s) = Stored(c) \ ToSet(f)
      BY <3>6, <3>7
    <3> QED BY <1>1, <2>3, <2>8, <2>10, <3>5, <3>8 DEF s
  <2> QED BY <2>9, <2>10
<1> QED BY <1>4, <1>5

(* What is read of it. *)
LEMMA CronRead ==
  ASSUME Inv, NEW failing, NEW f \in Candidates(failing), NEW opened \in BOOLEAN,
         NEW read \in GetOldestMessages(f, opened)
  PROVE  /\ read \in Seq(Msgs) /\ ToSet(read) \subseteq ToSet(f) /\ Unique(read)
         /\ read = GetMessages(f) \/ (read = <<>> /\ (DiskFails \/ ~opened))
<1>1. f \in Seq(Msgs) /\ Unique(f)
  BY CronFiles
<1>2. read = GetMessages(f) \/ (read = <<>> /\ (DiskFails \/ ~opened))
  BY DEF GetOldestMessages
<1>3. <<>> \in Seq(Msgs) /\ ToSet(<<>>) = {} /\ Unique(<<>>)
  BY EmptyElements
<1>4. /\ GetMessages(f) \in Seq(Msgs) /\ ToSet(GetMessages(f)) \subseteq ToSet(f)
      /\ Unique(GetMessages(f))
  BY <1>1, ReadMessages
<1> QED BY <1>2, <1>3, <1>4

(* The secondary after a cron. *)
LEMMA CronSecondary ==
  ASSUME NEW s, FilesOK(s),
         sec' = SecClose(s) \/ sec' \in {s} \cup (IF s.isOpen THEN SecOpen(s) ELSE {})
  PROVE  FilesOK(sec') /\ Stored(sec') = Stored(s)
<1>1. sec' = SecClose(s) \/ sec' = s \/ sec' \in SecOpen(s)
  OBVIOUS
<1> QED BY <1>1, CloseFiles, OpenFiles

(* A cron in which the lookups in failing fail, and read is read of file f. *)
CronStep(failing, f, read) ==
  /\ failing \in SUBSET Lookups /\ f \in Candidates(failing)
  /\ read \in GetOldestMessages(f, "get" \notin failing)
  /\ DirectoryFails(failing)
  /\ deque' = Rest \o read
  /\ fate' = [m \in Msgs |->
       IF ~up /\ m \in ToSet(SubSeq(deque, 1, Leaving)) THEN "transfer"
       ELSE IF "delete" \in failing \/ m \notin ToSet(f) \ ToSet(read) THEN fate[m]
       ELSE IF m \in ToSet(GetMessages(f)) THEN "unread" ELSE "badfile"]
  /\ again' = IF "delete" \in failing THEN again \cup ToSet(read) ELSE again
  /\ IF Switches(SecondaryRead(f, failing), failing)
       THEN /\ state' = "kToPrimary" /\ sec' = SecClose(SecondaryRead(f, failing))
            /\ missed' = ("left" \in failing)
       ELSE /\ state' = CronState /\ missed' = missed
            /\ sec' \in {SecondaryRead(f, failing)}
                 \cup (IF SecondaryRead(f, failing).isOpen
                         THEN SecOpen(SecondaryRead(f, failing)) ELSE {})

LEMMA CronSteps ==
  ASSUME Cron
  PROVE  \E failing, f, read : CronStep(failing, f, read)
  BY Zenon DEF Cron, CronStep

(* What a cron does to the places: O leaves msg_to_transfer_, E is read of *)
(* file X, which is kept or deleted.                                       *)
LEMMA PartedKept ==
  ASSUME NEW R, NEW W, NEW O, NEW D, NEW F, NEW G, NEW T, NEW A, NEW E,
         Parted(R, W, O \cup D, F, G, T, A), O \cap D \subseteq A, E \subseteq F
  PROVE  /\ Parted(R, W \cup O, D \cup E, F, G \cup {}, T, A \cup E)
         /\ Parted(R, W, D \cup E, F, G \cup O, T, A \cup E)
<1>1. Parted(R, W \cup O, D \cup E, F, G \cup {}, T, A \cup E)
  BY DEF Parted
<1>2. Parted(R, W, D \cup E, F, G \cup O, T, A \cup E)
  BY DEF Parted
<1> QED BY <1>1, <1>2

LEMMA PartedDeleted ==
  ASSUME NEW R, NEW W, NEW O, NEW D, NEW F, NEW G, NEW T, NEW A, NEW E, NEW X,
         Parted(R, W, O \cup D, F, G, T, A), O \cap D \subseteq A,
         E \subseteq X, X \subseteq F
  PROVE  /\ Parted(R, W \cup O, D \cup E, F \ X, G \cup (X \ E), T, A)
         /\ Parted(R, W, D \cup E, F \ X, G \cup ((X \ E) \cup O), T, A)
<1>1. Parted(R, W \cup O, D \cup E, F \ X, G \cup (X \ E), T, A)
  BY DEF Parted
<1>2. Parted(R, W, D \cup E, F \ X, G \cup ((X \ E) \cup O), T, A)
  BY DEF Parted
<1> QED BY <1>1, <1>2

LEMMA UniqueMore ==
  ASSUME NEW s, NEW A, NEW B, A \subseteq B
  PROVE  UniqueBut(s, A) => UniqueBut(s, B)
  BY DEF UniqueBut

LEMMA CronPlaces ==
  ASSUME Inv, Cron
  PROVE  Places'
<1> DEFINE out == SubSeq(deque, 1, Leaving)
<1>1. /\ IF up THEN wire' = wire \o out ELSE wire' = wire
      /\ UNCHANGED <<remote, taken>>
  BY DEF Cron
<1>2. PICK failing, f, read : CronStep(failing, f, read)
  BY CronSteps
<1>p. /\ f \in Candidates(failing) /\ read \in GetOldestMessages(f, "get" \notin failing)
      /\ deque' = Rest \o read
      /\ fate' = [m \in Msgs |->
           IF ~up /\ m \in ToSet(out) THEN "transfer"
           ELSE IF "delete" \in failing \/ m \notin ToSet(f) \ ToSet(read) THEN fate[m]
           ELSE IF m \in ToSet(GetMessages(f)) THEN "unread" ELSE "badfile"]
      /\ again' = IF "delete" \in failing THEN again \cup ToSet(read) ELSE again
      /\ \/ sec' = SecClose(SecondaryRead(f, failing))
         \/ sec' \in {SecondaryRead(f, failing)}
              \cup (IF SecondaryRead(f, failing).isOpen
                      THEN SecOpen(SecondaryRead(f, failing)) ELSE {})
  BY <1>2 DEF CronStep
<1> DEFINE s == SecondaryRead(f, failing)
           O == ToSet(out)
           D == ToSet(Rest)
           E == ToSet(read)
           B == IF "delete" \in failing THEN {} ELSE ToSet(f) \ ToSet(read)
           L == IF up THEN B ELSE B \cup O
           A == again'
<1>3. /\ out \in Seq(Msgs) /\ Rest \in Seq(Msgs) /\ ToSet(deque) = O \cup D
      /\ O \cap D \subseteq again /\ UniqueBut(out, again) /\ UniqueBut(Rest, again)
  BY CronCut
<1>4. /\ FilesOK(s) /\ f \in Seq(Msgs) /\ ToSet(f) \subseteq Stored(sec)
      /\ "delete" \in failing => Stored(s) = Stored(sec)
      /\ "delete" \notin failing => Stored(s) = Stored(sec) \ ToSet(f)
  BY <1>p, CronFiles
<1>5. read \in Seq(Msgs) /\ E \subseteq ToSet(f) /\ Unique(read)
  BY <1>p, CronRead
<1>6. O \in SUBSET Msgs /\ D \in SUBSET Msgs /\ ToSet(f) \in SUBSET Msgs
  BY <1>3, <1>4, Elements
<1>7. FilesOK(sec') /\ Stored(sec') = Stored(s)
  <2>1. sec' = SecClose(s) \/ sec' \in {s} \cup (IF s.isOpen THEN SecOpen(s) ELSE {})
    BY <1>p
  <2> HIDE DEF s
  <2> QED BY <1>4, <2>1, CronSecondary
<1>8. /\ remote \in Seq(Msgs) /\ wire \in Seq(Msgs)
      /\ UniqueBut(remote, again) /\ UniqueBut(wire, again)
      /\ Parted(ToSet(remote), ToSet(wire), ToSet(deque), Stored(sec), GivenUp(fate),
                Upto(taken), again)
  BY InvPlaces DEF Places
<1>a. /\ again \subseteq A /\ ("delete" \in failing => E \subseteq A)
      /\ A \subseteq again \cup E
  BY <1>p
<1>u. /\ UniqueBut(out, A) /\ UniqueBut(Rest, A) /\ UniqueBut(remote, A) /\ UniqueBut(wire, A)
      /\ UniqueBut(read, A)
  BY <1>3, <1>5, <1>8, <1>a, UniqueMore DEF Unique
<1>g. GivenUp(fate') = GivenUp(fate) \cup L
  <2>1. L \in SUBSET Msgs
    BY <1>6
  <2>2. ASSUME NEW m \in Msgs PROVE fate'[m] # "none" <=> fate[m] # "none" \/ m \in L
    BY <1>p, <2>2
  <2> QED BY <2>1, <2>2 DEF GivenUp
<1> HIDE DEF out, s
<1>9. D \cap E \subseteq A /\ ToSet(wire) \cap O \subseteq A
  BY <1>3, <1>4, <1>5, <1>8, <1>a DEF Parted
<1>10. deque' \in Seq(Msgs) /\ ToSet(deque') = D \cup E /\ UniqueBut(deque', A)
  BY <1>p, <1>3, <1>5, <1>9, <1>u, ConcatElements
<1> DEFINE V == IF up THEN ToSet(wire) \cup O ELSE ToSet(wire)
<1>11. wire' \in Seq(Msgs) /\ ToSet(wire') = V /\ UniqueBut(wire', A)
  <2>1. CASE up
    <3>1. wire' = wire \o out /\ V = ToSet(wire) \cup O
      BY <1>1, <2>1
    <3> HIDE DEF V, A
    <3> QED BY <1>3, <1>8, <1>9, <1>u, <3>1, ConcatElements
  <2>2. CASE ~up
    BY <1>1, <1>8, <1>u, <2>2
  <2> QED BY <2>1, <2>2
<1>12. Parted(ToSet(remote), V, D \cup E, Stored(s), GivenUp(fate) \cup L, Upto(taken), A)
  <2>0. Parted(ToSet(remote), ToSet(wire), O \cup D, Stored(sec), GivenUp(fate), Upto(taken),
               again)
    BY <1>3, <1>8
  <2>2. CASE "delete" \in failing
    <3>1. /\ Stored(s) = Stored(sec) /\ A = again \cup E
          /\ L = (IF up THEN {} ELSE O) /\ E \subseteq Stored(sec)
      BY <1>p, <1>4, <1>5, <2>2
    <3> HIDE DEF D, E, O, L, A
    <3> QED BY <1>3, <2>0, <3>1, PartedKept
  <2>3. CASE "delete" \notin failing
    <3>1. /\ Stored(s) = Stored(sec) \ ToSet(f) /\ A = again
          /\ L = (IF up THEN ToSet(f) \ E ELSE (ToSet(f) \ E) \cup O)
          /\ E \subseteq ToSet(f) /\ ToSet(f) \subseteq Stored(sec)
      BY <1>p, <1>4, <1>5, <2>3
    <3> HIDE DEF D, E, O, L, A
    <3>2. O \cap D \subseteq again
      BY <1>3
    <3> DEFINE X == ToSet(f)
               M == GivenUp(fate)
    <3>3. Parted(ToSet(remote), ToSet(wire) \cup O, D \cup E, Stored(sec) \ X, M \cup (X \ E),
                 Upto(taken), again)
      BY <2>0, <3>1, <3>2, PartedDeleted
    <3>4. Parted(ToSet(remote), ToSet(wire), D \cup E, Stored(sec) \ X,
                 M \cup ((X \ E) \cup O), Upto(taken), again)
      BY <2>0, <3>1, <3>2, PartedDeleted
    <3> HIDE DEF X, M
    <3>5. CASE up
      BY <3>1, <3>3, <3>5 DEF X, M
    <3>6. CASE ~up
      BY <3>1, <3>4, <3>6 DEF X, M
    <3> QED BY <3>5, <3>6
  <2> QED BY <2>2, <2>3
<1> QED BY <1>1, <1>7, <1>8, <1>10, <1>11, <1>12, <1>g, <1>u DEF Places, NoRepeats, OnePlace

LEMMA StepPlaces ==
  ASSUME Inv, [Next]_vars
  PROVE  Places'
<1>1. ASSUME UNCHANGED <<remote, wire, deque, sec, fate, taken, again>> PROVE Places'
  BY <1>1, InvPlaces DEF Places, NoRepeats, OnePlace
<1>2. CASE Read
  <2>1. PICK k \in 1..acks : ReadReply(k)
    BY <1>2 DEF Read
  <2> QED BY <1>1, <2>1 DEF ReadReply, directory
<1>3. CASE Outage
  BY <1>1, <1>3 DEF Outage, primary, directory
<1>4. CASE Restored
  BY <1>1, <1>4 DEF Restored, primary, directory
<1>5. CASE UNCHANGED vars
  BY <1>1, <1>5 DEF vars
<1> QED BY <1>2, <1>3, <1>4, <1>5, CreatePlaces, ReloadPlaces, CrashPlaces, StorePlaces,
           CronPlaces, SendPlaces, DisconnectPlaces DEF Next
----------------------------------------------------------------------------
(* The rest of the invariant. *)
States == {"kToPrimary", "kToSecondary", "kTransfering", "garbage"}
Fates == {"none", "wire", "transfer", "badfile", "unread", "drop", "ignored", "close",
          "crash"}

LEMMA StepQuiet ==
  ASSUME Inv, [Next]_vars
  PROVE  Quiet'
<1>1. Quiet
  BY DEF Inv
<1>2. CASE Create
  BY <1>2 DEF Create, Quiet
<1>3. CASE DoConfigReload
  BY <1>3 DEF DoConfigReload, Quiet
<1>4. CASE Crash
  BY <1>4 DEF Crash, Quiet
<1>5. CASE StoreMessage
  BY <1>5 DEF StoreMessage, environment, Quiet
<1>6. CASE Cron
  BY <1>6 DEF Cron, environment, Quiet
<1>7. CASE SendRequest
  BY <1>1, <1>7 DEF SendRequest, environment, Quiet
<1>8. CASE Read
  <2>1. PICK k \in 1..acks : ReadReply(k)
    BY <1>8 DEF Read
  <2> QED BY <1>1, <2>1 DEF ReadReply, environment, Quiet
<1>9. CASE OnDisconnect
  BY <1>1, <1>9 DEF OnDisconnect, environment, Quiet
<1>10. CASE Outage \/ Restored
  BY <1>1, <1>10 DEF Outage, Restored, primary, Quiet
<1>11. CASE UNCHANGED vars
  BY <1>1, <1>11 DEF vars, Quiet
<1> QED BY <1>2, <1>3, <1>4, <1>5, <1>6, <1>7, <1>8, <1>9, <1>10, <1>11 DEF Next

LEMMA OpenStranded ==
  ASSUME NEW s, s.isOpen \in BOOLEAN, ~s.isOpen, Open(s)
  PROVE  NothingStranded'
<1>1. deque' = <<>>
  BY DEF Open
<1>2. CASE net
  <2>1. PICK failing \in SUBSET {"have"} :
          /\ state' = IF HaveOldMessage(s, failing = {}) THEN "kTransfering" ELSE "kToPrimary"
          /\ missed' = (failing # {})
    BY <1>2 DEF Open
  <2>2. sec' = s
    BY <1>2 DEF Open
  <2>3. CASE state' = "kToPrimary"
    <3>1. ~HaveOldMessage(s, failing = {})
      BY <2>1, <2>3
    <3>2. missed' \/ s.old = {}
      BY <2>1, <3>1 DEF HaveOldMessage
    <3>3. missed' \/ Files' = {}
      BY <2>2, <3>2 DEF Files
    <3> QED BY <1>1, <2>2, <3>3 DEF NothingStranded
  <2> QED BY <2>3 DEF NothingStranded
<1>3. CASE ~net
  <2>1. isOpen' => state' = "kToSecondary"
    BY <1>3 DEF Open
  <2> QED BY <2>1 DEF NothingStranded
<1> QED BY <1>2, <1>3

LEMMA CronStranded ==
  ASSUME Inv, Cron
  PROVE  NothingStranded'
<1> SUFFICES ASSUME isOpen', state' = "kToPrimary"
             PROVE  deque' = <<>> /\ ~sec'.isOpen /\ (missed' \/ Files' = {})
  BY DEF NothingStranded
<1>1. isOpen
  BY DEF Cron
<1>2. PICK failing, f, read : CronStep(failing, f, read)
  BY CronSteps
<1> DEFINE s == SecondaryRead(f, failing)
<1>3. s \in Secondary /\ s.isOpen \in BOOLEAN /\ FilesOK(s)
  BY <1>2, CronFiles DEF CronStep, FilesOK, Secondary
<1>4. CASE Switches(s, failing)
  <2>1. /\ deque' = <<>> /\ ~HaveOldMessage(s, "left" \notin failing)
        /\ sec' = SecClose(s) /\ missed' = ("left" \in failing)
    BY <1>2, <1>4 DEF Switches, CronStep
  <2>2. ~SecClose(s).isOpen
    BY <1>3, CloseFiles
  <2>3. CASE "left" \notin failing
    <3>1. s.old = {} /\ ~s.isOpen
      BY <2>1, <2>3 DEF HaveOldMessage
    <3>2. SecClose(s) = s
      BY <3>1 DEF SecClose
    <3>3. Files' = {}
      BY <2>1, <3>1, <3>2 DEF Files
    <3> QED BY <2>1, <2>2, <3>3
  <2> QED BY <2>1, <2>2, <2>3
<1>5. CASE ~Switches(s, failing)
  <2>1. /\ state' = CronState /\ missed' = missed
        /\ sec' \in {s} \cup (IF s.isOpen THEN SecOpen(s) ELSE {})
        /\ deque' = Rest \o read /\ f \in Candidates(failing)
        /\ read \in GetOldestMessages(f, "get" \notin failing)
    BY <1>2, <1>5 DEF CronStep
  <2>2. state = "kToPrimary" /\ CronState # "kTransfering"
    BY <2>1 DEF CronState
  <2>3. deque = <<>> /\ ~sec.isOpen /\ (missed \/ Files = {})
    BY <1>1, <2>2 DEF Inv, NothingStranded
  <2>4. ~Reads(failing) /\ Leaving = 0
    BY <2>2 DEF Reads, Leaving
  <2>5. s = sec /\ f = <<>>
    BY <2>1, <2>4 DEF SecondaryRead, Candidates
  <2>7. sec' = sec
    BY <2>1, <2>3, <2>5
  <2>8. Rest = <<>>
    <3>1. Rest = SubSeq(<<>>, 1, 0)
      BY <2>3, <2>4 DEF Rest
    <3> QED BY <3>1
  <2>9. read = <<>>
    <3>1. GetMessages(<<>>) = <<>>
      BY DEF GetMessages
    <3> QED BY <2>1, <2>5, <3>1 DEF GetOldestMessages
  <2>10. deque' = <<>>
    BY <2>1, <2>8, <2>9
  <2> QED BY <2>1, <2>3, <2>7, <2>10 DEF Files
<1> QED BY <1>4, <1>5

LEMMA StepStranded ==
  ASSUME Inv, [Next]_vars
  PROVE  NothingStranded'
<1>1. NothingStranded
  BY DEF Inv
<1>2. ASSUME UNCHANGED <<isOpen, state, deque, sec, missed>> PROVE NothingStranded'
  BY <1>1, <1>2 DEF NothingStranded, Files
<1>3. CASE Create
  <2>1. FilesOK(sec) /\ sec.isOpen \in BOOLEAN /\ (~running => ~sec.isOpen)
    BY InvPlaces DEF FilesOK, Secondary, Inv, Quiet
  <2> QED BY <1>3, <2>1, OpenStranded DEF Create
<1>4. CASE DoConfigReload
  <2>1. FilesOK(SecClose(sec)) /\ ~SecClose(sec).isOpen
    BY InvPlaces, CloseFiles
  <2>2. SecClose(sec).isOpen \in BOOLEAN
    BY <2>1 DEF FilesOK, Secondary
  <2> QED BY <1>4, <2>1, <2>2, OpenStranded DEF DoConfigReload
<1>5. CASE Crash
  BY <1>5 DEF Crash, NothingStranded
<1>6. CASE StoreMessage
  <2>1. DoAddMessage(taken + 1) /\ UNCHANGED <<isOpen, deque, missed>>
    BY <1>6 DEF StoreMessage, directory
  <2>2. CASE state = "kToPrimary" /\ up
    BY <1>2, <2>1, <2>2 DEF DoAddMessage
  <2>3. CASE ~(state = "kToPrimary" /\ up)
    <3>1. state' # "kToPrimary"
      BY <2>1, <2>3 DEF DoAddMessage
    <3> QED BY <3>1 DEF NothingStranded
  <2> QED BY <2>2, <2>3
<1>7. CASE SendRequest
  BY <1>2, <1>7 DEF SendRequest, directory
<1>8. CASE Read
  <2>1. PICK k \in 1..acks : ReadReply(k)
    BY <1>8 DEF Read
  <2> QED BY <1>2, <2>1 DEF ReadReply, directory
<1>9. CASE OnDisconnect
  BY <1>2, <1>9 DEF OnDisconnect, directory
<1>10. CASE Outage \/ Restored
  BY <1>2, <1>10 DEF Outage, Restored, directory
<1>11. CASE UNCHANGED vars
  BY <1>2, <1>11 DEF vars
<1> QED BY <1>3, <1>4, <1>5, <1>6, <1>7, <1>8, <1>9, <1>10, <1>11, CronStranded DEF Next

LEMMA StepAcks ==
  ASSUME Inv, [Next]_vars
  PROVE  acks' \in Nat /\ acks' <= Len(remote')
<1>1. acks \in Nat /\ acks <= Len(remote) /\ remote \in Seq(Msgs) /\ Len(remote) \in Nat
  BY BoundsAssumption DEF Inv, TypeOK
<1>2. ASSUME acks' = acks \/ acks' = 0, remote' = remote
      PROVE  acks' \in Nat /\ acks' <= Len(remote')
  BY <1>1, <1>2
<1>3. CASE Create
  BY <1>2, <1>3 DEF Create, Open
<1>4. CASE DoConfigReload
  BY <1>2, <1>4 DEF DoConfigReload, Open
<1>5. CASE Crash
  BY <1>2, <1>5 DEF Crash
<1>6. CASE StoreMessage
  BY <1>2, <1>6 DEF StoreMessage
<1>7. CASE Cron
  BY <1>2, <1>7 DEF Cron
<1>8. CASE SendRequest
  <2>1. acks' = acks + 1 /\ remote' = Append(remote, Head(wire))
    BY <1>8 DEF SendRequest
  <2>2. Len(remote') = Len(remote) + 1
    BY <1>1, <2>1
  <2> QED BY <1>1, <2>1, <2>2
<1>9. CASE Read
  <2>1. PICK k \in 1..acks : ReadReply(k)
    BY <1>9 DEF Read
  <2>2. acks' = acks - k /\ remote' = remote
    BY <2>1 DEF ReadReply, ProcessReplyBuffer
  <2> QED BY <1>1, <2>2
<1>10. CASE OnDisconnect
  BY <1>2, <1>10 DEF OnDisconnect
<1>11. CASE Outage \/ Restored
  BY <1>2, <1>11 DEF Outage, Restored, primary
<1>12. CASE UNCHANGED vars
  BY <1>2, <1>12 DEF vars
<1> QED BY <1>3, <1>4, <1>5, <1>6, <1>7, <1>8, <1>9, <1>10, <1>11, <1>12 DEF Next

(* How each variable that no place is about may change. *)
LEMMA StepControl ==
  ASSUME Inv, [Next]_vars
  PROVE  /\ isOpen' \in BOOLEAN /\ up' \in BOOLEAN /\ sending' \in BOOLEAN
         /\ net' \in BOOLEAN /\ running' \in BOOLEAN /\ state' \in States
<1>1. /\ isOpen \in BOOLEAN /\ up \in BOOLEAN /\ sending \in BOOLEAN
      /\ net \in BOOLEAN /\ running \in BOOLEAN /\ state \in States
  BY DEF Inv, TypeOK, States
<1>2. ASSUME NEW s, FilesOK(s), Open(s)
      PROVE  isOpen' \in BOOLEAN /\ up' \in BOOLEAN /\ sending' \in BOOLEAN /\ state' \in States
  <2>1. sec' \in Secondary
    BY <1>2, OpenPlaces DEF FilesOK
  <2>2. sec'.isOpen \in BOOLEAN
    BY <2>1 DEF Secondary
  <2>3. isOpen' \in BOOLEAN
    BY <1>2, <2>2 DEF Open
  <2>4. state' \in States
    BY <1>2 DEF Open, States
  <2>5. up' = net /\ sending' \in BOOLEAN
    BY <1>2, OpenPlaces
  <2> QED BY <1>1, <2>3, <2>4, <2>5
<1>3. CASE Create
  <2>1. FilesOK(sec) /\ Open(sec) /\ running' = TRUE /\ net' = net
    BY <1>3, InvPlaces DEF Create
  <2> QED BY <1>1, <1>2, <2>1
<1>4. CASE DoConfigReload
  <2>1. FilesOK(SecClose(sec)) /\ Open(SecClose(sec)) /\ running' = running /\ net' = net
    BY <1>4, InvPlaces, CloseFiles DEF DoConfigReload
  <2> QED BY <1>1, <1>2, <2>1
<1>5. CASE Crash
  BY <1>1, <1>5 DEF Crash, States
<1>6. CASE StoreMessage
  <2>1. DoAddMessage(taken + 1) /\ UNCHANGED <<isOpen, up, net, running>>
    BY <1>6 DEF StoreMessage, environment
  <2>2. state' \in States
    BY <1>1, <2>1 DEF DoAddMessage, States
  <2>3. sending' = TRUE \/ sending' = sending
    BY <2>1 DEF DoAddMessage, Log
  <2> QED BY <1>1, <2>1, <2>2, <2>3
<1>7. CASE Cron
  <2>1. UNCHANGED <<isOpen, net, running>> /\ PrimaryCron
    BY <1>7 DEF Cron, environment
  <2>2. up' \in BOOLEAN
    BY <2>1 DEF PrimaryCron
  <2>3. \/ sending' = (sending /\ ~up')
        \/ sending' = (sending \/ SubSeq(deque, 1, Leaving) # <<>>)
    BY <1>7 DEF Cron
  <2>4. sending' \in BOOLEAN
    BY <1>1, <2>3
  <2>5. state' = "kToPrimary" \/ state' = CronState
    BY <1>7, CronSteps DEF CronStep
  <2>6. state' \in States
    BY <1>1, <2>5 DEF CronState, States
  <2> QED BY <1>1, <2>1, <2>2, <2>4, <2>6
<1>8. CASE SendRequest
  BY <1>1, <1>8 DEF SendRequest, environment
<1>9. CASE Read
  <2>1. PICK k \in 1..acks : ReadReply(k)
    BY <1>9 DEF Read
  <2> QED BY <1>1, <2>1 DEF ReadReply, ProcessReplyBuffer, environment
<1>10. CASE OnDisconnect
  BY <1>1, <1>10 DEF OnDisconnect, environment
<1>11. CASE Outage \/ Restored
  BY <1>1, <1>11 DEF Outage, Restored, primary
<1>12. CASE UNCHANGED vars
  BY <1>1, <1>12 DEF vars
<1> QED BY <1>3, <1>4, <1>5, <1>6, <1>7, <1>8, <1>9, <1>10, <1>11, <1>12 DEF Next

LEMMA StepCounters ==
  ASSUME Inv, [Next]_vars
  PROVE  /\ sinceTry' \in 0..Reconnect /\ taken' \in 0..MaxMsgs
         /\ outages' \in 0..MaxOutages /\ reloads' \in 0..MaxReloads
         /\ crashes' \in 0..MaxCrashes /\ dirErrors' \in 0..MaxDirErrors
<1>1. /\ sinceTry \in 0..Reconnect /\ taken \in 0..MaxMsgs
      /\ outages \in 0..MaxOutages /\ reloads \in 0..MaxReloads
      /\ crashes \in 0..MaxCrashes /\ dirErrors \in 0..MaxDirErrors
  BY DEF Inv, TypeOK
<1>2. /\ Reconnect \in Nat \ {0} /\ MaxMsgs \in Nat /\ MaxOutages \in Nat
      /\ MaxReloads \in Nat /\ MaxCrashes \in Nat /\ MaxDirErrors \in Nat
  BY BoundsAssumption
<1>d. ASSUME NEW failing, DirectoryFails(failing) PROVE dirErrors' \in 0..MaxDirErrors
  BY <1>1, <1>2, <1>d DEF DirectoryFails
<1>o. ASSUME NEW s, Open(s) PROVE dirErrors' \in 0..MaxDirErrors
  BY <1>1, <1>d, <1>o DEF Open
<1>3. CASE Create
  <2>1. dirErrors' \in 0..MaxDirErrors
    BY <1>3, <1>o DEF Create
  <2> QED BY <1>1, <1>2, <1>3, <2>1 DEF Create, Open
<1>4. CASE DoConfigReload
  <2>1. dirErrors' \in 0..MaxDirErrors
    BY <1>4, <1>o DEF DoConfigReload
  <2> QED BY <1>1, <1>2, <1>4, <2>1 DEF DoConfigReload, Open
<1>5. CASE Crash
  BY <1>1, <1>2, <1>5 DEF Crash, directory
<1>6. CASE StoreMessage
  BY <1>1, <1>2, <1>6 DEF StoreMessage, environment, directory
<1>7. CASE Cron
  <2>1. UNCHANGED <<taken, outages, reloads, crashes>> /\ PrimaryCron
    BY <1>7 DEF Cron, environment
  <2>2. sinceTry' \in 0..Reconnect
    BY <1>1, <1>2, <2>1 DEF PrimaryCron
  <2>3. dirErrors' \in 0..MaxDirErrors
    BY <1>7, <1>d, CronSteps DEF CronStep
  <2> QED BY <1>1, <2>1, <2>2, <2>3
<1>8. CASE SendRequest
  BY <1>1, <1>8 DEF SendRequest, environment, directory
<1>9. CASE Read
  <2>1. PICK k \in 1..acks : ReadReply(k)
    BY <1>9 DEF Read
  <2> QED BY <1>1, <2>1 DEF ReadReply, environment, directory
<1>10. CASE OnDisconnect
  BY <1>1, <1>10 DEF OnDisconnect, environment, directory
<1>11. CASE Outage \/ Restored
  BY <1>1, <1>2, <1>11 DEF Outage, Restored, primary, directory
<1>12. CASE UNCHANGED vars
  BY <1>1, <1>12 DEF vars
<1> QED BY <1>3, <1>4, <1>5, <1>6, <1>7, <1>8, <1>9, <1>10, <1>11, <1>12 DEF Next

LEMMA StepDirectory ==
  ASSUME Inv, [Next]_vars
  PROVE  /\ again \subseteq again' /\ again' \ again \subseteq Stored(sec)
         /\ missed' \in BOOLEAN
<1>1. missed \in BOOLEAN
  BY DEF Inv, TypeOK
<1>2. CASE UNCHANGED <<again, missed>>
  BY <1>1, <1>2
<1>3. CASE Create \/ DoConfigReload
  <2>1. PICK s : Open(s)
    BY <1>3 DEF Create, DoConfigReload
  <2> QED BY <1>1, <2>1 DEF Open
<1>4. CASE Cron
  <2>1. PICK failing, f, read : CronStep(failing, f, read)
    BY <1>4, CronSteps
  <2>2. ToSet(read) \subseteq ToSet(f) /\ ToSet(f) \subseteq Stored(sec)
    BY <2>1, CronRead, CronFiles DEF CronStep
  <2>3. again' = again \/ again' = again \cup ToSet(read)
    BY <2>1 DEF CronStep
  <2>4. missed' = missed \/ missed' \in BOOLEAN
    <3>1. CASE Switches(SecondaryRead(f, failing), failing)
      <4>1. missed' = ("left" \in failing)
        BY <2>1, <3>1 DEF CronStep
      <4>2. ("left" \in failing) \in BOOLEAN
        OBVIOUS
      <4> QED BY <4>1, <4>2, Zenon
    <3>2. CASE ~Switches(SecondaryRead(f, failing), failing)
      BY <2>1, <3>2 DEF CronStep
    <3> QED BY <3>1, <3>2
  <2> QED BY <1>1, <2>2, <2>3, <2>4
<1>5. CASE Read
  <2>1. PICK k \in 1..acks : ReadReply(k)
    BY <1>5 DEF Read
  <2> QED BY <1>2, <2>1 DEF ReadReply, directory
<1>6. CASE Crash \/ StoreMessage \/ SendRequest \/ OnDisconnect
  BY <1>2, <1>6 DEF Crash, StoreMessage, SendRequest, OnDisconnect, directory
<1>7. CASE Outage \/ Restored \/ UNCHANGED vars
  BY <1>2, <1>7 DEF Outage, Restored, vars, directory
<1> QED BY <1>3, <1>4, <1>5, <1>6, <1>7 DEF Next

LEMMA StepFate ==
  ASSUME Inv, [Next]_vars
  PROVE  fate' \in [Msgs -> Fates]
<1>1. fate \in [Msgs -> Fates]
  BY DEF Inv, TypeOK, Fates
<1>2. ASSUME NEW ms, NEW how \in Fates PROVE GiveUp(ms, how) \in [Msgs -> Fates]
  BY <1>1 DEF GiveUp
<1>3. "wire" \in Fates /\ "drop" \in Fates /\ "ignored" \in Fates /\ "crash" \in Fates
      /\ "close" \in Fates /\ "transfer" \in Fates /\ "badfile" \in Fates
      /\ "unread" \in Fates
  BY DEF Fates
<1>4. CASE DoConfigReload
  BY <1>1, <1>3, <1>4 DEF DoConfigReload
<1>5. CASE Crash
  BY <1>2, <1>3, <1>5 DEF Crash
<1>6. CASE StoreMessage
  <2>1. DoAddMessage(taken + 1)
    BY <1>6 DEF StoreMessage
  <2>2. ASSUME NEW s, ToSecondary(taken + 1, s) PROVE fate' \in [Msgs -> Fates]
    BY <1>1, <1>2, <1>3, <2>2 DEF ToSecondary
  <2> QED BY <1>1, <1>2, <1>3, <2>1, <2>2 DEF DoAddMessage
<1>7. CASE Cron
  <2>1. PICK failing, f, read : CronStep(failing, f, read)
    BY <1>7, CronSteps
  <2>2. fate' = [m \in Msgs |->
          IF ~up /\ m \in ToSet(SubSeq(deque, 1, Leaving)) THEN "transfer"
          ELSE IF "delete" \in failing \/ m \notin ToSet(f) \ ToSet(read) THEN fate[m]
          ELSE IF m \in ToSet(GetMessages(f)) THEN "unread" ELSE "badfile"]
    BY <2>1 DEF CronStep
  <2> QED BY <1>1, <1>3, <2>2
<1>8. CASE OnDisconnect
  BY <1>2, <1>3, <1>8 DEF OnDisconnect
<1>9. ASSUME fate' = fate PROVE fate' \in [Msgs -> Fates]
  BY <1>1, <1>9
<1>10. CASE Read
  <2>1. PICK k \in 1..acks : ReadReply(k)
    BY <1>10 DEF Read
  <2> QED BY <1>9, <2>1 DEF ReadReply
<1>11. CASE Create \/ SendRequest \/ Outage \/ Restored \/ UNCHANGED vars
  BY <1>9, <1>11 DEF Create, SendRequest, Outage, Restored, vars
<1> QED BY <1>4, <1>5, <1>6, <1>7, <1>8, <1>10, <1>11 DEF Next

LEMMA StepInv ==
  ASSUME Inv, [Next]_vars
  PROVE  Inv'
<1>1. Places'
  BY StepPlaces
<1>2. /\ remote' \in Seq(Msgs) /\ wire' \in Seq(Msgs) /\ deque' \in Seq(Msgs)
      /\ NoRepeats' /\ OnePlace' /\ sec' \in Secondary
  BY <1>1 DEF Places, NoRepeats, FilesOK
<1>3. acks' \in Nat /\ acks' <= Len(remote')
  BY StepAcks
<1>4. again' \in SUBSET Msgs
  BY <1>2 DEF OnePlace, Parted, Upto
<1>5. TypeOK'
  BY <1>2, <1>3, <1>4, StepControl, StepCounters, StepDirectory, StepFate
     DEF TypeOK, States, Fates, Secondary
<1> QED BY <1>2, <1>3, <1>5, StepQuiet, StepStranded DEF Inv

LEMMA InitInv ==
  ASSUME Init
  PROVE  Inv
<1>1. /\ <<>> \in Seq(Msgs) /\ ToSet(<<>>) = {} /\ Unique(<<>>) /\ Len(<<>>) = 0
      /\ UniqueBut(<<>>, {})
  BY EmptyElements
<1>2. TypeOK
  <2>1. /\ isOpen \in BOOLEAN /\ up \in BOOLEAN /\ sending \in BOOLEAN
        /\ net \in BOOLEAN /\ running \in BOOLEAN
    BY DEF Init
  <2>2. NoFile \in [old : SUBSET (Seq(Msgs) \ {<<>>}), cur : Seq(Msgs), isOpen : BOOLEAN]
    BY <1>1 DEF NoFile
  <2>3. /\ acks \in Nat /\ sinceTry \in 0..Reconnect /\ taken \in 0..MaxMsgs
        /\ outages \in 0..MaxOutages /\ reloads \in 0..MaxReloads
        /\ crashes \in 0..MaxCrashes /\ dirErrors \in 0..MaxDirErrors
        /\ again \in SUBSET Msgs
    BY BoundsAssumption DEF Init
  <2>5. missed \in BOOLEAN
    BY DEF Init
  <2>4. fate \in [Msgs -> Fates]
    BY DEF Init, Fates
  <2> QED BY <1>1, <2>1, <2>2, <2>3, <2>4, <2>5 DEF Init, TypeOK, Fates
<1>3. NoFile.old = {} /\ NoFile.cur = <<>> /\ NoFile.isOpen = FALSE /\ NoFile \in Secondary
  BY <1>1 DEF NoFile, Secondary
<1>4. FilesOK(NoFile) /\ Stored(NoFile) = {}
  BY <1>1, <1>3 DEF FilesOK, Stored
<1>5. GivenUp(fate) = {} /\ Upto(taken) = {}
  BY BoundsAssumption DEF Init, GivenUp, Upto, Msgs
<1>6. remote = <<>> /\ wire = <<>> /\ deque = <<>> /\ sec = NoFile /\ again = {}
  BY DEF Init
<1>7. NoRepeats /\ OnePlace
  BY <1>1, <1>4, <1>5, <1>6 DEF NoRepeats, OnePlace, Parted
<1>8. Quiet /\ NothingStranded
  BY <1>3, <1>6 DEF Init, Quiet, NothingStranded
<1>9. acks <= Len(remote)
  BY <1>1, <1>6 DEF Init
<1> QED BY <1>2, <1>7, <1>8, <1>9 DEF Inv

(* The invariant holds in every state the store, its two stores, the       *)
(* network, the disk and the process can get into.                         *)
THEOREM Invariance ==
  Spec => []Inv
<1>1. Inv /\ [Next]_vars => Inv'
  BY StepInv
<1> QED BY <1>1, InitInv, PTL DEF Spec
----------------------------------------------------------------------------
(* The theorems. *)

(* Every variable of the store, of its two stores and of the remote has    *)
(* its type.                                                               *)
THEOREM TypeCorrect ==
  Spec => []TypeOK
  BY Invariance, PTL DEF Inv

(* A store that sends to its primary has nothing left in msg_to_transfer_, *)
(* no file open, and a buffer file only if it could not open the directory *)
(* when it went to its primary (BufferStore::Open and the switch in        *)
(* BufferStore::Cron).                                                     *)
THEOREM Stranded ==
  Spec => []NothingStranded
  BY Invariance, PTL DEF Inv

LEMMA CountUnique ==
  ASSUME NEW s \in Seq(Msgs), NEW A, UniqueBut(s, A), NEW m
  PROVE  /\ Count(m, s) \in Nat /\ (m \in ToSet(s) => Count(m, s) >= 1)
         /\ m \notin A => Count(m, s) = IF m \in ToSet(s) THEN 1 ELSE 0
<1> DEFINE C == {i \in DOMAIN s : s[i] = m}
<1>1. DOMAIN s = 1..Len(s) /\ (m \in ToSet(s) <=> \E i \in 1..Len(s) : s[i] = m)
  BY Elements
<1>2. IsFiniteSet(C) /\ Cardinality(C) \in Nat
  <2>1. Len(s) \in Nat /\ IsFiniteSet(1..Len(s))
    BY FS_Interval
  <2>2. IsFiniteSet(C)
    BY <1>1, <2>1, FS_Subset
  <2> QED BY <2>2, FS_CardinalityType
<1>3. CASE m \in ToSet(s)
  <2>1. PICK i \in 1..Len(s) : s[i] = m
    BY <1>1, <1>3
  <2>2. Cardinality(C) # 0
    BY <1>1, <1>2, <2>1, FS_EmptySet
  <2>3. m \notin A => Cardinality(C) = 1
    <3>1. m \notin A => C = {i}
      BY <1>1, <2>1 DEF UniqueBut
    <3> QED BY <3>1, FS_Singleton
  <2> QED BY <1>2, <1>3, <2>2, <2>3 DEF Count
<1>4. CASE m \notin ToSet(s)
  <2>1. C = {}
    BY <1>1, <1>4
  <2>2. Cardinality(C) = 0
    BY <2>1, FS_EmptySet
  <2> QED BY <1>4, <2>2 DEF Count
<1> QED BY <1>3, <1>4

LEMMA CountFiles ==
  ASSUME Inv, NEW m \in Msgs
  PROVE  Cardinality({f \in Files : m \in ToSet(f)}) = IF m \in Stored(sec) THEN 1 ELSE 0
<1> DEFINE C == {f \in Files : m \in ToSet(f)}
<1>1. /\ FilesOK(sec) /\ (~sec.isOpen => sec.cur = <<>>)
      /\ \A f \in sec.old : ToSet(f) \cap ToSet(sec.cur) = {}
      /\ \A f, g \in sec.old : ToSet(f) \cap ToSet(g) # {} => f = g
  BY InvPlaces DEF FilesOK
<1>2. m \in Stored(sec) <=> m \in ToSet(sec.cur) \/ \E f \in sec.old : m \in ToSet(f)
  BY DEF Stored
<1>3. ToSet(<<>>) = {}
  BY EmptyElements
<1>4. \A f : f \in C <=> m \in ToSet(f) /\ (f \in sec.old \/ (f = sec.cur /\ sec.isOpen))
  BY DEF Files
<1> HIDE DEF C
<1>5. CASE m \in ToSet(sec.cur)
  <2>1. sec.isOpen
    BY <1>1, <1>3, <1>5
  <2>2. C = {sec.cur}
    BY <1>1, <1>4, <1>5, <2>1
  <2> QED BY <1>2, <1>5, <2>2, FS_Singleton DEF C
<1>6. CASE m \notin ToSet(sec.cur) /\ m \in Stored(sec)
  <2>1. PICK f \in sec.old : m \in ToSet(f)
    BY <1>2, <1>6
  <2>2. C = {f}
    BY <1>1, <1>4, <1>6, <2>1
  <2> QED BY <1>6, <2>2, FS_Singleton DEF C
<1>7. CASE m \notin Stored(sec)
  <2>1. C = {}
    BY <1>2, <1>4, <1>7
  <2> QED BY <1>7, <2>1, FS_EmptySet DEF C
<1> QED BY <1>5, <1>6, <1>7

(* Every message the storer has taken is in exactly one place, once: at    *)
(* the remote, with the agent, in msg_to_transfer_, in one buffer file, or *)
(* given up.  Storing, transferring, reading buffer files, disconnecting,  *)
(* reloading and crashing neither duplicate a message nor lose track of    *)
(* one, however often the remote goes away; only what was read of a file   *)
(* that could not be deleted may be in several.                            *)
THEOREM Conservation ==
  Spec => []Conserved
<1>1. Inv => Conserved
  <2> SUFFICES ASSUME Inv, NEW m \in Msgs
               PROVE  IF m \in again THEN PlacesOf(m) >= 1
                      ELSE PlacesOf(m) = IF m <= taken THEN 1 ELSE 0
    BY DEF Conserved
  <2> DEFINE R == Count(m, remote)
             W == Count(m, wire)
             D == Count(m, deque)
             F == Cardinality({f \in Files : m \in ToSet(f)})
             G == IF fate[m] = "none" THEN 0 ELSE 1
             One(S) == IF m \in S THEN 1 ELSE 0
  <2>1. /\ R \in Nat /\ (m \in ToSet(remote) => R >= 1) /\ (m \notin again => R = One(ToSet(remote)))
        /\ W \in Nat /\ (m \in ToSet(wire) => W >= 1) /\ (m \notin again => W = One(ToSet(wire)))
        /\ D \in Nat /\ (m \in ToSet(deque) => D >= 1) /\ (m \notin again => D = One(ToSet(deque)))
    BY InvPlaces, CountUnique DEF Places
  <2>2. F = One(Stored(sec))
    BY CountFiles
  <2>3. G = One(GivenUp(fate))
    BY DEF GivenUp
  <2>4. m <= taken <=> m \in Upto(taken)
    BY DEF Upto
  <2>5. PlacesOf(m) = R + W + D + F + G
    BY DEF PlacesOf
  <2>6. Parted(ToSet(remote), ToSet(wire), ToSet(deque), Stored(sec), GivenUp(fate),
               Upto(taken), again)
    BY InvPlaces
  <2> HIDE DEF R, W, D, F, G
  <2>7. CASE m \in again
    BY <2>1, <2>2, <2>3, <2>5, <2>6, <2>7 DEF Parted
  <2>8. CASE m \notin again
    BY <2>1, <2>2, <2>3, <2>4, <2>5, <2>6, <2>8 DEF Parted
  <2> QED BY <2>7, <2>8
<1> QED BY <1>1, Invariance, PTL
----------------------------------------------------------------------------
(* The promise of AtMostOnce, step by step. *)
LEMMA HeldPlaces ==
  ASSUME Inv
  PROVE  /\ Lost = GivenUp(fate)
         /\ Promise!Held = Upto(taken) \ (ToSet(remote) \cup GivenUp(fate))
<1>1. Lost = GivenUp(fate)
  BY DEF Lost, GivenUp
<1>2. 1..taken = Upto(taken)
  <2>1. taken \in 0..MaxMsgs /\ MaxMsgs \in Nat
    BY BoundsAssumption DEF Inv, TypeOK
  <2>2. \A m : m \in 1..taken <=> m \in 1..MaxMsgs /\ m <= taken
    BY <2>1
  <2> QED BY <2>2 DEF Upto, Msgs
<1>3. Promise!Held = (1..taken) \ (ToSet(remote) \cup Lost)
  BY DEF Promise!Held, Promise!ToSet, ToSet
<1> QED BY <1>1, <1>2, <1>3

(* What was given up stays given up. *)
LEMMA LossIsFinal ==
  ASSUME Inv, [Next]_vars
  PROVE  GivenUp(fate) \in SUBSET GivenUp(fate')
<1>1. ASSUME NEW ms, NEW how \in Fates \ {"none"}, fate' = GiveUp(ms, how)
      PROVE  GivenUp(fate) \in SUBSET GivenUp(fate')
  BY <1>1 DEF GivenUp, GiveUp
<1>2. ASSUME fate' = fate PROVE GivenUp(fate) \in SUBSET GivenUp(fate')
  BY <1>2
<1>3. /\ "wire" \in Fates \ {"none"} /\ "drop" \in Fates \ {"none"}
      /\ "ignored" \in Fates \ {"none"} /\ "crash" \in Fates \ {"none"}
  BY DEF Fates
<1>4. CASE DoConfigReload
  BY <1>4 DEF DoConfigReload, GivenUp
<1>5. CASE Crash
  BY <1>1, <1>3, <1>5 DEF Crash
<1>6. CASE StoreMessage
  <2>1. DoAddMessage(taken + 1)
    BY <1>6 DEF StoreMessage
  <2>2. ASSUME NEW s, ToSecondary(taken + 1, s) PROVE GivenUp(fate) \in SUBSET GivenUp(fate')
    BY <1>1, <1>2, <1>3, <2>2 DEF ToSecondary
  <2> QED BY <1>1, <1>2, <1>3, <2>1, <2>2 DEF DoAddMessage
<1>7. CASE Cron
  <2>1. PICK failing, f, read : CronStep(failing, f, read)
    BY <1>7, CronSteps
  <2>2. fate' = [m \in Msgs |->
          IF ~up /\ m \in ToSet(SubSeq(deque, 1, Leaving)) THEN "transfer"
          ELSE IF "delete" \in failing \/ m \notin ToSet(f) \ ToSet(read) THEN fate[m]
          ELSE IF m \in ToSet(GetMessages(f)) THEN "unread" ELSE "badfile"]
    BY <2>1 DEF CronStep
  <2> QED BY <2>2 DEF GivenUp
<1>8. CASE OnDisconnect
  BY <1>1, <1>3, <1>8 DEF OnDisconnect
<1>9. CASE Read
  <2>1. PICK k \in 1..acks : ReadReply(k)
    BY <1>9 DEF Read
  <2> QED BY <1>2, <2>1 DEF ReadReply
<1>10. CASE Create \/ SendRequest \/ Outage \/ Restored \/ UNCHANGED vars
  BY <1>2, <1>10 DEF Create, SendRequest, Outage, Restored, vars
<1> QED BY <1>4, <1>5, <1>6, <1>7, <1>8, <1>9, <1>10 DEF Next

(* A step that neither takes nor delivers a message loses some, or none,   *)
(* and may bring messages that are held into doubt.                        *)
LEMMA LoseStep ==
  ASSUME Inv, Inv', [Next]_vars, UNCHANGED <<taken, remote>>
  PROVE  Promise!Lose
<1> DEFINE ms == GivenUp(fate') \ GivenUp(fate)
           ds == again' \ again
<1>1. GivenUp(fate) \in SUBSET GivenUp(fate')
  BY LossIsFinal
<1>2. Lost = GivenUp(fate) /\ Lost' = GivenUp(fate')
  BY DEF Lost, GivenUp
<1>3. Promise!Held = Upto(taken) \ (ToSet(remote) \cup GivenUp(fate))
  BY HeldPlaces
<1>4. again \subseteq again' /\ ds \subseteq Stored(sec)
  BY StepDirectory
<1>5. ds \in SUBSET Promise!Held
  <2>1. Parted(ToSet(remote), ToSet(wire), ToSet(deque), Stored(sec), GivenUp(fate),
               Upto(taken), again)
    BY InvPlaces
  <2>2. /\ Stored(sec) \subseteq Upto(taken) /\ Stored(sec) \cap ToSet(remote) \subseteq again
        /\ Stored(sec) \cap GivenUp(fate) \subseteq again
    BY <2>1 DEF Parted
  <2> QED BY <1>3, <1>4, <2>2
<1>6. ms \in SUBSET (Promise!Held \cup again)
  <2>1. Parted(ToSet(remote), ToSet(wire), ToSet(deque), Stored(sec), GivenUp(fate),
               Upto(taken), again)'
    BY DEF Inv, OnePlace
  <2>2. GivenUp(fate') \subseteq Upto(taken) /\ GivenUp(fate') \cap ToSet(remote) \subseteq again'
    BY <2>1 DEF Parted
  <2> QED BY <1>3, <1>5, <2>2
<1>7. Lost' = Lost \cup ms /\ again' = again \cup ds
  BY <1>1, <1>2, <1>4
<1> HIDE DEF ms, ds
<1> QED BY <1>5, <1>6, <1>7 DEF Promise!Lose

LEMMA AcceptStep ==
  ASSUME Inv, StoreMessage
  PROVE  Promise!Accept
<1>1. /\ taken' = taken + 1 /\ remote' = remote /\ DoAddMessage(taken + 1)
      /\ taken + 1 \in Msgs /\ again' = again
  BY NextMessage DEF StoreMessage, directory
<1>2. Lost' = Lost \/ Lost' = Lost \cup {taken + 1}
  <2>1. ASSUME NEW how \in Fates \ {"none"}, fate' = GiveUp({taken + 1}, how)
        PROVE  Lost' = Lost \cup {taken + 1}
    BY <1>1, <2>1 DEF Lost, GiveUp
  <2>2. fate' = fate => Lost' = Lost
    BY DEF Lost
  <2>3. "drop" \in Fates \ {"none"} /\ "ignored" \in Fates \ {"none"}
    BY DEF Fates
  <2>4. ASSUME NEW s, ToSecondary(taken + 1, s)
        PROVE  fate' = fate \/ fate' = GiveUp({taken + 1}, "drop")
    BY <2>4 DEF ToSecondary
  <2> QED BY <1>1, <2>1, <2>2, <2>3, <2>4 DEF DoAddMessage
<1> QED BY <1>1, <1>2 DEF Promise!Accept

LEMMA DeliverStep ==
  ASSUME Inv, SendRequest
  PROVE  Promise!Deliver
<1>1. /\ wire # <<>> /\ remote' = Append(remote, Head(wire))
      /\ UNCHANGED <<taken, fate, again>>
  BY DEF SendRequest, directory
<1>2. Head(wire) \in ToSet(wire)
  BY <1>1, InvPlaces, HeadElements DEF Places
<1>3. Head(wire) \in Promise!Held \cup again
  BY <1>2, InvPlaces, HeldPlaces DEF Parted
<1>4. Lost' = Lost
  BY <1>1 DEF Lost
<1> QED BY <1>1, <1>3, <1>4 DEF Promise!Deliver

(* The store keeps the promise of AtMostOnce: StoreMessage accepts,        *)
(* SendRequest delivers a message that is held, every other step - outage, *)
(* reload, crash, transfer, a file that is read - loses messages that are  *)
(* held or is invisible; a message is never delivered twice, nor after it  *)
(* was given up, unless it was read from a file that could not be deleted, *)
(* and no loss is undone.                                                  *)
THEOREM KeepsPromise ==
  Spec => ImplementsPromise
<1>1. Init => Promise!Init
  <2>1. Init => Lost = {}
    BY DEF Init, Lost
  <2> QED BY <2>1 DEF Init, Promise!Init
<1>2. ASSUME Inv, Inv', [Next]_vars
      PROVE  [Promise!Next]_(Promise!storeVars)
  <2>1. CASE StoreMessage
    BY <1>2, <2>1, AcceptStep DEF Promise!Next
  <2>2. CASE SendRequest
    BY <1>2, <2>2, DeliverStep DEF Promise!Next
  <2>3. CASE UNCHANGED <<taken, remote>>
    BY <1>2, <2>3, LoseStep DEF Promise!Next
  <2>4. CASE Read
    <3>1. PICK k \in 1..acks : ReadReply(k)
      BY <2>4 DEF Read
    <3> QED BY <2>3, <3>1 DEF ReadReply
  <2>5. CASE Create \/ DoConfigReload \/ Crash \/ Cron \/ OnDisconnect
    BY <2>3, <2>5 DEF Create, DoConfigReload, Crash, Cron, OnDisconnect
  <2>6. CASE Outage \/ Restored \/ UNCHANGED vars
    BY <2>3, <2>6 DEF Outage, Restored, primary, vars
  <2> QED BY <1>2, <2>1, <2>2, <2>4, <2>5, <2>6 DEF Next
<1> QED BY <1>1, <1>2, Invariance, PTL DEF Spec, ImplementsPromise, Promise!Spec
----------------------------------------------------------------------------
(* Why messages are given up. *)

(* The messages of a file are in the order in which they were taken. *)
Ascending(s) == \A i, j \in 1..Len(s) : i < j => s[i] < s[j]
Ordered(s) == Ascending(s.cur) /\ \A f \in s.old : Ascending(f)

(* A primary that is connected to a remote that is away, or that is away   *)
(* while the buffer is being sent, has seen an outage; a store in no       *)
(* state has met a failing disk.                                           *)
Causes ==
  /\ up => net \/ outages > 0
  /\ isOpen /\ state = "kTransfering" => up \/ outages > 0
  /\ running /\ state = "garbage" => DiskFails
  /\ Ordered(sec)

LEMMA OrderClose ==
  ASSUME NEW s, FilesOK(s), Ordered(s)
  PROVE  Ordered(SecClose(s)) /\ \A f \in SecClose(s).old : Ascending(f)
<1>1. Len(<<>>) = 0 /\ 1..0 = {}
  OBVIOUS
<1>2. Ascending(<<>>)
  BY <1>1 DEF Ascending
<1>3. CASE ~s.isOpen
  BY <1>3 DEF SecClose, Ordered
<1>4. CASE s.isOpen
  <2>1. /\ SecClose(s).cur = <<>>
        /\ SecClose(s).old = s.old \/ SecClose(s).old = s.old \cup {s.cur}
    BY <1>4 DEF SecClose
  <2> QED BY <1>2, <2>1 DEF Ordered
<1> QED BY <1>3, <1>4

LEMMA OrderOpen ==
  ASSUME NEW s, FilesOK(s), Ordered(s), NEW t \in SecOpen(s)
  PROVE  Ordered(t)
<1> DEFINE c == SecClose(s)
<1>1. FilesOK(c) /\ Ordered(c)
  BY CloseFiles, OrderClose
<1>2. \/ t = [c EXCEPT !.isOpen = TRUE]
      \/ \E f \in c.old : t = [old |-> c.old \ {f}, cur |-> f, isOpen |-> TRUE]
      \/ t = c
  BY DEF SecOpen
<1> HIDE DEF c
<1>3. c \in Secondary
  BY <1>1 DEF FilesOK
<1>4. CASE t = [c EXCEPT !.isOpen = TRUE]
  <2>1. t.old = c.old /\ t.cur = c.cur
    BY <1>3, <1>4 DEF Secondary
  <2> QED BY <1>1, <2>1 DEF Ordered
<1>5. ASSUME NEW f \in c.old, t = [old |-> c.old \ {f}, cur |-> f, isOpen |-> TRUE]
      PROVE  Ordered(t)
  <2>1. t.old = c.old \ {f} /\ t.cur = f
    BY <1>5
  <2> QED BY <1>1, <2>1 DEF Ordered
<1> QED BY <1>1, <1>2, <1>4, <1>5

LEMMA OrderEnsure ==
  ASSUME NEW s, FilesOK(s), Ordered(s), NEW t \in SecEnsure(s)
  PROVE  Ordered(t)
  BY OrderOpen DEF SecEnsure

(* A message is taken after all that are in files. *)
LEMMA OrderWrite ==
  ASSUME NEW t, FilesOK(t), Ordered(t), NEW m \in Msgs, \A n \in Stored(t) : n < m
  PROVE  Ordered([t EXCEPT !.cur = Append(@, m)])
<1> DEFINE u == [t EXCEPT !.cur = Append(@, m)]
           c == t.cur
<1>1. t \in Secondary /\ c \in Seq(Msgs)
  BY DEF FilesOK, Secondary
<1>2. u.old = t.old /\ u.cur = Append(c, m)
  BY <1>1 DEF Secondary
<1>3. /\ Len(Append(c, m)) = Len(c) + 1 /\ Append(c, m)[Len(c) + 1] = m /\ Len(c) \in Nat
      /\ \A i \in 1..Len(c) : Append(c, m)[i] = c[i]
  BY <1>1, AppendProperties
<1>4. \A i \in 1..Len(c) : c[i] < m
  <2>1. \A i \in 1..Len(c) : c[i] \in ToSet(c) /\ c[i] \in Msgs
    BY <1>1, Elements
  <2> QED BY <2>1 DEF Stored
<1>5. Ascending(Append(c, m))
  <2> SUFFICES ASSUME NEW i \in 1..(Len(c) + 1), NEW j \in 1..(Len(c) + 1), i < j
               PROVE  Append(c, m)[i] < Append(c, m)[j]
    BY <1>3 DEF Ascending
  <2> HIDE DEF c, u
  <2>1. i \in 1..Len(c) /\ (j \in 1..Len(c) \/ j = Len(c) + 1)
    BY <1>3
  <2>2. CASE j \in 1..Len(c)
    BY <1>3, <2>1, <2>2 DEF Ordered, Ascending, c
  <2>3. CASE j = Len(c) + 1
    BY <1>3, <1>4, <2>1, <2>3
  <2> QED BY <2>1, <2>2, <2>3
<1> HIDE DEF u, c
<1>6. Ordered(u)
  BY <1>2, <1>5 DEF Ordered
<1> QED BY <1>6 DEF u

LEMMA OrderCrash ==
  ASSUME NEW s, FilesOK(s), Ordered(s), NEW k \in 0..Len(s.cur), NEW t,
         t = [old |-> IF k = 0 THEN s.old ELSE s.old \cup {SubSeq(s.cur, 1, k)},
              cur |-> <<>>, isOpen |-> FALSE]
  PROVE  Ordered(t)
<1>1. s.cur \in Seq(Msgs) /\ Len(s.cur) \in Nat /\ k \in Nat /\ k <= Len(s.cur)
  BY DEF FilesOK, Secondary
<1> DEFINE a == SubSeq(s.cur, 1, k)
<1>2. Len(a) = k /\ \A i \in 1..k : a[i] = s.cur[i] /\ i \in 1..Len(s.cur)
  BY <1>1
<1> HIDE DEF a
<1>3. Ascending(a)
  BY <1>2 DEF Ordered, Ascending
<1>4. Len(<<>>) = 0 /\ 1..0 = {}
  OBVIOUS
<1>5. Ascending(<<>>)
  BY <1>4 DEF Ascending
<1>6. t.cur = <<>> /\ (t.old = s.old \/ t.old = s.old \cup {a})
  BY DEF a
<1> QED BY <1>3, <1>5, <1>6 DEF Ordered

(* A message that is skipped as bad follows an empty one, or is one. *)
LEMMA BadFile ==
  ASSUME NEW f \in Seq(Msgs), Ascending(f), NEW m \in ToSet(f) \ ToSet(GetMessages(f))
  PROVE  \E e \in Empty : e <= m
<1> DEFINE bad == {i \in DOMAIN f : f[i] \in Empty}
           first == CHOOSE i \in bad : \A j \in bad : i <= j
           k == first - 1
<1>1. bad # {}
  BY DEF GetMessages
<1>2. bad \in SUBSET Nat /\ bad \in SUBSET (1..Len(f)) /\ Len(f) \in Nat
  BY Elements
<1>3. \E i \in bad : \A j \in bad : i <= j
  BY <1>1, <1>2, Minimum
<1>4. first \in bad
  BY <1>3
<1>5. first \in 1..Len(f) /\ f[first] \in Empty
  BY <1>2, <1>4
<1>6. GetMessages(f) = SubSeq(f, 1, k)
  BY <1>1 DEF GetMessages
<1> HIDE DEF first, bad
<1>7. k \in 0..Len(f)
  BY <1>2, <1>5
<1>8. m \in {f[j] : j \in (k + 1)..Len(f)}
  <2>1. /\ ToSet(f) = ToSet(SubSeq(f, 1, k)) \cup ToSet(SubSeq(f, k + 1, Len(f)))
        /\ ToSet(SubSeq(f, k + 1, Len(f))) = {f[j] : j \in (k + 1)..Len(f)}
    BY <1>7, CutElements
  <2> QED BY <1>6, <2>1
<1>9. PICK j \in (k + 1)..Len(f) : f[j] = m
  BY <1>8
<1>10. j \in 1..Len(f) /\ (j = first \/ first < j)
  BY <1>2, <1>5, <1>7
<1>11. \A i \in 1..Len(f) : f[i] \in Nat
  BY BoundsAssumption DEF Msgs
<1>12. f[first] <= f[j]
  BY <1>5, <1>10, <1>11 DEF Ascending
<1> QED BY <1>5, <1>9, <1>12

LEMMA CronOrder ==
  ASSUME Inv, Ordered(sec), NEW failing, NEW f \in Candidates(failing)
  PROVE  Ordered(SecondaryRead(f, failing)) /\ Ascending(f)
<1> DEFINE c == SecClose(sec)
<1>1. FilesOK(sec) /\ FilesOK(c) /\ Ordered(c)
  BY InvPlaces, CloseFiles, OrderClose
<1>2. f = <<>> \/ f \in c.old
  BY DEF Candidates
<1>3. Len(<<>>) = 0 /\ 1..0 = {}
  OBVIOUS
<1>4. Ascending(<<>>)
  BY <1>3 DEF Ascending
<1>5. Ascending(f)
  BY <1>1, <1>2, <1>4 DEF Ordered
<1>6. CASE ~Reads(failing)
  BY <1>5, <1>6 DEF SecondaryRead
<1>7. CASE Reads(failing)
  <2>1. \/ SecondaryRead(f, failing) = [c EXCEPT !.old = @ \ {f}]
        \/ SecondaryRead(f, failing) = c
    BY <1>7 DEF SecondaryRead, DeleteOldestMessages
  <2> HIDE DEF c
  <2>2. c \in Secondary
    BY <1>1 DEF FilesOK
  <2>3. /\ SecondaryRead(f, failing).old \subseteq c.old
        /\ SecondaryRead(f, failing).cur = c.cur
    BY <2>1, <2>2 DEF Secondary
  <2> QED BY <1>1, <1>5, <2>3 DEF Ordered
<1> QED BY <1>6, <1>7

LEMMA StepOrdered ==
  ASSUME Inv, Ordered(sec), [Next]_vars
  PROVE  Ordered(sec')
<1>0. FilesOK(sec)
  BY InvPlaces
<1>1. ASSUME NEW s, FilesOK(s), Ordered(s), Open(s) PROVE Ordered(sec')
  <2>1. sec' = s \/ sec' \in SecOpen(s)
    BY <1>1 DEF Open
  <2> QED BY <1>1, <2>1, OrderOpen
<1>2. CASE Create
  BY <1>0, <1>1, <1>2 DEF Create
<1>3. CASE DoConfigReload
  BY <1>0, <1>1, <1>3, CloseFiles, OrderClose DEF DoConfigReload
<1>4. CASE Crash
  <2>1. PICK k \in 0..Len(sec.cur) :
          sec' = [old |-> IF k = 0 THEN sec.old ELSE sec.old \cup {SubSeq(sec.cur, 1, k)},
                  cur |-> <<>>, isOpen |-> FALSE]
    BY <1>4 DEF Crash
  <2> QED BY <1>0, <2>1, OrderCrash
<1>5. CASE StoreMessage
  <2> DEFINE m == taken + 1
  <2>1. m \in Msgs /\ DoAddMessage(m) /\ taken \in Nat
    BY <1>5, NextMessage, InvPlaces DEF StoreMessage
  <2>2. \A n \in Stored(sec) : n < m
    <3>1. Stored(sec) \in SUBSET Upto(taken)
      BY InvPlaces DEF Parted
    <3>2. \A n \in Upto(taken) : n \in Nat /\ n <= taken
      BY BoundsAssumption DEF Upto, Msgs
    <3> QED BY <2>1, <3>1, <3>2
  <2> HIDE DEF m
  <2>3. ASSUME NEW s, FilesOK(s), Ordered(s), Stored(s) = Stored(sec), ToSecondary(m, s)
        PROVE  Ordered(sec')
    <3>1. PICK t \in SecEnsure(s) :
            IF t.isOpen THEN sec' = [t EXCEPT !.cur = Append(@, m)] ELSE sec' = t
      BY <2>3 DEF ToSecondary
    <3>2. FilesOK(t) /\ Stored(t) = Stored(sec) /\ Ordered(t)
      BY <2>3, EnsureFiles, OrderEnsure
    <3>3. Ordered([t EXCEPT !.cur = Append(@, m)])
      BY <2>1, <2>2, <3>2, OrderWrite
    <3> QED BY <3>1, <3>2, <3>3
  <2>4. CASE state = "kToPrimary" /\ ~up
    <3>1. PICK s \in SecOpen(sec) : ToSecondary(m, s)
      BY <2>1, <2>4 DEF DoAddMessage
    <3>2. FilesOK(s) /\ Stored(s) = Stored(sec) /\ Ordered(s)
      BY <1>0, OpenFiles, OrderOpen
    <3> QED BY <2>3, <3>1, <3>2
  <2>5. CASE state \in {"kToSecondary", "kTransfering"}
    BY <1>0, <2>1, <2>3, <2>5 DEF DoAddMessage
  <2>6. CASE (state = "kToPrimary" /\ up) \/ state = "garbage"
    BY <2>1, <2>6 DEF DoAddMessage
  <2> QED BY <2>1, <2>4, <2>5, <2>6 DEF DoAddMessage
<1>6. CASE Cron
  <2>1. PICK failing, f, read : CronStep(failing, f, read)
    BY <1>6, CronSteps
  <2> DEFINE s == SecondaryRead(f, failing)
  <2>2. FilesOK(s) /\ Ordered(s)
    BY <2>1, CronFiles, CronOrder DEF CronStep
  <2>3. sec' = SecClose(s) \/ sec' = s \/ sec' \in SecOpen(s)
    BY <2>1 DEF CronStep
  <2> HIDE DEF s
  <2> QED BY <2>2, <2>3, OrderOpen, OrderClose
<1>7. CASE Read
  <2>1. PICK k \in 1..acks : ReadReply(k)
    BY <1>7 DEF Read
  <2> QED BY <2>1 DEF ReadReply
<1>8. CASE SendRequest \/ OnDisconnect \/ Outage \/ Restored \/ UNCHANGED vars
  BY <1>8 DEF SendRequest, OnDisconnect, Outage, Restored, vars
<1> QED BY <1>2, <1>3, <1>4, <1>5, <1>6, <1>7, <1>8 DEF Next

(* What opening a store does to its state. *)
LEMMA OpenCauses ==
  ASSUME NEW s, FilesOK(s), Open(s)
  PROVE  /\ up' = net
         /\ isOpen' /\ state' = "kTransfering" => net
         /\ state' = "garbage" => DiskFails
<1>1. CASE net
  BY <1>1 DEF Open
<1>2. CASE ~net
  <2>1. /\ up' = net /\ sec' \in SecOpen(s) /\ isOpen' = sec'.isOpen
        /\ isOpen' => state' = "kToSecondary"
    BY <1>2 DEF Open
  <2>2. ~DiskFails => sec'.isOpen
    <3>1. FilesOK(SecClose(s)) /\ SecClose(s) \in Secondary
      BY CloseFiles DEF FilesOK
    <3> QED BY <2>1, <3>1 DEF SecOpen, Secondary
  <2> QED BY <2>1, <2>2
<1> QED BY <1>1, <1>2

LEMMA StepCauses ==
  ASSUME Inv, Causes, [Next]_vars
  PROVE  Causes'
<1>0. Ordered(sec')
  BY StepOrdered DEF Causes
<1>t. outages \in Nat /\ up \in BOOLEAN /\ net \in BOOLEAN
  BY BoundsAssumption DEF Inv, TypeOK
<1>c. /\ up => net \/ outages > 0
      /\ isOpen /\ state = "kTransfering" => up \/ outages > 0
      /\ running /\ state = "garbage" => DiskFails
  BY DEF Causes
<1>1. ASSUME up' => net' \/ outages' > 0,
             isOpen' /\ state' = "kTransfering" => up' \/ outages' > 0,
             running' /\ state' = "garbage" => DiskFails
      PROVE  Causes'
  BY <1>0, <1>1 DEF Causes
<1>2. CASE Create
  <2>1. FilesOK(sec) /\ Open(sec) /\ net' = net
    BY <1>2, InvPlaces DEF Create
  <2> QED BY <1>1, <2>1, OpenCauses
<1>3. CASE DoConfigReload
  <2>1. FilesOK(SecClose(sec)) /\ Open(SecClose(sec)) /\ net' = net
    BY <1>3, InvPlaces, CloseFiles DEF DoConfigReload
  <2> QED BY <1>1, <2>1, OpenCauses
<1>4. CASE Crash
  BY <1>1, <1>4 DEF Crash
<1>5. CASE StoreMessage
  <2>1. DoAddMessage(taken + 1) /\ UNCHANGED <<isOpen, up, net, running, outages>>
    BY <1>5 DEF StoreMessage, environment
  <2>2. state' = state \/ state' = "kToSecondary"
    BY <2>1 DEF DoAddMessage
  <2> QED BY <1>1, <1>c, <2>1, <2>2
<1>6. CASE Cron
  <2>1. PrimaryCron /\ UNCHANGED <<isOpen, net, running, outages>>
    BY <1>6 DEF Cron, environment
  <2>2. state' = "kToPrimary" \/ state' = CronState
    BY <1>6, CronSteps DEF CronStep
  <2>3. up => up'
    BY <2>1 DEF PrimaryCron
  <2>4. up' => up \/ net
    BY <2>1 DEF PrimaryCron
  <2>5. state' = "garbage" => state = "garbage"
    BY <2>2 DEF CronState
  <2>6. state' = "kTransfering" => state = "kTransfering" \/ up
    BY <2>2 DEF CronState
  <2> QED BY <1>1, <1>c, <2>1, <2>3, <2>4, <2>5, <2>6
<1>7. CASE SendRequest
  BY <1>1, <1>c, <1>7 DEF SendRequest, environment
<1>8. CASE Read
  <2>1. PICK k \in 1..acks : ReadReply(k)
    BY <1>8 DEF Read
  <2> QED BY <1>1, <1>c, <2>1 DEF ReadReply, environment
<1>9. CASE OnDisconnect
  BY <1>1, <1>c, <1>9 DEF OnDisconnect, environment
<1>10. CASE Outage
  <2>1. outages' > 0
    BY <1>t, <1>10 DEF Outage
  <2> QED BY <1>1, <1>c, <1>10, <2>1 DEF Outage, primary
<1>11. CASE Restored
  BY <1>1, <1>c, <1>11 DEF Restored, primary
<1>12. CASE UNCHANGED vars
  BY <1>1, <1>c, <1>12 DEF vars
<1> QED BY <1>2, <1>3, <1>4, <1>5, <1>6, <1>7, <1>8, <1>9, <1>10, <1>11, <1>12 DEF Next

(* A fault of the kind that explains why m was given up, by the number of  *)
(* outages, reloads, crashes and directory errors so far.                  *)
Explained(m, how, o, r, c, d) ==
  /\ how = "wire" => o > 0 \/ r > 0
  /\ how = "transfer" => o > 0
  /\ how = "close" => r > 0
  /\ how = "crash" => c > 0
  /\ how \in {"drop", "ignored"} => DiskFails
  /\ how = "badfile" => \E e \in Empty : e <= m
  /\ how = "unread" => DiskFails \/ d > 0

LEMMA FaultsCount ==
  ASSUME Inv, [Next]_vars
  PROVE  /\ outages' \in Nat /\ reloads' \in Nat /\ crashes' \in Nat /\ dirErrors' \in Nat
         /\ outages <= outages' /\ reloads <= reloads' /\ crashes <= crashes'
         /\ dirErrors <= dirErrors'
         /\ outages \in Nat /\ reloads \in Nat /\ crashes \in Nat /\ dirErrors \in Nat
<1>1. outages \in Nat /\ reloads \in Nat /\ crashes \in Nat /\ dirErrors \in Nat
  BY BoundsAssumption DEF Inv, TypeOK
<1>2. CASE UNCHANGED <<outages, reloads, crashes, dirErrors>>
  BY <1>1, <1>2
<1>d. ASSUME NEW failing, DirectoryFails(failing)
      PROVE  dirErrors' \in Nat /\ dirErrors <= dirErrors'
  BY <1>1, <1>d DEF DirectoryFails
<1>o. ASSUME NEW s, Open(s) PROVE dirErrors' \in Nat /\ dirErrors <= dirErrors'
  BY <1>1, <1>d, <1>o DEF Open
<1>3. CASE DoConfigReload
  <2>1. dirErrors' \in Nat /\ dirErrors <= dirErrors'
    BY <1>3, <1>o DEF DoConfigReload
  <2> QED BY <1>1, <1>3, <2>1 DEF DoConfigReload
<1>4. CASE Crash
  BY <1>1, <1>4 DEF Crash, directory
<1>5. CASE Outage
  BY <1>1, <1>5 DEF Outage, directory
<1>6. CASE Read
  <2>1. PICK k \in 1..acks : ReadReply(k)
    BY <1>6 DEF Read
  <2> QED BY <1>2, <2>1 DEF ReadReply, environment, directory
<1>7. CASE Create
  <2>1. dirErrors' \in Nat /\ dirErrors <= dirErrors'
    BY <1>7, <1>o DEF Create
  <2> QED BY <1>1, <1>7, <2>1 DEF Create
<1>8. CASE Cron
  <2>1. dirErrors' \in Nat /\ dirErrors <= dirErrors'
    BY <1>8, <1>d, CronSteps DEF CronStep
  <2> QED BY <1>1, <1>8, <2>1 DEF Cron, environment
<1>9. CASE StoreMessage \/ SendRequest \/ OnDisconnect \/ Restored
  BY <1>2, <1>9 DEF StoreMessage, SendRequest, OnDisconnect, Restored, environment, directory
<1>10. CASE UNCHANGED vars
  BY <1>2, <1>10 DEF vars
<1> QED BY <1>3, <1>4, <1>5, <1>6, <1>7, <1>8, <1>9, <1>10 DEF Next

LEMMA StepExplained ==
  ASSUME Inv, Causes, LossHasACause, [Next]_vars
  PROVE  LossHasACause'
<1> DEFINE Now(m, how) == Explained(m, how, outages', reloads', crashes', dirErrors')
<1>f. fate \in [Msgs -> Fates]
  BY DEF Inv, TypeOK, Fates
<1>n. /\ outages' \in Nat /\ reloads' \in Nat /\ crashes' \in Nat /\ dirErrors' \in Nat
      /\ outages <= outages' /\ reloads <= reloads' /\ crashes <= crashes'
      /\ dirErrors <= dirErrors'
      /\ outages \in Nat /\ reloads \in Nat /\ crashes \in Nat /\ dirErrors \in Nat
  BY FaultsCount
<1>k. \A m \in Msgs : Now(m, fate[m])
  <2>1. \A m \in Msgs : Explained(m, fate[m], outages, reloads, crashes, dirErrors)
    BY DEF LossHasACause, Explained
  <2> QED BY <1>n, <2>1 DEF Explained
<1>q. ASSUME \A m \in Msgs : Now(m, fate'[m]) PROVE LossHasACause'
  BY <1>q DEF LossHasACause, Explained
<1> HIDE DEF Now
<1>1. ASSUME NEW ms, NEW how, \A m \in Msgs \cap ms : Now(m, how), fate' = GiveUp(ms, how)
      PROVE  \A m \in Msgs : Now(m, fate'[m])
  BY <1>1, <1>k DEF GiveUp
<1>2. ASSUME fate' = fate PROVE \A m \in Msgs : Now(m, fate'[m])
  BY <1>2, <1>k
<1>3. CASE DoConfigReload
  <2>1. reloads' > 0
    BY <1>3, <1>n DEF DoConfigReload
  <2>2. \A m \in Msgs : Now(m, "close") /\ Now(m, "wire")
    BY <2>1 DEF Now, Explained
  <2>3. fate' = [m \in Msgs |-> IF m \in ToSet(deque) THEN "close"
                                ELSE IF m \in ToSet(wire) THEN "wire" ELSE fate[m]]
    BY <1>3 DEF DoConfigReload
  <2> QED BY <1>k, <1>q, <2>2, <2>3
<1>4. CASE Crash
  <2>1. crashes' > 0
    BY <1>4, <1>n DEF Crash
  <2>2. \A m \in Msgs : Now(m, "crash")
    BY <2>1 DEF Now, Explained
  <2>3. PICK ms : fate' = GiveUp(ms, "crash")
    BY <1>4 DEF Crash
  <2> QED BY <1>1, <1>q, <2>2, <2>3
<1>5. CASE StoreMessage
  <2>1. DoAddMessage(taken + 1) /\ running
    BY <1>5 DEF StoreMessage
  <2>2. ASSUME DiskFails PROVE \A m \in Msgs : Now(m, "drop") /\ Now(m, "ignored")
    BY <2>2 DEF Now, Explained
  <2>3. ASSUME NEW s, FilesOK(s), ToSecondary(taken + 1, s)
        PROVE  \A m \in Msgs : Now(m, fate'[m])
    <3>1. PICK t \in SecEnsure(s) :
            IF t.isOpen THEN fate' = fate ELSE fate' = GiveUp({taken + 1}, "drop")
      BY <2>3 DEF ToSecondary
    <3>2. CASE t.isOpen
      BY <1>2, <3>1, <3>2
    <3>3. CASE ~t.isOpen
      <4>1. DiskFails
        <5>1. FilesOK(SecClose(s)) /\ SecClose(s) \in Secondary
          BY <2>3, CloseFiles DEF FilesOK
        <5> QED BY <3>1, <3>3, <5>1 DEF SecEnsure, SecOpen, Secondary
      <4>2. fate' = GiveUp({taken + 1}, "drop")
        BY <3>1, <3>3
      <4> QED BY <1>1, <2>2, <4>1, <4>2
    <3> QED BY <3>2, <3>3
  <2>4. CASE state = "kToPrimary" /\ ~up
    <3>1. PICK s \in SecOpen(sec) : ToSecondary(taken + 1, s)
      BY <2>1, <2>4 DEF DoAddMessage
    <3>2. FilesOK(s)
      BY InvPlaces, OpenFiles
    <3> QED BY <1>q, <2>3, <3>1, <3>2
  <2>5. CASE state \in {"kToSecondary", "kTransfering"}
    BY <1>q, <2>1, <2>3, <2>5, InvPlaces DEF DoAddMessage
  <2>6. CASE state = "garbage"
    <3>1. DiskFails
      BY <2>1, <2>6 DEF Causes
    <3>2. fate' = GiveUp({taken + 1}, "ignored")
      BY <2>1, <2>6 DEF DoAddMessage
    <3> QED BY <1>1, <1>q, <2>2, <3>1, <3>2
  <2>7. CASE state = "kToPrimary" /\ up
    BY <1>2, <1>q, <2>1, <2>7 DEF DoAddMessage
  <2> QED BY <2>1, <2>4, <2>5, <2>6, <2>7 DEF DoAddMessage
<1>6. CASE Cron
  <2> DEFINE out == SubSeq(deque, 1, Leaving)
  <2>0. PICK failing, f, read : CronStep(failing, f, read)
    BY <1>6, CronSteps
  <2>1. fate' = [m \in Msgs |->
          IF ~up /\ m \in ToSet(out) THEN "transfer"
          ELSE IF "delete" \in failing \/ m \notin ToSet(f) \ ToSet(read) THEN fate[m]
          ELSE IF m \in ToSet(GetMessages(f)) THEN "unread" ELSE "badfile"]
    BY <2>0 DEF CronStep
  <2>2. ASSUME NEW m \in Msgs, ~up, m \in ToSet(out) PROVE Now(m, "transfer")
    <3>1. Leaving # 0
      <4>1. CASE Leaving = 0
        <5>1. out = SubSeq(deque, 1, 0) /\ deque \in Seq(Msgs)
          BY <4>1, InvPlaces DEF Places
        <5>2. SubSeq(deque, 1, 0) \in Seq(Msgs) /\ Len(SubSeq(deque, 1, 0)) = 0
          BY <5>1, CutElements
        <5>3. out = <<>>
          BY <5>1, <5>2, EmptySeq
        <5> QED BY <2>2, <5>3, EmptyElements
      <4> QED BY <4>1
    <3>2. CronState = "kTransfering" /\ isOpen
      BY <1>6, <3>1 DEF Leaving, Cron
    <3>3. state = "kTransfering"
      BY <2>2, <3>2 DEF CronState
    <3>4. outages > 0
      BY <2>2, <3>2, <3>3 DEF Causes
    <3> QED BY <1>n, <3>4 DEF Now, Explained
  <2>3. ASSUME NEW m \in ToSet(f) \ ToSet(GetMessages(f)) PROVE Now(m, "badfile")
    <3>1. f \in Seq(Msgs) /\ Ascending(f)
      BY <2>0, CronFiles, CronOrder DEF Causes, CronStep
    <3>2. \E e \in Empty : e <= m
      BY <3>1, BadFile
    <3> QED BY <3>2 DEF Now, Explained
  <2>5. ASSUME NEW m \in ToSet(GetMessages(f)) \ ToSet(read) PROVE Now(m, "unread")
    <3>1. read # GetMessages(f)
      OBVIOUS
    <3>2. DiskFails \/ "get" \in failing
      BY <2>0, <3>1, CronRead DEF CronStep
    <3>3. "get" \in failing => dirErrors' > 0
      <4>1. DirectoryFails(failing)
        BY <2>0 DEF CronStep
      <4> QED BY <1>n, <4>1 DEF DirectoryFails
    <3> QED BY <3>2, <3>3 DEF Now, Explained
  <2> HIDE DEF out
  <2>4. ASSUME NEW m \in Msgs PROVE Now(m, fate'[m])
    BY <1>k, <2>1, <2>2, <2>3, <2>5
  <2> QED BY <1>q, <2>4
<1>7. CASE OnDisconnect
  <2>1. outages > 0
    BY <1>7 DEF OnDisconnect, Causes
  <2>2. \A m \in Msgs : Now(m, "wire")
    BY <1>n, <2>1 DEF Now, Explained
  <2>3. fate' = GiveUp(ToSet(wire), "wire")
    BY <1>7 DEF OnDisconnect
  <2> QED BY <1>1, <1>q, <2>2, <2>3
<1>8. CASE Read
  <2>1. PICK k \in 1..acks : ReadReply(k)
    BY <1>8 DEF Read
  <2> QED BY <1>2, <1>q, <2>1 DEF ReadReply
<1>9. CASE Create \/ SendRequest \/ Outage \/ Restored \/ UNCHANGED vars
  BY <1>2, <1>q, <1>9 DEF Create, SendRequest, Outage, Restored, vars
<1> QED BY <1>3, <1>4, <1>5, <1>6, <1>7, <1>8, <1>9 DEF Next

(* Nothing is given up without a fault that explains it: no outage, no     *)
(* reload and no crash, disks that open every file and directory, and no   *)
(* empty messages mean no loss; each kind of loss needs its own fault (all *)
(* the places of bufferstore.cc, networkstore.cc and filestore.cc that     *)
(* drop a message).                                                        *)
THEOREM LossNeedsAFault ==
  Spec => []LossHasACause
<1>1. Init => Causes /\ LossHasACause
  <2> SUFFICES ASSUME Init PROVE Causes /\ LossHasACause
    OBVIOUS
  <2>1. up = FALSE /\ isOpen = FALSE /\ running = FALSE
    BY DEF Init
  <2>2. sec.cur = <<>> /\ sec.old = {} /\ Len(<<>>) = 0 /\ 1..0 = {}
    BY DEF Init, NoFile
  <2>3. Ordered(sec)
    BY <2>2 DEF Ordered, Ascending
  <2>4. \A m \in Msgs : fate[m] = "none"
    BY DEF Init
  <2> QED BY <2>1, <2>3, <2>4 DEF Causes, LossHasACause
<1>2. Inv /\ Causes /\ LossHasACause /\ [Next]_vars => Causes' /\ LossHasACause'
  BY StepCauses, StepExplained
<1> QED BY <1>1, <1>2, Invariance, PTL DEF Spec
============================================================================
