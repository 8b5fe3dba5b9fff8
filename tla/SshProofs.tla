------------------------------ MODULE SshProofs ------------------------------
(***************************************************************************)
(* Proofs about Ssh and Activity, for any number of sessions, users and    *)
(* handles and any lengths of the queue and of a batch.                    *)
(***************************************************************************)
EXTENDS Ssh, TLAPS, FiniteSetTheorems, SequenceTheorems

------------------------------------------------------------------------------
(* Queues.  What is known of the entries of a queue is their ids. *)

IsSeq(s) == s \in Seq(Range(s))

Apart(s) == \A i, j \in 1..Len(s) : i # j => s[i].ids \cap s[j].ids = {}

LEMMA SeqFacts ==
  ASSUME NEW s, IsSeq(s)
  PROVE  /\ Len(s) \in Nat /\ DOMAIN s = 1..Len(s)
         /\ Range(s) = {s[i] : i \in 1..Len(s)}
         /\ \A x : x \in Ids(s) <=> \E i \in 1..Len(s) : x \in s[i].ids
<1>1. Len(s) \in Nat /\ DOMAIN s = 1..Len(s)
  BY LenProperties DEF IsSeq
<1>2. Range(s) = {s[i] : i \in 1..Len(s)}
  BY <1>1 DEF Range
<1>3. \A x : x \in Ids(s) <=> \E i \in 1..Len(s) : x \in s[i].ids
  BY <1>2, Zenon DEF Ids
<1> QED BY <1>1, <1>2, <1>3

LEMMA MakeSeq ==
  ASSUME NEW n \in Nat, NEW s, DOMAIN s = 1..n, s = [i \in 1..n |-> s[i]]
  PROVE  IsSeq(s) /\ Len(s) = n
<1>1. s \in [1..n -> Range(s)]
  BY DEF Range
<1>2. s \in Seq(Range(s))
  BY <1>1, SeqDef
<1>3. Len(s) \in Nat /\ DOMAIN s = 1..Len(s)
  BY <1>2, LenProperties
<1>4. Len(s) = n
  BY <1>3
<1> QED BY <1>2, <1>4 DEF IsSeq

LEMMA SeqIn ==
  ASSUME NEW S, NEW s \in Seq(S)
  PROVE  IsSeq(s)
BY SeqOfRange DEF IsSeq

LEMMA EmptyQueue == IsSeq(<<>>) /\ Apart(<<>>) /\ Ids(<<>>) = {} /\ Len(<<>>) = 0
<1>1. <<>> \in Seq({}) /\ Len(<<>>) = 0
  BY EmptySeq
<1>2. IsSeq(<<>>)
  BY <1>1, SeqIn
<1>3. \A x : x \notin Ids(<<>>)
  BY <1>1, <1>2, SeqFacts
<1>4. Apart(<<>>)
  BY <1>1 DEF Apart
<1> QED BY <1>1, <1>2, <1>3, <1>4

LEMMA AppendQueue ==
  ASSUME NEW s, IsSeq(s), Apart(s), NEW a, a.ids \cap Ids(s) = {}
  PROVE  IsSeq(Append(s, a)) /\ Apart(Append(s, a)) /\ Ids(Append(s, a)) = Ids(s) \cup a.ids
<1> DEFINE t == Append(s, a)  S == Range(s) \cup {a}
<1>1. s \in Seq(S) /\ a \in S
  BY SeqMonotonic DEF IsSeq
<1>2. /\ t \in Seq(S) /\ Len(t) = Len(s) + 1
      /\ \A i \in 1..Len(s) : t[i] = s[i]
      /\ t[Len(s) + 1] = a
  BY <1>1, AppendProperties
<1>3. IsSeq(t)
  BY <1>2, SeqIn
<1> HIDE DEF t
<1>4. Len(s) \in Nat /\ \A x : x \in Ids(s) <=> \E i \in 1..Len(s) : x \in s[i].ids
  BY SeqFacts
<1>5. \A x : x \in Ids(t) <=> \E i \in 1..Len(t) : x \in t[i].ids
  BY <1>3, SeqFacts
<1>6. \A i \in 1..Len(t) : i \in 1..Len(s) \/ i = Len(s) + 1
  BY <1>2, <1>4
<1>7. 1..Len(s) \subseteq 1..Len(t) /\ Len(s) + 1 \in 1..Len(t)
  BY <1>2, <1>4
<1>8. Ids(t) = Ids(s) \cup a.ids
  <2>1. ASSUME NEW x \in Ids(t) PROVE x \in Ids(s) \cup a.ids
    <3>1. PICK i \in 1..Len(t) : x \in t[i].ids
      BY <1>5, <2>1
    <3>2. CASE i \in 1..Len(s)
      BY <1>2, <1>4, <3>1, <3>2
    <3>3. CASE i = Len(s) + 1
      BY <1>2, <3>1, <3>3
    <3> QED BY <1>6, <3>2, <3>3
  <2>2. ASSUME NEW x \in Ids(s) PROVE x \in Ids(t)
    <3>1. PICK i \in 1..Len(s) : x \in s[i].ids
      BY <1>4
    <3> QED BY <1>2, <1>5, <1>7, <3>1
  <2>3. ASSUME NEW x \in a.ids PROVE x \in Ids(t)
    BY <1>2, <1>5, <1>7
  <2> QED BY <2>1, <2>2, <2>3
<1>9. Apart(t)
  <2> SUFFICES ASSUME NEW i \in 1..Len(t), NEW j \in 1..Len(t), i # j, NEW x \in t[i].ids, x \in t[j].ids
               PROVE  FALSE
    BY DEF Apart
  <2>1. CASE i \in 1..Len(s) /\ j \in 1..Len(s)
    BY <1>2, <2>1 DEF Apart
  <2>2. CASE i \in 1..Len(s) /\ j = Len(s) + 1
    BY <1>2, <1>4, <2>2
  <2>3. CASE j \in 1..Len(s) /\ i = Len(s) + 1
    BY <1>2, <1>4, <2>3
  <2> QED BY <1>6, <2>1, <2>2, <2>3
<1> QED BY <1>3, <1>8, <1>9 DEF t

\* A queue that is cut in two.
Halves(q, b, r) ==
  /\ IsSeq(b) /\ IsSeq(r) /\ Apart(b) /\ Apart(r)
  /\ Ids(b) \cap Ids(r) = {} /\ Ids(b) \cup Ids(r) = Ids(q)

LEMMA CutQueue ==
  ASSUME NEW q, NEW n, NEW b, NEW r, IsSeq(q), Apart(q), n \in 0..Len(q),
         b = SubSeq(q, 1, n), r = SubSeq(q, n + 1, Len(q))
  PROVE  Halves(q, b, r)
<1>1. /\ Len(q) \in Nat /\ Range(q) = {q[i] : i \in 1..Len(q)}
      /\ \A x : x \in Ids(q) <=> \E i \in 1..Len(q) : x \in q[i].ids
  BY SeqFacts
<1>2. /\ b \in Seq(Range(q)) /\ Len(b) = n /\ \A i \in 1..n : b[i] = q[i]
  <2>1. \A i \in 1..n : q[i] \in Range(q)
    BY <1>1
  <2>2. /\ b \in Seq(Range(q)) /\ Len(b) = IF 1 <= n THEN n - 1 + 1 ELSE 0
        /\ \A i \in 1..n - 1 + 1 : b[i] = q[1 + i - 1]
    BY <1>1, <2>1, SubSeqProperties
  <2> QED BY <1>1, <2>2
<1>3. /\ r \in Seq(Range(q)) /\ Len(r) = Len(q) - n /\ \A i \in 1..Len(q) - n : r[i] = q[n + i]
  <2>1. \A i \in n + 1..Len(q) : q[i] \in Range(q)
    BY <1>1
  <2>2. /\ r \in Seq(Range(q)) /\ Len(r) = IF n + 1 <= Len(q) THEN Len(q) - (n + 1) + 1 ELSE 0
        /\ \A i \in 1..Len(q) - (n + 1) + 1 : r[i] = q[n + 1 + i - 1]
    BY <1>1, <2>1, SubSeqProperties
  <2> QED BY <1>1, <2>2
<1>4. IsSeq(b) /\ IsSeq(r)
  BY <1>2, <1>3, SeqIn
<1>5. /\ \A x : x \in Ids(b) <=> \E i \in 1..n : x \in b[i].ids
      /\ \A x : x \in Ids(r) <=> \E i \in 1..Len(q) - n : x \in r[i].ids
  BY <1>2, <1>3, <1>4, SeqFacts
<1>6. /\ \A i \in 1..n : i \in 1..Len(q)
      /\ \A i \in 1..Len(q) - n : n + i \in 1..Len(q)
      /\ \A i, j \in 1..Len(q) - n : i # j => n + i # n + j
      /\ \A i \in 1..n : \A j \in 1..Len(q) - n : i # n + j
  BY <1>1
<1>7. ASSUME NEW k \in 1..Len(q), k \notin 1..n PROVE \E i \in 1..Len(q) - n : k = n + i
  <2>1. k - n \in 1..Len(q) - n /\ k = n + (k - n)
    BY <1>1, <1>7
  <2> QED BY <2>1
<1>8. Apart(b)
  BY <1>2, <1>6 DEF Apart
<1>9. Apart(r)
  <2> SUFFICES ASSUME NEW i \in 1..Len(q) - n, NEW j \in 1..Len(q) - n, i # j
               PROVE  r[i].ids \cap r[j].ids = {}
    BY <1>3 DEF Apart
  <2>1. n + i \in 1..Len(q) /\ n + j \in 1..Len(q) /\ n + i # n + j
    BY <1>6
  <2>2. q[n + i].ids \cap q[n + j].ids = {}
    BY <2>1 DEF Apart
  <2> QED BY <1>3, <2>2
<1>10. Ids(b) \cap Ids(r) = {}
  <2> SUFFICES ASSUME NEW x \in Ids(b), x \in Ids(r) PROVE FALSE
    OBVIOUS
  <2>1. PICK i \in 1..n : x \in b[i].ids
    BY <1>5
  <2>2. PICK j \in 1..Len(q) - n : x \in r[j].ids
    BY <1>5
  <2> QED BY <1>2, <1>3, <1>6, <2>1, <2>2 DEF Apart
<1>11. Ids(b) \cup Ids(r) = Ids(q)
  <2>1. ASSUME NEW x \in Ids(q) PROVE x \in Ids(b) \cup Ids(r)
    <3>1. PICK k \in 1..Len(q) : x \in q[k].ids
      BY <1>1
    <3>2. CASE k \in 1..n
      BY <1>2, <1>5, <3>1, <3>2
    <3>3. CASE k \notin 1..n
      <4>1. PICK i \in 1..Len(q) - n : k = n + i
        BY <1>7, <3>3
      <4> QED BY <1>3, <1>5, <3>1, <4>1
    <3> QED BY <3>2, <3>3
  <2>2. ASSUME NEW x \in Ids(b) \cup Ids(r) PROVE x \in Ids(q)
    BY <1>1, <1>2, <1>3, <1>5, <1>6
  <2> QED BY <2>1, <2>2
<1> QED BY <1>4, <1>8, <1>9, <1>10, <1>11 DEF Halves

LEMMA FiniteMerges ==
  ASSUME IsSeq(activities)
  PROVE  /\ Cardinality(Of(Unmerged)) \in Nat /\ Cardinality(Keys) \in Nat
         /\ \A k : Of(k) \subseteq 1..Len(activities)
<1>1. Len(activities) \in Nat /\ DOMAIN activities = 1..Len(activities)
      /\ Range(activities) = {activities[i] : i \in 1..Len(activities)}
  BY SeqFacts
<1>2. IsFiniteSet(1..Len(activities))
  BY <1>1, FS_Interval
<1>3. \A k : Of(k) \subseteq 1..Len(activities)
  BY <1>1 DEF Of
<1>4. Cardinality(Of(Unmerged)) \in Nat
  <2>1. IsFiniteSet(Of(Unmerged))
    BY <1>2, <1>3, FS_Subset
  <2> QED BY <2>1, FS_CardinalityType
<1> DEFINE All == {a.key : a \in Range(activities)}
           f == [i \in 1..Len(activities) |-> activities[i].key]
<1>5. f \in Surjection(1..Len(activities), All)
  <2>1. f \in [1..Len(activities) -> All]
    BY <1>1
  <2>2. \A k \in All : \E i \in 1..Len(activities) : f[i] = k
    BY <1>1
  <2> QED BY <2>1, <2>2 DEF Surjection
<1>6. IsFiniteSet(All)
  BY <1>2, <1>5, FS_Surjection
<1>7. Keys \subseteq All
  BY DEF Keys
<1>8. Cardinality(Keys) \in Nat
  <2>1. IsFiniteSet(Keys)
    BY <1>6, <1>7, FS_Subset
  <2> QED BY <2>1, FS_CardinalityType
<1> QED BY <1>3, <1>4, <1>8

\* An entry of the merged queue has the ids of some of the queue, and those of
\* two entries come from different ones: nothing is made up or doubled.
LEMMA MergeQueue ==
  ASSUME IsSeq(activities), Apart(activities), NEW alone \in Alone, NEW order \in SetToSeqs(Keys),
         NEW q, q = Merge(alone, order)
  PROVE  IsSeq(q) /\ Apart(q) /\ Ids(q) \subseteq Ids(activities)
<1> DEFINE na == Cardinality(Of(Unmerged))  nk == Cardinality(Keys)  L == Len(activities)
<1>1. na \in Nat /\ nk \in Nat /\ \A k : Of(k) \subseteq 1..L
  BY FiniteMerges
<1>2. q = [i \in DOMAIN alone |-> activities[alone[i]]] \o [i \in DOMAIN order |-> Merged(order[i])]
  BY DEF Merge
<1>3. /\ alone \in [1..na -> Of(Unmerged)] /\ \A i, j \in 1..na : i # j => alone[i] # alone[j]
      /\ order \in [1..nk -> Keys] /\ \A i, j \in 1..nk : i # j => order[i] # order[j]
  BY DEF Alone, SetToSeqs
<1> DEFINE a == [i \in 1..na |-> activities[alone[i]]]  m == [i \in 1..nk |-> Merged(order[i])]
           S == Range(a) \cup Range(m)
<1>4. q = a \o m
  BY <1>2, <1>3
<1>5. /\ a \in Seq(Range(a)) /\ Len(a) = na /\ \A i \in 1..na : a[i] = activities[alone[i]]
      /\ m \in Seq(Range(m)) /\ Len(m) = nk /\ \A i \in 1..nk : m[i] = Merged(order[i])
  BY <1>1, MakeSeq DEF IsSeq
<1> HIDE DEF a, m, na, nk
<1>6. a \in Seq(S) /\ m \in Seq(S)
  BY <1>5, SeqMonotonic
<1>7. /\ q \in Seq(S) /\ Len(q) = na + nk
      /\ \A i \in 1..na + nk : q[i] = IF i <= na THEN a[i] ELSE m[i - na]
  BY <1>4, <1>5, <1>6, ConcatProperties
<1>8. IsSeq(q)
  BY <1>7, SeqIn
<1> DEFINE From(i) == IF i <= na THEN {alone[i]} ELSE Of(order[i - na])
<1>9. ASSUME NEW i \in 1..na + nk
      PROVE  /\ From(i) \subseteq 1..L
             /\ \A x \in q[i].ids : \E j \in From(i) : x \in activities[j].ids
  <2>1. CASE i <= na
    <3>1. i \in 1..na /\ alone[i] \in 1..L
      BY <1>1, <1>3, <2>1
    <3> QED BY <1>5, <1>7, <2>1, <3>1
  <2>2. CASE ~(i <= na)
    <3>1. i - na \in 1..nk
      BY <1>1, <2>2
    <3>2. q[i] = Merged(order[i - na])
      BY <1>5, <1>7, <2>2, <3>1
    <3>3. \A x \in Merged(order[i - na]).ids : \E j \in Of(order[i - na]) : x \in activities[j].ids
      BY DEF Merged
    <3> QED BY <1>1, <2>2, <3>2, <3>3
  <2> QED BY <2>1, <2>2
<1>10. ASSUME NEW i \in 1..na + nk, NEW j \in 1..na + nk, i < j
       PROVE  From(i) \cap From(j) = {}
  <2>1. CASE j <= na
    <3>1. i \in 1..na /\ j \in 1..na /\ i # j /\ i <= na
      BY <1>1, <1>10, <2>1
    <3> QED BY <1>3, <2>1, <3>1
  <2>2. CASE ~(j <= na)
    <3>1. j - na \in 1..nk /\ order[j - na] \in Keys /\ order[j - na] # Unmerged
      BY <1>1, <1>3, <2>2 DEF Keys
    <3>2. CASE i <= na
      <4>1. i \in 1..na /\ alone[i] \in Of(Unmerged)
        BY <1>1, <1>3, <3>2
      <4> QED BY <2>2, <3>1, <3>2, <4>1 DEF Of
    <3>3. CASE ~(i <= na)
      <4>1. i - na \in 1..nk /\ i - na # j - na
        BY <1>1, <1>10, <3>3
      <4>2. order[i - na] # order[j - na]
        BY <1>3, <3>1, <4>1
      <4> QED BY <2>2, <3>3, <4>2 DEF Of
    <3> QED BY <3>2, <3>3
  <2> QED BY <2>1, <2>2
<1> HIDE DEF From
<1>11. \A i, j \in 1..na + nk : i # j => From(i) \cap From(j) = {}
  BY <1>1, <1>10
<1>12. /\ \A x : x \in Ids(q) <=> \E i \in 1..na + nk : x \in q[i].ids
       /\ \A x : x \in Ids(activities) <=> \E i \in 1..L : x \in activities[i].ids
  BY <1>7, <1>8, SeqFacts
<1>13. Ids(q) \subseteq Ids(activities)
  BY <1>9, <1>12
<1>14. Apart(q)
  <2> SUFFICES ASSUME NEW i \in 1..na + nk, NEW j \in 1..na + nk, i # j,
                      NEW x \in q[i].ids, x \in q[j].ids
               PROVE  FALSE
    BY <1>7 DEF Apart
  <2>1. PICK g \in From(i) : x \in activities[g].ids
    BY <1>9
  <2>2. PICK h \in From(j) : x \in activities[h].ids
    BY <1>9
  <2>3. g \in 1..L /\ h \in 1..L /\ g # h
    BY <1>9, <1>11, <2>1, <2>2
  <2> QED BY <2>1, <2>2, <2>3 DEF Apart
<1> QED BY <1>8, <1>13, <1>14

------------------------------------------------------------------------------
(***************************************************************************)
(* The queue: no id is in two entries, nor in the queue and the batch, nor *)
(* does one that waits count as told or lost; a batch is there only while  *)
(* the mutex is held.                                                      *)
(***************************************************************************)
QueueOK ==
  /\ IsSeq(activities) /\ IsSeq(batch) /\ Apart(activities) /\ Apart(batch)
  /\ Ids(activities) \cap Ids(batch) = {}
  /\ ~held => batch = <<>>
  /\ Queued \cap told = {} /\ Queued \cap lost = {} /\ told \cap lost = {}

LEMMA QueueNoneTwice == ASSUME QueueOK PROVE NoneTwice
<1> DEFINE n == Len(activities)  m == Len(batch)  S == Range(activities) \cup Range(batch)
           q == activities \o batch
<1>1. /\ n \in Nat /\ m \in Nat
      /\ \A x : x \in Ids(activities) <=> \E i \in 1..n : x \in activities[i].ids
      /\ \A x : x \in Ids(batch) <=> \E i \in 1..m : x \in batch[i].ids
  BY SeqFacts DEF QueueOK
<1>2. activities \in Seq(S) /\ batch \in Seq(S)
  BY SeqMonotonic DEF QueueOK, IsSeq
<1>3. /\ q \in Seq(S) /\ Len(q) = n + m
      /\ \A i \in 1..n + m : q[i] = IF i <= n THEN activities[i] ELSE batch[i - n]
  BY <1>2, ConcatProperties
<1>4. DOMAIN q = 1..n + m
  BY <1>3, LenProperties
<1> HIDE DEF q
<1>5. ASSUME NEW i \in 1..n + m, NEW j \in 1..n + m, i < j, NEW x \in q[i].ids, x \in q[j].ids
      PROVE  FALSE
  <2>1. CASE j <= n
    <3>1. i \in 1..n /\ j \in 1..n /\ i # j /\ q[i] = activities[i] /\ q[j] = activities[j]
      BY <1>1, <1>3, <1>5, <2>1
    <3> QED BY <1>5, <3>1 DEF QueueOK, Apart
  <2>2. CASE ~(j <= n) /\ i <= n
    <3>1. i \in 1..n /\ j - n \in 1..m /\ q[i] = activities[i] /\ q[j] = batch[j - n]
      BY <1>1, <1>3, <2>2
    <3>2. x \in Ids(activities) /\ x \in Ids(batch)
      BY <1>1, <1>5, <3>1
    <3> QED BY <3>2 DEF QueueOK
  <2>3. CASE ~(j <= n) /\ ~(i <= n)
    <3>1. i - n \in 1..m /\ j - n \in 1..m /\ i - n # j - n /\ q[i] = batch[i - n] /\ q[j] = batch[j - n]
      BY <1>1, <1>3, <1>5, <2>3
    <3> QED BY <1>5, <3>1 DEF QueueOK, Apart
  <2> QED BY <2>1, <2>2, <2>3
<1>6. \A i, j \in 1..n + m : i # j => q[i].ids \cap q[j].ids = {}
  <2> SUFFICES ASSUME NEW i \in 1..n + m, NEW j \in 1..n + m, i # j, NEW x \in q[i].ids, x \in q[j].ids
               PROVE  FALSE
    OBVIOUS
  <2>1. i < j \/ j < i
    BY <1>1
  <2> QED BY <1>5, <2>1
<1> QED BY <1>4, <1>6 DEF q, NoneTwice

\* What is logged is queued once.
LEMMA QueueLogs ==
  ASSUME QueueOK, NEW a, NEW id, a.ids = {id}, id \notin Recorded, log_activity(a)
  PROVE  QueueOK' /\ Queued' = Queued \cup {id} /\ Log_!Next
<1>1. PICK q : q = activities'
  OBVIOUS
<1>2. q = Append(activities, a) /\ batch = <<>> /\ UNCHANGED <<batch, held, told, lost>>
  BY <1>1 DEF log_activity, QueueOK
<1>3. id \notin Ids(activities) /\ id \notin told /\ id \notin lost
  BY DEF Recorded, Queued
<1>4. IsSeq(q) /\ Apart(q) /\ Ids(q) = Ids(activities) \cup {id}
  BY <1>2, <1>3, AppendQueue DEF QueueOK
<1>5. Ids(batch) = {}
  BY <1>2, EmptyQueue
<1>6. (IsSeq(activities) /\ Apart(activities))' /\ Ids(activities') = Ids(activities) \cup {id}
  BY <1>1, <1>4
<1>7. (IsSeq(batch) /\ Apart(batch))' /\ Ids(batch') = {}
  BY <1>2, <1>5, EmptyQueue
<1>8. Queued = Ids(activities) /\ Queued' = Queued \cup {id}
  BY <1>5, <1>6, <1>7 DEF Queued
<1>9. QueueOK'
  BY <1>2, <1>3, <1>6, <1>7, <1>8 DEF QueueOK
<1>10. Log_!Next
  BY <1>2, <1>3, <1>8 DEF Log_!Next
<1> QED BY <1>8, <1>9, <1>10

\* The task loses what the merging dropped, and moves nothing else.
LEMMA QueueWakes ==
  ASSUME QueueOK, Wake
  PROVE  QueueOK' /\ Recorded' = Recorded /\ Log_!Next
<1>1. PICK alone \in Alone, order \in SetToSeqs(Keys) :
        LET q == Merge(alone, order)  n == Smaller(SendCount, Len(q)) IN
        /\ batch' = SubSeq(q, 1, n) /\ activities' = SubSeq(q, n + 1, Len(q))
        /\ lost' = lost \cup (Ids(activities) \ Ids(q))
  BY DEF Wake
<1>2. PICK q : q = Merge(alone, order)
  OBVIOUS
<1>3. IsSeq(q) /\ Apart(q) /\ Ids(q) \subseteq Ids(activities)
  BY <1>2, MergeQueue DEF QueueOK
<1>4. PICK n : n = Smaller(SendCount, Len(q))
  OBVIOUS
<1>5. n \in 0..Len(q)
  BY <1>3, <1>4, SeqFacts, ActivityAssumption DEF Smaller
<1>6. PICK b, r : b = batch' /\ r = activities'
  OBVIOUS
<1>7. b = SubSeq(q, 1, n) /\ r = SubSeq(q, n + 1, Len(q)) /\ lost' = lost \cup (Ids(activities) \ Ids(q))
  BY <1>1, <1>2, <1>4, <1>6
<1>8. /\ IsSeq(b) /\ IsSeq(r) /\ Apart(b) /\ Apart(r)
      /\ Ids(b) \cap Ids(r) = {} /\ Ids(b) \cup Ids(r) = Ids(q)
  <2>1. Halves(q, b, r)
    BY <1>3, <1>5, <1>7, CutQueue
  <2> QED BY <2>1 DEF Halves
<1>9. /\ (IsSeq(batch) /\ Apart(batch) /\ IsSeq(activities) /\ Apart(activities))'
      /\ Ids(activities') \cap Ids(batch') = {} /\ Queued' = Ids(q)
  BY <1>6, <1>8 DEF Queued
<1>10. Queued = Ids(activities) /\ held' = TRUE /\ told' = told
  BY EmptyQueue DEF Wake, QueueOK, Queued
<1>11. QueueOK'
  BY <1>3, <1>7, <1>9, <1>10 DEF QueueOK
<1>12. Recorded' = Recorded
  BY <1>3, <1>7, <1>9, <1>10 DEF Recorded
<1>13. Log_!Next
  BY <1>3, <1>7, <1>9, <1>10 DEF Log_!Next, QueueOK
<1> QED BY <1>11, <1>12, <1>13

LEMMA QueueSends ==
  ASSUME QueueOK, Send
  PROVE  QueueOK' /\ Recorded' = Recorded /\ Log_!Next
<1>1. /\ activities' = activities /\ batch' = <<>>
      /\ \/ told' = told \cup Ids(batch) /\ lost' = lost
         \/ lost' = lost \cup Ids(batch) /\ told' = told
  BY DEF Send
<1>2. Ids(activities') = Ids(activities) /\ Ids(batch') = {}
  BY <1>1, EmptyQueue
<1>3. (IsSeq(batch) /\ Apart(batch) /\ IsSeq(activities) /\ Apart(activities))'
  BY <1>1, EmptyQueue DEF QueueOK
<1>4. Queued' = Ids(activities)
  BY <1>2 DEF Queued
<1>5. QueueOK'
  BY <1>1, <1>2, <1>3, <1>4 DEF QueueOK, Queued
<1>6. Recorded' = Recorded
  BY <1>1, <1>4 DEF Recorded, Queued
<1>7. Log_!Next
  BY <1>1, <1>4 DEF Log_!Next, QueueOK, Queued
<1> QED BY <1>5, <1>6, <1>7

LEMMA QueueStays ==
  ASSUME QueueOK, UNCHANGED <<activities, batch, held, told, lost>>
  PROVE  QueueOK' /\ Recorded' = Recorded /\ UNCHANGED Log_!vars
BY DEF QueueOK, Queued, Recorded, Log_!vars

------------------------------------------------------------------------------
(***************************************************************************)
(* The forms of a step of a request, whatever it is a request for.         *)
(***************************************************************************)
Points == {"idle", "check", "act", "log", "archive"}

Names == {"remove", "rmdir", "mkdir", "rename", "symlink", "hardlink", "copy-file"}

Ops == Names \cup {"none", "open", "opendir", "write", "setstat", "lsetstat",
                  "start", "restart", "stop", "kill", "command", "untar", "tar"}

Events == MergedEvents \cup {"none", "PowerStart", "PowerRestart", "PowerStop", "PowerKill",
                            "ConsoleCommand", "FileDecompress", "FileCompress"}

Request == [op : Ops, at : Points, flags : {{}} \cup Flags, id : Nat, event : Events, timestamp : Nat]

Fresh == {r \in Request : r.at = "check" /\ r.id = 0}

Archives == {"untar", "tar"}

Asks(s) == \E r \in Fresh : r.op \notin Archives /\ Ask(s, r) /\ UNCHANGED next_id

Types(s) ==
  /\ channel[s] \notin {"none", "sftp"} /\ request[s] = Idle
  /\ \E r \in Fresh : request' = [request EXCEPT ![s] = r]
  /\ UNCHANGED <<access, login, open_, late, next_id, activityVars>>

OpensHandle(s) == request[s].op \in {"open", "opendir"}

Checks(s) ==
  /\ request[s].at = "check"
  /\ \/ To(s, "act") /\ (OpensHandle(s) => Cardinality(handles[s]) < HandleLimit)
     \/ Reply(s)
  /\ UNCHANGED <<access, login, open_, late, next_id, activityVars>>

\* It fails or is done, with nothing to log.
Replies(s) ==
  /\ request[s].at \in {"act", "archive"} /\ Reply(s)
  /\ late' \in {late, Late(s)}
  /\ UNCHANGED <<access, login, open_, next_id, activityVars>>

Opens(s) ==
  /\ request[s].at = "act" /\ OpensHandle(s) /\ Reply(s)
  /\ \E kind \in {"file", "dir"} : NewHandle(s, kind)
  /\ UNCHANGED <<access, login, late, next_id, activityVars>>

Makes(s) ==
  /\ request[s].at = "act" /\ (\E event \in Events : Make(s, event))
  /\ late' \in {late, Late(s)}
  /\ UNCHANGED <<access, login, open_, activityVars>>

RequestStep(s) ==
  \/ Asks(s) \/ Types(s) \/ Checks(s) \/ Replies(s) \/ Opens(s) \/ Makes(s) \/ close(s)
  \/ UNCHANGED vars

LEMMA IdleFacts ==
  Idle \in Request /\ Idle.at = "idle" /\ Idle.id = 0 /\ Idle.flags = {} /\ Idle.op = "none"
BY DEF Idle, Request, Points, Ops, Events

LEMMA FreshFacts ==
  ASSUME NEW op \in Ops
  PROVE  /\ \E r \in Fresh : r.op = op /\ r = [Idle EXCEPT !.op = op, !.at = "check"]
         /\ \A flags \in {{}} \cup Flags : \E r \in Fresh :
              r.op = op /\ r = [Idle EXCEPT !.op = op, !.at = "check", !.flags = flags]
<1>1. "check" \in Points
  BY DEF Points
<1>2. \E r \in Fresh : r.op = op /\ r = [Idle EXCEPT !.op = op, !.at = "check"]
  BY <1>1, IdleFacts DEF Fresh, Request
<1>3. ASSUME NEW flags \in {{}} \cup Flags
      PROVE  \E r \in Fresh : r.op = op /\ r = [Idle EXCEPT !.op = op, !.at = "check", !.flags = flags]
  BY <1>1, IdleFacts DEF Fresh, Request
<1> QED BY <1>2, <1>3

LEMMA AskForForm ==
  ASSUME NEW s, NEW op \in Ops \ Archives, AskFor(s, op) \/ Change(s, op)
  PROVE  Asks(s)
BY FreshFacts DEF AskFor, Change, Asks

Checked(s, op) ==
  /\ At(s, op, "check") /\ (To(s, "act") \/ Reply(s))
  /\ UNCHANGED <<access, login, open_, late, next_id, activityVars>>

LEMMA CheckForm ==
  ASSUME NEW s, NEW op \in Ops \ {"open", "opendir"}, Checked(s, op)
  PROVE  Checks(s)
BY DEF Checked, Checks, At, OpensHandle

LEMMA ActForm ==
  ASSUME NEW s, NEW op \in Ops, NEW event \in Events, Act(s, op, event)
  PROVE  Makes(s) \/ Replies(s)
BY DEF Act, Makes, Replies, At

LEMMA UnloggedForm ==
  ASSUME NEW s, NEW op \in Ops, Unlogged(s, op)
  PROVE  Replies(s)
BY DEF Unlogged, Replies, At

LEMMA NamesForm ==
  ASSUME NEW s,
         remove(s) \/ rmdir(s) \/ mkdir(s) \/ rename(s) \/ symlink(s) \/ hardlink(s) \/ copy_file(s)
  PROVE  Asks(s) \/ Checks(s) \/ Makes(s) \/ Replies(s)
<1> DEFINE Form(op, event) == Change(s, op) \/ Checked(s, op) \/ Act(s, op, event) \/ Unlogged(s, op)
<1>1. ASSUME NEW op \in Names, NEW event \in Events, Form(op, event)
      PROVE  Asks(s) \/ Checks(s) \/ Makes(s) \/ Replies(s)
  <2>1. op \in Ops \ {"open", "opendir"} /\ op \in Ops \ Archives
    BY DEF Ops, Names, Archives
  <2> QED BY <1>1, <2>1, AskForForm, CheckForm, ActForm, UnloggedForm
<1>2. CASE remove(s)
  <2>1. Form("remove", "SftpDelete")
    BY <1>2 DEF remove, Check, Checked
  <2> HIDE DEF Form
  <2> QED BY <1>1, <2>1 DEF Names, Events, MergedEvents
<1>3. CASE rmdir(s)
  <2>1. Form("rmdir", "SftpDelete")
    BY <1>3 DEF rmdir, Check, Checked
  <2> HIDE DEF Form
  <2> QED BY <1>1, <2>1 DEF Names, Events, MergedEvents
<1>4. CASE mkdir(s)
  <2>1. Form("mkdir", "SftpCreateDirectory")
    BY <1>4 DEF mkdir, Check, Checked
  <2> HIDE DEF Form
  <2> QED BY <1>1, <2>1 DEF Names, Events, MergedEvents
<1>5. CASE rename(s)
  <2>1. Form("rename", "SftpRename")
    BY <1>5 DEF rename, Check, Checked
  <2> HIDE DEF Form
  <2> QED BY <1>1, <2>1 DEF Names, Events, MergedEvents
<1>6. CASE symlink(s)
  <2>1. Form("symlink", "SftpCreate")
    BY <1>6 DEF symlink, Check, Checked
  <2> HIDE DEF Form
  <2> QED BY <1>1, <2>1 DEF Names, Events, MergedEvents
<1>7. CASE hardlink(s)
  <2>1. Form("hardlink", "SftpCreate")
    BY <1>7 DEF hardlink, Check, Checked
  <2> HIDE DEF Form
  <2> QED BY <1>1, <2>1 DEF Names, Events, MergedEvents
<1>8. CASE copy_file(s)
  <2>1. Form("copy-file", "SftpCreate")
    BY <1>8 DEF copy_file, Check, Checked
  <2> HIDE DEF Form
  <2> QED BY <1>1, <2>1 DEF Names, Events, MergedEvents
<1> QED BY <1>2, <1>3, <1>4, <1>5, <1>6, <1>7, <1>8

LEMMA OpenForm ==
  ASSUME NEW s, open(s) \/ opendir(s)
  PROVE  Asks(s) \/ Checks(s) \/ Makes(s) \/ Replies(s) \/ Opens(s)
<1>1. {"open", "opendir"} \subseteq Ops \ Archives
  BY DEF Ops, Archives
<1>2. ASSUME NEW flags \in Flags, Ask(s, [Idle EXCEPT !.op = "open", !.at = "check", !.flags = flags]),
             UNCHANGED next_id
      PROVE  Asks(s)
  <2>1. "open" \in Ops /\ "open" \notin Archives
    BY DEF Ops, Archives
  <2>2. PICK r \in Fresh :
          r.op = "open" /\ r = [Idle EXCEPT !.op = "open", !.at = "check", !.flags = flags]
    BY <2>1, FreshFacts
  <2>3. Ask(s, r)
    BY <1>2, <2>2
  <2> QED BY <1>2, <2>1, <2>2, <2>3 DEF Asks
<1>3. CASE Check(s, "open", MayOpen(s))
  BY <1>3 DEF Check, Checks, At, MayOpen
<1>4. CASE Check(s, "opendir", Cardinality(handles[s]) < HandleLimit /\ Has(s, "read"))
  BY <1>4 DEF Check, Checks, At
<1>5. CASE Act(s, "open", OpenEvent(request[s].flags))
  <2>1. PICK event : event = OpenEvent(request[s].flags)
    OBVIOUS
  <2>2. event \in Events
    BY <2>1 DEF OpenEvent, Events, MergedEvents
  <2> QED BY <1>1, <1>5, <2>1, <2>2, ActForm
<1>6. ASSUME NEW op \in {"open", "opendir"}, NEW kind \in {"file", "dir"},
             At(s, op, "act"), Reply(s), NewHandle(s, kind) \/ UNCHANGED open_,
             UNCHANGED <<access, login, late, next_id, activityVars>>
      PROVE  Opens(s) \/ Replies(s)
  BY <1>6 DEF At, Opens, OpensHandle, Replies
<1>7. CASE open(s)
  BY <1>2, <1>3, <1>5, <1>6, <1>7 DEF open
<1>8. CASE opendir(s)
  BY <1>1, <1>4, <1>6, <1>8, AskForForm DEF opendir
<1> QED BY <1>7, <1>8

LEMMA HandleForm ==
  ASSUME NEW s, write(s) \/ setstat(s) \/ fsetstat(s) \/ lsetstat(s)
  PROVE  Asks(s) \/ Checks(s) \/ Replies(s)
<1> DEFINE Form(op) == AskFor(s, op) \/ Checked(s, op) \/ Unlogged(s, op)
<1>1. ASSUME NEW op \in Ops \ {"open", "opendir", "untar", "tar"}, Form(op)
      PROVE  Asks(s) \/ Checks(s) \/ Replies(s)
  BY <1>1, AskForForm, CheckForm, UnloggedForm DEF Archives
<1>2. Form("write") \/ Form("setstat") \/ Form("lsetstat")
  BY DEF write, setstat, fsetstat, lsetstat, Check, Checked
<1> HIDE DEF Form
<1> QED BY <1>1, <1>2 DEF Ops

LEMMA QueryForm ==
  ASSUME NEW s,
         \/ readdir(s) \/ read(s) \/ fsync(s) \/ fstat(s) \/ stat(s) \/ lstat(s) \/ readlink(s)
         \/ check_file(s) \/ space_available(s) \/ limits(s) \/ statvfs(s) \/ realpath(s)
  PROVE  UNCHANGED vars
BY DEF readdir, read, fsync, fstat, stat, lstat, readlink, check_file, space_available, limits,
       statvfs, realpath, Query

LEMMA SftpForm ==
  ASSUME NEW s, Sftp(s)
  PROVE  RequestStep(s)
BY NamesForm, OpenForm, HandleForm, QueryForm DEF Sftp, RequestStep

LEMMA TypeForm ==
  ASSUME NEW s, NEW where \in {"shell", "exec"}, NEW op \in Ops, Type(s, where, op)
  PROVE  Types(s)
BY FreshFacts DEF Type, Types

LEMMA CommandForm ==
  ASSUME NEW s, Shell(s) \/ exec_console(s)
  PROVE  RequestStep(s)
<1> DEFINE Form(where, op, event) ==
             \/ Type(s, where, op) \/ Checked(s, op)
             \/ /\ At(s, op, "act") /\ ((Reply(s) /\ UNCHANGED next_id) \/ Make(s, event))
                /\ UNCHANGED <<access, login, open_, late, activityVars>>
<1>1. ASSUME NEW where \in {"shell", "exec"}, NEW op \in Ops \ {"open", "opendir"}, NEW event \in Events,
             Form(where, op, event)
      PROVE  RequestStep(s)
  <2>1. ASSUME At(s, op, "act"), Make(s, event), UNCHANGED <<access, login, open_, late, activityVars>>
        PROVE  Makes(s)
    BY <2>1 DEF At, Makes
  <2>2. ASSUME At(s, op, "act"), Reply(s), UNCHANGED next_id,
               UNCHANGED <<access, login, open_, late, activityVars>>
        PROVE  Replies(s)
    BY <2>2 DEF At, Replies
  <2> QED BY <1>1, <2>1, <2>2, TypeForm, CheckForm DEF RequestStep
<1>2. \/ Form("shell", "start", "PowerStart") \/ Form("shell", "restart", "PowerRestart")
      \/ Form("shell", "stop", "PowerStop") \/ Form("shell", "kill", "PowerKill")
      \/ Form("shell", "command", "ConsoleCommand") \/ Form("exec", "command", "ConsoleCommand")
  BY DEF Shell, exec_console, power_start, power_restart, power_stop, power_kill, console,
         Command, Check, Checked
<1> HIDE DEF Form
<1> QED BY <1>1, <1>2 DEF Ops, Events

LEMMA ExecForm ==
  ASSUME NEW s, exec_untar(s) \/ exec_tar(s)
  PROVE  RequestStep(s)
<1> DEFINE Form(op, event) ==
             \/ Type(s, "exec", op) \/ Checked(s, op)
             \/ At(s, op, "act") /\ Make(s, event) /\ UNCHANGED <<access, login, open_, late, activityVars>>
             \/ /\ At(s, op, "archive") /\ Reply(s) /\ late' \in {late, Late(s)}
                /\ UNCHANGED <<access, login, open_, next_id, activityVars>>
<1>1. ASSUME NEW op \in Ops \ {"open", "opendir"}, NEW event \in Events, Form(op, event)
      PROVE  RequestStep(s)
  <2>1. ASSUME At(s, op, "act"), Make(s, event), UNCHANGED <<access, login, open_, late, activityVars>>
        PROVE  Makes(s)
    BY <2>1 DEF At, Makes
  <2>2. ASSUME At(s, op, "archive"), Reply(s), late' \in {late, Late(s)},
               UNCHANGED <<access, login, open_, next_id, activityVars>>
        PROVE  Replies(s)
    BY <2>2 DEF At, Replies
  <2> QED BY <1>1, <2>1, <2>2, TypeForm, CheckForm DEF RequestStep
<1>2. Form("untar", "FileDecompress") \/ Form("tar", "FileCompress")
  BY DEF exec_untar, exec_tar, Archive, Check, Checked
<1> HIDE DEF Form
<1> QED BY <1>1, <1>2 DEF Ops, Events

\* A step of a session is a login, a channel that begins or ends, a log or one of
\* the forms above.
LEMMA SessionForm ==
  ASSUME NEW s, Session(s)
  PROVE  \/ Answer(s) \/ Accept(s) \/ (\E what \in {"sftp", "shell", "exec"} : Start(s, what))
         \/ channel_eof(s) \/ Log(s) \/ RequestStep(s)
<1>1. CASE Sftp(s) \/ Shell(s) \/ Exec(s)
  BY <1>1, SftpForm, CommandForm, ExecForm DEF Exec
<1>2. CASE ~(Sftp(s) \/ Shell(s) \/ Exec(s))
  BY <1>2 DEF Session, auth_password, auth_publickey, subsystem_request, shell_request, exec_request
<1> QED BY <1>1, <1>2

------------------------------------------------------------------------------
(***************************************************************************)
(* The strengthening.                                                      *)
(*   LoginOK   : a channel needs a server, a server an answer that was     *)
(*               accepted, and no answer comes once there is one.          *)
(*   RequestOK : a request lives on a channel; those that wait to be       *)
(*               logged have ids of their own.                             *)
(*   HandlesOK : a request that was allowed to open finds its handle free. *)
(*   LateOK    : a request of SFTP that was allowed has had no effect yet; *)
(*               none of them is an archive.                               *)
(***************************************************************************)
Logins == [user : Users \cup {Nobody}, permissions : Grants \cup {{}}]

LoginOK ==
  /\ channel \in [Sessions -> {"none", "sftp", "shell", "exec"}]
  /\ user \in [Sessions -> Users \cup {Nobody}] /\ accepted \in [Sessions -> Users \cup {Nobody}]
  /\ server \in [Sessions -> BOOLEAN] /\ auth \in [Sessions -> Logins]
  /\ \A s \in Sessions :
       /\ channel[s] # "none" => server[s]
       /\ server[s] => accepted[s] = user[s] /\ user[s] # Nobody
       /\ auth[s] # NoAnswer => auth[s].user = user[s] /\ user[s] # Nobody /\ ~server[s]

RequestOK ==
  /\ request \in [Sessions -> Request] /\ next_id \in Nat \ {0} /\ clock \in Nat
  /\ \A s \in Sessions :
       /\ channel[s] = "none" => request[s] = Idle
       /\ request[s].id < next_id
       /\ request[s].at = "log" => request[s].id # 0
       /\ \A t \in Sessions :
            request[s].at = "log" /\ request[t].at = "log" /\ request[s].id = request[t].id => s = t

Handles == [id : Nat, kind : {"file", "dir"}]

HandlesOK ==
  /\ handle_id \in [Sessions -> Nat] /\ handles \in [Sessions -> SUBSET Handles]
  /\ \A s \in Sessions :
       /\ IsFiniteSet(handles[s]) /\ Cardinality(handles[s]) <= HandleLimit
       /\ \A h \in handles[s] : h.id < handle_id[s] /\ \A g \in handles[s] : g.id = h.id => g = h
       /\ OpensHandle(s) /\ request[s].at \in {"act", "log"} => Cardinality(handles[s]) < HandleLimit

LateOK ==
  /\ late \in [Sessions -> Nat]
  /\ \A s \in Sessions : channel[s] = "sftp" =>
       /\ late[s] <= 1
       /\ request[s].at \in {"check", "act"} => late[s] = 0
       /\ request[s].op \notin Archives /\ request[s].at # "archive"

IInv == LoginOK /\ RequestOK /\ HandlesOK /\ LateOK /\ QueueOK /\ ChangesAreLogged

LEMMA LoginKept ==
  ASSUME LoginOK, [Next]_vars
  PROVE  LoginOK'
<1> USE SshAssumption
<1>0. ASSUME UNCHANGED login PROVE LoginOK'
  BY <1>0 DEF LoginOK, login
<1>1. ASSUME NEW s \in Sessions, Answer(s) PROVE LoginOK'
  <2>1. PICK u \in Users, g \in Grants :
          /\ user' = [user EXCEPT ![s] = u]
          /\ auth' = [auth EXCEPT ![s] = [user |-> u, permissions |-> g]]
    BY <1>1 DEF Answer
  <2>2. PICK a : a = [user |-> u, permissions |-> g]
    OBVIOUS
  <2>3. a \in Logins /\ a.user = u
    BY <2>2 DEF Logins
  <2>4. auth' = [auth EXCEPT ![s] = a] /\ ~server[s] /\ UNCHANGED <<server, channel, accepted>>
    BY <1>1, <2>1, <2>2 DEF Answer
  <2> QED BY <2>1, <2>3, <2>4 DEF LoginOK
<1>2. ASSUME NEW s \in Sessions, Accept(s) PROVE LoginOK'
  <2>1. NoAnswer \in Logins
    BY DEF NoAnswer, Logins
  <2>2. auth[s] # NoAnswer /\ auth' = [auth EXCEPT ![s] = NoAnswer] /\ UNCHANGED <<user, channel>>
    BY <1>2 DEF Accept
  <2>3. CASE UNCHANGED <<accepted, server>>
    BY <2>1, <2>2, <2>3 DEF LoginOK
  <2>4. CASE /\ server' = [server EXCEPT ![s] = TRUE]
             /\ accepted' = [accepted EXCEPT ![s] = auth[s].user]
    <3>1. auth[s].user = user[s] /\ user[s] # Nobody
      BY <2>2 DEF LoginOK
    <3>2. accepted' = [accepted EXCEPT ![s] = user[s]]
      BY <2>4, <3>1
    <3> QED BY <2>1, <2>2, <2>4, <3>1, <3>2 DEF LoginOK
  <2> QED BY <1>2, <2>3, <2>4 DEF Accept
<1>3. ASSUME NEW s \in Sessions, NEW what \in {"sftp", "shell", "exec"}, Start(s, what)
      PROVE  LoginOK'
  BY <1>3 DEF Start, LoginOK
<1>4. ASSUME NEW s \in Sessions, channel_eof(s) PROVE LoginOK'
  BY <1>4 DEF channel_eof, LoginOK
<1>5. ASSUME NEW s \in Sessions, Log(s) \/ RequestStep(s) PROVE LoginOK'
  <2>1. UNCHANGED login
    BY <1>5 DEF Log, RequestStep, Asks, Ask, Types, Checks, Replies, Opens, Makes, close, vars
  <2> QED BY <1>0, <2>1
<1>6. ASSUME NEW s \in Sessions, Session(s) PROVE LoginOK'
  BY <1>1, <1>2, <1>3, <1>4, <1>5, <1>6, SessionForm
<1>7. CASE SetLocked \/ (\E u \in Users : Permit(u) \/ Expire(u))
  BY <1>0, <1>7 DEF SetLocked, Permit, Expire
<1>8. CASE (Wake \/ Send \/ Tick) /\ Others
  BY <1>0, <1>8 DEF Others
<1>9. CASE UNCHANGED vars
  BY <1>0, <1>9 DEF vars
<1> QED BY <1>6, <1>7, <1>8, <1>9 DEF Next

------------------------------------------------------------------------------
(* What the steps do to the request of their session. *)

LEMMA ToFacts ==
  ASSUME NEW s \in Sessions, NEW p \in Points, request \in [Sessions -> Request], To(s, p)
  PROVE  \E r \in Request : /\ request' = [request EXCEPT ![s] = r]
                            /\ r.at = p /\ r.id = request[s].id /\ r.op = request[s].op
<1>1. request[s] \in Request
  OBVIOUS
<1>2. PICK r : r = [request[s] EXCEPT !.at = p]
  OBVIOUS
<1>3. r \in Request /\ r.at = p /\ r.id = request[s].id /\ r.op = request[s].op
  BY <1>1, <1>2 DEF Request
<1>4. request' = [request EXCEPT ![s] = r]
  BY <1>2 DEF To
<1> QED BY <1>3, <1>4

LEMMA MakeFacts ==
  ASSUME NEW s \in Sessions, NEW event \in Events, request \in [Sessions -> Request],
         next_id \in Nat, clock \in Nat, Make(s, event)
  PROVE  \E r \in Request : /\ request' = [request EXCEPT ![s] = r]
                            /\ r.at = "log" /\ r.id = next_id /\ r.op = request[s].op
<1>1. request[s] \in Request /\ "log" \in Points
  BY DEF Points
<1>2. PICK n \in Nat : n = IF event \in MergedEvents THEN clock ELSE 0
  OBVIOUS
<1>3. PICK r : r = [request[s] EXCEPT !.at = "log", !.event = event, !.id = next_id, !.timestamp = n]
  OBVIOUS
<1>4. r \in Request /\ r.at = "log" /\ r.id = next_id /\ r.op = request[s].op
  BY <1>1, <1>3 DEF Request
<1>5. request' = [request EXCEPT ![s] = r]
  BY <1>2, <1>3 DEF Make
<1> QED BY <1>4, <1>5

LEMMA Busy ==
  ASSUME RequestOK, NEW s \in Sessions, request[s].at # "idle"
  PROVE  channel[s] # "none"
BY IdleFacts DEF RequestOK

\* The request of the session after a step of each form.
LEMMA RequestForms ==
  ASSUME RequestOK, NEW s \in Sessions,
         \/ Asks(s) \/ Types(s) \/ Checks(s) \/ Replies(s) \/ Opens(s) \/ Makes(s) \/ Log(s)
  PROVE  /\ channel[s] # "none" /\ UNCHANGED <<channel, clock>>
         /\ \E r \in Request :
              /\ request' = [request EXCEPT ![s] = r]
              /\ Asks(s) \/ Types(s) => r.at = "check" /\ r.id = 0
              /\ Asks(s) => r.op \notin Archives
              /\ Checks(s) => r = Idle \/ (r.at = "act" /\ r.op = request[s].op /\ r.id = request[s].id)
              /\ Replies(s) \/ Opens(s) => r = Idle
              /\ Makes(s) => r.at = "log" /\ r.op = request[s].op /\ r.id = next_id
              /\ Log(s) => \/ r = Idle
                           \/ r.at = "archive" /\ r.id = request[s].id /\ request[s].op \in Archives
<1>0. request \in [Sessions -> Request] /\ next_id \in Nat /\ clock \in Nat
  BY DEF RequestOK
<1> DEFINE Moves(r) == request' = [request EXCEPT ![s] = r]
<1>1. CASE Asks(s) \/ Types(s)
  <2>1. channel[s] # "none" /\ UNCHANGED <<channel, clock>> /\ request[s] = Idle
    BY <1>1 DEF Asks, Ask, Types, login, activityVars
  <2>2. PICK r \in Fresh : Moves(r) /\ (Asks(s) => r.op \notin Archives)
    <3>1. CASE Asks(s)
      BY <3>1 DEF Asks, Ask
    <3>2. CASE Types(s) /\ ~Asks(s)
      BY <3>2 DEF Types
    <3> QED BY <1>1, <3>1, <3>2
  <2>3. r \in Request /\ r.at = "check" /\ r.id = 0
    BY DEF Fresh
  <2>4. ~Checks(s) /\ ~Replies(s) /\ ~Opens(s) /\ ~Makes(s) /\ ~Log(s)
    BY <2>1, IdleFacts DEF Checks, Replies, Opens, Makes, Log
  <2> HIDE DEF Moves
  <2> QED BY <2>1, <2>2, <2>3, <2>4 DEF Moves
<1>2. CASE Checks(s)
  <2>1. request[s].at = "check" /\ UNCHANGED <<channel, clock>>
    BY <1>2 DEF Checks, login, activityVars
  <2>2. PICK r \in Request : /\ Moves(r)
                             /\ r = Idle \/ (r.at = "act" /\ r.op = request[s].op /\ r.id = request[s].id)
    <3>1. CASE To(s, "act")
      BY <1>0, <3>1, ToFacts DEF Points
    <3>2. CASE Reply(s)
      BY <3>2, IdleFacts DEF Reply
    <3> QED BY <1>2, <3>1, <3>2 DEF Checks
  <2>3. ~Asks(s) /\ ~Types(s) /\ ~Replies(s) /\ ~Opens(s) /\ ~Makes(s) /\ ~Log(s)
    BY <2>1, IdleFacts DEF Asks, Ask, Types, Replies, Opens, Makes, Log
  <2> HIDE DEF Moves
  <2> QED BY <2>1, <2>2, <2>3, Busy DEF Moves
<1>3. CASE Replies(s) \/ Opens(s)
  <2>1. request[s].at \in {"act", "archive"} /\ Moves(Idle) /\ UNCHANGED <<channel, clock>>
    BY <1>3 DEF Replies, Opens, Reply, login, activityVars
  <2>2. ~Asks(s) /\ ~Types(s) /\ ~Checks(s) /\ ~Log(s)
    BY <2>1, IdleFacts DEF Asks, Ask, Types, Checks, Log
  <2>3. ~Makes(s)
    <3>1. ASSUME Makes(s) PROVE FALSE
      <4>1. PICK event \in Events : Make(s, event)
        BY <3>1 DEF Makes
      <4>2. PICK r \in Request : Moves(r) /\ r.at = "log"
        BY <1>0, <4>1, MakeFacts
      <4> QED BY <1>0, <2>1, <4>2, IdleFacts
    <3> QED BY <3>1
  <2> HIDE DEF Moves
  <2> QED BY <2>1, <2>2, <2>3, Busy, IdleFacts DEF Moves
<1>4. CASE Makes(s)
  <2>1. request[s].at = "act" /\ UNCHANGED <<channel, clock>>
    BY <1>4 DEF Makes, login, activityVars
  <2>2. PICK event \in Events : Make(s, event)
    BY <1>4 DEF Makes
  <2>3. PICK r \in Request : Moves(r) /\ r.at = "log" /\ r.id = next_id /\ r.op = request[s].op
    BY <1>0, <2>2, MakeFacts
  <2>4. ~Asks(s) /\ ~Types(s) /\ ~Checks(s) /\ ~Log(s)
    BY <2>1, IdleFacts DEF Asks, Ask, Types, Checks, Log
  <2>5. ~Replies(s) /\ ~Opens(s)
    <3>1. ASSUME Replies(s) \/ Opens(s) PROVE FALSE
      <4>1. Moves(Idle)
        BY <3>1 DEF Replies, Opens, Reply
      <4> QED BY <1>0, <2>3, <4>1, IdleFacts
    <3> QED BY <3>1
  <2> HIDE DEF Moves
  <2> QED BY <2>1, <2>3, <2>4, <2>5, Busy DEF Moves
<1>5. CASE Log(s)
  <2>1. request[s].at = "log" /\ UNCHANGED <<channel, clock>>
    BY <1>5 DEF Log, login, log_activity
  <2>2. PICK r \in Request :
          Moves(r) /\ (r = Idle \/ (r.at = "archive" /\ r.id = request[s].id /\ request[s].op \in Archives))
    <3>1. CASE request[s].op \in Archives /\ To(s, "archive")
      BY <1>0, <3>1, ToFacts DEF Points
    <3>2. CASE Reply(s)
      BY <3>2, IdleFacts DEF Reply
    <3> QED BY <1>5, <3>1, <3>2 DEF Log, Archives
  <2>3. ~Asks(s) /\ ~Types(s) /\ ~Checks(s) /\ ~Replies(s) /\ ~Opens(s) /\ ~Makes(s)
    BY <2>1, IdleFacts DEF Asks, Ask, Types, Checks, Replies, Opens, Makes
  <2> HIDE DEF Moves
  <2> QED BY <2>1, <2>2, <2>3, Busy DEF Moves
<1> QED BY <1>1, <1>2, <1>3, <1>4, <1>5

LEMMA RequestKept ==
  ASSUME LoginOK, RequestOK, [Next]_vars
  PROVE  RequestOK'
<1>0. ASSUME UNCHANGED <<channel, request, next_id>>, clock' \in Nat PROVE RequestOK'
  BY <1>0 DEF RequestOK
<1>1. ASSUME NEW s \in Sessions, NEW r \in Request, request' = [request EXCEPT ![s] = r],
             channel[s] # "none", UNCHANGED <<channel, clock>>,
             \/ UNCHANGED next_id /\ r.at # "log" /\ r.id < next_id
             \/ next_id' = next_id + 1 /\ r.id = next_id
      PROVE  RequestOK'
  <2>1. \A t \in Sessions : request'[t] = IF t = s THEN r ELSE request[t]
    BY <1>1 DEF RequestOK
  <2>2. CASE UNCHANGED next_id /\ r.at # "log" /\ r.id < next_id
    BY <1>1, <2>1, <2>2 DEF RequestOK
  <2>3. CASE next_id' = next_id + 1 /\ r.id = next_id
    <3>1. next_id' \in Nat \ {0} /\ next_id < next_id' /\ r.id # 0
      BY <2>3 DEF RequestOK
    <3>2. \A t \in Sessions : request[t].id < next_id' /\ request[t].id # next_id /\ request[t].id \in Nat
      BY <2>3 DEF RequestOK, Request
    <3> QED BY <1>1, <2>1, <2>3, <3>1, <3>2 DEF RequestOK
  <2> QED BY <1>1, <2>2, <2>3
<1>2. ASSUME NEW s \in Sessions, Answer(s) \/ Accept(s) \/ close(s) \/ UNCHANGED vars PROVE RequestOK'
  BY <1>0, <1>2 DEF Answer, Accept, close, vars, login, activityVars, RequestOK
<1>3. ASSUME NEW s \in Sessions, NEW what \in {"sftp", "shell", "exec"}, Start(s, what)
      PROVE  RequestOK'
  BY <1>3 DEF Start, RequestOK, activityVars, LoginOK
<1>4. ASSUME NEW s \in Sessions, channel_eof(s) PROVE RequestOK'
  BY <1>4 DEF channel_eof, RequestOK, activityVars, LoginOK
<1>5. ASSUME NEW s \in Sessions,
             \/ Asks(s) \/ Types(s) \/ Checks(s) \/ Replies(s) \/ Opens(s) \/ Makes(s) \/ Log(s)
      PROVE  RequestOK'
  <2>1. PICK r \in Request :
              /\ request' = [request EXCEPT ![s] = r]
              /\ Asks(s) \/ Types(s) => r.at = "check" /\ r.id = 0
              /\ Asks(s) => r.op \notin Archives
              /\ Checks(s) => r = Idle \/ (r.at = "act" /\ r.op = request[s].op /\ r.id = request[s].id)
              /\ Replies(s) \/ Opens(s) => r = Idle
              /\ Makes(s) => r.at = "log" /\ r.op = request[s].op /\ r.id = next_id
              /\ Log(s) => \/ r = Idle
                           \/ r.at = "archive" /\ r.id = request[s].id /\ request[s].op \in Archives
    BY <1>5, RequestForms
  <2>2. channel[s] # "none" /\ UNCHANGED <<channel, clock>>
    BY <1>5, RequestForms
  <2>3. 0 < next_id /\ request[s].id < next_id
    BY DEF RequestOK
  <2>4. CASE Makes(s)
    <3>1. next_id' = next_id + 1
      BY <2>4 DEF Makes, Make
    <3> QED BY <1>1, <2>1, <2>2, <2>4, <3>1
  <2>5. CASE ~Makes(s)
    <3>1. UNCHANGED next_id
      BY <1>5, <2>5 DEF Asks, Types, Checks, Replies, Opens, Log
    <3>2. r.at # "log" /\ r.id < next_id
      BY <1>5, <2>1, <2>3, <2>5, IdleFacts
    <3> QED BY <1>1, <2>1, <2>2, <3>1, <3>2
  <2> QED BY <2>4, <2>5
<1>6. ASSUME NEW s \in Sessions, Session(s) PROVE RequestOK'
  BY <1>2, <1>3, <1>4, <1>5, <1>6, SessionForm DEF RequestStep
<1>7. CASE SetLocked \/ (\E u \in Users : Permit(u) \/ Expire(u))
  BY <1>0, <1>7 DEF SetLocked, Permit, Expire, login, activityVars, RequestOK
<1>8. CASE (Wake \/ Send \/ Tick) /\ Others
  BY <1>0, <1>8 DEF Others, login, Wake, Send, Tick, RequestOK
<1>9. CASE UNCHANGED vars
  BY <1>0, <1>9 DEF vars, login, activityVars, RequestOK
<1> QED BY <1>6, <1>7, <1>8, <1>9 DEF Next

LEMMA NewHandleFacts ==
  ASSUME HandlesOK, NEW s \in Sessions, NEW kind \in {"file", "dir"},
         Cardinality(handles[s]) < HandleLimit, NewHandle(s, kind)
  PROVE  \E H \in SUBSET Handles, n \in Nat :
           /\ handles' = [handles EXCEPT ![s] = H] /\ handle_id' = [handle_id EXCEPT ![s] = n]
           /\ IsFiniteSet(H) /\ Cardinality(H) <= HandleLimit
           /\ \A h \in H : h.id < n /\ \A g \in H : g.id = h.id => g = h
<1>1. PICK new : new = [id |-> handle_id[s], kind |-> kind]
  OBVIOUS
<1>2. new \in Handles /\ new.id = handle_id[s] /\ handle_id[s] \in Nat
  BY <1>1 DEF HandlesOK, Handles
<1>3. handles[s] \in SUBSET Handles /\ \A h \in handles[s] : h.id \in Nat /\ h.id < handle_id[s]
  BY DEF HandlesOK, Handles
<1> DEFINE H == handles[s] \cup {new}  n == handle_id[s] + 1
<1>4. H \in SUBSET Handles /\ n \in Nat
  BY <1>2, <1>3
<1>5. new \notin handles[s]
  BY <1>2, <1>3
<1>6. IsFiniteSet(handles[s]) /\ Cardinality(handles[s]) \in Nat
  BY FS_CardinalityType DEF HandlesOK
<1>7. IsFiniteSet(H) /\ Cardinality(H) = Cardinality(handles[s]) + 1
  BY <1>5, <1>6, FS_AddElement
<1>8. Cardinality(H) <= HandleLimit
  BY <1>6, <1>7, SshAssumption
<1>9. \A h \in H : h.id < n
  BY <1>2, <1>3
<1>10. ASSUME NEW h \in H, NEW g \in H, g.id = h.id PROVE g = h
  <2>1. CASE h \in handles[s] /\ g \in handles[s]
    BY <1>10, <2>1 DEF HandlesOK
  <2>2. CASE h \in handles[s] /\ g = new
    BY <1>2, <1>3, <1>10, <2>2
  <2>3. CASE g \in handles[s] /\ h = new
    BY <1>2, <1>3, <1>10, <2>3
  <2> QED BY <2>1, <2>2, <2>3
<1>11. handles' = [handles EXCEPT ![s] = H] /\ handle_id' = [handle_id EXCEPT ![s] = n]
  BY <1>1 DEF NewHandle
<1> HIDE DEF H, n
<1> QED BY <1>4, <1>7, <1>8, <1>9, <1>10, <1>11

LEMMA HandlesKept ==
  ASSUME RequestOK, HandlesOK, [Next]_vars
  PROVE  HandlesOK'
<1> USE SshAssumption
<1>0. ASSUME UNCHANGED <<handles, handle_id, request>> PROVE HandlesOK'
  BY <1>0 DEF HandlesOK, OpensHandle
<1>1. ASSUME NEW s \in Sessions, NEW r \in Request, request' = [request EXCEPT ![s] = r],
             NEW H \in SUBSET Handles, NEW n \in Nat,
             handles' = [handles EXCEPT ![s] = H], handle_id' = [handle_id EXCEPT ![s] = n],
             IsFiniteSet(H), Cardinality(H) <= HandleLimit,
             \A h \in H : h.id < n /\ \A g \in H : g.id = h.id => g = h,
             r.op \in {"open", "opendir"} /\ r.at \in {"act", "log"} => Cardinality(H) < HandleLimit
      PROVE  HandlesOK'
  <2>1. \A t \in Sessions : /\ request'[t] = IF t = s THEN r ELSE request[t]
                            /\ handles'[t] = IF t = s THEN H ELSE handles[t]
                            /\ handle_id'[t] = IF t = s THEN n ELSE handle_id[t]
    BY <1>1 DEF HandlesOK, RequestOK
  <2>2. handles' \in [Sessions -> SUBSET Handles] /\ handle_id' \in [Sessions -> Nat]
    BY <1>1 DEF HandlesOK
  <2>3. ASSUME NEW t \in Sessions
        PROVE  /\ IsFiniteSet(handles'[t]) /\ Cardinality(handles'[t]) <= HandleLimit
               /\ \A h \in handles'[t] : h.id < handle_id'[t] /\ \A g \in handles'[t] : g.id = h.id => g = h
               /\ OpensHandle(t)' /\ request'[t].at \in {"act", "log"} => Cardinality(handles'[t]) < HandleLimit
    <3>1. CASE t = s
      BY <1>1, <2>1, <3>1 DEF OpensHandle
    <3>2. CASE t # s
      BY <2>1, <3>2 DEF OpensHandle, HandlesOK
    <3> QED BY <3>1, <3>2
  <2> QED BY <2>2, <2>3 DEF HandlesOK
<1>2. ASSUME NEW s \in Sessions, Answer(s) \/ Accept(s) \/ UNCHANGED vars PROVE HandlesOK'
  BY <1>0, <1>2 DEF Answer, Accept, vars, open_
<1>3. ASSUME NEW s \in Sessions, channel_eof(s) \/ \E what \in {"sftp", "shell", "exec"} : Start(s, what)
      PROVE  HandlesOK'
  <2>1. request[s] = Idle /\ request' = [request EXCEPT ![s] = Idle]
        /\ handles' = [handles EXCEPT ![s] = {}] /\ handle_id' = [handle_id EXCEPT ![s] = 0]
    BY <1>3 DEF channel_eof, Start, RequestOK
  <2>2. IsFiniteSet({}) /\ Cardinality({}) = 0
    BY FS_EmptySet
  <2>3. PICK H : H = {}
    OBVIOUS
  <2>4. /\ H \in SUBSET Handles /\ IsFiniteSet(H) /\ Cardinality(H) <= HandleLimit
        /\ \A h \in H : h.id < 0 /\ \A g \in H : g.id = h.id => g = h
    BY <2>2, <2>3
  <2>5. Idle \in Request /\ Idle.at \notin {"act", "log"} /\ handles' = [handles EXCEPT ![s] = H] /\ 0 \in Nat
    BY <2>1, <2>3, IdleFacts
  <2> QED BY <1>1, <2>1, <2>4, <2>5
<1>4. ASSUME NEW s \in Sessions, close(s) PROVE HandlesOK'
  <2>1. PICK h \in handles[s] : handles' = [handles EXCEPT ![s] = handles[s] \ {h}]
    BY <1>4 DEF close
  <2>2. request[s] = Idle /\ request' = [request EXCEPT ![s] = Idle]
        /\ handle_id' = [handle_id EXCEPT ![s] = handle_id[s]]
    BY <1>4 DEF close, RequestOK, HandlesOK
  <2> DEFINE H == handles[s] \ {h}
  <2>3. /\ H \in SUBSET Handles /\ handle_id[s] \in Nat
        /\ \A x \in H : x.id < handle_id[s] /\ \A g \in H : g.id = x.id => g = x
    BY DEF HandlesOK
  <2>4. IsFiniteSet(handles[s]) /\ Cardinality(handles[s]) <= HandleLimit
    BY DEF HandlesOK
  <2>5. IsFiniteSet(H) /\ Cardinality(H) = Cardinality(handles[s]) - 1 /\ Cardinality(handles[s]) \in Nat
    BY <2>1, <2>4, FS_RemoveElement, FS_CardinalityType
  <2>6. Cardinality(H) <= HandleLimit
    BY <2>4, <2>5
  <2>7. handles' = [handles EXCEPT ![s] = H]
    BY <2>1
  <2> HIDE DEF H
  <2> QED BY <1>1, <2>2, <2>3, <2>5, <2>6, <2>7, IdleFacts
<1>5. ASSUME NEW s \in Sessions,
             \/ Asks(s) \/ Types(s) \/ Checks(s) \/ Replies(s) \/ Opens(s) \/ Makes(s) \/ Log(s)
      PROVE  HandlesOK'
  <2>1. PICK r \in Request :
              /\ request' = [request EXCEPT ![s] = r]
              /\ Asks(s) \/ Types(s) => r.at = "check" /\ r.id = 0
              /\ Asks(s) => r.op \notin Archives
              /\ Checks(s) => r = Idle \/ (r.at = "act" /\ r.op = request[s].op /\ r.id = request[s].id)
              /\ Replies(s) \/ Opens(s) => r = Idle
              /\ Makes(s) => r.at = "log" /\ r.op = request[s].op /\ r.id = next_id
              /\ Log(s) => \/ r = Idle
                           \/ r.at = "archive" /\ r.id = request[s].id /\ request[s].op \in Archives
    BY <1>5, RequestForms
  <2>2. /\ handles[s] \in SUBSET Handles /\ handle_id[s] \in Nat
        /\ IsFiniteSet(handles[s]) /\ Cardinality(handles[s]) <= HandleLimit
        /\ \A h \in handles[s] : h.id < handle_id[s] /\ \A g \in handles[s] : g.id = h.id => g = h
    BY DEF HandlesOK
  <2>3. ASSUME UNCHANGED open_,
               r.op \in {"open", "opendir"} /\ r.at \in {"act", "log"} => Cardinality(handles[s]) < HandleLimit
        PROVE  HandlesOK'
    <3>1. handles' = [handles EXCEPT ![s] = handles[s]] /\ handle_id' = [handle_id EXCEPT ![s] = handle_id[s]]
      BY <2>3 DEF open_, HandlesOK
    <3> QED BY <1>1, <2>1, <2>2, <2>3, <3>1
  <2>4. ASSUME NEW kind \in {"file", "dir"}, NewHandle(s, kind), Cardinality(handles[s]) < HandleLimit, r = Idle
        PROVE  HandlesOK'
    <3>1. PICK H \in SUBSET Handles, n \in Nat :
           /\ handles' = [handles EXCEPT ![s] = H] /\ handle_id' = [handle_id EXCEPT ![s] = n]
           /\ IsFiniteSet(H) /\ Cardinality(H) <= HandleLimit
           /\ \A h \in H : h.id < n /\ \A g \in H : g.id = h.id => g = h
      BY <2>4, NewHandleFacts
    <3> QED BY <1>1, <2>1, <2>4, <3>1, IdleFacts
  <2>5. CASE Asks(s) \/ Types(s) \/ Replies(s)
    <3>1. UNCHANGED open_ /\ r.at \notin {"act", "log"}
      BY <2>1, <2>5, IdleFacts DEF Asks, Ask, Types, Replies
    <3> QED BY <2>3, <3>1
  <2>6. CASE Checks(s)
    <3>1. CASE r = Idle
      BY <2>3, <2>6, <3>1, IdleFacts DEF Checks
    <3>2. CASE r # Idle
      <4>1. r.at = "act" /\ r.op = request[s].op /\ request' = [request EXCEPT ![s] = r]
        BY <2>1, <2>6, <3>2
      <4>2. ~Reply(s)
        BY <3>2, <4>1 DEF Reply, RequestOK
      <4>3. (OpensHandle(s) => Cardinality(handles[s]) < HandleLimit) /\ UNCHANGED open_
        BY <2>6, <4>2 DEF Checks
      <4> QED BY <2>3, <4>1, <4>3 DEF OpensHandle
    <3> QED BY <3>1, <3>2
  <2>7. CASE Opens(s)
    <3>1. Cardinality(handles[s]) < HandleLimit
      BY <2>7 DEF Opens, HandlesOK
    <3>2. r = Idle /\ \E kind \in {"file", "dir"} : NewHandle(s, kind)
      BY <2>1, <2>7 DEF Opens
    <3> QED BY <2>4, <3>1, <3>2
  <2>8. CASE Makes(s)
    <3>1. UNCHANGED open_ /\ r.op = request[s].op /\ request[s].at = "act"
      BY <2>1, <2>8 DEF Makes
    <3>2. r.op \in {"open", "opendir"} => Cardinality(handles[s]) < HandleLimit
      BY <3>1 DEF HandlesOK, OpensHandle
    <3> QED BY <2>3, <3>1, <3>2
  <2>9. CASE Log(s)
    <3>1. CASE request[s].op = "open"
      <4>1. Cardinality(handles[s]) < HandleLimit
        BY <2>9, <3>1 DEF Log, HandlesOK, OpensHandle
      <4>2. NewHandle(s, "file") /\ Reply(s)
        BY <2>9, <3>1 DEF Log
      <4>3. r = Idle
        BY <2>1, <4>2 DEF Reply, RequestOK
      <4> QED BY <2>4, <4>1, <4>2, <4>3
    <3>2. CASE request[s].op # "open"
      <4>1. UNCHANGED open_
        BY <2>9, <3>2 DEF Log
      <4>2. r.at \notin {"act", "log"}
        BY <2>1, <2>9, IdleFacts
      <4> QED BY <2>3, <4>1, <4>2
    <3> QED BY <3>1, <3>2
  <2> QED BY <1>5, <2>5, <2>6, <2>7, <2>8, <2>9
<1>6. ASSUME NEW s \in Sessions, Session(s) PROVE HandlesOK'
  BY <1>2, <1>3, <1>4, <1>5, <1>6, SessionForm DEF RequestStep
<1>7. CASE SetLocked \/ (\E u \in Users : Permit(u) \/ Expire(u))
  BY <1>0, <1>7 DEF SetLocked, Permit, Expire, open_
<1>8. CASE (Wake \/ Send \/ Tick) /\ Others
  BY <1>0, <1>8 DEF Others, open_
<1>9. CASE UNCHANGED vars
  BY <1>0, <1>9 DEF vars, open_
<1> QED BY <1>6, <1>7, <1>8, <1>9 DEF Next

LEMMA LateKept ==
  ASSUME LoginOK, RequestOK, LateOK, [Next]_vars
  PROVE  LateOK'
<1>0. ASSUME UNCHANGED <<late, channel, request>> PROVE LateOK'
  BY <1>0 DEF LateOK
<1>1. ASSUME NEW s \in Sessions, NEW r \in Request, request' = [request EXCEPT ![s] = r],
             NEW n \in Nat, late' = [late EXCEPT ![s] = n], UNCHANGED channel,
             channel[s] = "sftp" => /\ n <= 1 /\ (r.at \in {"check", "act"} => n = 0)
                                    /\ r.op \notin Archives /\ r.at # "archive"
      PROVE  LateOK'
  BY <1>1 DEF LateOK, RequestOK
<1>2. ASSUME NEW s \in Sessions, Answer(s) \/ Accept(s) \/ close(s) \/ UNCHANGED vars PROVE LateOK'
  BY <1>0, <1>2 DEF Answer, Accept, close, vars, login
<1>3. ASSUME NEW s \in Sessions, channel_eof(s) \/ \E what \in {"sftp", "shell", "exec"} : Start(s, what)
      PROVE  LateOK'
  <2>1. request[s] = Idle /\ UNCHANGED request /\ \A t \in Sessions \ {s} : channel'[t] = channel[t]
    BY <1>3 DEF channel_eof, Start, RequestOK, LoginOK
  <2>2. CASE channel_eof(s)
    <3>1. UNCHANGED late /\ channel'[s] # "sftp"
      BY <2>2 DEF channel_eof, LoginOK
    <3> QED BY <2>1, <3>1 DEF LateOK
  <2>3. CASE late' = [late EXCEPT ![s] = 0]
    BY <2>1, <2>3, IdleFacts DEF LateOK, Archives
  <2> QED BY <1>3, <2>2, <2>3 DEF Start
<1>5. ASSUME NEW s \in Sessions,
             \/ Asks(s) \/ Types(s) \/ Checks(s) \/ Replies(s) \/ Opens(s) \/ Makes(s) \/ Log(s)
      PROVE  LateOK'
  <2>1. PICK r \in Request :
              /\ request' = [request EXCEPT ![s] = r]
              /\ Asks(s) \/ Types(s) => r.at = "check" /\ r.id = 0
              /\ Asks(s) => r.op \notin Archives
              /\ Checks(s) => r = Idle \/ (r.at = "act" /\ r.op = request[s].op /\ r.id = request[s].id)
              /\ Replies(s) \/ Opens(s) => r = Idle
              /\ Makes(s) => r.at = "log" /\ r.op = request[s].op /\ r.id = next_id
              /\ Log(s) => \/ r = Idle
                           \/ r.at = "archive" /\ r.id = request[s].id /\ request[s].op \in Archives
    BY <1>5, RequestForms
  <2>2. late[s] \in Nat /\ UNCHANGED channel
    BY <1>5, RequestForms DEF LateOK
  <2>3. channel[s] = "sftp" => r.op \notin Archives /\ r.at # "archive"
    <3>1. CASE Asks(s)
      BY <2>1, <3>1
    <3>2. CASE ~Asks(s) /\ channel[s] = "sftp"
      <4>1. ~Types(s) /\ request[s].op \notin Archives
        BY <3>2 DEF Types, LateOK
      <4> QED BY <1>5, <2>1, <3>2, <4>1, IdleFacts DEF Archives
    <3> QED BY <3>1, <3>2
  <2>4. ASSUME UNCHANGED late, channel[s] = "sftp" /\ r.at \in {"check", "act"} => late[s] = 0
        PROVE  LateOK'
    <3>1. late' = [late EXCEPT ![s] = late[s]] /\ (channel[s] = "sftp" => late[s] <= 1)
      BY <2>4 DEF LateOK
    <3> QED BY <1>1, <2>1, <2>2, <2>3, <2>4, <3>1
  <2>5. CASE Asks(s)
    <3>1. late' = [late EXCEPT ![s] = 0]
      BY <2>5 DEF Asks, Ask
    <3>2. PICK n \in Nat : n = 0
      OBVIOUS
    <3>3. late' = [late EXCEPT ![s] = n] /\ n <= 1
      BY <3>1, <3>2
    <3> QED BY <1>1, <2>1, <2>2, <2>3, <3>2, <3>3
  <2>6. CASE Types(s)
    BY <2>4, <2>6 DEF Types
  <2>7. CASE Checks(s)
    <3>1. UNCHANGED late /\ (channel[s] = "sftp" => late[s] = 0)
      BY <2>7 DEF Checks, LateOK
    <3> QED BY <2>4, <3>1
  <2>8. CASE Opens(s) \/ Log(s)
    <3>1. UNCHANGED late /\ r.at \notin {"check", "act"}
      BY <2>1, <2>8, IdleFacts DEF Opens, Log
    <3> QED BY <2>4, <3>1
  <2>9. CASE Replies(s) \/ Makes(s)
    <3>1. r.at \notin {"check", "act"}
      BY <2>1, <2>9, IdleFacts
    <3>2. CASE UNCHANGED late
      BY <2>4, <3>1, <3>2
    <3>3. CASE ~UNCHANGED late
      <4>1. late' = Late(s) /\ request[s].at \in {"act", "archive"}
        BY <2>9, <3>3 DEF Replies, Makes
      <4>2. channel[s] = "sftp" => late[s] = 0
        BY <4>1 DEF LateOK
      <4>3. PICK n : n = late[s] + (IF allow_action(s) THEN 0 ELSE 1)
        OBVIOUS
      <4>4. n \in Nat /\ (channel[s] = "sftp" => n <= 1)
        BY <2>2, <4>2, <4>3
      <4>5. late' = [late EXCEPT ![s] = n]
        BY <4>1, <4>3 DEF Late
      <4> QED BY <1>1, <2>1, <2>2, <2>3, <3>1, <4>4, <4>5
    <3> QED BY <3>2, <3>3
  <2> QED BY <1>5, <2>5, <2>6, <2>7, <2>8, <2>9
<1>6. ASSUME NEW s \in Sessions, Session(s) PROVE LateOK'
  BY <1>2, <1>3, <1>5, <1>6, SessionForm DEF RequestStep
<1>7. CASE SetLocked \/ (\E u \in Users : Permit(u) \/ Expire(u))
  BY <1>0, <1>7 DEF SetLocked, Permit, Expire, login
<1>8. CASE (Wake \/ Send \/ Tick) /\ Others
  BY <1>0, <1>8 DEF Others, login
<1>9. CASE UNCHANGED vars
  BY <1>0, <1>9 DEF vars, login
<1> QED BY <1>6, <1>7, <1>8, <1>9 DEF Next

------------------------------------------------------------------------------
(* The log: what was changed is recorded once, and every step is one of Delivery. *)

Waiting == {request[s].id : s \in {t \in Sessions : request[t].at = "log"}}

LEMMA LogKept ==
  ASSUME RequestOK, QueueOK, ChangesAreLogged, [Next]_vars
  PROVE  QueueOK' /\ ChangesAreLogged' /\ [Log_!Next]_Log_!vars
<1> DEFINE Goal == QueueOK' /\ ChangesAreLogged' /\ [Log_!Next]_Log_!vars
<1>0. Recorded = (1..next_id - 1) \ Waiting
  BY DEF ChangesAreLogged, Waiting
<1>1. ASSUME UNCHANGED request PROVE UNCHANGED Waiting
  BY <1>1 DEF Waiting
<1>2. ASSUME UNCHANGED <<Waiting, next_id, activities, batch, held, told, lost>> PROVE Goal
  <2>1. QueueOK' /\ Recorded' = Recorded /\ UNCHANGED Log_!vars
    BY <1>2, QueueStays
  <2>2. ChangesAreLogged'
    BY <1>0, <1>2, <2>1 DEF ChangesAreLogged, Waiting
  <2> QED BY <2>1, <2>2
<1>3. CASE (Wake \/ Send) /\ Others
  <2>1. QueueOK' /\ Recorded' = Recorded /\ Log_!Next
    BY <1>3, QueueWakes, QueueSends
  <2>2. UNCHANGED <<Waiting, next_id>>
    BY <1>1, <1>3 DEF Others
  <2>3. ChangesAreLogged'
    BY <1>0, <2>1, <2>2 DEF ChangesAreLogged, Waiting
  <2> QED BY <2>1, <2>3
<1>4. ASSUME NEW s \in Sessions,
             \/ Answer(s) \/ Accept(s) \/ close(s) \/ channel_eof(s) \/ UNCHANGED vars
             \/ \E what \in {"sftp", "shell", "exec"} : Start(s, what)
      PROVE  Goal
  <2>1. UNCHANGED <<request, next_id, activities, batch, held, told, lost>>
    BY <1>4 DEF Answer, Accept, close, channel_eof, Start, vars, activityVars
  <2> QED BY <1>1, <1>2, <2>1
<1>5. ASSUME NEW s \in Sessions,
             \/ Asks(s) \/ Types(s) \/ Checks(s) \/ Replies(s) \/ Opens(s) \/ Makes(s) \/ Log(s)
      PROVE  Goal
  <2>1. PICK r \in Request :
              /\ request' = [request EXCEPT ![s] = r]
              /\ Asks(s) \/ Types(s) => r.at = "check" /\ r.id = 0
              /\ Asks(s) => r.op \notin Archives
              /\ Checks(s) => r = Idle \/ (r.at = "act" /\ r.op = request[s].op /\ r.id = request[s].id)
              /\ Replies(s) \/ Opens(s) => r = Idle
              /\ Makes(s) => r.at = "log" /\ r.op = request[s].op /\ r.id = next_id
              /\ Log(s) => \/ r = Idle
                           \/ r.at = "archive" /\ r.id = request[s].id /\ request[s].op \in Archives
    BY <1>5, RequestForms
  <2>2. \A t \in Sessions : request'[t] = IF t = s THEN r ELSE request[t]
    BY <2>1 DEF RequestOK
  <2>3. /\ \A x : x \in Waiting <=> \E t \in Sessions : request[t].at = "log" /\ x = request[t].id
        /\ \A x : x \in Waiting' <=> \E t \in Sessions : request'[t].at = "log" /\ x = request'[t].id
    BY DEF Waiting
  <2>4. CASE ~Makes(s) /\ ~Log(s)
    <3>1. request[s].at # "log" /\ UNCHANGED <<next_id, activities, batch, held, told, lost>>
      BY <1>5, <2>4, IdleFacts DEF Asks, Ask, Types, Checks, Replies, Opens, activityVars
    <3>2. r.at # "log"
      BY <1>5, <2>1, <2>4, IdleFacts
    <3>3. \A t \in Sessions : /\ request'[t].at = "log" <=> request[t].at = "log"
                              /\ request[t].at = "log" => request'[t].id = request[t].id
      BY <2>2, <3>1, <3>2
    <3>4. Waiting' = Waiting
      <4>1. ASSUME NEW x \in Waiting PROVE x \in Waiting'
        BY <2>3, <3>3
      <4>2. ASSUME NEW x \in Waiting' PROVE x \in Waiting
        BY <2>3, <3>3
      <4> QED BY <4>1, <4>2
    <3> QED BY <1>2, <3>1, <3>4
  <2>5. CASE Makes(s)
    <3>1. /\ request[s].at = "act" /\ r.at = "log" /\ r.id = next_id /\ next_id' = next_id + 1
          /\ UNCHANGED <<activities, batch, held, told, lost>>
      BY <2>1, <2>5 DEF Makes, Make, activityVars
    <3>2. Waiting' = Waiting \cup {next_id}
      <4>1. ASSUME NEW x \in Waiting PROVE x \in Waiting'
        BY <2>2, <2>3, <3>1
      <4>2. next_id \in Waiting'
        BY <2>2, <2>3, <3>1
      <4>3. ASSUME NEW x \in Waiting' PROVE x \in Waiting \cup {next_id}
        BY <2>2, <2>3, <3>1
      <4> QED BY <4>1, <4>2, <4>3
    <3>3. QueueOK' /\ Recorded' = Recorded /\ UNCHANGED Log_!vars
      BY <3>1, QueueStays
    <3>4. next_id \in Nat \ {0} /\ next_id' - 1 = next_id /\ next_id \notin 1..next_id - 1
          /\ 1..next_id = (1..next_id - 1) \cup {next_id}
      <4>1. PICK n \in Nat \ {0} : n = next_id
        BY DEF RequestOK
      <4>2. 1..n = (1..n - 1) \cup {n} /\ n \notin 1..n - 1 /\ n + 1 - 1 = n
        OBVIOUS
      <4> QED BY <3>1, <4>1, <4>2
    <3>5. (1..next_id' - 1) \ Waiting' = (1..next_id - 1) \ Waiting
      BY <3>2, <3>4
    <3>6. ChangesAreLogged'
      BY <1>0, <3>3, <3>5 DEF ChangesAreLogged, Waiting
    <3> QED BY <3>3, <3>6
  <2>6. CASE Log(s)
    <3>1. PICK a, id : a = NewActivity(Key(s), request[s].id, request[s].timestamp) /\ id = request[s].id
      OBVIOUS
    <3>2. a.ids = {id} /\ log_activity(a) /\ request[s].at = "log" /\ UNCHANGED next_id
      BY <2>6, <3>1 DEF Log, NewActivity
    <3>3. id \in Waiting /\ id \in 1..next_id - 1
      BY <2>3, <3>1, <3>2 DEF RequestOK, Request
    <3>4. id \notin Recorded
      BY <1>0, <3>3
    <3>5. QueueOK' /\ Queued' = Queued \cup {id} /\ Log_!Next
      BY <3>2, <3>4, QueueLogs
    <3>6. Recorded' = Recorded \cup {id}
      BY <3>2, <3>5 DEF Recorded, log_activity
    <3>7. r.at # "log"
      BY <2>1, <2>6, IdleFacts
    <3>8. Waiting' = Waiting \ {id}
      <4>1. ASSUME NEW x \in Waiting, x # id PROVE x \in Waiting'
        <5>1. PICK t \in Sessions : request[t].at = "log" /\ x = request[t].id
          BY <2>3
        <5>2. t # s
          BY <3>1, <4>1, <5>1
        <5> QED BY <2>2, <2>3, <5>1, <5>2
      <4>2. ASSUME NEW x \in Waiting' PROVE x \in Waiting /\ x # id
        <5>1. PICK t \in Sessions : request'[t].at = "log" /\ x = request'[t].id
          BY <2>3
        <5>2. t # s /\ request[t].at = "log" /\ x = request[t].id
          BY <2>2, <3>7, <5>1
        <5>3. request[t].id # request[s].id
          BY <3>2, <5>2 DEF RequestOK
        <5> QED BY <2>3, <3>1, <5>2, <5>3
      <4> QED BY <4>1, <4>2
    <3>9. (1..next_id' - 1) \ Waiting' = ((1..next_id - 1) \ Waiting) \cup {id}
      BY <3>2, <3>3, <3>8
    <3>10. ChangesAreLogged'
      BY <1>0, <3>6, <3>9 DEF ChangesAreLogged, Waiting
    <3> QED BY <3>5, <3>10
  <2> QED BY <2>4, <2>5, <2>6
<1>6. ASSUME NEW s \in Sessions, Session(s) PROVE Goal
  BY <1>4, <1>5, <1>6, SessionForm DEF RequestStep
<1>7. CASE SetLocked \/ (\E u \in Users : Permit(u) \/ Expire(u))
  <2>1. UNCHANGED <<request, next_id, activities, batch, held, told, lost>>
    BY <1>7 DEF SetLocked, Permit, Expire, activityVars
  <2> QED BY <1>1, <1>2, <2>1
<1>8. CASE (Tick /\ Others) \/ UNCHANGED vars
  <2>1. UNCHANGED <<request, next_id, activities, batch, held, told, lost>>
    BY <1>8 DEF Tick, Others, vars, activityVars
  <2> QED BY <1>1, <1>2, <2>1
<1> QED BY <1>3, <1>6, <1>7, <1>8 DEF Next

------------------------------------------------------------------------------
LEMMA InitIInv == Init => IInv
<1> SUFFICES ASSUME Init PROVE IInv
  OBVIOUS
<1> USE SshAssumption
<1>1. LoginOK
  <2>1. NoAnswer \in Logins
    BY DEF NoAnswer, Logins
  <2> QED BY <2>1 DEF Init, LoginOK
<1>2. RequestOK
  BY IdleFacts DEF Init, ActivityInit, RequestOK
<1>3. HandlesOK
  <2>1. {} \in SUBSET Handles /\ IsFiniteSet({}) /\ Cardinality({}) = 0
    BY FS_EmptySet
  <2> QED BY <2>1, IdleFacts DEF Init, HandlesOK
<1>4. LateOK
  BY IdleFacts DEF Init, LateOK
<1>5. QueueOK /\ Queued = {}
  BY EmptyQueue DEF Init, ActivityInit, QueueOK, Queued
<1>6. ChangesAreLogged
  BY <1>5, IdleFacts DEF Init, ActivityInit, ChangesAreLogged, Recorded
<1> QED BY <1>1, <1>2, <1>3, <1>4, <1>5, <1>6 DEF IInv

LEMMA StepIInv == IInv /\ [Next]_vars => IInv'
BY LoginKept, RequestKept, HandlesKept, LateKept, LogKept DEF IInv

LEMMA Inductive == Spec => []IInv
BY InitIInv, StepIInv, PTL DEF Spec

\* Every variable keeps its range; no channel has more handles than the limit
\* allows, though the limit is looked at before the file is opened, no two handles
\* have one number, and no activity is in two places, for any queue and any merging.
THEOREM TypeCorrect == Spec => []TypeOK
<1>1. IInv => TypeOK
  <2> SUFFICES ASSUME IInv PROVE TypeOK
    OBVIOUS
  <2>1. NoneTwice
    BY QueueNoneTwice DEF IInv
  <2>2. ASSUME NEW s \in Sessions
        PROVE  request[s].at \in {"idle", "check", "act", "log", "archive"} /\ request[s].id < next_id
    BY DEF IInv, RequestOK, Request, Points
  <2> QED BY <2>1, <2>2 DEF IInv, HandlesOK, TypeOK
<1> QED BY <1>1, Inductive, PTL

\* However often a client tries, whatever the panel answers and whenever the
\* server is locked in between, a channel acts for the user that was accepted.
THEOREM ActsForTheAccepted == Spec => []UserIsTheAcceptedOne
<1>1. IInv => UserIsTheAcceptedOne
  BY DEF IInv, LoginOK, UserIsTheAcceptedOne
<1> QED BY <1>1, Inductive, PTL

\* Every change that a request of SFTP, the shell or exec made, and that is to be
\* logged, is in the log, told, lost with a batch, or about to be logged.
THEOREM EveryChangeIsLogged == Spec => []ChangesAreLogged
<1>1. IInv => ChangesAreLogged
  BY DEF IInv
<1> QED BY <1>1, Inductive, PTL

\* An SFTP channel changes files at most once after the server was locked or its
\* user dropped, for any number of sessions and channels.
THEOREM OneLateEffect == Spec => []LockedOutSoon
<1>1. IInv => LockedOutSoon
  BY DEF IInv, LateOK, LockedOutSoon
<1> QED BY <1>1, Inductive, PTL

\* The activity log is a delivery at most once, for any length of the queue and of
\* a batch: the initial states of Ssh are initial states of Delivery, and each step
\* is one of its steps or leaves it alone.
THEOREM LogIsADelivery == Spec => ToldOnceOrLost
<1>1. Init => Log_!Init
  BY EmptyQueue DEF Init, ActivityInit, Queued, Log_!Init
<1>2. IInv /\ [Next]_vars => [Log_!Next]_Log_!vars
  BY LogKept DEF IInv
<1> QED BY <1>1, <1>2, Inductive, PTL DEF Spec, ToldOnceOrLost, Log_!Spec
=============================================================================
