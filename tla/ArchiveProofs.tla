----------------------------- MODULE ArchiveProofs -----------------------------
(***************************************************************************)
(* Proofs about Archive, for any archive, any number of threads, any       *)
(* blocks and any order of a ddup archive.                                 *)
(***************************************************************************)
EXTENDS Archive, WellFoundedInduction, TLAPS

At == {"join", "look", "fetch", "next", "create", "copy", "flush", "pool", "times", "done"}

Items == Entries \cup {-d : d \in Dirs}

ThreadType == [at : At, rest : Seq(Items)]

\* The types of what a mode works with.
Typed ==
  /\ mode \in {"extract", "create"} /\ type \in Types
  /\ type = "none" => \E i \in Wanted : i \notin Dirs
  /\ thread \in [Workers -> ThreadType]
  /\ index \in Nat \ {0} /\ spawned \subseteq Wanted \ Dirs
  /\ {error, aborted, cut} \subseteq BOOLEAN
  /\ result \in {"none", "ok", "err"}
  /\ written \subseteq Wanted /\ dated \subseteq Dirs
  /\ late \in [Workers -> Nat]

Created ==
  /\ source \in [Entries -> -1..2] /\ steady \subseteq Entries /\ changes \in Nat
  /\ current \in [at : {"stat", "open", "append", "finish", "done"}, i : 1..N + 1, size : Int]
  /\ appended \subseteq [i : Entries, size : Int, bytes : Int]
  /\ current.at \in {"stat", "open", "append"} => current.i \in Entries
  /\ current.at = "finish" => current.i = N + 1

(***************************************************************************)
(* The strengthening.                                                      *)
(*                                                                         *)
(* Placed: what a worker does goes with the type of the archive, and it has*)
(* an entry in hand from Header to Flush and none outside.                 *)
(*                                                                         *)
(* Joined: once the blocking task has joined its threads, or returned,     *)
(* nothing is left to them.                                                *)
(*                                                                         *)
(* Covered: while nothing has failed, every entry that is due is written,  *)
(* in the hands of a worker, or still to be fetched or taken; and a thread *)
(* that is done has left nothing to fetch.                                 *)
(*                                                                         *)
(* Left: a directory of a ddup archive has its time, or will be left.      *)
(*                                                                         *)
(* Heeded: what a worker has begun after the abort, and what it may yet.   *)
(***************************************************************************)
InHand == {"create", "copy", "flush"}

Places(w) ==
  CASE w = Main /\ type \in Pooled                -> {"join", "times", "done"}
    [] w = Main /\ type = "ddup"                  -> {"next", "create", "times", "done"}
    [] w = Main /\ type \in {"none", "tar", "rar"} -> {"next", "times", "done"} \cup InHand
    [] w # Main /\ type \in Pooled                -> {"look", "fetch", "next", "done"} \cup InHand
    [] w # Main /\ type = "ddup"                  -> {"pool", "copy", "flush"}
    [] OTHER                                      -> {"done"}

Placed(w) ==
  /\ thread[w].at \in Places(w)
  /\ thread[w].at \in InHand => thread[w].rest # <<>> /\ First(w) \in Wanted
  /\ thread[w].at \notin InHand \cup {"next"} => thread[w].rest = <<>>
  /\ thread[w].at \in {"copy", "flush"} => First(w) \notin Dirs
  /\ w # Main /\ type = "ddup" => Len(thread[w].rest) <= 1

Joined ==
  /\ type \in Pooled /\ thread[Main].at # "join" => Quiet
  /\ thread[Main].at = "done" => Quiet
  /\ type # "ddup" => spawned = {}
  /\ result # "none" => thread[Main].at = "done"

Work == IF type = "zip" THEN [i \in Entries |-> <<i>>] ELSE Blocks

Held(i)    == i \in spawned \/ \E w \in Workers : i \in Range(thread[w].rest)
Waiting(i) == type \in Pooled /\ \E k \in DOMAIN Work : k >= index /\ i \in Range(Work[k])

Covered ==
  ~error =>
    /\ ~cut => \A i \in Due : i \in written \/ Held(i) \/ Waiting(i)
    /\ \A w \in Threads : type \in Pooled /\ thread[w].at = "done" => index > Len(Work)

\* What is left to enter is left again, with the directories it is in.
LeftAgain(t) ==
  \A k \in DOMAIN t : t[k] > 0 =>
    \A d \in Above[t[k]] \cup ({t[k]} \cap Dirs) : \E m \in DOMAIN t : m > k /\ t[m] = -d

Left ==
  type = "ddup" =>
    /\ LeftAgain(thread[Main].rest)
    /\ ~error => \A d \in Dirs \cap written : d \in dated \/ -d \in Range(thread[Main].rest)

Fits(n) == \E b \in Range(Blocks) : n <= Len(b)

Heeded(w) ==
  /\ ~aborted => late[w] = 0
  /\ type # "7z" =>
       /\ late[w] <= 1
       /\ late[w] = 1 => thread[w].at # "create"
       /\ late[w] = 1 /\ type = "none" => thread[w].at \notin {"next", "flush"}
  /\ type = "7z" =>
       /\ late[w] = 0 \/ Fits(late[w])
       /\ thread[w].at = "create" => Fits(late[w] + Len(thread[w].rest))
       /\ thread[w].at \in {"copy", "flush"} => Fits(late[w] + Len(thread[w].rest) - 1)
       /\ thread[w].at = "next" => \/ thread[w].rest \in Range(Blocks) \cup {<<>>}
                                   \/ Fits(late[w] + Len(thread[w].rest))

Extracted ==
  /\ \A w \in Workers : Placed(w) /\ Heeded(w)
  /\ Joined /\ Covered /\ Left
  /\ SuccessIsComplete /\ TimesAreRestored

Has(i) == \E a \in appended : a.i = i /\ a.bytes = 1

Archived ==
  /\ EntriesAreFramed
  /\ \A i \in steady : source[i] = 1
  /\ ~cut => \A i \in steady \ Odd : i < current.i => Has(i)
  /\ current.at \in {"open", "append"} /\ current.i \in steady => current.size = 1
  /\ result = "ok" => current.i = N + 1

IInv ==
  /\ Typed /\ Created
  /\ mode = "extract" => Extracted /\ appended = {}
  /\ mode = "create" => Archived /\ \A w \in Workers : late[w] = 0


------------------------------------------------------------------------------
(* The directories above an entry. *)

\* A set of naturals that is not empty has a least member.
LEMMA Least ==
  ASSUME NEW S, S \subseteq Nat, S # {}
  PROVE  \E x \in S : \A y \in S : x =< y
<1> DEFINE Less == {ss \in Nat \X Nat : ss[1] < ss[2]}
<1>1. IsWellFoundedOn(Less, Nat)
  <2>1. OpToRel(<, Nat) = Less
    BY DEF OpToRel
  <2> QED BY <2>1, NatLessThanWellFounded, Zenon
<1>2. \A x, y \in Nat : ~(<<y, x>> \in Less) => x =< y
  OBVIOUS
<1> HIDE DEF Less
<1>3. PICK x \in S : \A y \in S : ~(<<y, x>> \in Less)
  BY <1>1, WFMin, Zenon
<1> QED BY <1>2, <1>3

LEMMA Parents ==
  /\ N \in Nat /\ Dirs \subseteq 1..N /\ Wanted \subseteq 1..N
  /\ \A i \in 1..N : Parent[i] \in Dirs \cup {0} /\ Parent[i] \in 0..i - 1
<1>1. N \in Nat /\ Dirs \subseteq 1..N /\ Parent \in [1..N -> Dirs \cup {0}] /\ \A i \in 1..N : Parent[i] < i
  BY ArchiveAssumption DEF Entries
<1>2. ASSUME NEW i \in 1..N
      PROVE  Parent[i] \in Dirs \cup {0} /\ Parent[i] \in 0..i - 1
  <2>1. Parent[i] \in Dirs \cup {0} /\ Parent[i] < i
    BY <1>1
  <2>2. Parent[i] \in Nat /\ i \in Nat
    <3>1. 1..N \subseteq Nat /\ 0 \in Nat
      OBVIOUS
    <3> QED BY <1>1, <2>1, <3>1, Zenon
  <2> QED BY <1>1, <2>1, <2>2
<1> QED BY <1>1, <1>2 DEF Wanted, Entries

\* The recursion of Above has a solution, since a directory comes before what is
\* in it.
LEMMA AboveSolution ==
  \E f \in [0..N -> SUBSET Dirs] :
    f = [i \in 0..N |-> IF i = 0 THEN {} ELSE ({Parent[i]} \ {0}) \cup f[Parent[i]]]
<1> DEFINE Value(f, i) == IF i = 0 THEN {} ELSE ({Parent[i]} \ {0}) \cup f[Parent[i]]
           Solves(f, n) == \A i \in 0..n : f[i] = Value(f, i)
           Fails_ == {n \in Nat : n <= N /\ ~\E f \in [0..n -> SUBSET Dirs] : Solves(f, n)}
<1>1. Fails_ = {}
  <2>1. SUFFICES ASSUME NEW n \in Fails_, \A m \in Fails_ : n =< m
                 PROVE  FALSE
    BY Least
  <2>2. n \in Nat /\ n <= N /\ ~\E f \in [0..n -> SUBSET Dirs] : Solves(f, n)
    OBVIOUS
  <2>3. CASE n = 0
    <3>1. [i \in 0..0 |-> {}] \in [0..0 -> SUBSET Dirs] /\ Solves([i \in 0..0 |-> {}], 0)
      OBVIOUS
    <3> QED BY <2>2, <2>3, <3>1
  <2>4. CASE n # 0
    <3>1. n - 1 \in Nat /\ n - 1 <= N /\ ~(n =< n - 1) /\ n \in 1..N /\ Parent[n] \in 0..n - 1
      BY <2>2, <2>4, Parents
    <3>2. n - 1 \notin Fails_
      BY <2>1, <3>1
    <3>3. PICK f \in [0..n - 1 -> SUBSET Dirs] : Solves(f, n - 1)
      BY <3>1, <3>2
    <3> DEFINE g == [i \in 0..n |-> IF i = n THEN Value(f, n) ELSE f[i]]
    <3>4. Value(f, n) \subseteq Dirs
      BY <2>4, <3>1, Parents
    <3>5. \A i \in 0..n : i = n \/ i \in 0..n - 1
      BY <2>2
    <3>6. g \in [0..n -> SUBSET Dirs]
      BY <3>4, <3>5
    <3>7. \A i \in 0..n - 1 : g[i] = f[i] /\ i \in 0..n /\ i # n
      BY <3>1
    <3>8. ASSUME NEW i \in 0..n
          PROVE  g[i] = Value(g, i)
      <4>1. CASE i = n
        <5>1. g[Parent[n]] = f[Parent[n]]
          BY <3>1, <3>7
        <5> QED BY <2>4, <4>1, <5>1
      <4>2. CASE i \in 0..n - 1 /\ i # 0
        <5>1. Parent[i] \in 0..n - 1
          <6>1. i \in 1..N /\ n \in Nat
            BY <2>2, <4>2, Parents
          <6>2. Parent[i] \in 0..i - 1
            BY <6>1, Parents
          <6> QED BY <4>2, <6>1, <6>2
        <5>2. g[i] = f[i] /\ g[Parent[i]] = f[Parent[i]] /\ f[i] = Value(f, i)
          BY <3>3, <3>7, <4>2, <5>1
        <5> HIDE DEF g
        <5> QED BY <4>2, <5>2
      <4>3. CASE i \in 0..n - 1 /\ i = 0
        BY <3>3, <3>7, <4>3
      <4> QED BY <3>5, <4>1, <4>2, <4>3
    <3> HIDE DEF g
    <3> QED BY <2>2, <3>6, <3>8
  <2> QED BY <2>3, <2>4
<1>2. PICK f \in [0..N -> SUBSET Dirs] : Solves(f, N)
  <2>1. N \notin Fails_
    <3> HIDE DEF Fails_
    <3> QED BY <1>1
  <2>2. N \in Nat /\ N <= N
    BY Parents
  <2> QED BY <2>1, <2>2
<1>3. f = [i \in 0..N |-> Value(f, i)]
  BY <1>2
<1> QED BY <1>3

LEMMA AboveValue ==
  \A i \in 0..N : Above[i] = IF i = 0 THEN {} ELSE ({Parent[i]} \ {0}) \cup Above[Parent[i]]
<1>1. Above = [i \in 0..N |-> IF i = 0 THEN {} ELSE ({Parent[i]} \ {0}) \cup Above[Parent[i]]]
  BY AboveSolution, Zenon DEF Above
<1> QED BY <1>1

\* The directories above an entry are directories, and those above them are too.
LEMMA AboveClosed ==
  ASSUME NEW i \in 1..N
  PROVE  /\ Above[i] \subseteq Dirs
         /\ Parent[i] \in Above[i] \cup {0}
         /\ \A d \in Above[i] : Parent[d] \in Above[i] \cup {0}
<1> DEFINE Closed(n) == /\ Above[n] \subseteq Dirs
                        /\ Parent[n] \in Above[n] \cup {0}
                        /\ \A d \in Above[n] : Parent[d] \in Above[n] \cup {0}
           Fails_ == {n \in Nat : n \in 1..N /\ ~Closed(n)}
<1>1. SUFFICES Fails_ = {}
  <2>1. i \in Nat
    BY Parents
  <2> QED BY <1>1, <2>1
<1>2. SUFFICES ASSUME NEW n \in Fails_, \A m \in Fails_ : n =< m
               PROVE  FALSE
  BY Least
<1>3. n \in 1..N /\ ~Closed(n) /\ Parent[n] \in Dirs \cup {0} /\ Parent[n] \in 0..n - 1
  BY Parents
<1>4. n \in 0..N /\ 0 \in 0..N /\ n # 0 /\ Above[0] = {}
  <2>1. N \in Nat
    BY Parents
  <2>2. n \in 0..N /\ 0 \in 0..N /\ n # 0
    BY <1>3, <2>1
  <2> QED BY <2>2, AboveValue
<1>5. Above[n] = ({Parent[n]} \ {0}) \cup Above[Parent[n]]
  BY <1>4, AboveValue
<1>6. CASE Parent[n] = 0
  BY <1>3, <1>4, <1>5, <1>6
<1>7. CASE Parent[n] # 0
  <2>1. Parent[n] \in 1..N /\ Parent[n] \in Nat /\ ~(n =< Parent[n])
    BY <1>3, <1>7, Parents
  <2>2. Closed(Parent[n])
    BY <1>2, <2>1
  <2> QED BY <1>3, <1>5, <1>7, <2>2
<1> QED BY <1>6, <1>7

\* In the order of a ddup archive what is entered is left again.
LEMMA TraversalLeft ==
  /\ Traversal \in Seq(Items) /\ Entries \subseteq Range(Traversal)
  /\ LeftAgain(Traversal)
<1> DEFINE t == Traversal
<1>1. /\ t \in Seq(Items) /\ Range(t) = Items
      /\ \A k, m \in DOMAIN t : t[k] = t[m] => k = m
      /\ \A d \in Dirs : Before(t, d, -d)
      /\ \A i \in Entries : \A d \in Above[i] : Before(t, IF i \in Dirs THEN -i ELSE i, -d)
  BY TraversalAssumption DEF IsTraversal, IsInjective, Items
<1>2. ASSUME NEW k \in DOMAIN t, t[k] > 0, NEW d \in Above[t[k]] \cup ({t[k]} \cap Dirs)
      PROVE  \E m \in DOMAIN t : m > k /\ t[m] = -d
  <2>1. t[k] \in Entries /\ DOMAIN t \subseteq Nat
    <3>1. t[k] \in Items /\ DOMAIN t \subseteq Nat
      BY <1>1
    <3>2. \A e \in Dirs : ~(-e > 0)
      BY Parents
    <3> QED BY <1>2, <3>1, <3>2 DEF Items
  <2>2. CASE t[k] \in Dirs /\ d = t[k]
    BY <1>1, <1>2, <2>1, <2>2 DEF Before
  <2>3. CASE t[k] \in Dirs /\ d \in Above[t[k]]
    <3>1. PICK l \in DOMAIN t : k < l /\ t[l] = -t[k]
      BY <1>1, <1>2, <2>1, <2>3 DEF Before
    <3>2. PICK m \in DOMAIN t : l < m /\ t[m] = -d
      BY <1>1, <2>1, <2>3, <3>1 DEF Before
    <3> QED BY <2>1, <3>1, <3>2
  <2>4. CASE t[k] \notin Dirs
    BY <1>1, <1>2, <2>1, <2>4 DEF Before
  <2> QED BY <1>2, <2>2, <2>3, <2>4
<1> QED BY <1>1, <1>2 DEF LeftAgain, Items

------------------------------------------------------------------------------
(* The steps of a worker. *)

\* The work that the threads of a pool share is a sequence of sequences of entries.
LEMMA WorkIsSeq ==
  /\ [i \in Entries |-> <<i>>] \in Seq(Seq(Items)) /\ Len([i \in Entries |-> <<i>>]) = N
  /\ Blocks \in Seq(Seq(Items)) /\ Blocks \in Seq(Seq(Entries \ Dirs))
  /\ Work \in Seq(Seq(Items))
<1>1. N \in Nat /\ Entries = 1..N /\ Entries \subseteq Items
  BY Parents DEF Entries, Items
<1>2. [i \in Entries |-> <<i>>] \in [1..N -> Seq(Items)]
  BY <1>1
<1>3. [i \in Entries |-> <<i>>] \in Seq(Seq(Items)) /\ Len([i \in Entries |-> <<i>>]) = N
  BY <1>1, <1>2
<1>4. Blocks \in Seq(Seq(Entries \ Dirs))
  BY ArchiveAssumption
<1>5. Seq(Entries \ Dirs) \subseteq Seq(Items)
  BY <1>1
<1>6. Blocks \in Seq(Seq(Items))
  BY <1>4, <1>5
<1> QED BY <1>3, <1>4, <1>6 DEF Work

\* What is due is in the archive, and neither absolute nor ignored.
LEMMA DueIsWanted ==
  ASSUME Typed
  PROVE  Due \subseteq Wanted
<1>1. CASE type = "7z"
  <2>1. \A b \in DOMAIN Blocks : Range(Blocks[b]) \subseteq Entries
    BY WorkIsSeq DEF Range
  <2>2. Due = (UNION {Range(Blocks[b]) : b \in DOMAIN Blocks}) \ Odd
    BY <1>1 DEF Due
  <2>3. ASSUME NEW i \in Due
        PROVE  i \in Wanted
    <3>1. PICK b \in DOMAIN Blocks : i \in Range(Blocks[b]) /\ i \notin Odd
      BY <2>2, <2>3
    <3> QED BY <2>1, <3>1 DEF Wanted
  <2> QED BY <2>3
<1>2. CASE type = "none"
  <2>1. (CHOOSE i \in Wanted : i \notin Dirs) \in Wanted
    BY <1>2 DEF Typed
  <2> QED BY <1>2, <2>1 DEF Due
<1>3. CASE type \notin {"7z", "none"}
  BY <1>3 DEF Due
<1> QED BY <1>1, <1>2, <1>3

\* The head and the rest of what a worker has still to do.
LEMMA RestParts ==
  ASSUME NEW s \in Seq(Items), s # <<>>
  PROVE  /\ Head(s) \in Items /\ Head(s) = s[1] /\ Tail(s) \in Seq(Items)
         /\ Len(s) \in Nat \ {0} /\ Len(Tail(s)) = Len(s) - 1
         /\ Range(s) = {Head(s)} \cup Range(Tail(s))
         /\ \A k \in DOMAIN Tail(s) : k + 1 \in DOMAIN s /\ Tail(s)[k] = s[k + 1]
<1>1. /\ Head(s) \in Items /\ Head(s) = s[1] /\ Tail(s) \in Seq(Items)
      /\ Len(s) \in Nat \ {0} /\ Len(Tail(s)) = Len(s) - 1
      /\ DOMAIN s = 1..Len(s) /\ DOMAIN Tail(s) = 1..Len(s) - 1
  OBVIOUS
<1>2. \A k \in 1..Len(s) - 1 : Tail(s)[k] = s[k + 1]
  OBVIOUS
<1>3. \A k \in 1..Len(s) : k = 1 \/ (k - 1 \in 1..Len(s) - 1 /\ s[k] = Tail(s)[k - 1])
  <2>1. ASSUME NEW k \in 1..Len(s), k # 1
        PROVE  k - 1 \in 1..Len(s) - 1 /\ s[k] = Tail(s)[k - 1]
    <3>1. k - 1 \in 1..Len(s) - 1 /\ (k - 1) + 1 = k
      BY <1>1, <2>1
    <3> QED BY <1>2, <3>1
  <2> QED BY <2>1
<1>4. Range(s) \subseteq {Head(s)} \cup Range(Tail(s))
  <2>1. SUFFICES ASSUME NEW k \in 1..Len(s)
                 PROVE  s[k] = Head(s) \/ s[k] \in Range(Tail(s))
    BY <1>1 DEF Range
  <2>2. CASE k = 1
    BY <1>1, <2>2
  <2>3. CASE k # 1
    BY <1>1, <1>3, <2>3 DEF Range
  <2> QED BY <2>2, <2>3
<1>5. {Head(s)} \cup Range(Tail(s)) \subseteq Range(s)
  <2>1. 1 \in 1..Len(s) /\ \A k \in 1..Len(s) - 1 : k + 1 \in 1..Len(s)
    BY <1>1
  <2> QED BY <1>1, <1>2, <2>1 DEF Range
<1> QED BY <1>1, <1>2, <1>4, <1>5

\* A worker goes on; the others stay where they are.
LEMMA WorkerMoves ==
  ASSUME Typed, NEW w \in Workers, NEW t \in ThreadType, To(w, t)
  PROVE  /\ thread' \in [Workers -> ThreadType] /\ thread'[w] = t
         /\ \A v \in Workers \ {w} : thread'[v] = thread[v]
BY DEF Typed, To

LEMMA ThreadParts ==
  ASSUME Typed, NEW w \in Workers
  PROVE  /\ thread[w] \in ThreadType /\ thread[w].at \in At /\ thread[w].rest \in Seq(Items)
         /\ \A at \in At : [thread[w] EXCEPT !.at = at] \in ThreadType
         /\ \A at \in At : [thread[w] EXCEPT !.at = at].at = at
         /\ \A at \in At : [thread[w] EXCEPT !.at = at].rest = thread[w].rest
BY DEF Typed, ThreadType

LEMMA ThreadMade ==
  ASSUME NEW at \in At, NEW s \in Seq(Items)
  PROVE  /\ Thread(at, s) \in ThreadType /\ Thread(at, s).at = at /\ Thread(at, s).rest = s
         /\ <<>> \in Seq(Items)
BY DEF Thread, ThreadType

LEMMA ThreadSet ==
  ASSUME NEW w, NEW at \in At, NEW s \in Seq(Items), To(w, Thread(at, s))
  PROVE  \E t \in ThreadType : To(w, t) /\ t.at = at /\ t.rest = s
<1> DEFINE t == Thread(at, s)
<1>1. t \in ThreadType /\ t.at = at /\ t.rest = s /\ To(w, t)
  BY ThreadMade
<1> HIDE DEF t
<1> QED BY <1>1

\* A worker that gives up has nothing in hand, and the error is known.
LEMMA FailMoves ==
  ASSUME Typed, NEW w \in Workers, Fail(w)
  PROVE  \E t \in ThreadType :
           /\ To(w, t) /\ t.rest = <<>> /\ error' = TRUE
           /\ t.at = IF w = Main THEN "times" ELSE IF type = "ddup" THEN "pool" ELSE "done"
<1> DEFINE at == IF w = Main THEN "times" ELSE IF type = "ddup" THEN "pool" ELSE "done"
<1>1. To(w, Thread(at, <<>>)) /\ error' = TRUE
  BY DEF Fail
<1>2. at \in At /\ <<>> \in Seq(Items)
  BY DEF At
<1> HIDE DEF at
<1>3. Thread(at, <<>>) \in ThreadType /\ Thread(at, <<>>).at = at /\ Thread(at, <<>>).rest = <<>>
  BY <1>2, ThreadMade
<1> QED BY <1>1, <1>3 DEF at

LEMMA PlacedStays ==
  ASSUME NEW v, Placed(v), thread'[v] = thread[v], type' = type
  PROVE  Placed(v)'
BY DEF Placed, Places, First

LEMMA HeededStays ==
  ASSUME NEW v, Heeded(v), thread'[v] = thread[v], late'[v] = late[v], UNCHANGED <<type, aborted>>
  PROVE  Heeded(v)'
BY DEF Heeded, Fits

\* What a step of worker w has to do for the entries that are due, unless it fails.
Passes(w, t) ==
  /\ cut' = cut /\ written \subseteq written' /\ index' >= index
  /\ \A i \in Due :
       i \in spawned \/ i \in Range(thread[w].rest) \/ Waiting(i) =>
         i \in written' \/ i \in spawned' \/ i \in Range(t.rest) \/ Waiting(i)'
  /\ w \in Threads /\ type \in Pooled /\ t.at = "done" => index' > Len(Work)

LEMMA CoveredStep ==
  ASSUME Typed, Typed', Covered, NEW w \in Workers, NEW t \in ThreadType, To(w, t), type' = type,
         \/ error' = TRUE
         \/ error' = error /\ Passes(w, t)
         \/ error' = error /\ cut' = TRUE /\ w = Main /\ index' = index
  PROVE  Covered'
<1>1. thread'[w] = t /\ \A v \in Workers \ {w} : thread'[v] = thread[v]
  BY WorkerMoves
<1>2. Due' = Due /\ Work' = Work
  BY DEF Due, Work
<1>3. SUFFICES ASSUME error' = FALSE
               PROVE  Covered'
  BY DEF Covered, Typed
<1>4. error = FALSE /\ (Passes(w, t) \/ (cut' = TRUE /\ w = Main /\ index' = index))
  BY <1>3
<1>5. Len(Work) \in Nat /\ index \in Nat /\ index' \in Nat
  BY WorkIsSeq DEF Typed
<1>6. ~cut' => \A i \in Due : (i \in written \/ Held(i) \/ Waiting(i))'
  <2>1. SUFFICES ASSUME ~cut', NEW i \in Due
                 PROVE  i \in written' \/ Held(i)' \/ Waiting(i)'
    BY <1>2
  <2>2. Passes(w, t) /\ ~cut
    BY <1>4, <2>1 DEF Passes
  <2>3. i \in written \/ Held(i) \/ Waiting(i)
    BY <1>4, <2>2 DEF Covered
  <2>4. CASE i \in written
    BY <2>2, <2>4 DEF Passes
  <2>5. ASSUME NEW v \in Workers \ {w}, i \in Range(thread[v].rest)
        PROVE  Held(i)'
    BY <1>1, <2>5 DEF Held
  <2>6. CASE i \in spawned \/ i \in Range(thread[w].rest) \/ Waiting(i)
    BY <1>1, <2>2, <2>6 DEF Passes, Held
  <2> QED BY <2>3, <2>4, <2>5, <2>6 DEF Held
<1>7. ASSUME NEW v \in Threads, type \in Pooled, thread'[v].at = "done"
      PROVE  index' > Len(Work)
  <2>1. v \in Workers
    BY DEF Workers
  <2>2. CASE w = Main /\ index' = index
    BY <1>1, <1>4, <1>7, <2>1, <2>2, ArchiveAssumption DEF Covered
  <2>3. CASE Passes(w, t) /\ v = w
    BY <1>1, <1>7, <2>3 DEF Passes
  <2>4. CASE Passes(w, t) /\ v # w
    <3>1. thread[v].at = "done"
      BY <1>1, <1>7, <2>1, <2>4
    <3>2. index > Len(Work)
      BY <1>4, <1>7, <3>1 DEF Covered
    <3> QED BY <1>5, <2>4, <3>2 DEF Passes
  <2> QED BY <1>4, <2>2, <2>3, <2>4
<1> QED BY <1>2, <1>6, <1>7 DEF Covered

\* While a worker has something to do, the task has not returned.
LEMMA NotReturned ==
  ASSUME Typed, Joined, NEW w \in Workers,
         thread[w].at \notin {"done", "pool"} \/ spawned # {}
  PROVE  /\ result = "none"
         /\ w \in Threads => thread[Main].at # "done" /\ (type \in Pooled => thread[Main].at = "join")
<1>1. CASE w = Main /\ thread[w].at # "done"
  BY <1>1, ArchiveAssumption DEF Joined
<1>2. CASE w \in Threads \/ spawned # {}
  <2>1. ~Quiet \/ w \notin Threads
    BY <1>2 DEF Quiet
  <2>2. ~Quiet \/ thread[w].at # "done"
    BY DEF Quiet
  <2> QED BY <1>2, <2>1, <2>2, ArchiveAssumption DEF Joined, Workers, Quiet
<1> QED BY <1>1, <1>2 DEF Workers

LEMMA WorkerStep ==
  ASSUME Typed, Typed', Extracted, mode = "extract", UNCHANGED <<fixed, aborted, result>>,
         NEW w \in Workers, NEW t \in ThreadType, To(w, t),
         thread[w].at \notin {"done", "pool"} \/ spawned # {},
         Placed(w)', Heeded(w)', \A v \in Workers \ {w} : late'[v] = late[v],
         Covered', Left', type # "ddup" => spawned' = {},
         w = Main => t.at # "done" /\ (type \in Pooled => Quiet)
  PROVE  Extracted'
<1>1. thread'[w] = t /\ \A v \in Workers \ {w} : thread'[v] = thread[v]
  BY WorkerMoves
<1>2. type' = type /\ mode' = mode /\ aborted' = aborted
  BY DEF fixed
<1>3. \A v \in Workers : Placed(v)' /\ Heeded(v)'
  BY <1>1, <1>2, PlacedStays, HeededStays DEF Extracted
<1>4. Joined
  BY DEF Extracted
<1>5. /\ result = "none"
      /\ w \in Threads => thread[Main].at # "done" /\ (type \in Pooled => thread[Main].at = "join")
  BY <1>4, NotReturned
<1>6. Main \in Workers /\ Threads \subseteq Workers /\ Main \notin Threads
  BY ArchiveAssumption DEF Workers
<1>7. thread'[Main].at # "done"
  BY <1>1, <1>5, <1>6 DEF Workers
<1>8. type \in Pooled /\ thread'[Main].at # "join" => Quiet'
  <2>1. CASE w = Main
    <3>1. \A v \in Threads : thread'[v] = thread[v]
      BY <1>1, <1>6, <2>1
    <3>2. type \in Pooled => type # "ddup"
      BY DEF Pooled
    <3> QED BY <2>1, <3>1, <3>2 DEF Quiet
  <2>2. CASE w \in Threads
    BY <1>1, <1>5, <1>6, <2>2
  <2> QED BY <2>1, <2>2 DEF Workers
<1>9. Joined'
  BY <1>2, <1>5, <1>7, <1>8 DEF Joined
<1>10. SuccessIsComplete' /\ TimesAreRestored'
  BY <1>5 DEF SuccessIsComplete, TimesAreRestored
<1> QED BY <1>3, <1>9, <1>10 DEF Extracted

\* What a worker may have begun after the abort when it has nothing in hand.
Counted(w) ==
  /\ ~aborted => late'[w] = 0
  /\ type # "7z" => late'[w] <= 1
  /\ type = "7z" => late'[w] = 0 \/ Fits(late'[w])

\* A worker gives up.
LEMMA FailStep ==
  ASSUME Typed, Typed', Extracted, mode = "extract", NEW w \in Workers, Fail(w),
         UNCHANGED <<fixed, aborted, result, spawned>>, thread[w].at \in InHand \cup {"next"},
         Counted(w), \A v \in Workers \ {w} : late'[v] = late[v]
  PROVE  Extracted'
<1>1. PICK t \in ThreadType :
        /\ To(w, t) /\ t.rest = <<>> /\ error' = TRUE
        /\ t.at = IF w = Main THEN "times" ELSE IF type = "ddup" THEN "pool" ELSE "done"
  BY FailMoves
<1>2. thread'[w] = t /\ \A v \in Workers \ {w} : thread'[v] = thread[v]
  BY <1>1, WorkerMoves
<1>3. type' = type /\ aborted' = aborted /\ type \in Types
  BY DEF fixed, Typed
<1>4. t.at \in Places(w)
  <2>1. thread[w].at \in Places(w)
    BY DEF Extracted, Placed
  <2> QED BY <1>1, <1>3, <2>1 DEF Places, Types, Pooled, Sequential
<1>5. Placed(w)'
  BY <1>1, <1>2, <1>3, <1>4 DEF Placed, Places, InHand
<1>6. Heeded(w)'
  BY <1>1, <1>2, <1>3 DEF Counted, Heeded, Fits
<1>7. Covered'
  BY <1>1 DEF Covered
<1>8. Left'
  <2>1. SUFFICES ASSUME type = "ddup"
                 PROVE  LeftAgain(thread[Main].rest)'
    BY <1>1, <1>3 DEF Left
  <2>2. LeftAgain(<<>>)
    BY DEF LeftAgain
  <2>3. LeftAgain(thread[Main].rest)
    BY <2>1 DEF Extracted, Left
  <2> QED BY <1>1, <1>2, <2>2, <2>3 DEF Workers, LeftAgain
<1>9. type # "ddup" => spawned' = {}
  BY DEF Extracted, Joined
<1>10. w = Main => t.at # "done" /\ (type \in Pooled => Quiet)
  BY <1>1 DEF Extracted, Joined, InHand
<1>11. thread[w].at \notin {"done", "pool"}
  BY DEF InHand
<1> QED BY <1>1, <1>5, <1>6, <1>7, <1>8, <1>9, <1>10, <1>11, WorkerStep

\* A worker gives up and leaves all else as it is.
LEMMA GivesUp ==
  ASSUME Typed, Extracted, mode = "extract", NEW w \in Workers, Fail(w),
         UNCHANGED <<fixed, aborted, result, index, spawned, written, dated, cut, late>>,
         thread[w].at \in InHand \cup {"next"}
  PROVE  Typed' /\ Extracted'
<1>1. Typed'
  <2>1. PICK t \in ThreadType : To(w, t) /\ error' = TRUE
    BY FailMoves
  <2>2. thread' \in [Workers -> ThreadType]
    BY <2>1, WorkerMoves
  <2> QED BY <2>1, <2>2 DEF Typed, fixed
<1>2. Heeded(w)
  BY DEF Extracted
<1>3. Counted(w)
  BY <1>2 DEF Counted, Heeded
<1> QED BY <1>1, <1>3, FailStep

\* The archive cannot be read.
LEMMA ReadFailsStep ==
  ASSUME Typed, Extracted, mode = "extract", NEW w \in Workers, ReadFails(w), UNCHANGED <<fixed, aborted>>
  PROVE  Typed' /\ Extracted'
BY GivesUp DEF ReadFails

\* What a worker has in hand or reads next.
LEMMA InHandParts ==
  ASSUME Typed, NEW w \in Workers, thread[w].rest # <<>>
  PROVE  /\ First(w) \in Items /\ First(w) = thread[w].rest[1] /\ Others(w) \in Seq(Items)
         /\ Range(thread[w].rest) = {First(w)} \cup Range(Others(w))
         /\ Len(thread[w].rest) \in Nat \ {0} /\ Len(Others(w)) = Len(thread[w].rest) - 1
         /\ First(w) > 0 => First(w) \in Entries
         /\ LeftAgain(thread[w].rest) => LeftAgain(Others(w))
<1> DEFINE s == thread[w].rest
<1>1. s \in Seq(Items)
  BY ThreadParts
<1>2. /\ Head(s) \in Items /\ Head(s) = s[1] /\ Tail(s) \in Seq(Items)
      /\ Len(s) \in Nat \ {0} /\ Len(Tail(s)) = Len(s) - 1
      /\ Range(s) = {Head(s)} \cup Range(Tail(s))
      /\ \A k \in DOMAIN Tail(s) : k + 1 \in DOMAIN s /\ Tail(s)[k] = s[k + 1]
  BY <1>1, RestParts
<1>3. First(w) > 0 => First(w) \in Entries
  <2>1. \A e \in Dirs : ~(-e > 0)
    BY Parents
  <2> QED BY <1>2, <2>1 DEF Items, First
<1>4. ASSUME LeftAgain(s)
      PROVE  LeftAgain(Tail(s))
  <2>1. SUFFICES ASSUME NEW k \in DOMAIN Tail(s), Tail(s)[k] > 0,
                        NEW d \in Above[Tail(s)[k]] \cup ({Tail(s)[k]} \cap Dirs)
                 PROVE  \E m \in DOMAIN Tail(s) : m > k /\ Tail(s)[m] = -d
    BY DEF LeftAgain
  <2>2. PICK m \in DOMAIN s : m > k + 1 /\ s[m] = -d
    BY <1>2, <1>4, <2>1 DEF LeftAgain
  <2>3. k \in Nat /\ m - 1 \in DOMAIN Tail(s) /\ m - 1 > k /\ Tail(s)[m - 1] = s[m]
    <3>1. /\ DOMAIN s = 1..Len(s) /\ DOMAIN Tail(s) = 1..Len(Tail(s))
          /\ k \in Nat /\ m \in Nat /\ Len(s) \in Nat /\ Len(Tail(s)) = Len(s) - 1
      BY <1>1, <1>2
    <3>2. m - 1 \in DOMAIN Tail(s) /\ m - 1 > k /\ (m - 1) + 1 = m
      <4> HIDE DEF s
      <4> QED BY <2>2, <3>1
    <3>3. Tail(s)[m - 1] = s[(m - 1) + 1]
      BY <1>2, <3>2
    <3> QED BY <3>1, <3>2, <3>3
  <2> QED BY <2>2, <2>3
<1> QED BY <1>2, <1>3, <1>4 DEF First, Others

\* The order of a ddup archive goes on, and the directories keep their times.
LEMMA LeftStays ==
  ASSUME Left, UNCHANGED <<type, written, dated>>, error' = error \/ error' = TRUE,
         \/ thread'[Main].rest = thread[Main].rest
         \/ /\ LeftAgain(thread'[Main].rest)
            /\ {-d : d \in Dirs} \cap Range(thread[Main].rest) \subseteq Range(thread'[Main].rest)
  PROVE  Left'
BY DEF Left, LeftAgain, Range

\* A worker reads an entry.
LEMMA HeaderStep ==
  ASSUME Typed, Extracted, mode = "extract", NEW w \in Workers, NEW fails \in BOOLEAN,
         Header(w, fails), UNCHANGED <<fixed, aborted>>,
         fails \/ First(w) \in Odd \/ ~aborted \/ type \in {"none", "7z"},
         type = "7z" /\ aborted => thread[w].rest \notin Range(Blocks)
  PROVE  Typed' /\ Extracted'
<1>1. /\ thread[w].at = "next" /\ thread[w].rest # <<>> /\ First(w) > 0
      /\ UNCHANGED <<index, spawned, written, dated, cut, late, result, type, mode, aborted>>
  BY DEF Header, fixed
<1>2. /\ First(w) \in Entries /\ Others(w) \in Seq(Items)
      /\ Range(thread[w].rest) = {First(w)} \cup Range(Others(w))
      /\ Len(thread[w].rest) \in Nat \ {0} /\ Len(Others(w)) = Len(thread[w].rest) - 1
      /\ LeftAgain(thread[w].rest) => LeftAgain(Others(w))
  BY <1>1, InHandParts
<1>3. Placed(w) /\ Heeded(w) /\ Joined /\ Covered /\ Left
  BY DEF Extracted
<1>4. late[w] \in Nat /\ Main \in Workers /\ Main \notin Threads
  BY ArchiveAssumption DEF Typed, Workers
<1>5. CASE Fail(w)
  BY <1>1, <1>5, GivesUp
<1>6. ASSUME NEW t \in ThreadType, To(w, t), error' = error,
             \/ First(w) \in Odd /\ t.at = "next" /\ t.rest = Others(w)
             \/ First(w) \notin Odd /\ ~fails /\ t.at = "create" /\ t.rest = thread[w].rest
      PROVE  Typed' /\ Extracted'
  <2>1. thread' \in [Workers -> ThreadType] /\ thread'[w] = t
    BY <1>6, WorkerMoves
  <2>2. Typed'
    BY <1>1, <1>6, <2>1 DEF Typed
  <2>3. Placed(w)'
    <3>1. t.at \in Places(w)
      BY <1>1, <1>3, <1>6 DEF Placed, Places, InHand
    <3>2. t.at = "create" => t.rest # <<>> /\ Head(t.rest) \in Wanted
      BY <1>1, <1>2, <1>6 DEF First, Wanted
    <3> QED BY <1>1, <1>6, <2>1, <3>1, <3>2 DEF Placed, Places, InHand, First
  <2>4. Heeded(w)'
    <3>1. CASE type # "7z"
      BY <1>1, <1>3, <1>4, <1>6, <2>1, <3>1 DEF Heeded
    <3>2. CASE type = "7z"
      <4>1. Fits(late[w] + Len(thread[w].rest))
        <5>1. CASE thread[w].rest \in Range(Blocks)
          <6>1. late[w] = 0
            BY <1>3, <3>2, <5>1 DEF Heeded
          <6> QED BY <1>2, <5>1, <6>1 DEF Fits
        <5>2. CASE thread[w].rest \notin Range(Blocks)
          BY <1>1, <1>3, <3>2, <5>2 DEF Heeded
        <5> QED BY <5>1, <5>2
      <4>2. Fits(late[w] + Len(Others(w)))
        <5>1. PICK b \in Range(Blocks) : late[w] + Len(thread[w].rest) <= Len(b)
          BY <4>1 DEF Fits
        <5>2. Len(b) \in Nat
          BY WorkIsSeq DEF Range
        <5>3. late[w] + Len(Others(w)) <= Len(b)
          BY <1>2, <1>4, <5>1, <5>2
        <5> QED BY <5>3 DEF Fits
      <4>3. ~aborted => late[w] = 0
        BY <1>3 DEF Heeded
      <4>4. late[w] = 0 \/ Fits(late[w])
        BY <1>3, <3>2 DEF Heeded
      <4> QED BY <1>1, <1>6, <2>1, <3>2, <4>1, <4>2, <4>3, <4>4 DEF Heeded, Fits
    <3> QED BY <3>1, <3>2
  <2>5. Passes(w, t)
    <3>1. index >= index
      BY DEF Typed
    <3>2. \A i \in Due : i \notin Odd
      BY DueIsWanted DEF Wanted
    <3>3. \A i : Waiting(i)' = Waiting(i)
      BY <1>1 DEF Waiting, Work
    <3> QED BY <1>1, <1>2, <1>6, <3>1, <3>2, <3>3 DEF Passes
  <2>6. Covered'
    BY <1>1, <1>3, <1>6, <2>2, <2>5, CoveredStep
  <2>7. Left'
    <3>1. CASE w = Main
      <4>1. {-d : d \in Dirs} \cap Range(thread[w].rest) \subseteq Range(Others(w))
        <5>1. \A d \in Dirs : -d # First(w)
          BY <1>1, Parents
        <5> QED BY <1>2, <5>1
      <4>2. CASE type = "ddup"
        <5>1. LeftAgain(thread[w].rest)
          BY <1>3, <3>1, <4>2 DEF Left
        <5> QED BY <1>1, <1>2, <1>3, <1>6, <2>1, <3>1, <4>1, <5>1, LeftStays
      <4>3. CASE type # "ddup"
        BY <1>1, <4>3 DEF Left
      <4> QED BY <4>2, <4>3
    <3>2. CASE w # Main
      <4>1. thread'[Main] = thread[Main]
        BY <1>4, <1>6, <3>2, WorkerMoves
      <4> QED BY <1>1, <1>3, <1>6, <4>1, LeftStays
    <3> QED BY <3>1, <3>2
  <2>8. type # "ddup" => spawned' = {}
    BY <1>1, <1>3 DEF Joined
  <2>9. w = Main => t.at # "done" /\ (type \in Pooled => Quiet)
    BY <1>1, <1>3, <1>6 DEF Joined
  <2> QED BY <1>1, <1>6, <2>2, <2>3, <2>4, <2>6, <2>7, <2>8, <2>9, WorkerStep
<1>7. CASE To(w, Thread("next", Others(w))) /\ First(w) \in Odd /\ UNCHANGED error
  <2>1. "next" \in At
    BY DEF At
  <2>2. /\ Thread("next", Others(w)) \in ThreadType /\ Thread("next", Others(w)).at = "next"
        /\ Thread("next", Others(w)).rest = Others(w)
    BY <1>2, <2>1, ThreadMade
  <2> QED BY <1>6, <1>7, <2>2
<1>8. CASE To(w, [thread[w] EXCEPT !.at = "create"]) /\ First(w) \notin Odd /\ ~fails /\ UNCHANGED error
  <2>1. "create" \in At
    BY DEF At
  <2>2. /\ [thread[w] EXCEPT !.at = "create"] \in ThreadType
        /\ [thread[w] EXCEPT !.at = "create"].at = "create"
        /\ [thread[w] EXCEPT !.at = "create"].rest = thread[w].rest
    BY <2>1, ThreadParts
  <2> QED BY <1>6, <1>8, <2>2
<1> QED BY <1>5, <1>7, <1>8 DEF Header

\* A worker goes on with what it has in hand and leaves all else as it is.
LEMMA GoesOn ==
  ASSUME Typed, Extracted, mode = "extract", NEW w \in Workers, NEW t \in ThreadType, To(w, t),
         UNCHANGED <<fixed, aborted, result, index, spawned, written, dated, cut, late, error>>,
         thread[w].at \notin {"done", "pool"}, t.rest = thread[w].rest,
         t.at = "done" => error /\ w # Main, w = Main /\ type \in Pooled => Quiet,
         Placed(w)', Heeded(w)'
  PROVE  Typed' /\ Extracted'
<1>1. thread' \in [Workers -> ThreadType] /\ thread'[w] = t /\ \A v \in Workers \ {w} : thread'[v] = thread[v]
  BY WorkerMoves
<1>2. Typed'
  BY <1>1 DEF Typed, fixed
<1>3. Joined /\ Covered /\ Left /\ type' = type
  BY DEF Extracted, fixed
<1>4. Covered'
  <2>1. CASE error
    <3>1. error' = TRUE
      BY <2>1 DEF Typed
    <3> QED BY <3>1 DEF Covered
  <2>2. CASE ~error
    <3>1. \A i : Waiting(i)' = Waiting(i)
      BY <1>3 DEF Waiting, Work
    <3>2. index >= index
      BY DEF Typed
    <3>3. Passes(w, t)
      BY <2>2, <3>1, <3>2 DEF Passes
    <3> QED BY <1>2, <1>3, <3>3, CoveredStep
  <2> QED BY <2>1, <2>2
<1>5. Left'
  <2>1. Main \in Workers
    BY DEF Workers
  <2>2. thread'[Main].rest = thread[Main].rest
    BY <1>1, <2>1
  <2> QED BY <1>3, <2>2, LeftStays
<1>6. type # "ddup" => spawned' = {}
  BY <1>3 DEF Joined
<1> QED BY <1>2, <1>4, <1>5, <1>6, WorkerStep

\* It has none left.
LEMMA ExhaustedStep ==
  ASSUME Typed, Extracted, mode = "extract", NEW w \in Workers, NEW at, Exhausted(w, at),
         UNCHANGED <<fixed, aborted>>,
         \/ w = Main /\ at = "times" /\ type \notin Pooled
         \/ w # Main /\ at = "look" /\ type \in Pooled
  PROVE  Typed' /\ Extracted'
<1>1. /\ thread[w].at = "next" /\ thread[w].rest = <<>> /\ To(w, Thread(at, <<>>)) /\ type' = type
      /\ UNCHANGED <<index, spawned, error, written, dated, cut, late, result>>
  BY DEF Exhausted, fixed
<1>2. Placed(w) /\ Heeded(w)
  BY DEF Extracted
<1> DEFINE t == Thread(at, <<>>)
<1>3. t \in ThreadType /\ t.at = at /\ t.rest = <<>>
  <2>1. at \in At /\ <<>> \in Seq(Items)
    BY DEF At
  <2> QED BY <2>1, ThreadMade
<1> HIDE DEF t
<1>4. To(w, t)
  BY <1>1 DEF t
<1>5. thread'[w] = t
  BY <1>3, <1>4, WorkerMoves
<1>6. Placed(w)'
  <2>1. at \in Places(w)
    BY <1>1, <1>2 DEF Placed, Places, Pooled
  <2>2. Len(<<>>) <= 1
    OBVIOUS
  <2> QED BY <1>1, <1>3, <1>5, <2>1, <2>2 DEF Placed, Places, InHand
<1>7. Heeded(w)'
  BY <1>1, <1>2, <1>3, <1>5 DEF Heeded, Fits
<1> QED BY <1>1, <1>3, <1>4, <1>6, <1>7, GoesOn

\* The entry has been read to its end.
LEMMA CopyStep ==
  ASSUME Typed, Extracted, mode = "extract", NEW w \in Workers, NEW allowed \in BOOLEAN, Copy(w, allowed),
         UNCHANGED <<fixed, aborted>>, type = "none" /\ allowed => ~aborted
  PROVE  Typed' /\ Extracted'
<1>1. /\ thread[w].at = "copy" /\ type' = type /\ aborted' = aborted
      /\ UNCHANGED <<index, spawned, written, dated, cut, late, result>>
  BY DEF Copy, fixed
<1>2. Placed(w) /\ Heeded(w) /\ Joined
  BY DEF Extracted
<1>3. CASE Fail(w)
  BY <1>1, <1>3, GivesUp DEF InHand
<1>4. CASE allowed /\ To(w, [thread[w] EXCEPT !.at = "flush"]) /\ UNCHANGED error
  <2>1. PICK t \in ThreadType : To(w, t) /\ t.at = "flush" /\ t.rest = thread[w].rest
    <3>1. "flush" \in At
      BY DEF At
    <3> QED BY <1>4, <3>1, ThreadParts
  <2>2. thread'[w] = t
    BY <2>1, WorkerMoves
  <2>3. Placed(w)'
    <3>1. "flush" \in Places(w)
      BY <1>1, <1>2 DEF Placed, Places, InHand
    <3> QED BY <1>1, <1>2, <2>1, <2>2, <3>1 DEF Placed, Places, InHand, First
  <2>4. Heeded(w)'
    BY <1>1, <1>2, <1>4, <2>1, <2>2 DEF Heeded, Fits
  <2>5. w = Main /\ type \in Pooled => Quiet
    BY <1>1, <1>2 DEF Joined
  <2> QED BY <1>1, <1>4, <2>1, <2>3, <2>4, <2>5, GoesOn
<1> QED BY <1>3, <1>4 DEF Copy

\* The threads have ended.
LEMMA JoinStep ==
  ASSUME Typed, Extracted, mode = "extract", Join, UNCHANGED <<fixed, aborted>>
  PROVE  Typed' /\ Extracted'
<1>1. /\ thread[Main].at = "join" /\ Quiet /\ To(Main, Thread("times", <<>>)) /\ type' = type
      /\ UNCHANGED <<index, spawned, error, written, dated, cut, late, result>>
  BY DEF Join, fixed
<1>2. Main \in Workers
  BY DEF Workers
<1>3. Placed(Main) /\ Heeded(Main)
  BY <1>2 DEF Extracted
<1>4. PICK t \in ThreadType : To(Main, t) /\ t.at = "times" /\ t.rest = <<>>
  <2>1. "times" \in At /\ <<>> \in Seq(Items)
    BY DEF At
  <2> QED BY <1>1, <2>1, ThreadMade
<1>5. thread'[Main] = t /\ thread[Main].rest = <<>>
  BY <1>1, <1>2, <1>3, <1>4, WorkerMoves DEF Placed, InHand
<1>6. Placed(Main)'
  <2>1. "times" \in Places(Main)
    BY <1>1, <1>3 DEF Placed, Places, InHand
  <2> QED BY <1>1, <1>4, <1>5, <2>1 DEF Placed, Places, InHand
<1>7. Heeded(Main)'
  BY <1>1, <1>3, <1>4, <1>5 DEF Heeded, Fits
<1> QED BY <1>1, <1>2, <1>4, <1>5, <1>6, <1>7, GoesOn

\* A thread looks at the error.
LEMMA LookStep ==
  ASSUME Typed, Extracted, mode = "extract", NEW w \in Threads, Look(w), UNCHANGED <<fixed, aborted>>,
         type \in Pooled
  PROVE  Typed' /\ Extracted'
<1>1. /\ thread[w].at = "look" /\ To(w, Thread(IF error THEN "done" ELSE "fetch", <<>>)) /\ type' = type
      /\ UNCHANGED <<index, spawned, error, written, dated, cut, late, result>>
  BY DEF Look, fixed
<1>2. w \in Workers /\ w # Main
  BY ArchiveAssumption DEF Workers
<1>3. Placed(w) /\ Heeded(w)
  BY <1>2 DEF Extracted
<1>4. PICK t \in ThreadType : To(w, t) /\ t.at = (IF error THEN "done" ELSE "fetch") /\ t.rest = <<>>
  <2>1. (IF error THEN "done" ELSE "fetch") \in At /\ <<>> \in Seq(Items)
    BY DEF At
  <2> QED BY <1>1, <2>1, ThreadMade
<1>5. thread'[w] = t /\ thread[w].rest = <<>>
  BY <1>1, <1>2, <1>3, <1>4, WorkerMoves DEF Placed, InHand
<1>6. Placed(w)'
  <2>1. t.at \in Places(w)
    BY <1>2, <1>4 DEF Places, Pooled
  <2>2. type # "ddup"
    BY DEF Pooled
  <2> QED BY <1>1, <1>4, <1>5, <2>1, <2>2 DEF Placed, Places, InHand
<1>7. Heeded(w)'
  BY <1>1, <1>3, <1>4, <1>5 DEF Heeded, Fits
<1> QED BY <1>1, <1>2, <1>4, <1>5, <1>6, <1>7, GoesOn

\* A thread of the pool takes the next entry or block.
LEMMA FetchStep ==
  ASSUME Typed, Extracted, mode = "extract", NEW w \in Threads, Fetch(w, Work), UNCHANGED <<fixed, aborted>>,
         type \in Pooled
  PROVE  Typed' /\ Extracted'
<1>1. /\ thread[w].at = "fetch" /\ index' = index + 1 /\ type' = type /\ aborted' = aborted
      /\ To(w, IF index > Len(Work) THEN Thread("done", <<>>) ELSE Thread("next", Work[index]))
      /\ UNCHANGED <<spawned, error, written, dated, cut, late, result>>
  BY DEF Fetch, fixed
<1>2. w \in Workers /\ w # Main /\ type # "ddup" /\ type # "none"
  BY ArchiveAssumption DEF Workers, Pooled
<1>3. Placed(w) /\ Heeded(w) /\ Joined /\ Covered /\ Left
  BY <1>2 DEF Extracted
<1>4. Work \in Seq(Seq(Items)) /\ index \in Nat \ {0} /\ Len(Work) \in Nat
  BY WorkIsSeq DEF Typed
<1>5. PICK t \in ThreadType :
        /\ To(w, t)
        /\ \/ index > Len(Work) /\ t.at = "done" /\ t.rest = <<>>
           \/ index \in DOMAIN Work /\ t.at = "next" /\ t.rest = Work[index]
  <2>1. CASE index > Len(Work)
    <3>1. "done" \in At /\ <<>> \in Seq(Items)
      BY DEF At
    <3> DEFINE t == Thread("done", <<>>)
    <3>2. t \in ThreadType /\ t.at = "done" /\ t.rest = <<>>
      BY <3>1, ThreadMade
    <3>3. To(w, t)
      BY <1>1, <2>1
    <3> HIDE DEF t
    <3> QED BY <2>1, <3>2, <3>3
  <2>2. CASE ~(index > Len(Work))
    <3>1. "next" \in At /\ index \in DOMAIN Work
      BY <1>4, <2>2 DEF At
    <3>2. Work[index] \in Seq(Items)
      BY <1>4, <3>1
    <3> DEFINE t == Thread("next", Work[index])
    <3>3. t \in ThreadType /\ t.at = "next" /\ t.rest = Work[index]
      BY <3>1, <3>2, ThreadMade
    <3>4. To(w, t)
      BY <1>1, <2>2
    <3> HIDE DEF t
    <3> QED BY <3>1, <3>3, <3>4
  <2> QED BY <2>1, <2>2
<1>6. thread' \in [Workers -> ThreadType] /\ thread'[w] = t
  BY <1>2, <1>5, WorkerMoves
<1>7. Typed'
  <2>1. index' \in Nat \ {0}
    BY <1>1, <1>4
  <2> QED BY <1>1, <1>6, <2>1 DEF Typed, fixed
<1>8. Placed(w)'
  <2>1. t.at \in Places(w)
    BY <1>2, <1>5 DEF Places, Pooled
  <2> QED BY <1>1, <1>2, <1>5, <1>6, <2>1 DEF Placed, Places, InHand
<1>9. Heeded(w)'
  <2>1. type = "7z" /\ t.at = "next" => t.rest \in Range(Blocks)
    BY <1>4, <1>5 DEF Work, Range
  <2> QED BY <1>1, <1>2, <1>3, <1>5, <1>6, <2>1 DEF Heeded, Fits
<1>10. Passes(w, t)
  <2>1. thread[w].rest = <<>> /\ Range(<<>>) = {}
    BY <1>1, <1>3 DEF Placed, InHand, Range
  <2>2. index' >= index
    BY <1>1, <1>4
  <2>3. ASSUME NEW i, Waiting(i)
        PROVE  i \in Range(t.rest) \/ Waiting(i)'
    <3>1. PICK k \in DOMAIN Work : k >= index /\ i \in Range(Work[k])
      BY <2>3 DEF Waiting
    <3>2. k \in Nat /\ k <= Len(Work)
      BY <1>4
    <3>3. ~(index > Len(Work))
      BY <1>4, <3>1, <3>2
    <3>4. CASE k = index
      BY <1>5, <3>1, <3>3, <3>4
    <3>5. CASE k # index
      <4>1. k >= index'
        BY <1>1, <1>4, <3>1, <3>2, <3>5
      <4>2. Work' = Work
        BY <1>1 DEF Work
      <4> QED BY <1>1, <3>1, <4>1, <4>2 DEF Waiting
    <3> QED BY <3>4, <3>5
  <2>4. t.at = "done" => index' > Len(Work)
    BY <1>1, <1>4, <1>5
  <2> QED BY <1>1, <2>1, <2>2, <2>3, <2>4 DEF Passes
<1>11. Covered'
  BY <1>1, <1>2, <1>3, <1>5, <1>7, <1>10, CoveredStep
<1>12. Left' /\ spawned' = {}
  BY <1>1, <1>2, <1>3 DEF Left, Joined
<1> QED BY <1>1, <1>2, <1>5, <1>7, <1>8, <1>9, <1>11, <1>12, WorkerStep

\* An entry is on the disk, complete.
LEMMA FlushStep ==
  ASSUME Typed, Extracted, mode = "extract", NEW w \in Workers, NEW next, Flush(w, next),
         UNCHANGED <<fixed, aborted>>,
         next = IF w # Main /\ type = "ddup" THEN "pool" ELSE "next"
  PROVE  Typed' /\ Extracted'
<1>1. /\ thread[w].at = "flush" /\ type' = type /\ aborted' = aborted /\ type \in Types
      /\ UNCHANGED <<index, spawned, dated, cut, late, result>>
  BY DEF Flush, fixed, Typed
<1>2. Placed(w) /\ Heeded(w) /\ Joined /\ Covered /\ Left
  BY DEF Extracted
<1>3. thread[w].rest # <<>> /\ First(w) \in Wanted /\ First(w) \notin Dirs
  BY <1>1, <1>2 DEF Placed, InHand
<1>4. CASE Fail(w) /\ UNCHANGED written
  BY <1>1, <1>4, GivesUp DEF InHand
<1>5. CASE To(w, Thread(next, Others(w))) /\ written' = written \cup {First(w)} /\ UNCHANGED error
  <2>1. /\ Others(w) \in Seq(Items) /\ Range(thread[w].rest) = {First(w)} \cup Range(Others(w))
        /\ Len(thread[w].rest) \in Nat \ {0} /\ Len(Others(w)) = Len(thread[w].rest) - 1
    BY <1>3, InHandParts
  <2>2. PICK t \in ThreadType : To(w, t) /\ t.at = next /\ t.rest = Others(w)
    <3>1. next \in At
      BY DEF At
    <3> DEFINE t == Thread(next, Others(w))
    <3>2. t \in ThreadType /\ t.at = next /\ t.rest = Others(w) /\ To(w, t)
      BY <1>5, <2>1, <3>1, ThreadMade
    <3> HIDE DEF t
    <3> QED BY <3>2
  <2>3. thread' \in [Workers -> ThreadType] /\ thread'[w] = t /\ \A v \in Workers \ {w} : thread'[v] = thread[v]
    BY <2>2, WorkerMoves
  <2>4. Typed'
    BY <1>1, <1>3, <1>5, <2>3 DEF Typed, fixed
  <2>5. Placed(w)'
    <3>1. next \in Places(w)
      BY <1>1, <1>2 DEF Placed, Places, InHand, Types, Pooled, Sequential
    <3>2. w # Main /\ type = "ddup" => Others(w) = <<>>
      <4>1. ASSUME w # Main, type = "ddup"
            PROVE  Others(w) = <<>>
        <5>1. Len(thread[w].rest) <= 1
          BY <1>2, <4>1 DEF Placed
        <5>2. \A n \in Nat \ {0} : n <= 1 => n - 1 = 0
          OBVIOUS
        <5>3. Len(Others(w)) = 0
          BY <2>1, <5>1, <5>2, Zenon
        <5> QED BY <2>1, <5>3
      <4> QED BY <4>1
    <3>3. Len(<<>>) <= 1
      OBVIOUS
    <3> QED BY <1>1, <2>2, <2>3, <3>1, <3>2, <3>3 DEF Placed, Places, InHand
  <2>6. Heeded(w)'
    <3>1. type = "7z" => Fits(late[w] + Len(Others(w)))
      <4>1. late[w] \in Nat /\ late[w] + Len(thread[w].rest) - 1 = late[w] + Len(Others(w))
        BY <2>1 DEF Typed
      <4> QED BY <1>1, <1>2, <4>1 DEF Heeded
    <3> QED BY <1>1, <1>2, <2>2, <2>3, <3>1 DEF Heeded, Fits
  <2>7. Passes(w, t)
    <3>1. \A i : Waiting(i)' = Waiting(i)
      BY <1>1 DEF Waiting, Work
    <3>2. index >= index /\ t.at # "done"
      BY <2>2 DEF Typed
    <3> QED BY <1>1, <1>5, <2>1, <2>2, <3>1, <3>2 DEF Passes
  <2>8. Covered'
    BY <1>1, <1>2, <1>5, <2>2, <2>4, <2>7, CoveredStep
  <2>9. Left'
    <3>1. SUFFICES ASSUME type = "ddup"
                   PROVE  Left'
      BY <1>1 DEF Left
    <3>2. w # Main /\ Main \in Workers
      BY <1>1, <1>2, <3>1 DEF Placed, Places, Pooled, Workers
    <3>3. thread'[Main] = thread[Main] /\ Dirs \cap written' = Dirs \cap written
      BY <1>3, <1>5, <2>3, <3>2
    <3> QED BY <1>1, <1>2, <1>5, <3>3 DEF Left, LeftAgain
  <2>10. type # "ddup" => spawned' = {}
    BY <1>1, <1>2 DEF Joined
  <2>11. w = Main => t.at # "done" /\ (type \in Pooled => Quiet)
    BY <1>1, <1>2, <2>2 DEF Joined
  <2> QED BY <1>1, <2>2, <2>4, <2>5, <2>6, <2>8, <2>9, <2>10, <2>11, WorkerStep
<1> QED BY <1>4, <1>5 DEF Flush

\* The loop of tar ends early.
LEMMA TarEndsStep ==
  ASSUME Typed, Extracted, mode = "extract", TarEnds, UNCHANGED <<fixed, aborted>>, type = "tar"
  PROVE  Typed' /\ Extracted'
<1>1. /\ thread[Main].at = "next" /\ cut' = TRUE /\ To(Main, Thread("times", <<>>)) /\ type' = type
      /\ aborted' = aborted /\ UNCHANGED <<index, spawned, error, written, dated, late, result>>
  BY DEF TarEnds, fixed
<1>2. Main \in Workers
  BY DEF Workers
<1>3. Placed(Main) /\ Heeded(Main) /\ Joined /\ Covered
  BY <1>2 DEF Extracted
<1>4. PICK t \in ThreadType : To(Main, t) /\ t.at = "times" /\ t.rest = <<>>
  <2>1. "times" \in At /\ <<>> \in Seq(Items)
    BY DEF At
  <2> QED BY <1>1, <2>1, ThreadMade
<1>5. thread' \in [Workers -> ThreadType] /\ thread'[Main] = t
  BY <1>2, <1>4, WorkerMoves
<1>6. Typed'
  BY <1>1, <1>5 DEF Typed, fixed
<1>7. Placed(Main)'
  BY <1>1, <1>4, <1>5 DEF Placed, Places, InHand, Pooled
<1>8. Heeded(Main)'
  BY <1>1, <1>3, <1>4, <1>5 DEF Heeded, Fits
<1>9. Covered'
  BY <1>1, <1>2, <1>3, <1>4, <1>6, CoveredStep
<1>10. Left' /\ spawned' = {} /\ type \notin Pooled
  BY <1>1, <1>3 DEF Left, Joined, Pooled
<1> QED BY <1>1, <1>2, <1>4, <1>6, <1>7, <1>8, <1>9, <1>10, WorkerStep

------------------------------------------------------------------------------
(* The steps that make directories and files. *)

LEMMA FitsLess ==
  ASSUME NEW n \in Int, NEW m \in Int, Fits(n), m <= n
  PROVE  Fits(m)
<1>1. PICK b \in Range(Blocks) : n <= Len(b)
  BY DEF Fits
<1>2. Len(b) \in Nat
  BY WorkIsSeq DEF Range
<1>3. m <= Len(b)
  BY <1>1, <1>2
<1> QED BY <1>3 DEF Fits

\* What Make does to the directories and to the count of entries.
LEMMA MakeParts ==
  ASSUME Typed, NEW w \in Workers, Placed(w), Heeded(w), thread[w].at = "create",
         NEW made \in SUBSET Dirs, Make(w, made)
  PROVE  /\ written \subseteq written' /\ written' = written \cup made /\ written' \subseteq Wanted
         /\ dated' \subseteq Dirs /\ late' \in [Workers -> Nat]
         /\ \A d \in dated : d \in dated' \/ \E j \in made \cup {First(w)} : d = Parent[j]
         /\ \A v \in Workers \ {w} : late'[v] = late[v]
         /\ late'[w] \in Nat /\ late'[w] <= late[w] + 1 /\ Counted(w)
<1>1. /\ late' = [late EXCEPT ![w] = @ + (IF aborted THEN 1 ELSE 0)]
      /\ dated' = dated \ {Parent[j] : j \in (made \cup {First(w)}) \ written}
      /\ written' = written \cup made
  BY DEF Make
<1>2. Dirs \subseteq Wanted /\ written \subseteq Wanted /\ dated \subseteq Dirs /\ late \in [Workers -> Nat]
  BY ArchiveAssumption DEF Typed, Wanted
<1>3. /\ late'[w] = late[w] + (IF aborted THEN 1 ELSE 0) /\ late' \in [Workers -> Nat]
      /\ \A v \in Workers \ {w} : late'[v] = late[v]
  BY <1>1, <1>2
<1>4. late[w] \in Nat /\ late'[w] \in Nat /\ late'[w] <= late[w] + 1 /\ (~aborted => late'[w] = late[w])
  BY <1>2, <1>3
<1>5. Counted(w)
  <2>1. ~aborted => late'[w] = 0
    BY <1>4 DEF Heeded
  <2>2. type # "7z" => late'[w] <= 1
    <3>1. type # "7z" => late[w] <= 1 /\ late[w] # 1
      BY DEF Heeded
    <3> QED BY <1>4, <3>1
  <2>3. type = "7z" => Fits(late'[w])
    <3>1. SUFFICES ASSUME type = "7z"
                   PROVE  Fits(late'[w])
      OBVIOUS
    <3>2. Fits(late[w] + Len(thread[w].rest))
      BY <3>1 DEF Heeded
    <3>3. thread[w].rest # <<>>
      BY DEF Placed, InHand
    <3>4. Len(thread[w].rest) \in Nat \ {0}
      BY <3>3, InHandParts
    <3>5. /\ late[w] + Len(thread[w].rest) \in Int /\ late'[w] \in Int
          /\ late'[w] <= late[w] + Len(thread[w].rest)
      BY <1>4, <3>4
    <3> QED BY <3>2, <3>5, FitsLess
  <2> QED BY <2>1, <2>2, <2>3 DEF Counted
<1>6. \A d \in dated : d \in dated' \/ \E j \in made \cup {First(w)} : d = Parent[j]
  BY <1>1
<1> QED BY <1>1, <1>2, <1>3, <1>4, <1>5, <1>6

\* In the order of a ddup archive, a directory that is made or loses its time
\* will be left.
LEMMA LeftMade ==
  ASSUME Typed, Left, type = "ddup", type' = type, thread[Main].rest # <<>>, First(Main) > 0,
         thread'[Main].rest = Others(Main), error' = error,
         NEW made \in SUBSET (Above[First(Main)] \cup {First(Main)}), written' = written \cup made,
         \A d \in dated : d \in dated' \/ \E j \in made \cup {First(Main)} : d = Parent[j],
         dated \subseteq Dirs
  PROVE  Left'
<1> DEFINE s == thread[Main].rest
           o == Others(Main)
           f == First(Main)
<1>1. Main \in Workers
  BY DEF Workers
<1>2. /\ s \in Seq(Items) /\ f \in Entries /\ f = s[1] /\ Range(s) = {f} \cup Range(o) /\ o \in Seq(Items)
      /\ Len(s) \in Nat \ {0} /\ (LeftAgain(s) => LeftAgain(o))
  BY <1>1, InHandParts, ThreadParts
<1>3. LeftAgain(s) /\ (~error => \A d \in Dirs \cap written : d \in dated \/ -d \in Range(s))
  BY DEF Left
<1>4. f \in 1..N /\ Dirs \subseteq 1..N /\ N \in Nat
  BY <1>2, Parents DEF Entries
<1>5. /\ Above[f] \subseteq Dirs /\ Parent[f] \in Above[f] \cup {0}
      /\ \A d \in Above[f] : Parent[d] \in Above[f] \cup {0}
  BY <1>4, AboveClosed
<1>6. \A d \in Dirs : -d # f /\ d # 0
  <2> HIDE DEF f
  <2> QED BY <1>4
<1>7. ASSUME NEW d \in Above[f] \cup ({f} \cap Dirs)
      PROVE  -d \in Range(o)
  <2>1. 1 \in DOMAIN s /\ DOMAIN s = 1..Len(s)
    BY <1>2
  <2>2. PICK m \in DOMAIN s : m > 1 /\ s[m] = -d
    BY <1>2, <1>3, <1>7, <2>1 DEF LeftAgain
  <2>3. -d \in Range(s)
    BY <2>2 DEF Range
  <2> QED BY <1>2, <1>5, <1>6, <1>7, <2>3
<1>8. ASSUME ~error, NEW d \in Dirs \cap written'
      PROVE  d \in dated' \/ -d \in Range(o)
  <2>1. CASE d \in made
    BY <1>7, <1>8, <2>1
  <2>2. CASE d \in written /\ -d \in Range(s)
    BY <1>2, <1>6, <2>2
  <2>3. CASE d \in dated
    <3>1. CASE \E j \in made \cup {f} : d = Parent[j]
      <4>1. PICK j \in Above[f] \cup {f} : d = Parent[j]
        BY <3>1
      <4>2. d \in Above[f]
        BY <1>5, <1>6, <1>8, <4>1
      <4> QED BY <1>7, <4>2
    <3> QED BY <2>3, <3>1
  <2> QED BY <1>3, <1>8, <2>1, <2>2, <2>3
<1>9. LeftAgain(o)
  BY <1>2, <1>3
<1> QED BY <1>8, <1>9 DEF Left, LeftAgain, Range

\* What a directory or a file needs before it goes on: the common part.
LEMMA MakeFails ==
  ASSUME Typed, Extracted, mode = "extract", NEW w \in Workers, thread[w].at = "create",
         NEW made \in SUBSET Dirs, Make(w, made), Fail(w), UNCHANGED <<fixed, aborted, index, spawned, cut, result>>
  PROVE  Typed' /\ Extracted'
<1>1. Placed(w) /\ Heeded(w)
  BY DEF Extracted
<1>2. /\ written' \subseteq Wanted /\ dated' \subseteq Dirs /\ late' \in [Workers -> Nat]
      /\ \A v \in Workers \ {w} : late'[v] = late[v]
      /\ Counted(w)
  BY <1>1, MakeParts
<1>3. Typed'
  <2>1. PICK t \in ThreadType : To(w, t) /\ error' = TRUE
    BY FailMoves
  <2>2. thread' \in [Workers -> ThreadType]
    BY <2>1, WorkerMoves
  <2> QED BY <1>2, <2>1, <2>2 DEF Typed, fixed
<1> QED BY <1>2, <1>3, FailStep DEF InHand

\* A directory is made, with those it is in.
LEMMA DirectoryStep ==
  ASSUME Typed, Extracted, mode = "extract", NEW w \in Workers, Directory(w), UNCHANGED <<fixed, aborted>>,
         type \in {"tar", "zip", "rar", "ddup"}
  PROVE  Typed' /\ Extracted'
<1> DEFINE f == First(w)
           made == Above[f] \cup {f}
<1>1. /\ thread[w].at = "create" /\ f \in Dirs /\ Make(w, made) /\ type' = type /\ mode' = mode
      /\ UNCHANGED <<index, spawned, cut, result, aborted>>
  BY DEF Directory, fixed
<1>2. Placed(w) /\ Heeded(w) /\ Joined /\ Covered /\ Left /\ type \in Types
  BY DEF Extracted, Typed
<1>3. thread[w].rest # <<>>
  BY <1>1, <1>2 DEF Placed, InHand
<1>4. /\ Others(w) \in Seq(Items) /\ Range(thread[w].rest) = {f} \cup Range(Others(w))
      /\ Len(Others(w)) = Len(thread[w].rest) - 1
  BY <1>3, InHandParts
<1>5. f \in 1..N /\ f > 0
  <2>1. f \in 1..N
    BY <1>1, Parents
  <2> HIDE DEF f
  <2> QED BY <2>1, Parents
<1>6. made \in SUBSET Dirs
  BY <1>1, <1>5, AboveClosed
<1> HIDE DEF made
<1>7. /\ written \subseteq written' /\ written' = written \cup made /\ written' \subseteq Wanted
      /\ dated' \subseteq Dirs /\ late' \in [Workers -> Nat]
      /\ \A d \in dated : d \in dated' \/ \E j \in made \cup {f} : d = Parent[j]
      /\ \A v \in Workers \ {w} : late'[v] = late[v]
      /\ Counted(w)
  BY <1>1, <1>2, <1>6, MakeParts
<1>8. CASE Fail(w)
  BY <1>1, <1>6, <1>8, MakeFails
<1>9. CASE To(w, Thread("next", Others(w))) /\ UNCHANGED error
  <2>1. PICK t \in ThreadType : To(w, t) /\ t.at = "next" /\ t.rest = Others(w)
    <3>1. "next" \in At
      BY DEF At
    <3> QED BY <1>4, <1>9, <3>1, ThreadSet
  <2>2. thread' \in [Workers -> ThreadType] /\ thread'[w] = t /\ \A v \in Workers \ {w} : thread'[v] = thread[v]
    BY <2>1, WorkerMoves
  <2>3. Typed'
    BY <1>1, <1>7, <1>9, <2>2 DEF Typed, fixed
  <2>4. Placed(w)'
    <3>1. "next" \in Places(w) /\ (type = "ddup" => w = Main)
      BY <1>1, <1>2 DEF Placed, Places, InHand, Types, Pooled, Sequential
    <3> QED BY <1>1, <2>1, <2>2, <3>1 DEF Placed, Places, InHand
  <2>5. Heeded(w)'
    BY <1>1, <1>7, <2>1, <2>2 DEF Heeded, Counted
  <2>6. Passes(w, t)
    <3>1. \A i : Waiting(i)' = Waiting(i)
      BY <1>1 DEF Waiting, Work
    <3>2. index >= index /\ t.at # "done" /\ f \in written'
      BY <1>7, <2>1 DEF Typed, made
    <3> QED BY <1>1, <1>4, <1>7, <2>1, <3>1, <3>2 DEF Passes
  <2>7. Covered'
    BY <1>1, <1>2, <1>9, <2>1, <2>3, <2>6, CoveredStep
  <2>8. Left'
    <3>1. SUFFICES ASSUME type = "ddup"
                   PROVE  Left'
      BY <1>1 DEF Left
    <3>2. w = Main
      BY <1>1, <1>2, <3>1 DEF Placed, Places, InHand, Pooled
    <3>3. made \in SUBSET (Above[First(Main)] \cup {First(Main)})
      BY <3>2 DEF made
    <3>4. thread'[Main].rest = Others(Main) /\ dated \subseteq Dirs
      BY <2>1, <2>2, <3>2 DEF Typed
    <3> QED BY <1>1, <1>2, <1>3, <1>5, <1>7, <1>9, <3>1, <3>2, <3>3, <3>4, LeftMade
  <2>9. type # "ddup" => spawned' = {}
    BY <1>1, <1>2 DEF Joined
  <2>10. w = Main => t.at # "done" /\ (type \in Pooled => Quiet)
    BY <1>1, <1>2, <2>1 DEF Joined
  <2> QED BY <1>1, <1>7, <2>1, <2>3, <2>4, <2>5, <2>7, <2>8, <2>9, <2>10, WorkerStep
<1> QED BY <1>8, <1>9 DEF Directory

\* A file is made, with the directories it is in.
LEMMA FileStep ==
  ASSUME Typed, Extracted, mode = "extract", NEW w \in Workers, File(w), UNCHANGED <<fixed, aborted>>,
         type # "ddup"
  PROVE  Typed' /\ Extracted'
<1> DEFINE f == First(w)
           made == Above[f]
<1>1. /\ thread[w].at = "create" /\ f \notin Dirs /\ Make(w, made) /\ type' = type /\ mode' = mode
      /\ UNCHANGED <<index, spawned, cut, result, aborted>>
  BY DEF File, fixed
<1>2. Placed(w) /\ Heeded(w) /\ Joined /\ Covered /\ Left /\ type \in Types
  BY DEF Extracted, Typed
<1>3. thread[w].rest # <<>> /\ f \in Wanted
  BY <1>1, <1>2 DEF Placed, InHand
<1>4. f \in 1..N /\ Len(thread[w].rest) \in Nat \ {0}
  BY <1>3, Parents, InHandParts
<1>5. made \in SUBSET Dirs
  BY <1>4, AboveClosed
<1> HIDE DEF made
<1>6. /\ written \subseteq written' /\ written' \subseteq Wanted
      /\ dated' \subseteq Dirs /\ late' \in [Workers -> Nat]
      /\ \A v \in Workers \ {w} : late'[v] = late[v]
      /\ late'[w] \in Nat /\ late'[w] <= late[w] + 1 /\ Counted(w)
  BY <1>1, <1>2, <1>5, MakeParts
<1>7. CASE Fail(w)
  BY <1>1, <1>5, <1>7, MakeFails
<1>8. CASE To(w, [thread[w] EXCEPT !.at = "copy"]) /\ UNCHANGED error
  <2>1. PICK t \in ThreadType : To(w, t) /\ t.at = "copy" /\ t.rest = thread[w].rest
    <3>1. "copy" \in At
      BY DEF At
    <3> QED BY <1>8, <3>1, ThreadParts
  <2>2. thread' \in [Workers -> ThreadType] /\ thread'[w] = t
    BY <2>1, WorkerMoves
  <2>3. Typed'
    BY <1>1, <1>6, <1>8, <2>2 DEF Typed, fixed
  <2>4. Placed(w)'
    <3>1. "copy" \in Places(w)
      BY <1>1, <1>2 DEF Placed, Places, InHand, Types, Pooled, Sequential
    <3> QED BY <1>1, <1>3, <2>1, <2>2, <3>1 DEF Placed, Places, InHand, First
  <2>5. Heeded(w)'
    <3>1. type = "7z" => Fits(late'[w] + Len(thread[w].rest) - 1)
      <4>1. SUFFICES ASSUME type = "7z"
                     PROVE  Fits(late'[w] + Len(thread[w].rest) - 1)
        OBVIOUS
      <4>2. Fits(late[w] + Len(thread[w].rest))
        BY <1>1, <1>2, <4>1 DEF Heeded
      <4>3. \A a, b \in Nat : \A n \in Nat \ {0} :
              b <= a + 1 => b + n - 1 \in Int /\ a + n \in Int /\ b + n - 1 <= a + n
        OBVIOUS
      <4>4. late[w] \in Nat
        BY DEF Typed
      <4>5. /\ late'[w] + Len(thread[w].rest) - 1 \in Int /\ late[w] + Len(thread[w].rest) \in Int
            /\ late'[w] + Len(thread[w].rest) - 1 <= late[w] + Len(thread[w].rest)
        BY <1>4, <1>6, <4>3, <4>4, Zenon
      <4> QED BY <4>2, <4>5, FitsLess
    <3> QED BY <1>1, <1>6, <2>1, <2>2, <3>1 DEF Heeded, Counted, Fits
  <2>6. Passes(w, t)
    <3>1. \A i : Waiting(i)' = Waiting(i)
      BY <1>1 DEF Waiting, Work
    <3>2. index >= index /\ t.at # "done"
      BY <2>1 DEF Typed
    <3> QED BY <1>1, <1>6, <2>1, <3>1, <3>2 DEF Passes
  <2>7. Covered'
    BY <1>1, <1>2, <1>8, <2>1, <2>3, <2>6, CoveredStep
  <2>8. Left' /\ spawned' = {}
    BY <1>1, <1>2 DEF Left, Joined
  <2>9. w = Main => t.at # "done" /\ (type \in Pooled => Quiet)
    BY <1>1, <1>2, <2>1 DEF Joined
  <2> QED BY <1>1, <1>6, <2>1, <2>3, <2>4, <2>5, <2>7, <2>8, <2>9, WorkerStep
<1> QED BY <1>7, <1>8 DEF File

\* A file of a ddup archive is made, and its copy left to a thread.
LEMMA DdupFileStep ==
  ASSUME Typed, Extracted, mode = "extract", DdupFile, UNCHANGED <<fixed, aborted>>, type = "ddup"
  PROVE  Typed' /\ Extracted'
<1> DEFINE f == First(Main)
<1>0. Main \in Workers
  BY DEF Workers
<1>1. /\ thread[Main].at = "create" /\ f \notin Dirs /\ Make(Main, {}) /\ type' = type /\ mode' = mode
      /\ UNCHANGED <<index, cut, result, aborted>>
  BY DEF DdupFile, fixed
<1>2. Placed(Main) /\ Heeded(Main) /\ Joined /\ Covered /\ Left
  BY <1>0 DEF Extracted
<1>3. thread[Main].rest # <<>> /\ f \in Wanted
  BY <1>1, <1>2 DEF Placed, InHand
<1>4. /\ Others(Main) \in Seq(Items) /\ Range(thread[Main].rest) = {f} \cup Range(Others(Main))
  BY <1>0, <1>3, InHandParts
<1>5. f > 0
  <2>1. f \in 1..N /\ N \in Nat
    BY <1>3, Parents
  <2> HIDE DEF f
  <2> QED BY <2>1
<1>6. /\ written' = written \cup {} /\ written' \subseteq Wanted /\ written \subseteq written'
      /\ dated' \subseteq Dirs /\ late' \in [Workers -> Nat]
      /\ \A d \in dated : d \in dated' \/ \E j \in {} \cup {f} : d = Parent[j]
      /\ \A v \in Workers \ {Main} : late'[v] = late[v]
      /\ Counted(Main)
  <2>1. {} \in SUBSET Dirs
    OBVIOUS
  <2> QED BY <1>0, <1>1, <1>2, <2>1, MakeParts
<1>7. CASE Fail(Main) /\ UNCHANGED spawned
  <2>1. {} \in SUBSET Dirs
    OBVIOUS
  <2> QED BY <1>0, <1>1, <1>7, <2>1, MakeFails
<1>8. CASE /\ spawned' = spawned \cup {f} /\ To(Main, Thread("next", Others(Main)))
           /\ UNCHANGED error
  <2>1. PICK t \in ThreadType : To(Main, t) /\ t.at = "next" /\ t.rest = Others(Main)
    <3>1. "next" \in At
      BY DEF At
    <3> QED BY <1>4, <1>8, <3>1, ThreadSet
  <2>2. thread' \in [Workers -> ThreadType] /\ thread'[Main] = t
    BY <1>0, <2>1, WorkerMoves
  <2>3. Typed'
    <3>1. spawned' \subseteq Wanted \ Dirs
      BY <1>1, <1>3, <1>8 DEF Typed
    <3> QED BY <1>1, <1>6, <1>8, <2>2, <3>1 DEF Typed, fixed
  <2>4. Placed(Main)'
    BY <1>1, <2>1, <2>2 DEF Placed, Places, InHand, Pooled
  <2>5. Heeded(Main)'
    BY <1>1, <1>6, <2>1, <2>2 DEF Heeded, Counted
  <2>6. Passes(Main, t)
    <3>1. \A i : Waiting(i)' = Waiting(i)
      BY <1>1 DEF Waiting, Work
    <3>2. index >= index /\ t.at # "done"
      BY <2>1 DEF Typed
    <3> QED BY <1>1, <1>4, <1>6, <1>8, <2>1, <3>1, <3>2 DEF Passes
  <2>7. Covered'
    BY <1>0, <1>1, <1>2, <1>8, <2>1, <2>3, <2>6, CoveredStep
  <2>8. Left'
    <3>1. {} \in SUBSET (Above[First(Main)] \cup {First(Main)})
      OBVIOUS
    <3>2. thread'[Main].rest = Others(Main) /\ dated \subseteq Dirs
      BY <2>1, <2>2 DEF Typed
    <3> QED BY <1>1, <1>2, <1>3, <1>5, <1>6, <1>8, <3>1, <3>2, LeftMade
  <2>9. type \notin Pooled
    BY DEF Pooled
  <2> QED BY <1>0, <1>1, <1>6, <2>1, <2>3, <2>4, <2>5, <2>7, <2>8, <2>9, WorkerStep
<1> QED BY <1>7, <1>8 DEF DdupFile

\* A directory of a ddup archive is left.
LEMMA DdupLeaveStep ==
  ASSUME Typed, Extracted, mode = "extract", DdupLeave, UNCHANGED <<fixed, aborted>>, type = "ddup"
  PROVE  Typed' /\ Extracted'
<1> DEFINE f == First(Main)
<1>0. Main \in Workers
  BY DEF Workers
<1>1. /\ thread[Main].at = "next" /\ thread[Main].rest # <<>> /\ f < 0 /\ type' = type /\ mode' = mode
      /\ UNCHANGED <<index, spawned, written, cut, late, result, aborted>>
  BY DEF DdupLeave, fixed
<1>2. Placed(Main) /\ Heeded(Main) /\ Joined /\ Covered /\ Left
  BY <1>0 DEF Extracted
<1>3. /\ f \in Items /\ Others(Main) \in Seq(Items)
      /\ Range(thread[Main].rest) = {f} \cup Range(Others(Main))
      /\ LeftAgain(thread[Main].rest) => LeftAgain(Others(Main))
  BY <1>0, <1>1, InHandParts
<1>4. -f \in Dirs /\ f \notin 1..N /\ \A d \in Dirs : -d = f => d = -f
  <2>1. Entries = 1..N /\ N \in Nat /\ Dirs \subseteq 1..N
    BY Parents DEF Entries
  <2>2. f \in 1..N \cup {-d : d \in Dirs} /\ f < 0
    BY <1>1, <1>3, <2>1 DEF Items
  <2> HIDE DEF f
  <2>3. PICK d \in Dirs : f = -d
    BY <2>1, <2>2
  <2>4. d \in Nat /\ \A e \in Dirs : e \in Nat
    BY <2>1
  <2>5. -f = d
    BY <2>3, <2>4
  <2> QED BY <2>1, <2>2, <2>4, <2>5
<1>5. CASE Fail(Main) /\ UNCHANGED dated
  BY <1>0, <1>1, <1>5, GivesUp
<1>6. CASE /\ dated' = dated \cup {-f} /\ To(Main, Thread("next", Others(Main)))
           /\ UNCHANGED error
  <2>1. PICK t \in ThreadType : To(Main, t) /\ t.at = "next" /\ t.rest = Others(Main)
    <3>1. "next" \in At
      BY DEF At
    <3> QED BY <1>3, <1>6, <3>1, ThreadSet
  <2>2. thread' \in [Workers -> ThreadType] /\ thread'[Main] = t
    BY <1>0, <2>1, WorkerMoves
  <2>3. Typed'
    <3>1. dated' \subseteq Dirs
      BY <1>4, <1>6 DEF Typed
    <3> QED BY <1>1, <1>6, <2>2, <3>1 DEF Typed, fixed
  <2>4. Placed(Main)'
    BY <1>1, <2>1, <2>2 DEF Placed, Places, InHand, Pooled
  <2>5. Heeded(Main)'
    BY <1>1, <1>2, <2>1, <2>2 DEF Heeded
  <2>6. Passes(Main, t)
    <3>1. \A i : Waiting(i)' = Waiting(i)
      BY <1>1 DEF Waiting, Work
    <3>2. index >= index /\ t.at # "done"
      BY <2>1 DEF Typed
    <3>3. \A i \in Due : i # f
      BY <1>4, DueIsWanted, Parents
    <3> QED BY <1>1, <1>3, <1>6, <2>1, <3>1, <3>2, <3>3 DEF Passes
  <2>7. Covered'
    BY <1>0, <1>1, <1>2, <1>6, <2>1, <2>3, <2>6, CoveredStep
  <2>8. Left'
    <3>1. LeftAgain(thread[Main].rest)
      BY <1>2 DEF Left
    <3>2. ASSUME ~error, NEW d \in Dirs \cap written
          PROVE  d \in dated' \/ -d \in Range(Others(Main))
      BY <1>2, <1>3, <1>4, <1>6, <3>2 DEF Left
    <3>3. LeftAgain(t.rest) /\ (~error => \A d \in Dirs \cap written : d \in dated' \/ -d \in Range(t.rest))
      BY <1>3, <2>1, <3>1, <3>2
    <3> QED BY <1>1, <1>6, <2>2, <3>3 DEF Left, LeftAgain, Range
  <2>9. type \notin Pooled
    BY DEF Pooled
  <2> QED BY <1>0, <1>1, <2>1, <2>3, <2>4, <2>5, <2>7, <2>8, <2>9, WorkerStep
<1> QED BY <1>5, <1>6 DEF DdupLeave

\* A thread takes a copy.
LEMMA DdupTakeStep ==
  ASSUME Typed, Extracted, mode = "extract", NEW w \in Threads, DdupTake(w), UNCHANGED <<fixed, aborted>>,
         type = "ddup"
  PROVE  Typed' /\ Extracted'
<1>1. /\ thread[w].at = "pool" /\ type' = type /\ mode' = mode
      /\ UNCHANGED <<index, error, written, dated, cut, late, result, aborted>>
  BY DEF DdupTake, fixed
<1>2. PICK i \in spawned : spawned' = spawned \ {i} /\ To(w, Thread("copy", <<i>>))
  BY DEF DdupTake
<1>3. w \in Workers /\ w # Main /\ Main \in Workers
  BY ArchiveAssumption DEF Workers
<1>4. Placed(w) /\ Heeded(w) /\ Joined /\ Covered /\ Left
  BY <1>3 DEF Extracted
<1>5. i \in Wanted /\ i \notin Dirs /\ i \in Items
  BY <1>2 DEF Typed, Items, Wanted
<1>6. <<i>> \in Seq(Items) /\ <<i>> # <<>> /\ Head(<<i>>) = i /\ Len(<<i>>) <= 1 /\ Range(<<i>>) = {i}
  BY <1>5 DEF Range
<1>7. PICK t \in ThreadType : To(w, t) /\ t.at = "copy" /\ t.rest = <<i>>
  <2>1. "copy" \in At
    BY DEF At
  <2> DEFINE t == Thread("copy", <<i>>)
  <2>2. t \in ThreadType /\ t.at = "copy" /\ t.rest = <<i>> /\ To(w, t)
    BY <1>2, <1>6, <2>1, ThreadMade
  <2> HIDE DEF t
  <2> QED BY <2>2
<1>8. thread' \in [Workers -> ThreadType] /\ thread'[w] = t /\ thread'[Main] = thread[Main]
  BY <1>3, <1>7, WorkerMoves
<1>9. Typed'
  <2>1. spawned' \subseteq Wanted \ Dirs
    BY <1>2 DEF Typed
  <2> QED BY <1>1, <1>8, <2>1 DEF Typed, fixed
<1>10. Placed(w)'
  <2>1. "copy" \in Places(w)
    BY <1>3 DEF Places, Pooled
  <2>2. /\ thread'[w].at = "copy" /\ thread'[w].rest # <<>> /\ Len(thread'[w].rest) <= 1
        /\ Head(thread'[w].rest) \in Wanted /\ Head(thread'[w].rest) \notin Dirs
    BY <1>5, <1>6, <1>7, <1>8, Zenon
  <2>3. Places(w)' = Places(w)
    BY <1>1 DEF Places
  <2> QED BY <2>1, <2>2, <2>3 DEF Placed, InHand, First
<1>11. Heeded(w)'
  BY <1>1, <1>4, <1>7, <1>8 DEF Heeded
<1>12. Passes(w, t)
  <2>1. \A j : Waiting(j)' = Waiting(j)
    BY <1>1 DEF Waiting, Work
  <2>2. index >= index /\ t.at # "done" /\ thread[w].rest = <<>> /\ Range(<<>>) = {}
    BY <1>1, <1>4, <1>7 DEF Typed, Placed, InHand, Range
  <2> QED BY <1>1, <1>2, <1>6, <1>7, <2>1, <2>2 DEF Passes
<1>13. Covered'
  BY <1>1, <1>3, <1>4, <1>7, <1>9, <1>12, CoveredStep
<1>14. Left'
  BY <1>1, <1>4, <1>8, LeftStays
<1>15. spawned # {}
  BY <1>2
<1> QED BY <1>1, <1>3, <1>7, <1>9, <1>10, <1>11, <1>13, <1>14, <1>15, WorkerStep

------------------------------------------------------------------------------
(* The task returns. *)

\* Whoever is done has nothing in hand, and nothing is left to fetch.
LEMMA NothingLeft ==
  ASSUME Typed, Extracted, thread[Main].at = "times", Quiet, ~error, ~cut
  PROVE  Due \subseteq written
<1>1. Main \in Workers /\ Threads \subseteq Workers /\ Threads # {} /\ Main \notin Threads
  BY ArchiveAssumption DEF Workers
<1>2. \A w \in Workers : thread[w].at \in {"times", "done", "pool"}
  BY <1>1 DEF Quiet, Workers
<1>3. \A w \in Workers : thread[w].rest = <<>>
  BY <1>2 DEF Extracted, Placed, InHand
<1>4. Range(<<>>) = {}
  BY DEF Range
<1>5. \A i : ~Held(i)
  BY <1>3, <1>4 DEF Held, Quiet
<1>6. \A i : ~Waiting(i)
  <2>1. SUFFICES ASSUME type \in Pooled, NEW k \in DOMAIN Work, k >= index
                 PROVE  FALSE
    BY DEF Waiting
  <2>2. PICK w \in Threads : thread[w].at \in {"done", "pool"}
    BY <1>1 DEF Quiet
  <2>3. thread[w].at = "done"
    <3>1. thread[w].at \in Places(w) /\ w # Main
      BY <1>1, <2>2 DEF Extracted, Placed
    <3> QED BY <2>1, <2>2, <3>1 DEF Places, Pooled, InHand
  <2>4. index > Len(Work)
    BY <2>1, <2>3 DEF Extracted, Covered
  <2>5. Work \in Seq(Seq(Items)) /\ index \in Nat
    BY WorkIsSeq DEF Typed
  <2>6. DOMAIN Work = 1..Len(Work) /\ Len(Work) \in Nat
    BY <2>5
  <2> HIDE DEF Work
  <2> QED BY <2>1, <2>4, <2>5, <2>6
<1> QED BY <1>5, <1>6 DEF Extracted, Covered

LEMMA ReturnStep ==
  ASSUME Typed, Extracted, mode = "extract", thread[Main].at = "times", NEW r \in {"ok", "err"}, Return(r), Quiet,
         UNCHANGED <<fixed, aborted>>, dated' \subseteq Dirs, dated \subseteq dated',
         r = "ok" => ~error,
         r = "ok" /\ type # "ddup" => Dirs \cap written \subseteq dated'
  PROVE  Typed' /\ Extracted'
<1>1. /\ To(Main, Thread("done", <<>>)) /\ result' = r
      /\ UNCHANGED <<index, spawned, error, written, cut, late, type, mode, aborted>>
  BY DEF Return, fixed
<1>2. Main \in Workers /\ Main \notin Threads
  BY ArchiveAssumption DEF Workers
<1>3. Placed(Main) /\ Heeded(Main) /\ Joined /\ Covered /\ Left /\ type \in Types
  BY <1>2 DEF Extracted, Typed
<1>4. PICK t \in ThreadType : To(Main, t) /\ t.at = "done" /\ t.rest = <<>>
  <2>1. "done" \in At /\ <<>> \in Seq(Items)
    BY DEF At
  <2> DEFINE t == Thread("done", <<>>)
  <2>2. t \in ThreadType /\ t.at = "done" /\ t.rest = <<>> /\ To(Main, t)
    BY <1>1, <2>1, ThreadMade
  <2> HIDE DEF t
  <2> QED BY <2>2
<1>5. thread' \in [Workers -> ThreadType] /\ thread'[Main] = t /\ \A v \in Workers \ {Main} : thread'[v] = thread[v]
  BY <1>2, <1>4, WorkerMoves
<1>6. thread[Main].rest = <<>> /\ Range(<<>>) = {}
  BY <1>3 DEF Placed, InHand, Range
<1>7. Typed'
  BY <1>1, <1>5 DEF Typed, fixed
<1>8. Placed(Main)'
  <2>1. "done" \in Places(Main)
    BY <1>3 DEF Places, Types, Pooled, Sequential
  <2> QED BY <1>1, <1>4, <1>5, <2>1 DEF Placed, Places, InHand
<1>9. Heeded(Main)'
  BY <1>1, <1>3, <1>4, <1>5 DEF Heeded, Fits
<1>10. \A v \in Workers : Placed(v)' /\ Heeded(v)'
  BY <1>1, <1>5, <1>8, <1>9, PlacedStays, HeededStays DEF Extracted
<1>11. Covered'
  <2>1. \A i : Waiting(i)' = Waiting(i)
    BY <1>1 DEF Waiting, Work
  <2>2. index >= index
    BY DEF Typed
  <2>3. Passes(Main, t)
    BY <1>1, <1>2, <1>6, <2>1, <2>2 DEF Passes
  <2> QED BY <1>1, <1>2, <1>3, <1>4, <1>7, <2>3, CoveredStep
<1>12. Left'
  BY <1>1, <1>3, <1>4, <1>5, <1>6 DEF Left, LeftAgain
<1>13. Quiet'
  <2>1. \A v \in Threads : thread'[v] = thread[v]
    BY <1>2, <1>5 DEF Workers
  <2> QED BY <1>1, <2>1 DEF Quiet
<1>14. Joined'
  BY <1>1, <1>3, <1>4, <1>5, <1>13 DEF Joined
<1>15. SuccessIsComplete'
  <2>1. r = "ok" /\ ~cut => Due \subseteq written
    BY NothingLeft
  <2>2. Due' = Due
    BY <1>1 DEF Due
  <2> QED BY <1>1, <2>1, <2>2 DEF SuccessIsComplete
<1>16. TimesAreRestored'
  <2>1. r = "ok" /\ type = "ddup" => Dirs \cap written \subseteq dated
    BY <1>3, <1>6 DEF Left
  <2> QED BY <1>1, <2>1 DEF TimesAreRestored
<1> QED BY <1>7, <1>10, <1>11, <1>12, <1>14, <1>15, <1>16 DEF Extracted

\* The types whose blocking task does all the work have no thread that works.
LEMMA TimesAreQuiet ==
  ASSUME Typed, Extracted, thread[Main].at = "times", type # "ddup"
  PROVE  Quiet
<1>1. Joined /\ Main \notin Threads /\ Threads \subseteq Workers /\ type \in Types
  BY ArchiveAssumption DEF Extracted, Workers, Typed
<1>2. CASE type \in Pooled
  BY <1>1, <1>2 DEF Joined
<1>3. CASE type \notin Pooled
  <2>1. \A w \in Threads : thread[w].at \in Places(w) /\ w # Main
    BY <1>1 DEF Extracted, Placed
  <2>2. \A w \in Threads : thread[w].at = "done"
    BY <1>3, <2>1 DEF Places
  <2> QED BY <1>1, <2>2 DEF Quiet, Joined
<1> QED BY <1>2, <1>3

LEMMA TimesStep ==
  ASSUME Typed, Extracted, mode = "extract", Times, UNCHANGED <<fixed, aborted>>, type # "ddup"
  PROVE  Typed' /\ Extracted'
<1>1. thread[Main].at = "times" /\ dated \subseteq Dirs
  BY DEF Times, Typed
<1>2. Quiet
  BY <1>1, TimesAreQuiet
<1>3. PICK r \in {"ok", "err"} :
        /\ Return(r) /\ dated' \subseteq Dirs /\ dated \subseteq dated'
        /\ r = "ok" => ~error /\ Dirs \cap written \subseteq dated'
  BY <1>1 DEF Times
<1> QED BY <1>1, <1>2, <1>3, ReturnStep

LEMMA DdupEndStep ==
  ASSUME Typed, Extracted, mode = "extract", DdupEnd, UNCHANGED <<fixed, aborted>>, type = "ddup"
  PROVE  Typed' /\ Extracted'
<1>1. thread[Main].at = "times" /\ Quiet /\ UNCHANGED dated /\ dated \subseteq Dirs
  BY DEF DdupEnd, Typed
<1>2. PICK r \in {"ok", "err"} : Return(r) /\ (r = "ok" => ~error)
  BY DEF DdupEnd
<1> QED BY <1>1, <1>2, ReturnStep

------------------------------------------------------------------------------
(* Extraction, type by type. *)

LEMMA SequentialStep ==
  ASSUME Typed, Extracted, mode = "extract", UNCHANGED <<fixed, aborted>>, ExtractNone \/ ExtractTar \/ ExtractRar
  PROVE  Typed' /\ Extracted'
<1>1. Main \in Workers /\ type \in {"none", "tar", "rar"} /\ type \notin Pooled /\ type # "ddup" /\ type # "7z"
  BY DEF Workers, ExtractNone, ExtractTar, ExtractRar, Pooled
<1>2. ASSUME NEW fails \in BOOLEAN, Header(Main, fails), fails \/ ~aborted \/ type = "none"
      PROVE  Typed' /\ Extracted'
  BY <1>1, <1>2, HeaderStep
<1>3. ASSUME NEW allowed \in BOOLEAN, Copy(Main, allowed), allowed => ~aborted
      PROVE  Typed' /\ Extracted'
  BY <1>1, <1>3, CopyStep
<1>4. CASE Directory(Main) /\ type \in {"tar", "rar"}
  BY <1>1, <1>4, DirectoryStep
<1>5. CASE File(Main)
  BY <1>1, <1>5, FileStep
<1>6. CASE Flush(Main, "next")
  BY <1>1, <1>6, FlushStep
<1>7. CASE Exhausted(Main, "times")
  BY <1>1, <1>7, ExhaustedStep
<1>8. CASE Times
  BY <1>1, <1>8, TimesStep
<1>9. CASE ExtractNone
  <2>1. CASE Header(Main, FALSE)
    BY <1>2, <1>9, <2>1 DEF ExtractNone
  <2>2. CASE Copy(Main, ~aborted /\ First(Main) \notin bad)
    <3>1. (~aborted /\ First(Main) \notin bad) \in BOOLEAN
      BY Zenon
    <3> QED BY <1>3, <2>2, <3>1, Zenon
  <2> QED BY <1>5, <1>6, <1>7, <1>8, <1>9, <2>1, <2>2 DEF ExtractNone
<1>10. CASE ExtractTar
  <2>1. CASE TarEnds
    BY <1>10, <2>1, TarEndsStep DEF ExtractTar
  <2>2. CASE ~aborted /\ Header(Main, FALSE)
    BY <1>2, <2>2
  <2>3. CASE Copy(Main, ~aborted)
    BY <1>3, <2>3, Zenon
  <2> QED BY <1>4, <1>5, <1>6, <1>7, <1>8, <1>10, <2>1, <2>2, <2>3 DEF ExtractTar
<1>11. CASE ExtractRar
  <2>1. CASE Header(Main, aborted \/ First(Main) \in bad)
    <3>1. (aborted \/ First(Main) \in bad) \in BOOLEAN /\ ((aborted \/ First(Main) \in bad) \/ ~aborted)
      BY Zenon
    <3> QED BY <1>2, <2>1, <3>1, Zenon
  <2>2. CASE Copy(Main, ~aborted)
    BY <1>3, <2>2, Zenon
  <2> QED BY <1>4, <1>5, <1>6, <1>7, <1>8, <1>11, <2>1, <2>2 DEF ExtractRar
<1> QED BY <1>9, <1>10, <1>11

LEMMA PooledStep ==
  ASSUME Typed, Extracted, mode = "extract", UNCHANGED <<fixed, aborted>>, ExtractZip \/ ExtractSevenZip
  PROVE  Typed' /\ Extracted'
<1>1. type \in {"zip", "7z"} /\ type \in Pooled /\ type # "ddup" /\ type # "none"
  BY DEF ExtractZip, ExtractSevenZip, Pooled
<1>2. CASE Join
  BY <1>2, JoinStep
<1>3. CASE Times
  BY <1>1, <1>3, TimesStep
<1>4. ASSUME NEW w \in Threads, (ZipEntry(w) /\ type = "zip") \/ (SevenZipBlock(w) /\ type = "7z")
      PROVE  Typed' /\ Extracted'
  <2>1. w \in Workers /\ w # Main
    BY ArchiveAssumption DEF Workers
  <2>2. CASE Look(w)
    BY <1>1, <2>2, LookStep
  <2>3. CASE Fetch(w, Work)
    BY <1>1, <2>3, FetchStep
  <2>4. CASE ReadFails(w)
    BY <2>1, <2>4, ReadFailsStep
  <2>5. CASE File(w)
    BY <1>1, <2>1, <2>5, FileStep
  <2>6. CASE Flush(w, "next")
    BY <1>1, <2>1, <2>6, FlushStep
  <2>7. CASE Exhausted(w, "look")
    BY <1>1, <2>1, <2>7, ExhaustedStep
  <2>8. CASE Copy(w, TRUE)
    BY <1>1, <2>1, <2>8, CopyStep
  <2>9. ASSUME NEW fails \in BOOLEAN, Header(w, fails), ~aborted \/ type = "7z",
               type = "7z" /\ aborted => thread[w].rest \notin Range(Blocks)
        PROVE  Typed' /\ Extracted'
    BY <2>1, <2>9, HeaderStep
  <2>10. (First(w) \in bad) \in BOOLEAN
    OBVIOUS
  <2>11. CASE ZipEntry(w) /\ type = "zip"
    <3>1. CASE Directory(w)
      BY <2>1, <2>11, <3>1, DirectoryStep
    <3>2. CASE Fetch(w, [i \in Entries |-> <<i>>])
      <4>1. Work = [i \in Entries |-> <<i>>]
        BY <2>11 DEF Work
      <4> QED BY <2>3, <3>2, <4>1
    <3>3. CASE ~aborted /\ Header(w, First(w) \in bad)
      BY <2>9, <2>10, <2>11, <3>3, Zenon
    <3> QED BY <2>2, <2>4, <2>5, <2>6, <2>7, <2>8, <2>11, <3>1, <3>2, <3>3 DEF ZipEntry
  <2>12. CASE SevenZipBlock(w) /\ type = "7z"
    <3>1. CASE Fetch(w, Blocks)
      <4>1. Work = Blocks
        BY <2>12 DEF Work
      <4> QED BY <2>3, <3>1, <4>1
    <3>2. CASE (aborted => thread[w].rest \notin Range(Blocks)) /\ Header(w, First(w) \in bad)
      <4>1. (~aborted \/ type = "7z") /\ (type = "7z" /\ aborted => thread[w].rest \notin Range(Blocks))
        BY <2>12, <3>2
      <4>2. CASE First(w) \in bad
        <5>1. Header(w, TRUE)
          BY <3>2, <4>2 DEF Header
        <5> QED BY <2>9, <4>1, <5>1
      <4>3. CASE First(w) \notin bad
        <5>1. Header(w, FALSE)
          BY <3>2, <4>3 DEF Header
        <5> QED BY <2>9, <4>1, <5>1
      <4> QED BY <4>2, <4>3
    <3> QED BY <2>2, <2>4, <2>5, <2>6, <2>7, <2>8, <2>12, <3>1, <3>2, Zenon DEF SevenZipBlock
  <2> QED BY <1>4, <2>11, <2>12
<1> QED BY <1>2, <1>3, <1>4 DEF ExtractZip, ExtractSevenZip, ZipTimes, SevenZipTimes

LEMMA DdupStep ==
  ASSUME Typed, Extracted, mode = "extract", UNCHANGED <<fixed, aborted>>, ExtractDdup
  PROVE  Typed' /\ Extracted'
<1>1. Main \in Workers /\ type = "ddup" /\ type \notin Pooled /\ aborted \in BOOLEAN
  BY DEF Workers, ExtractDdup, Pooled, Typed
<1>2. CASE Header(Main, aborted)
  BY <1>1, <1>2, HeaderStep
<1>3. CASE Directory(Main)
  BY <1>1, <1>3, DirectoryStep
<1>4. CASE DdupFile
  BY <1>1, <1>4, DdupFileStep
<1>5. CASE DdupLeave
  BY <1>1, <1>5, DdupLeaveStep
<1>6. CASE Exhausted(Main, "times")
  BY <1>1, <1>6, ExhaustedStep
<1>7. CASE DdupEnd
  BY <1>1, <1>7, DdupEndStep
<1>8. ASSUME NEW w \in Threads,
             DdupTake(w) \/ Copy(w, ~aborted /\ First(w) \notin bad) \/ Flush(w, "pool")
      PROVE  Typed' /\ Extracted'
  <2>1. w \in Workers /\ w # Main
    BY ArchiveAssumption DEF Workers
  <2>2. CASE DdupTake(w)
    BY <1>1, <2>2, DdupTakeStep
  <2>3. ASSUME NEW allowed \in BOOLEAN, Copy(w, allowed)
        PROVE  Typed' /\ Extracted'
    BY <1>1, <2>1, <2>3, CopyStep
  <2>4. CASE Copy(w, ~aborted /\ First(w) \notin bad)
    <3>1. (~aborted /\ First(w) \notin bad) \in BOOLEAN
      BY Zenon
    <3> QED BY <2>3, <2>4, <3>1, Zenon
  <2>5. CASE Flush(w, "pool")
    BY <1>1, <2>1, <2>5, FlushStep
  <2> QED BY <1>8, <2>2, <2>4, <2>5
<1> QED BY <1>2, <1>3, <1>4, <1>5, <1>6, <1>7, <1>8 DEF ExtractDdup

\* A step of an extraction leaves what only a creation has.
LEMMA ExtractStep ==
  ASSUME IInv, Extract
  PROVE  IInv'
<1>1. /\ mode = "extract" /\ UNCHANGED <<fixed, creation, aborted>> /\ Typed /\ Created /\ Extracted /\ appended = {}
      /\ mode' = mode
  BY DEF Extract, IInv, fixed
<1>2. Typed' /\ Extracted'
  BY <1>1, SequentialStep, PooledStep, DdupStep DEF Extract
<1>3. Created' /\ appended' = {}
  BY <1>1 DEF Created, creation
<1> QED BY <1>1, <1>2, <1>3 DEF IInv

------------------------------------------------------------------------------
(* Creation, and the abort. *)

LEMMA AbortStep ==
  ASSUME IInv, Abort
  PROVE  IInv'
<1>1. ~aborted /\ aborted' = TRUE /\ UNCHANGED <<fixed, extraction, creation, cut, result>> /\ Typed /\ Created
  BY DEF Abort, IInv
<1>2. Typed' /\ Created'
  BY <1>1 DEF Typed, Created, fixed, extraction, creation
<1>3. mode' = mode /\ type' = type /\ thread' = thread /\ late' = late
  BY <1>1 DEF fixed, extraction
<1>4. ASSUME mode = "extract"
      PROVE  Extracted' /\ appended' = {}
  <2>1. Extracted /\ appended = {}
    BY <1>4 DEF IInv
  <2>2. \A w \in Workers : Placed(w)' /\ Heeded(w)'
    <3>1. ASSUME NEW w \in Workers
          PROVE  Placed(w)' /\ Heeded(w)'
      <4>1. Placed(w) /\ Heeded(w)
        BY <2>1 DEF Extracted
      <4>2. Placed(w)'
        BY <1>3, <4>1, PlacedStays
      <4>3. Heeded(w)'
        BY <1>1, <1>3, <4>1 DEF Heeded, Fits
      <4> QED BY <4>2, <4>3
    <3> QED BY <3>1
  <2>3. Joined' /\ Covered' /\ Left'
    <3>1. Joined /\ Covered /\ Left
      BY <2>1 DEF Extracted
    <3>2. Joined'
      BY <1>1, <3>1 DEF Joined, Quiet, fixed, extraction
    <3>3. Covered'
      BY <1>1, <3>1 DEF Covered, Held, Waiting, Work, Due, fixed, extraction
    <3>4. Left'
      BY <1>1, <3>1 DEF Left, LeftAgain, fixed, extraction
    <3> QED BY <3>2, <3>3, <3>4
  <2>4. SuccessIsComplete' /\ TimesAreRestored' /\ appended' = {}
    BY <1>1, <2>1 DEF Extracted, SuccessIsComplete, TimesAreRestored, Due, fixed, extraction, creation
  <2> QED BY <2>2, <2>3, <2>4 DEF Extracted
<1>5. ASSUME mode = "create"
      PROVE  Archived' /\ \A w \in Workers : late'[w] = 0
  BY <1>1, <1>5 DEF IInv, Archived, EntriesAreFramed, Has, fixed, extraction, creation
<1> QED BY <1>2, <1>3, <1>4, <1>5 DEF IInv

\* A file changes while it is archived.
LEMMA ChangeStep ==
  ASSUME IInv, NEW i \in Entries, Change(i)
  PROVE  IInv'
<1>1. /\ mode = "create" /\ changes' = changes + 1 /\ steady' = steady \ {i}
      /\ UNCHANGED <<fixed, extraction, current, appended, cut, aborted, result>> /\ mode' = mode
  BY DEF Change, fixed
<1>2. PICK n \in -1..2 : source' = [source EXCEPT ![i] = n]
  BY DEF Change
<1>3. Typed /\ Created /\ Archived /\ \A w \in Workers : late[w] = 0
  BY <1>1 DEF IInv
<1>4. Typed'
  BY <1>1, <1>3 DEF Typed, fixed, extraction
<1>5. source' \in [Entries -> -1..2] /\ \A j \in Entries \ {i} : source'[j] = source[j]
  BY <1>2, <1>3 DEF Created
<1>6. Created'
  BY <1>1, <1>3, <1>5 DEF Created
<1>7. Archived'
  BY <1>1, <1>3, <1>5 DEF Archived, EntriesAreFramed, Has, Created
<1>8. \A w \in Workers : late'[w] = 0
  BY <1>1, <1>3 DEF extraction
<1> QED BY <1>1, <1>4, <1>6, <1>7, <1>8 DEF IInv

\* The creation goes on after a file.
LEMMA AfterParts ==
  ASSUME NEW i \in Entries
  PROVE  /\ After(i) \in [at : {"stat", "open", "append", "finish", "done"}, i : 1..N + 1, size : Int]
         /\ After(i).i = i + 1
         /\ After(i).at = "stat" \/ After(i).at = "finish"
         /\ After(i).at = "stat" => After(i).i \in Entries
         /\ After(i).at = "finish" => After(i).i = N + 1
<1>1. N \in Nat /\ i \in 1..N
  BY Parents DEF Entries
<1>2. i + 1 \in 1..N + 1 /\ (i # N => i + 1 \in 1..N)
  BY <1>1
<1> QED BY <1>1, <1>2 DEF After, Entries

LEMMA GiveUpParts ==
  ASSUME Created, GiveUp
  PROVE  /\ current' \in [at : {"stat", "open", "append", "finish", "done"}, i : 1..N + 1, size : Int]
         /\ current'.at = "done" /\ current'.i = current.i /\ result' = "err"
BY DEF Created, GiveUp

\* The steps of a creation, but for the one that writes an entry.
LEMMA StatStep ==
  ASSUME Created, Archived, Stat \/ WalkEnds \/ OpenSource \/ Finish
  PROVE  Created' /\ Archived' /\ result' \in {result, "ok", "err"} /\ cut' \in {cut, TRUE}
<1>1. UNCHANGED <<source, appended, steady, changes>> /\ cut' \in {cut, TRUE}
  BY DEF Stat, WalkEnds, OpenSource, Finish
<1>2. ASSUME current' \in [at : {"stat", "open", "append", "finish", "done"}, i : 1..N + 1, size : Int],
             current'.at \in {"stat", "open", "append"} => current'.i \in Entries,
             current'.at = "finish" => current'.i = N + 1,
             ~cut' => \A j \in steady \ Odd : j < current'.i => Has(j),
             current'.at \in {"open", "append"} /\ current'.i \in steady => current'.size = 1,
             result' = "ok" => current'.i = N + 1
      PROVE  Created' /\ Archived'
  <2>1. Created'
    BY <1>1, <1>2 DEF Created
  <2>2. \A j : Has(j)' = Has(j)
    BY <1>1 DEF Has
  <2>3. ~cut' => \A j \in steady' \ Odd : j < current'.i => Has(j)'
    BY <1>1, <1>2, <2>2
  <2> QED BY <1>1, <1>2, <2>1, <2>3 DEF Archived, EntriesAreFramed
<1>3. CASE GiveUp
  <2>1. /\ current' \in [at : {"stat", "open", "append", "finish", "done"}, i : 1..N + 1, size : Int]
        /\ current'.at = "done" /\ current'.i = current.i /\ result' = "err"
    BY <1>3, GiveUpParts
  <2> QED BY <1>1, <1>2, <2>1 DEF Archived
<1>4. ASSUME NEW at \in {"append", "done"}, current' = [current EXCEPT !.at = at],
             \/ at = "append" /\ current.at = "open" /\ result' = result
             \/ at = "done" /\ current.at = "finish"
      PROVE  Created' /\ Archived'
  <2>1. /\ current' \in [at : {"stat", "open", "append", "finish", "done"}, i : 1..N + 1, size : Int]
        /\ current'.i = current.i /\ current'.size = current.size /\ current'.at = at
    BY <1>4 DEF Created
  <2>2. /\ current.at \in {"stat", "open", "append"} => current.i \in Entries
        /\ current.at = "finish" => current.i = N + 1
    BY DEF Created
  <2> QED BY <1>1, <1>2, <1>4, <2>1, <2>2 DEF Archived
<1>5. CASE OpenSource
  BY <1>3, <1>4, <1>5 DEF OpenSource
<1>6. CASE Finish
  BY <1>3, <1>4, <1>6 DEF Finish
<1>7. CASE Stat
  <2>1. /\ current.at = "stat" /\ current.i \in Entries /\ UNCHANGED <<cut, result>>
        /\ source[current.i] \in -1..2
    BY <1>7 DEF Stat, Created
  <2>2. CASE current' = Following /\ (source[current.i] < 0 \/ current.i \in Odd)
    <3>1. /\ current' \in [at : {"stat", "open", "append", "finish", "done"}, i : 1..N + 1, size : Int]
          /\ current'.i = current.i + 1
          /\ current'.at = "stat" \/ current'.at = "finish"
          /\ current'.at = "stat" => current'.i \in Entries
          /\ current'.at = "finish" => current'.i = N + 1
      BY <2>1, <2>2, AfterParts DEF Following
    <3>2. ~cut => \A j \in steady \ Odd : j < current.i + 1 => Has(j)
      <4>1. \A j \in steady \ Odd : j \in Nat /\ (~cut /\ j < current.i => Has(j)) /\ source[j] = 1
        BY Parents DEF Archived, Created, Entries
      <4>2. current.i \in Nat
        BY <2>1, Parents DEF Entries
      <4>3. current.i \notin steady \ Odd
        BY <2>2, <4>1
      <4> QED BY <4>1, <4>2, <4>3
    <3>3. result # "ok"
      BY <2>1, Parents DEF Archived, Entries
    <3> QED BY <1>2, <2>1, <2>2, <3>1, <3>2, <3>3
  <2>3. CASE current' = [current EXCEPT !.at = "open", !.size = source[current.i]]
    <3>1. /\ current' \in [at : {"stat", "open", "append", "finish", "done"}, i : 1..N + 1, size : Int]
          /\ current'.i = current.i /\ current'.size = source[current.i] /\ current'.at = "open"
      <4>1. source[current.i] \in Int
        BY <2>1
      <4>2. current \in [at : {"stat", "open", "append", "finish", "done"}, i : 1..N + 1, size : Int]
        BY DEF Created
      <4> QED BY <2>3, <4>1, <4>2
    <3> QED BY <1>2, <2>1, <3>1 DEF Archived
  <2> QED BY <1>7, <2>2, <2>3 DEF Stat
<1>8. CASE WalkEnds
  <2>1. current.at = "stat" /\ current.i \in Entries /\ UNCHANGED result /\ cut' = TRUE
    BY <1>8 DEF WalkEnds, Created
  <2>2. PICK last \in Entries : current' = After(last)
    <3>1. \A i \in current.i..N : i \in 1..N
      BY <2>1, Parents DEF Entries
    <3> QED BY <1>8, <3>1 DEF WalkEnds, Entries
  <2>3. /\ current' \in [at : {"stat", "open", "append", "finish", "done"}, i : 1..N + 1, size : Int]
        /\ current'.at = "stat" \/ current'.at = "finish"
        /\ current'.at = "stat" => current'.i \in Entries
        /\ current'.at = "finish" => current'.i = N + 1
    BY <2>2, AfterParts
  <2>4. result # "ok"
    BY <2>1, Parents DEF Archived, Entries
  <2> QED BY <1>2, <2>1, <2>3, <2>4
<1>9. result' \in {result, "ok", "err"}
  BY DEF Stat, WalkEnds, OpenSource, Finish, GiveUp
<1> QED BY <1>1, <1>5, <1>6, <1>7, <1>8, <1>9

\* An entry is written with as many bytes as its header says.
LEMMA AppendStep ==
  ASSUME Created, Archived, NEW bytes \in Int, NEW allowed, AppendEntry(bytes, bytes, allowed),
         current.i \in steady => bytes = 1
  PROVE  Created' /\ Archived' /\ result' \in {result, "err"} /\ cut' = cut
<1>1. /\ current.at = "append" /\ UNCHANGED <<source, steady, changes, cut>> /\ current.i \in Entries
  BY DEF AppendEntry, Created
<1>2. CASE GiveUp /\ UNCHANGED appended
  <2>1. /\ current' \in [at : {"stat", "open", "append", "finish", "done"}, i : 1..N + 1, size : Int]
        /\ current'.at = "done" /\ current'.i = current.i /\ result' = "err"
    BY <1>2, GiveUpParts
  <2>2. Created'
    BY <1>1, <1>2, <2>1 DEF Created
  <2>3. EntriesAreFramed' /\ \A j : Has(j)' <=> Has(j)
    BY <1>2 DEF Archived, EntriesAreFramed, Has
  <2>4. ~cut' => \A j \in steady' \ Odd : j < current'.i => Has(j)'
    BY <1>1, <2>1, <2>3 DEF Archived
  <2>5. \A j \in steady' : source'[j] = 1
    BY <1>1 DEF Archived
  <2>6. Archived'
    BY <2>1, <2>3, <2>4, <2>5 DEF Archived
  <2> QED BY <1>1, <2>1, <2>2, <2>6
<1>3. CASE /\ appended' = appended \cup {[i |-> current.i, size |-> bytes, bytes |-> bytes]}
           /\ current' = Following /\ UNCHANGED result
  <2>1. /\ current' \in [at : {"stat", "open", "append", "finish", "done"}, i : 1..N + 1, size : Int]
        /\ current'.i = current.i + 1
        /\ current'.at = "stat" \/ current'.at = "finish"
        /\ current'.at = "stat" => current'.i \in Entries
        /\ current'.at = "finish" => current'.i = N + 1
    BY <1>1, <1>3, AfterParts DEF Following
  <2>2. PICK a \in [i : Entries, size : Int, bytes : Int] :
          appended' = appended \cup {a} /\ a.i = current.i /\ a.size = bytes /\ a.bytes = bytes
    <3> DEFINE a == [i |-> current.i, size |-> bytes, bytes |-> bytes]
    <3>1. a \in [i : Entries, size : Int, bytes : Int] /\ a.i = current.i /\ a.size = bytes /\ a.bytes = bytes
      BY <1>1
    <3>2. appended' = appended \cup {a}
      BY <1>3
    <3> HIDE DEF a
    <3> QED BY <3>1, <3>2
  <2>3. Created'
    BY <1>1, <2>1, <2>2 DEF Created
  <2>4. EntriesAreFramed'
    BY <2>2 DEF Archived, EntriesAreFramed
  <2>5. \A j : Has(j) => Has(j)'
    BY <2>2 DEF Has
  <2>7. ~cut => \A j \in steady \ Odd : j < current.i + 1 => Has(j)'
    <3>1. ASSUME ~cut, NEW j \in steady \ Odd, j < current.i + 1
          PROVE  Has(j)'
      <4>1. j \in Nat /\ current.i \in Nat
        BY <1>1, Parents DEF Created, Entries
      <4>2. CASE j = current.i
        BY <2>2, <4>2 DEF Has
      <4>3. CASE j # current.i
        <5>1. j < current.i
          BY <3>1, <4>1, <4>3
        <5> QED BY <2>5, <3>1, <5>1 DEF Archived
      <4> QED BY <4>2, <4>3
    <3> QED BY <3>1
  <2>8. result # "ok"
    BY <1>1, Parents DEF Archived, Entries
  <2>9. Archived'
    <3>1. ~cut' => \A j \in steady' \ Odd : j < current'.i => Has(j)'
      BY <1>1, <2>1, <2>7
    <3>2. \A j \in steady' : source'[j] = 1
      BY <1>1 DEF Archived
    <3> QED BY <1>3, <2>1, <2>4, <2>8, <3>1, <3>2 DEF Archived
  <2> QED BY <1>1, <1>3, <2>3, <2>9
<1> QED BY <1>2, <1>3 DEF AppendEntry

LEMMA CreateStep ==
  ASSUME IInv, Create
  PROVE  IInv'
<1>1. /\ mode = "create" /\ UNCHANGED <<fixed, extraction, aborted>> /\ mode' = mode
      /\ Typed /\ Created /\ Archived /\ \A w \in Workers : late[w] = 0
  BY DEF Create, IInv, fixed
<1>2. current.i \in Entries => current.size \in Int /\ Bytes \in Int /\ (current.i \in steady => Bytes = 1)
  <2>1. SUFFICES ASSUME current.i \in Entries
                 PROVE  current.size \in Int /\ Bytes \in Int /\ (current.i \in steady => Bytes = 1)
    OBVIOUS
  <2>2. current.size \in Int /\ source[current.i] \in -1..2 /\ (current.i \in steady => source[current.i] = 1)
    BY <1>1, <2>1 DEF Created, Archived
  <2>3. source[current.i] \in Int
    BY <2>2
  <2> QED BY <2>2, <2>3 DEF Bytes
<1>3. Created' /\ Archived' /\ result' \in {result, "ok", "err"} /\ cut' \in {cut, TRUE}
  <2>1. CASE Stat \/ WalkEnds \/ OpenSource \/ Finish
    BY <1>1, <2>1, StatStep
  <2>2. ASSUME NEW allowed, AppendEntry(Bytes, Bytes, allowed)
        PROVE  Created' /\ Archived' /\ result' \in {result, "ok", "err"} /\ cut' \in {cut, TRUE}
    <3>1. current.i \in Entries
      BY <1>1, <2>2 DEF AppendEntry, Created
    <3> QED BY <1>1, <1>2, <2>2, <3>1, AppendStep
  <2>3. ASSUME NEW allowed, AppendEntry(current.size, Fixed(current.size, Bytes), allowed)
        PROVE  Created' /\ Archived' /\ result' \in {result, "ok", "err"} /\ cut' \in {cut, TRUE}
    <3>1. current.i \in Entries /\ (current.i \in steady => current.size = 1)
      BY <1>1, <2>3 DEF AppendEntry, Created, Archived
    <3>2. AppendEntry(current.size, current.size, allowed)
      BY <2>3 DEF Fixed
    <3> QED BY <1>1, <1>2, <3>1, <3>2, AppendStep
  <2> QED BY <2>1, <2>2, <2>3 DEF Create, CreateTar, CreateZip, CreateZipStreaming, Create7z
<1>4. Typed'
  BY <1>1, <1>3 DEF Typed, fixed, extraction
<1>5. \A w \in Workers : late'[w] = 0
  BY <1>1 DEF extraction
<1> QED BY <1>1, <1>3, <1>4, <1>5 DEF IInv

------------------------------------------------------------------------------
(* The theorems. *)

\* What the workers of an extraction begin with.
LEMMA StartParts ==
  ASSUME Init, mode = "extract", NEW w \in Workers
  PROVE  /\ thread[w] \in ThreadType /\ thread[w].at \in Places(w) /\ thread[w].at \notin InHand
         /\ thread[w].at # "next" => thread[w].rest = <<>>
         /\ w # Main => thread[w].rest = <<>> /\ (thread[w].at # "done" \/ type \notin Pooled)
         /\ type = "7z" => thread[w].at # "next"
<1>1. thread[w] = Start(type, w) /\ type \in Types
  BY DEF Init
<1>2. \A s \in Seq(Items) : Thread("next", s) \in ThreadType /\ Thread("next", s).at = "next"
  BY ThreadMade DEF At
<1>3. Traversal \in Seq(Items) /\ [i \in Entries |-> i] \in Seq(Items)
  <2>1. N \in Nat /\ Entries = 1..N
    BY Parents DEF Entries
  <2>2. [i \in Entries |-> i] \in [1..N -> Items]
    BY <2>1 DEF Items
  <2> QED BY <2>1, <2>2, TraversalLeft
<1>4. CASE w = Main /\ type = "none"
  <2> DEFINE one == CHOOSE i \in Wanted : i \notin Dirs
  <2>1. one \in Items
    BY <1>4 DEF Init, Wanted, Items
  <2>2. thread[w] = Thread("next", <<one>>)
    BY <1>1, <1>4 DEF Start, Pooled
  <2> HIDE DEF one
  <2>3. <<one>> \in Seq(Items)
    BY <2>1
  <2> QED BY <1>2, <1>4, <2>2, <2>3 DEF Places, InHand, Pooled
<1>5. CASE w = Main /\ type \in {"tar", "rar", "ddup"}
  <2>1. thread[w] = Thread("next", Traversal) \/ thread[w] = Thread("next", [i \in Entries |-> i])
    BY <1>1, <1>5 DEF Start, Pooled
  <2>2. thread[w] \in ThreadType /\ thread[w].at = "next"
    BY <1>2, <1>3, <2>1
  <2> QED BY <1>5, <2>2 DEF Places, InHand, Pooled
<1>6. CASE w # Main \/ type \in Pooled
  <2>1. PICK at \in {"join", "look", "pool", "done"} :
          /\ thread[w] = Thread(at, <<>>) /\ at \in Places(w)
          /\ w # Main /\ type \in Pooled => at # "done"
    BY <1>1, <1>6 DEF Start, Places, Types, Pooled, Sequential
  <2>2. thread[w] \in ThreadType /\ thread[w].at = at /\ thread[w].rest = <<>>
    <3>1. at \in At /\ <<>> \in Seq(Items)
      BY DEF At
    <3>2. Thread(at, <<>>) \in ThreadType /\ Thread(at, <<>>).at = at /\ Thread(at, <<>>).rest = <<>>
      BY <3>1, ThreadMade
    <3> QED BY <2>1, <3>2, Zenon
  <2> QED BY <2>1, <2>2 DEF InHand
<1> QED BY <1>1, <1>4, <1>5, <1>6 DEF Types, Pooled, Sequential

LEMMA InitStarts ==
  ASSUME Init
  PROVE  IInv
<1>1. /\ mode \in {"extract", "create"} /\ type \in Types /\ (type = "none" => \E i \in Wanted : i \notin Dirs)
      /\ index = 1 /\ spawned = {} /\ error = FALSE /\ aborted = FALSE /\ result = "none"
      /\ written = {} /\ dated = {} /\ cut = FALSE /\ late = [w \in Workers |-> 0]
      /\ source = [i \in Entries |-> 1]
      /\ current = [at |-> IF N = 0 THEN "finish" ELSE "stat", i |-> 1, size |-> 0]
      /\ appended = {} /\ steady = Entries /\ changes = 0
      /\ thread = [w \in Workers |-> IF mode = "create" THEN Thread("done", <<>>) ELSE Start(type, w)]
  BY DEF Init
<1>2. N \in Nat /\ Entries = 1..N
  BY Parents DEF Entries
<1>3. thread \in [Workers -> ThreadType]
  <2>1. CASE mode = "create"
    <3>1. "done" \in At /\ <<>> \in Seq(Items)
      BY DEF At
    <3>2. Thread("done", <<>>) \in ThreadType
      BY <3>1, ThreadMade
    <3> QED BY <1>1, <2>1, <3>2
  <2>2. CASE mode = "extract"
    <3>1. \A w \in Workers : thread[w] \in ThreadType
      BY <2>2, StartParts
    <3> QED BY <1>1, <3>1
  <2> QED BY <1>1, <2>1, <2>2
<1>4. Typed
  <2>1. late \in [Workers -> Nat] /\ index \in Nat \ {0} /\ spawned \subseteq Wanted \ Dirs
    BY <1>1
  <2>2. {error, aborted, cut} \subseteq BOOLEAN /\ result \in {"none", "ok", "err"}
    BY <1>1
  <2> QED BY <1>1, <1>3, <2>1, <2>2 DEF Typed
<1>5. Created
  <2>1. /\ current \in [at : {"stat", "open", "append", "finish", "done"}, i : 1..N + 1, size : Int]
        /\ current.i = 1 /\ current.at = IF N = 0 THEN "finish" ELSE "stat"
    BY <1>1, <1>2
  <2> QED BY <1>1, <1>2, <2>1 DEF Created
<1>6. ASSUME mode = "create"
      PROVE  Archived
  <2>1. current.i = 1 /\ current.at \notin {"open", "append"}
    BY <1>1
  <2> QED BY <1>1, <1>2, <2>1 DEF Archived, EntriesAreFramed
<1>7. ASSUME mode = "extract"
      PROVE  Extracted
  <2>1. ASSUME NEW w \in Workers
        PROVE  /\ thread[w].at \in Places(w) /\ thread[w].at \notin InHand
               /\ thread[w].at # "next" => thread[w].rest = <<>>
               /\ w # Main => thread[w].rest = <<>> /\ (thread[w].at # "done" \/ type \notin Pooled)
               /\ type = "7z" => thread[w].at # "next"
    BY <1>7, <2>1, StartParts
  <2>2. \A w \in Workers : Placed(w)
    <3>1. Len(<<>>) <= 1
      OBVIOUS
    <3> QED BY <2>1, <3>1 DEF Placed, InHand
  <2>3. \A w \in Workers : Heeded(w)
    BY <1>1, <2>1 DEF Heeded, InHand
  <2>4. Main \in Workers /\ Main \notin Threads /\ Threads \subseteq Workers
    BY ArchiveAssumption DEF Workers
  <2>5. thread[Main] = Start(type, Main)
    BY <1>1, <1>7, <2>4
  <2>6. Joined
    <3>1. thread[Main].at \in {"join", "next"} /\ (type \in Pooled => thread[Main].at = "join")
      BY <1>1, <2>5 DEF Start, Thread, Types, Pooled, Sequential
    <3> QED BY <1>1, <3>1 DEF Joined
  <2>7. ASSUME NEW i \in Due
        PROVE  Held(i) \/ Waiting(i)
    <3>1. i \in Wanted /\ i \in Entries
      BY <1>4, DueIsWanted DEF Wanted
    <3>2. CASE type = "zip"
      <4>1. Work = [j \in Entries |-> <<j>>] /\ DOMAIN Work = Entries /\ Work[i] = <<i>>
        BY <3>1, <3>2 DEF Work
      <4>2. i \in Range(<<i>>) /\ i >= 1
        BY <1>2, <3>1 DEF Range
      <4> QED BY <1>1, <3>1, <3>2, <4>1, <4>2 DEF Waiting, Pooled
    <3>3. CASE type = "7z"
      <4>1. Work = Blocks /\ Due = (UNION {Range(Blocks[b]) : b \in DOMAIN Blocks}) \ Odd
        BY <3>3 DEF Work, Due
      <4>2. PICK b \in DOMAIN Blocks : i \in Range(Blocks[b])
        BY <2>7, <4>1
      <4>3. b >= 1
        BY WorkIsSeq
      <4> QED BY <1>1, <3>3, <4>1, <4>2, <4>3 DEF Waiting, Pooled
    <3>4. CASE type = "none"
      <4>1. thread[Main] = Thread("next", <<i>>)
        BY <2>5, <2>7, <3>4 DEF Start, Due, Pooled
      <4>2. i \in Range(<<i>>)
        BY DEF Range
      <4> QED BY <2>4, <4>1, <4>2 DEF Held, Thread
    <3>5. CASE type \in {"tar", "rar"}
      <4>1. thread[Main] = Thread("next", [j \in Entries |-> j])
        BY <2>5, <3>5 DEF Start, Pooled
      <4>2. i \in Range([j \in Entries |-> j])
        BY <3>1 DEF Range
      <4> QED BY <2>4, <4>1, <4>2 DEF Held, Thread
    <3>6. CASE type = "ddup"
      <4>1. thread[Main] = Thread("next", Traversal)
        BY <2>5, <3>6 DEF Start, Pooled
      <4> QED BY <2>4, <3>1, <4>1, TraversalLeft DEF Held, Thread
    <3> QED BY <1>1, <3>2, <3>3, <3>4, <3>5, <3>6 DEF Types, Pooled, Sequential
  <2>8. Covered
    BY <2>1, <2>4, <2>7 DEF Covered
  <2>9. Left
    <3>1. type = "ddup" => thread[Main].rest = Traversal
      BY <2>5 DEF Start, Thread, Pooled
    <3> QED BY <1>1, <3>1, TraversalLeft DEF Left
  <2>10. SuccessIsComplete /\ TimesAreRestored
    BY <1>1 DEF SuccessIsComplete, TimesAreRestored
  <2> QED BY <2>2, <2>3, <2>6, <2>8, <2>9, <2>10 DEF Extracted
<1> QED BY <1>1, <1>4, <1>5, <1>6, <1>7 DEF IInv

LEMMA StepsKeep ==
  ASSUME IInv, [Next]_vars
  PROVE  IInv'
<1>1. CASE Next
  BY <1>1, AbortStep, CreateStep, ExtractStep, ChangeStep DEF Next
<1>2. CASE UNCHANGED vars
  <2>1. UNCHANGED <<fixed, extraction, creation, cut, aborted, result>> /\ Typed /\ Created
    BY <1>2 DEF vars, IInv
  <2>2. /\ mode' = mode /\ type' = type /\ thread' = thread /\ late' = late /\ index' = index
        /\ spawned' = spawned /\ error' = error /\ written' = written /\ dated' = dated /\ cut' = cut
        /\ source' = source /\ current' = current /\ appended' = appended /\ steady' = steady
        /\ changes' = changes /\ aborted' = aborted /\ result' = result
    BY <2>1 DEF fixed, extraction, creation
  <2>3. Typed' /\ Created'
    BY <2>1, <2>2 DEF Typed, Created
  <2>4. ASSUME Extracted
        PROVE  Extracted'
    <3>1. \A w \in Workers : Placed(w)' /\ Heeded(w)'
      BY <2>2, <2>4, PlacedStays, HeededStays DEF Extracted
    <3>2. Joined' /\ Left'
      BY <2>2, <2>4 DEF Extracted, Joined, Quiet, Left, LeftAgain
    <3>3. Covered'
      BY <2>2, <2>4 DEF Extracted, Covered, Held, Waiting, Work, Due
    <3>4. SuccessIsComplete' /\ TimesAreRestored'
      BY <2>2, <2>4 DEF Extracted, SuccessIsComplete, TimesAreRestored, Due
    <3> QED BY <3>1, <3>2, <3>3, <3>4 DEF Extracted
  <2>5. ASSUME Archived
        PROVE  Archived'
    BY <2>2, <2>5 DEF Archived, EntriesAreFramed, Has
  <2> QED BY <2>2, <2>3, <2>4, <2>5 DEF IInv
<1> QED BY <1>1, <1>2

\* The strengthening holds always.
THEOREM Invariance == Spec => []IInv
BY InitStarts, StepsKeep, PTL DEF Spec

\* Every variable stays in its range: what is written is in the archive and
\* neither absolute nor ignored, and a worker does only what a worker does.
THEOREM TypeCorrect == Spec => []TypeOK
<1>1. IInv => TypeOK
  <2>1. SUFFICES ASSUME IInv
                 PROVE  TypeOK
    OBVIOUS
  <2>2. Typed /\ Created
    BY <2>1 DEF IInv
  <2>3. \A w \in Workers : thread[w].at \in At
    BY <2>2, ThreadParts
  <2>4. current.i \in 1..N + 1 /\ (current.at = "stat" => current.i \in Entries)
    BY <2>2 DEF Created
  <2> QED BY <2>2, <2>3, <2>4 DEF TypeOK, Typed, At, Wanted
<1> QED BY <1>1, Invariance, PTL

\* SuccessIsComplete: an extraction that succeeds has written every entry that it
\* should, for any threads, blocks and failures; and an archive that was created
\* has every file that did not change.
THEOREM SuccessIsCompleteAlways == Spec => []SuccessIsComplete
<1>1. IInv => SuccessIsComplete
  <2>1. SUFFICES ASSUME IInv
                 PROVE  SuccessIsComplete
    OBVIOUS
  <2>2. CASE mode = "extract"
    BY <2>1, <2>2 DEF IInv, Extracted
  <2>3. CASE mode = "create"
    <3>1. Created /\ Archived
      BY <2>1, <2>3 DEF IInv
    <3>2. ASSUME result = "ok", ~cut, NEW i \in steady \ Odd
          PROVE  Has(i)
      <4>1. current.i = N + 1 /\ i \in 1..N /\ N \in Nat
        BY <3>1, <3>2, Parents DEF Archived, Created, Entries
      <4>2. i < current.i
        BY <4>1
      <4> QED BY <3>1, <3>2, <4>2 DEF Archived
    <3> QED BY <2>3, <3>2 DEF SuccessIsComplete, Has
  <2> QED BY <2>1, <2>2, <2>3 DEF IInv, Typed
<1> QED BY <1>1, Invariance, PTL

\* TimesAreRestored: after an extraction that succeeds every directory has the
\* time that the archive gives it, in whatever order things were made in it.
THEOREM TimesAreRestoredAlways == Spec => []TimesAreRestored
<1>1. IInv => TimesAreRestored
  BY DEF IInv, Extracted, TimesAreRestored
<1> QED BY <1>1, Invariance, PTL

\* NothingAfterReturn: when an extraction has returned, with or without an error,
\* none of its threads has anything left to do.
THEOREM NothingAfterReturnAlways == Spec => []NothingAfterReturn
<1>1. IInv => NothingAfterReturn
  BY DEF IInv, Extracted, Joined, NothingAfterReturn
<1> QED BY <1>1, Invariance, PTL

\* EntriesAreFramed: an entry of a new archive has as many bytes as its header
\* says, however the file changes under it.
THEOREM EntriesAreFramedAlways == Spec => []EntriesAreFramed
<1>1. IInv => EntriesAreFramed
  BY DEF IInv, Typed, Archived, EntriesAreFramed
<1> QED BY <1>1, Invariance, PTL

\* AbortIsHeeded: after the abort a worker begins at most the entry that it had
\* read, or what is left of its block of a 7z archive.
THEOREM AbortIsHeededAlways == Spec => []AbortIsHeeded
<1>1. IInv => AbortIsHeeded
  <2>1. SUFFICES ASSUME IInv, NEW w \in Workers
                 PROVE  late[w] <= 1 \/ (type = "7z" /\ Fits(late[w]))
    BY DEF AbortIsHeeded, Fits
  <2>2. CASE mode = "create"
    BY <2>1, <2>2 DEF IInv
  <2>3. CASE mode = "extract"
    BY <2>1, <2>3 DEF IInv, Extracted, Heeded
  <2> QED BY <2>1, <2>2, <2>3 DEF IInv, Typed
<1> QED BY <1>1, Invariance, PTL
===============================================================================
