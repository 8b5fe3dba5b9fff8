-------------------------- MODULE SharedStateProofs --------------------------
(***************************************************************************)
(* Proofs about the state that requests of a server share: StateLock, for  *)
(* any number of callers and observers, Operations, for any number of      *)
(* requests and any limit, and Files, for any number of clients,           *)
(* directories and files.  None of the three knows of the others.          *)
(***************************************************************************)
EXTENDS StateLock, Operations, Files, FiniteSetTheorems, WellFoundedInduction, TLAPS

(***************************************************************************)
(* The strengthening.  A task whose set_state has stored but not sent is   *)
(* at a call of set_state (SendInSet); as long as no two set_state calls   *)
(* ran side by side there is at most one such task, it is about to send    *)
(* the current state, and when there is none the last message is right.    *)
(***************************************************************************)
SendInSet == \A p \in Procs : phase[p] = "send" => pc[p] \in SetPoints

Quiet == \A p \in Procs : phase[p] = "store"

SendersAgree ==
  ~overlapped =>
    /\ \A p, q \in Procs : phase[p] = "send" /\ phase[q] = "send" => p = q
    /\ \A p \in Procs : phase[p] = "send" => loc[p].target = state
    /\ Quiet => status = state \/ (status = NoState /\ state = "offline")

IInv == LockTypeOK /\ SendInSet /\ LockIsHeld /\ SendersAgree

\* The strengthening holds when the lock is made (ServerStateLock::new).
LEMMA InitIInv == LockInit => IInv
<1> SUFFICES ASSUME LockInit PROVE IInv OBVIOUS
<1>1. LockTypeOK
  BY DEF LockInit, LockTypeOK, Locals, FreshLocals, ServerState, ProgramPoints, Phases, WaitTimes
<1>2. SendInSet /\ LockIsHeld BY DEF LockInit, SendInSet, LockIsHeld
<1>3. SendersAgree BY DEF LockInit, SendersAgree
<1> QED
  BY <1>1, <1>2, <1>3 DEF IInv

\* The steps of execute_action leave `phase', `status' and `overlapped' alone;
\* the types of the locals and the lock are what they can disturb.
LEMMA TypeStep == LockTypeOK /\ SendInSet /\ [LockNext]_lockVars => LockTypeOK'
<1> SUFFICES ASSUME LockTypeOK, SendInSet, [LockNext]_lockVars PROVE LockTypeOK' OBVIOUS
<1> USE StateLockAssumption DEF LockTypeOK, Locals, ServerState, ProgramPoints, Phases, WaitTimes,
        Inside, Goto, Procs
<1>1. ASSUME NEW p \in Callers, NEW s \in {"starting", "stopping"}, NEW wait \in Timeouts,
             Call(p, s, wait)
      PROVE  LockTypeOK'
  BY <1>1 DEF Call, FreshLocals
<1>2. ASSUME NEW p \in Callers, Advance(p) PROVE LockTypeOK'
  <2> p \in Procs OBVIOUS
  <2>1. CASE ProbeFree(p)
    <3>1. PICK b \in BOOLEAN : b = (loc[p].wait = "some") OBVIOUS
    <3>2. loc' = [loc EXCEPT ![p].aquired = b] BY <2>1, <3>1 DEF ProbeFree
    <3> QED
      BY <2>1, <3>2 DEF ProbeFree
  <2>2. CASE ProbeRefused(p) BY <2>2 DEF ProbeRefused, FreshLocals
  <2>3. CASE ProbeBusy(p) \/ ProbeExpired(p) BY <2>3 DEF ProbeBusy, ProbeExpired
  <2>4. CASE Take(p) BY <2>4 DEF Take
  <2>5. CASE ActionOk(p) BY <2>5 DEF ActionOk, FreshLocals
  <2>6. CASE ActionErr(p) BY <2>6 DEF ActionErr
  <2>7. CASE ReleaseOk(p) \/ ReleaseErr(p)
    <3>1. /\ pc' = [pc EXCEPT ![p] = "idle"] /\ locked' = FALSE
          /\ loc' = [loc EXCEPT ![p] = FreshLocals]
          /\ UNCHANGED <<state, phase, status, overlapped>>
      BY <2>7 DEF ReleaseOk, ReleaseErr, Release
    <3> QED
      BY <3>1 DEF FreshLocals
  <2> QED
    BY <1>2, <2>1, <2>2, <2>3, <2>4, <2>5, <2>6, <2>7 DEF Advance
<1>3. ASSUME NEW p \in Observers, NEW s \in {"offline", "running"}, Observe(p, s)
      PROVE  LockTypeOK'
  BY <1>3 DEF Observe
<1>4. ASSUME NEW p \in Procs, SetState(p) PROVE LockTypeOK'
  <2>1. CASE SetSame(p) BY <2>1 DEF SetSame, SetPoints, Finish, After
  <2>2. CASE SetStore(p) BY <2>2 DEF SetStore
  <2>3. CASE SetSend(p) BY <2>3 DEF SetSend, Finish, After
  <2> QED
    BY <1>4, <2>1, <2>2, <2>3 DEF SetState
<1>5. CASE UNCHANGED lockVars BY <1>5 DEF lockVars
<1> QED
  BY <1>1, <1>2, <1>3, <1>4, <1>5 DEF LockNext

\* A caller between raising and clearing `locked' leaves that region only
\* through Release, which clears the flag.
LEMMA LockStep == IInv /\ [LockNext]_lockVars => LockIsHeld' /\ SendInSet'
<1> SUFFICES ASSUME LockTypeOK, SendInSet, LockIsHeld, [LockNext]_lockVars
             PROVE  LockIsHeld' /\ SendInSet'
  BY DEF IInv
<1> USE StateLockAssumption DEF LockTypeOK, LockIsHeld, SendInSet, Inside, SetPoints, Goto, Procs,
        Phases, ProgramPoints
<1>1. ASSUME NEW p \in Callers, NEW s \in {"starting", "stopping"}, NEW wait \in Timeouts,
             Call(p, s, wait)
      PROVE  LockIsHeld' /\ SendInSet'
  BY <1>1 DEF Call
<1>2. ASSUME NEW p \in Callers, Advance(p) PROVE LockIsHeld' /\ SendInSet'
  BY <1>2 DEF Advance, ProbeFree, ProbeRefused, ProbeBusy, ProbeExpired, Take, ActionOk,
              ActionErr, ReleaseOk, ReleaseErr, Release
<1>3. ASSUME NEW p \in Observers, NEW s \in {"offline", "running"}, Observe(p, s)
      PROVE  LockIsHeld' /\ SendInSet'
  BY <1>3 DEF Observe
<1>4. ASSUME NEW p \in Procs, SetState(p) PROVE LockIsHeld' /\ SendInSet'
  BY <1>4 DEF SetState, SetSame, SetStore, SetSend, Finish, After
<1>5. CASE UNCHANGED lockVars BY <1>5 DEF lockVars
<1> QED
  BY <1>1, <1>2, <1>3, <1>4, <1>5 DEF LockNext

\* Only a task that has not stored changes its target, and a store that finds
\* another task about to send raises `overlapped'.
LEMMA SendersStep == IInv /\ [LockNext]_lockVars => SendersAgree'
<1> SUFFICES ASSUME LockTypeOK, SendInSet, SendersAgree, [LockNext]_lockVars, ~overlapped'
             PROVE  SendersAgree'
  BY DEF IInv, SendersAgree
<1> USE DEF LockTypeOK, SendInSet, Phases, ProgramPoints
<1>1. ASSUME NEW p \in Procs, phase[p] = "store",
             loc' = [loc EXCEPT ![p] = loc'[p]],
             UNCHANGED <<state, phase, status, overlapped>>
      PROVE  SendersAgree'
  BY <1>1 DEF SendersAgree, Quiet
<1>2. ASSUME NEW p \in Callers, NEW s \in {"starting", "stopping"}, NEW wait \in Timeouts,
             Call(p, s, wait)
      PROVE  SendersAgree'
  BY <1>1, <1>2 DEF Call, Goto, SetPoints, Procs
<1>3. ASSUME NEW p \in Callers, Advance(p) PROVE SendersAgree'
  <2>1. phase[p] = "store"
    BY <1>3 DEF Advance, ProbeFree, ProbeRefused, ProbeBusy, ProbeExpired, Take, ActionOk,
                ActionErr, ReleaseOk, ReleaseErr, Release, Goto, SetPoints, Procs
  <2> QED
    BY <1>1, <1>3, <2>1 DEF Advance, ProbeFree, ProbeRefused, ProbeBusy, ProbeExpired, Take,
                ActionOk, ActionErr, ReleaseOk, ReleaseErr, Release, Procs
<1>4. ASSUME NEW p \in Observers, NEW s \in {"offline", "running"}, Observe(p, s)
      PROVE  SendersAgree'
  BY <1>1, <1>4 DEF Observe, Goto, SetPoints, Procs
<1>5. ASSUME NEW p \in Procs, SetSame(p) PROVE SendersAgree' BY <1>1, <1>5 DEF SetSame, Finish
<1>6. ASSUME NEW p \in Procs, SetStore(p) PROVE SendersAgree'
  BY <1>6 DEF SetStore, SendersAgree, Quiet
<1>7. ASSUME NEW p \in Procs, SetSend(p) PROVE SendersAgree'
  BY <1>7 DEF SetSend, Finish, SendersAgree, Quiet
<1>8. CASE UNCHANGED lockVars BY <1>8 DEF lockVars, SendersAgree, Quiet
<1> QED
  BY <1>2, <1>3, <1>4, <1>5, <1>6, <1>7, <1>8 DEF LockNext, SetState

\* Every step of execute_action and of set_state keeps the strengthening.
LEMMA StepIInv == IInv /\ [LockNext]_lockVars => IInv'
BY TypeStep, LockStep, SendersStep DEF IInv

\* The strengthening holds in every reachable state of the lock.
LEMMA Inductive == LockSpec => []IInv
BY InitIInv, StepIInv, PTL DEF LockSpec

\* Every variable of the state lock keeps its type, for any number of tasks.
THEOREM LockTypeCorrect == LockSpec => []LockTypeOK
<1>1. IInv => LockTypeOK BY DEF IInv
<1> QED
  BY <1>1, Inductive, PTL

\* The lock is never leaked: however many actions overlap, time out or fail,
\* `locked' is clear again once the last of them is done.
THEOREM LockIsNeverLeaked == LockSpec => []LockIsHeld
<1>1. IInv => LockIsHeld BY DEF IInv
<1> QED
  BY <1>1, Inductive, PTL

\* Unless two set_state calls ran side by side, websocket clients learn the
\* current state: it was the last one sent, or is about to be sent.
THEOREM StatusIsTruthful == LockSpec => []StatusFollowsState
<1>1. IInv => StatusFollowsState
  BY DEF IInv, LockTypeOK, Phases, SendersAgree, Quiet, StatusFollowsState
<1> QED
  BY <1>1, Inductive, PTL

-----------------------------------------------------------------------------
(***************************************************************************)
(* The strengthening: a task exists only once its handler has spawned it.  *)
(***************************************************************************)
SpawnedOnce == \A r \in Requests : at[r] \in {"new", "create"} => task[r] = "none"

OperationsInv == OperationsTypeOK /\ SpawnedOnce /\ RunningIsAbortable

\* No operation is running when the manager is made.
LEMMA InitOperations == OperationsInit => OperationsInv
BY DEF OperationsInit, OperationsInv, OperationsTypeOK, SpawnedOnce, RunningIsAbortable, Points, Stages

\* Every step of the pull handlers, of the tasks and of their removal keeps the strengthening.
LEMMA StepOperations == OperationsInv /\ [OperationsNext]_operationsVars => OperationsInv'
<1> SUFFICES ASSUME OperationsInv, [OperationsNext]_operationsVars PROVE OperationsInv' OBVIOUS
<1> USE DEF OperationsInv, OperationsTypeOK, SpawnedOnce, RunningIsAbortable, Points, Stages, Move, Ends
<1>1. ASSUME NEW r \in Requests, Check(r) PROVE OperationsInv' BY <1>1 DEF Check, Swept
<1>2. ASSUME NEW r \in Requests, CreateFails(r) \/ Create(r) PROVE OperationsInv'
  BY <1>2 DEF CreateFails, Create
<1>3. ASSUME NEW r \in Requests, Insert(r) \/ InsertPull(r) PROVE OperationsInv'
  BY <1>3 DEF Insert, InsertPull
<1>4. ASSUME NEW r \in Requests, Disconnect(r) PROVE OperationsInv' BY <1>4 DEF Disconnect
<1>5. ASSUME NEW r \in Requests, Complete(r) \/ Aborted(r) \/ RemoveOperation(r) PROVE OperationsInv'
  BY <1>5 DEF Complete, Aborted, RemoveOperation
<1>6. ASSUME NEW r \in Requests, DeleteOperation(r) \/ DeletePull(r) \/ ForgetPull(r)
      PROVE  OperationsInv'
  BY <1>6 DEF DeleteOperation, DeletePull, ForgetPull, Abort
<1>7. CASE UNCHANGED operationsVars BY <1>7 DEF operationsVars
<1> QED
  BY <1>1, <1>2, <1>3, <1>4, <1>5, <1>6, <1>7 DEF OperationsNext, Handler, Ending

\* The strengthening holds in every reachable state of the operation manager.
LEMMA OperationsInductive == OperationsSpec => []OperationsInv
BY InitOperations, StepOperations, PTL DEF OperationsSpec

\* However requests, disconnects, completions and DELETEs interleave, a running
\* filesystem operation can be aborted or has been told to stop.
THEOREM OperationsAreAbortable == OperationsSpec => []RunningIsAbortable
<1>1. OperationsInv => RunningIsAbortable BY DEF OperationsInv
<1> QED
  BY <1>1, OperationsInductive, PTL

------------------------------------------------------------------------------
(***************************************************************************)
(* Files.  Three invariants, one on top of the other:                      *)
(*                                                                         *)
(*   Base       the types, the record that each client has at each step of *)
(*              its operation, and what an undisturbed recount has counted *)
(*   Accounted  Base, and unless operations overlapped on a file, the      *)
(*              total covers the disk between the two steps of a recount,  *)
(*              and at all other times the books are kept:                 *)
(*              `due' says what the account should hold for a file,        *)
(*              `gap' by how much the files of a client exceed that,       *)
(*              `worth' what the account does hold for a place; and the    *)
(*              total stays far from the end of its word                   *)
(*   Clean      in a history without overlaps and losses, the total and    *)
(*              what is about to be added stay below a ceiling             *)
(*                                                                         *)
(* The sums over files and clients come first.                             *)
(***************************************************************************)

------------------------------------------------------------------------------
(* Sums over finite sets. *)

\* A set of naturals that is not empty has a least member.
LEMMA Least ==
  ASSUME NEW S, S \subseteq Nat, S # {}
  PROVE  \E x \in S : \A y \in S : x =< y
<1> DEFINE Less == {ss \in Nat \X Nat : ss[1] < ss[2]}
<1>1. IsWellFoundedOn(Less, Nat)
  <2>1. OpToRel(<, Nat) = Less BY DEF OpToRel
  <2> QED BY <2>1, NatLessThanWellFounded, Zenon
<1>2. \A x, y \in Nat : ~(<<y, x>> \in Less) => x =< y OBVIOUS
<1> HIDE DEF Less
<1>3. PICK x \in S : \A y \in S : ~(<<y, x>> \in Less) BY <1>1, WFMin, Zenon
<1> QED BY <1>2, <1>3

\* Induction over the subsets of a finite set: a set of subsets that is not empty
\* has a member none of whose proper parts, less one element, is in it.
LEMMA Smallest ==
  ASSUME NEW S, IsFiniteSet(S), NEW Bad, Bad \subseteq SUBSET S, Bad # {}
  PROVE  \E T \in Bad : \A x \in T : T \ {x} \notin Bad
<1> DEFINE Ns == {Cardinality(T) : T \in Bad}
<1>1. \A T \in Bad : IsFiniteSet(T) /\ Cardinality(T) \in Nat BY FS_Subset, FS_CardinalityType
<1>2. Ns \subseteq Nat /\ Ns # {} BY <1>1
<1>3. PICK n \in Ns : \A m \in Ns : n =< m
  <2> HIDE DEF Ns
  <2> QED BY <1>2, Least
<1>4. PICK T \in Bad : Cardinality(T) = n BY <1>3
<1>5. ASSUME NEW x \in T, T \ {x} \in Bad PROVE FALSE
  <2>1. Cardinality(T \ {x}) = Cardinality(T) - 1 BY <1>1, FS_RemoveElement
  <2>2. Cardinality(T \ {x}) \in Ns BY <1>5
  <2>3. n =< Cardinality(T \ {x}) BY <1>3, <2>2
  <2> QED BY <1>1, <1>4, <2>1, <2>3
<1> QED BY <1>5

Pick(T) == CHOOSE x \in T : TRUE
Value(g, h, T) == IF T = {} THEN 0 ELSE g[Pick(T)] + h[T \ {Pick(T)}]
Solves(g, S, h) == h = [T \in SUBSET S |-> Value(g, h, T)]
Sums(g, S) == CHOOSE h : Solves(g, S, h)

\* The sum of the community modules is the recursive function whose lemmas follow; every
\* size in the account is such a sum.
LEMMA TotalIs ==
  ASSUME NEW g, NEW S
  PROVE  Total(g, S) = Sums(g, S)[S]
BY Zenon DEF Total, MapThenSumSet, MapThenFoldSet, Sums, Solves, Value, Pick

\* The recursion that defines a sum has a solution.
LEMMA SumsSolution ==
  ASSUME NEW S, IsFiniteSet(S), NEW g \in [S -> Int]
  PROVE  \E h : Solves(g, S, h)
<1> DEFINE Upto(h, n) == \A T \in SUBSET S : Cardinality(T) <= n => h[T] = Value(g, h, T)
           Open_ == {n \in Nat : ~\E h \in [SUBSET S -> Int] : Upto(h, n)}
<1>1. \A T \in SUBSET S : IsFiniteSet(T) /\ Cardinality(T) \in Nat /\ Cardinality(T) <= Cardinality(S)
  BY FS_Subset, FS_CardinalityType
<1>2. \A T \in SUBSET S : T # {} => Pick(T) \in T /\ Pick(T) \in S /\ T \ {Pick(T)} \in SUBSET S
                                    /\ Cardinality(T \ {Pick(T)}) = Cardinality(T) - 1
  BY <1>1, FS_RemoveElement DEF Pick
<1>3. Open_ = {}
  <2>1. SUFFICES ASSUME NEW n \in Open_, \A m \in Open_ : n =< m PROVE FALSE
    BY Least
  <2>2. n \in Nat /\ ~\E h \in [SUBSET S -> Int] : Upto(h, n) OBVIOUS
  <2>3. CASE n = 0
    <3>1. PICK h : h = [T \in SUBSET S |-> 0] OBVIOUS
    <3>2. h \in [SUBSET S -> Int] BY <3>1
    <3>3. \A T \in SUBSET S : Cardinality(T) <= 0 => T = {} BY <1>1, FS_EmptySet
    <3>4. \A T \in SUBSET S : h[T] = 0 BY <3>1
    <3>5. ASSUME NEW T \in SUBSET S, Cardinality(T) <= 0 PROVE h[T] = Value(g, h, T)
      BY <3>3, <3>4, <3>5 DEF Value
    <3> QED BY <2>2, <2>3, <3>2, <3>5
  <2>4. CASE n # 0
    <3>1. n - 1 \in Nat /\ n - 1 \notin Open_
      <4>1. n - 1 \in Nat /\ ~(n =< n - 1) BY <2>2, <2>4
      <4> HIDE DEF Open_
      <4> QED BY <2>1, <4>1
    <3>2. PICK h \in [SUBSET S -> Int] : Upto(h, n - 1) BY <3>1
    <3>3. ASSUME NEW T \in SUBSET S PROVE Value(g, h, T) \in Int
      <4>1. CASE T = {} BY <4>1 DEF Value
      <4>2. CASE T # {}
        <5>1. Pick(T) \in S /\ T \ {Pick(T)} \in SUBSET S BY <1>2, <4>2
        <5>2. g[Pick(T)] \in Int /\ h[T \ {Pick(T)}] \in Int BY <5>1
        <5> QED BY <4>2, <5>2 DEF Value
      <4> QED BY <4>1, <4>2
    <3>4. PICK k : k = [T \in SUBSET S |-> IF Cardinality(T) = n THEN Value(g, h, T) ELSE h[T]]
      OBVIOUS
    <3>5. k \in [SUBSET S -> Int] BY <3>2, <3>3, <3>4
    <3>6. ASSUME NEW T \in SUBSET S, Cardinality(T) <= n PROVE k[T] = Value(g, k, T)
      <4>1. Value(g, k, T) = Value(g, h, T)
        <5>1. CASE T = {} BY <5>1 DEF Value
        <5>2. CASE T # {}
          <6>1. T \ {Pick(T)} \in SUBSET S /\ Cardinality(T \ {Pick(T)}) = Cardinality(T) - 1
            BY <1>2, <5>2
          <6>2. k[T \ {Pick(T)}] = h[T \ {Pick(T)}] BY <1>1, <2>2, <3>4, <3>6, <6>1
          <6> QED BY <6>2 DEF Value
        <5> QED BY <5>1, <5>2
      <4>2. CASE Cardinality(T) = n BY <3>4, <4>1, <4>2
      <4>3. CASE Cardinality(T) # n
        <5>1. Cardinality(T) <= n - 1 BY <1>1, <2>2, <3>6, <4>3
        <5> QED BY <3>2, <3>4, <4>1, <4>3, <5>1
      <4> QED BY <4>2, <4>3
    <3>7. Upto(k, n) BY <3>6
    <3> QED BY <2>2, <3>5, <3>7
  <2> QED BY <2>3, <2>4
<1>4. Cardinality(S) \in Nat BY FS_CardinalityType
<1>5. PICK h \in [SUBSET S -> Int] : Upto(h, Cardinality(S)) BY <1>3, <1>4
<1>6. \A T \in SUBSET S : h[T] = Value(g, h, T) BY <1>1, <1>5
<1>7. Solves(g, S, h) BY <1>5, <1>6 DEF Solves
<1> QED BY <1>7

\* The recursive function of the sums satisfies its equation, on every subset of a finite
\* set.
LEMMA SumsStep ==
  ASSUME NEW S, IsFiniteSet(S), NEW g \in [S -> Int]
  PROVE  \A T \in SUBSET S : Sums(g, S)[T] = Value(g, Sums(g, S), T)
<1>1. Solves(g, S, Sums(g, S)) BY SumsSolution, Zenon DEF Sums
<1>2. PICK h : h = Sums(g, S) OBVIOUS
<1>3. h = [T \in SUBSET S |-> Value(g, h, T)] BY <1>1, <1>2 DEF Solves
<1>4. \A T \in SUBSET S : h[T] = Value(g, h, T) BY <1>3
<1> QED BY <1>2, <1>4

\* What is left of a set without the element that was picked.
LEMMA PickRest ==
  ASSUME NEW S, NEW T \in SUBSET S, T # {}
  PROVE  Pick(T) \in T /\ Pick(T) \in S /\ T \ {Pick(T)} \in SUBSET S
BY DEF Pick

\* The sums are integers.
LEMMA SumsInt ==
  ASSUME NEW S, IsFiniteSet(S), NEW g \in [S -> Int]
  PROVE  \A T \in SUBSET S : Sums(g, S)[T] \in Int
<1>1. PICK h : h = Sums(g, S) OBVIOUS
<1>2. \A T \in SUBSET S : h[T] = Value(g, h, T) BY <1>1, SumsStep
<1> DEFINE Bad == {T \in SUBSET S : h[T] \notin Int}
<1>3. Bad \subseteq SUBSET S OBVIOUS
<1>4. ASSUME NEW T \in Bad, \A x \in T : T \ {x} \notin Bad PROVE FALSE
  <2>1. CASE T = {}
    <3>1. h[T] = 0 BY <1>2, <2>1, Zenon DEF Value
    <3> QED BY <3>1
  <2>2. CASE T # {}
    <3>1. Pick(T) \in T /\ Pick(T) \in S /\ T \ {Pick(T)} \in SUBSET S BY <2>2, PickRest
    <3>2. h[T] = g[Pick(T)] + h[T \ {Pick(T)}] BY <1>2, <2>2 DEF Value
    <3>3. h[T \ {Pick(T)}] \in Int /\ g[Pick(T)] \in Int BY <1>4, <3>1
    <3> QED BY <3>2, <3>3
  <2> QED BY <2>1, <2>2
<1>5. Bad = {}
  <2> HIDE DEF Bad
  <2> QED BY <1>3, <1>4, Smallest
<1> QED BY <1>1, <1>5

\* A finite sum of integers, such as a total of sizes, is an integer.
LEMMA TotalInt ==
  ASSUME NEW S, IsFiniteSet(S), NEW g \in [S -> Int]
  PROVE  Total(g, S) \in Int
BY SumsInt, TotalIs

\* A larger summand gives a larger sum.
LEMMA TotalMono ==
  ASSUME NEW S, IsFiniteSet(S), NEW f \in [S -> Int], NEW g \in [S -> Int],
         \A x \in S : f[x] <= g[x]
  PROVE  Total(f, S) <= Total(g, S)
<1>1. PICK h, k : h = Sums(f, S) /\ k = Sums(g, S) OBVIOUS
<1>2. \A T \in SUBSET S : h[T] = Value(f, h, T) /\ k[T] = Value(g, k, T) BY <1>1, SumsStep
<1>3. \A T \in SUBSET S : h[T] \in Int /\ k[T] \in Int BY <1>1, SumsInt
<1> DEFINE Bad == {T \in SUBSET S : ~(h[T] <= k[T])}
<1>4. Bad \subseteq SUBSET S OBVIOUS
<1>5. ASSUME NEW T \in Bad, \A x \in T : T \ {x} \notin Bad PROVE FALSE
  <2>1. CASE T = {} BY <1>2, <2>1 DEF Value
  <2>2. CASE T # {}
    <3>1. Pick(T) \in T /\ Pick(T) \in S /\ T \ {Pick(T)} \in SUBSET S BY <2>2, PickRest
    <3>2. h[T] = f[Pick(T)] + h[T \ {Pick(T)}] /\ k[T] = g[Pick(T)] + k[T \ {Pick(T)}]
      BY <1>2, <2>2 DEF Value
    <3>3. h[T \ {Pick(T)}] <= k[T \ {Pick(T)}] BY <1>5, <3>1
    <3>4. f[Pick(T)] <= g[Pick(T)] /\ f[Pick(T)] \in Int /\ g[Pick(T)] \in Int BY <3>1
    <3>5. h[T \ {Pick(T)}] \in Int /\ k[T \ {Pick(T)}] \in Int BY <1>3, <3>1
    <3>6. h[T] <= k[T] BY <3>2, <3>3, <3>4, <3>5
    <3> QED BY <1>5, <3>6
  <2> QED BY <2>1, <2>2
<1>6. Bad = {}
  <2> HIDE DEF Bad
  <2> QED BY <1>4, <1>5, Smallest
<1> QED BY <1>1, <1>6, TotalIs

\* A change of one summand changes the sum by as much.
LEMMA TotalChange ==
  ASSUME NEW S, IsFiniteSet(S), NEW f \in [S -> Int], NEW g \in [S -> Int],
         NEW z \in S, \A x \in S : x # z => f[x] = g[x]
  PROVE  Total(g, S) = Total(f, S) - f[z] + g[z]
<1>1. PICK h, k : h = Sums(f, S) /\ k = Sums(g, S) OBVIOUS
<1>2. \A T \in SUBSET S : h[T] = Value(f, h, T) /\ k[T] = Value(g, k, T) BY <1>1, SumsStep
<1>3. \A T \in SUBSET S : h[T] \in Int /\ k[T] \in Int BY <1>1, SumsInt
<1> DEFINE Bad == {T \in SUBSET S : k[T] # h[T] + IF z \in T THEN g[z] - f[z] ELSE 0}
<1>4. Bad \subseteq SUBSET S OBVIOUS
<1>5. ASSUME NEW T \in Bad, \A x \in T : T \ {x} \notin Bad PROVE FALSE
  <2>1. CASE T = {}
    <3>1. h[T] = 0 /\ k[T] = 0 BY <1>2, <2>1, Zenon DEF Value
    <3> QED BY <2>1, <3>1
  <2>2. CASE T # {}
    <3> DEFINE y == Pick(T)
               U == T \ {y}
    <3>1. y \in T /\ y \in S /\ U \in SUBSET S BY <2>2, PickRest
    <3>2. h[T] = f[y] + h[U] /\ k[T] = g[y] + k[U] BY <1>2, <2>2 DEF Value
    <3>3. k[U] = h[U] + IF z \in U THEN g[z] - f[z] ELSE 0 BY <1>5, <3>1
    <3>4. /\ f[y] \in Int /\ g[y] \in Int /\ f[z] \in Int /\ g[z] \in Int
          /\ y # z => f[y] = g[y]
      BY <3>1
    <3>5. h[U] \in Int /\ k[U] \in Int BY <1>3, <3>1
    <3>6. z \in U <=> z \in T /\ z # y OBVIOUS
    <3> HIDE DEF y, U
    <3>7. k[T] = h[T] + IF z \in T THEN g[z] - f[z] ELSE 0 BY <3>1, <3>2, <3>3, <3>4, <3>5, <3>6
    <3> QED BY <1>5, <3>7
  <2> QED BY <2>1, <2>2
<1>6. Bad = {}
  <2> HIDE DEF Bad
  <2> QED BY <1>4, <1>5, Smallest
<1>7. k[S] = h[S] + (g[z] - f[z]) BY <1>6
<1>8. k[S] \in Int /\ h[S] \in Int /\ g[z] \in Int /\ f[z] \in Int BY <1>3
<1> QED BY <1>1, <1>7, <1>8, TotalIs

\* A sum of zeros.
LEMMA TotalZero ==
  ASSUME NEW S, IsFiniteSet(S), NEW g, g = [x \in S |-> 0]
  PROVE  Total(g, S) = 0
<1>1. PICK h : h = Sums(g, S) OBVIOUS
<1>2. g \in [S -> Int] OBVIOUS
<1>3. \A T \in SUBSET S : h[T] = Value(g, h, T) BY <1>1, <1>2, SumsStep
<1> DEFINE Bad == {T \in SUBSET S : h[T] # 0}
<1>4. Bad \subseteq SUBSET S OBVIOUS
<1>5. ASSUME NEW T \in Bad, \A x \in T : T \ {x} \notin Bad PROVE FALSE
  <2>1. CASE T = {} BY <1>3, <2>1 DEF Value
  <2>2. CASE T # {}
    <3>1. Pick(T) \in T /\ Pick(T) \in S /\ T \ {Pick(T)} \in SUBSET S BY <2>2, PickRest
    <3>2. h[T] = g[Pick(T)] + h[T \ {Pick(T)}] BY <1>3, <2>2 DEF Value
    <3>3. h[T \ {Pick(T)}] = 0 /\ g[Pick(T)] = 0 BY <1>5, <3>1
    <3> QED BY <1>5, <3>2, <3>3
  <2> QED BY <2>1, <2>2
<1>6. Bad = {}
  <2> HIDE DEF Bad
  <2> QED BY <1>4, <1>5, Smallest
<1> QED BY <1>1, <1>6, TotalIs

\* Summands of which none exceeds a number.
LEMMA TotalBound ==
  ASSUME NEW S, IsFiniteSet(S), NEW g \in [S -> Int], NEW m \in Nat, \A x \in S : g[x] <= m
  PROVE  Total(g, S) <= m * Cardinality(S)
<1>1. PICK h : h = Sums(g, S) OBVIOUS
<1>2. \A T \in SUBSET S : h[T] = Value(g, h, T) BY <1>1, SumsStep
<1>3. \A T \in SUBSET S : h[T] \in Int /\ IsFiniteSet(T) /\ Cardinality(T) \in Nat
  BY <1>1, SumsInt, FS_Subset, FS_CardinalityType
<1> DEFINE Bad == {T \in SUBSET S : ~(h[T] <= m * Cardinality(T))}
<1>4. Bad \subseteq SUBSET S OBVIOUS
<1>5. ASSUME NEW T \in Bad, \A x \in T : T \ {x} \notin Bad PROVE FALSE
  <2>1. CASE T = {}
    <3>1. h[T] = 0 BY <1>2, <2>1, Zenon DEF Value
    <3>2. m * Cardinality(T) = 0 BY <2>1, FS_EmptySet
    <3> QED BY <3>1, <3>2
  <2>2. CASE T # {}
    <3>1. Pick(T) \in T /\ Pick(T) \in S /\ T \ {Pick(T)} \in SUBSET S BY <2>2, PickRest
    <3>2. h[T] = g[Pick(T)] + h[T \ {Pick(T)}] BY <1>2, <2>2 DEF Value
    <3>3. h[T \ {Pick(T)}] <= m * Cardinality(T \ {Pick(T)}) BY <1>5, <3>1
    <3>4. Cardinality(T \ {Pick(T)}) = Cardinality(T) - 1 BY <1>3, <3>1, FS_RemoveElement
    <3>5. PICK n \in Nat : n = Cardinality(T) BY <1>3
    <3>6. PICK p \in Int : p = h[T \ {Pick(T)}] BY <1>3, <3>1
    <3>7. PICK q \in Int : q = g[Pick(T)] BY <3>1
    <3>8. q <= m /\ p <= m * (n - 1) BY <3>1, <3>3, <3>4, <3>5, <3>6, <3>7
    <3>9. q + p <= m * n BY <3>8
    <3> QED BY <1>5, <3>2, <3>5, <3>6, <3>7, <3>9
  <2> QED BY <2>1, <2>2
<1>6. Bad = {}
  <2> HIDE DEF Bad
  <2> QED BY <1>4, <1>5, Smallest
<1> QED BY <1>1, <1>6, TotalIs

\* None of the summands of a sum of naturals exceeds it.
LEMMA TotalMember ==
  ASSUME NEW S, IsFiniteSet(S), NEW g \in [S -> Int], \A x \in S : g[x] >= 0, NEW z \in S
  PROVE  g[z] <= Total(g, S)
<1>1. PICK o : o = [x \in S |-> 0] OBVIOUS
<1>2. PICK f : f = [x \in S |-> IF x = z THEN g[z] ELSE 0] OBVIOUS
<1>3. o \in [S -> Int] /\ f \in [S -> Int] BY <1>1, <1>2
<1>4. Total(f, S) = Total(o, S) - o[z] + f[z] BY <1>1, <1>2, <1>3, TotalChange
<1>5. Total(o, S) = 0 BY <1>1, TotalZero
<1>6. o[z] = 0 /\ f[z] = g[z] /\ g[z] \in Int BY <1>1, <1>2
<1>7. \A x \in S : f[x] <= g[x] BY <1>2
<1>8. Total(f, S) <= Total(g, S) BY <1>3, <1>7, TotalMono
<1> QED BY <1>4, <1>5, <1>6, <1>8

------------------------------------------------------------------------------
(* Sums of sizes of files. *)

\* Clients, names, places and files are finite, and there are as many files as places times
\* names.
LEMMA Finite ==
  /\ IsFiniteSet(Clients) /\ IsFiniteSet(Names) /\ IsFiniteSet(Places) /\ IsFiniteSet(Files)
  /\ Cardinality(Clients) \in Nat /\ Cardinality(Clients) >= 1
  /\ Cardinality(Files) \in Nat /\ Cardinality(Files) = Cardinality(Places) * Cardinality(Names)
  /\ Cardinality(Places) \in Nat /\ Cardinality(Names) \in Nat
<1>1. IsFiniteSet(Clients) /\ IsFiniteSet(Names) /\ IsFiniteSet(Dirs) /\ Clients # {}
  BY FilesAssumption
<1>2. IsFiniteSet(Places) BY <1>1, FS_AddElement DEF Places
<1>3. IsFiniteSet(Files) /\ Cardinality(Files) = Cardinality(Places) * Cardinality(Names)
  BY <1>1, <1>2, FS_Product DEF Files
<1>4. Cardinality(Clients) \in Nat /\ Cardinality(Clients) # 0
  BY <1>1, FS_CardinalityType, FS_EmptySet
<1> QED BY <1>1, <1>2, <1>3, <1>4, FS_CardinalityType

\* The size of a place is an integer (calculate_total_size of a directory).
LEMMA WithinInt ==
  ASSUME NEW z \in [Files -> Int], NEW p \in Places
  PROVE  Within(z, p) \in Int /\ [n \in Names |-> z[<<p, n>>]] \in [Names -> Int]
<1>1. [n \in Names |-> z[<<p, n>>]] \in [Names -> Int] BY DEF Files
<1> QED BY <1>1, Finite, TotalInt DEF Within

\* The size of everything is an integer.
LEMMA AllInt ==
  ASSUME NEW z \in [Files -> Int]
  PROVE  All(z) \in Int /\ [p \in Places |-> Within(z, p)] \in [Places -> Int]
<1>1. [p \in Places |-> Within(z, p)] \in [Places -> Int] BY WithinInt
<1> QED BY <1>1, Finite, TotalInt DEF All

\* The size of a place depends on its own files only.
LEMMA WithinSame ==
  ASSUME NEW z \in [Files -> Int], NEW y \in [Files -> Int], NEW p \in Places,
         \A n \in Names : z[<<p, n>>] = y[<<p, n>>]
  PROVE  Within(z, p) = Within(y, p)
<1>1. [n \in Names |-> z[<<p, n>>]] = [n \in Names |-> y[<<p, n>>]] OBVIOUS
<1> QED BY <1>1 DEF Within

\* A change in one place.
LEMMA AllPlace ==
  ASSUME NEW z \in [Files -> Int], NEW y \in [Files -> Int], NEW p \in Places,
         \A f \in Files : f[1] # p => z[f] = y[f]
  PROVE  /\ All(y) = All(z) - Within(z, p) + Within(y, p)
         /\ \A q \in Places : q # p => Within(y, q) = Within(z, q)
<1>1. ASSUME NEW q \in Places, q # p PROVE Within(y, q) = Within(z, q)
  <2>1. \A n \in Names : <<q, n>> \in Files /\ <<q, n>>[1] = q BY DEF Files
  <2>2. \A n \in Names : z[<<q, n>>] = y[<<q, n>>] BY <1>1, <2>1
  <2> QED BY <2>2, WithinSame
<1>2. PICK a : a = [q \in Places |-> Within(z, q)] OBVIOUS
<1>3. PICK b : b = [q \in Places |-> Within(y, q)] OBVIOUS
<1>4. a \in [Places -> Int] /\ b \in [Places -> Int] BY <1>2, <1>3, AllInt
<1>5. \A q \in Places : q # p => a[q] = b[q] BY <1>1, <1>2, <1>3
<1>6. Total(b, Places) = Total(a, Places) - a[p] + b[p] BY <1>4, <1>5, Finite, TotalChange
<1> QED BY <1>1, <1>2, <1>3, <1>6 DEF All

\* A change of one file.
LEMMA AllChange ==
  ASSUME NEW z \in [Files -> Int], NEW y \in [Files -> Int], NEW f \in Files,
         \A g \in Files : g # f => z[g] = y[g]
  PROVE  /\ All(y) = All(z) - z[f] + y[f]
         /\ Within(y, f[1]) = Within(z, f[1]) - z[f] + y[f]
         /\ \A q \in Places : q # f[1] => Within(y, q) = Within(z, q)
<1>1. PICK p \in Places, m \in Names : f = <<p, m>> BY DEF Files
<1>2. PICK a : a = [n \in Names |-> z[<<p, n>>]] OBVIOUS
<1>3. PICK b : b = [n \in Names |-> y[<<p, n>>]] OBVIOUS
<1>4. a \in [Names -> Int] /\ b \in [Names -> Int] BY <1>2, <1>3, WithinInt
<1>5. \A n \in Names : n # m => a[n] = b[n]
  <2>1. \A n \in Names : <<p, n>> \in Files /\ (n # m => <<p, n>> # f) BY <1>1 DEF Files
  <2> QED BY <1>2, <1>3, <2>1
<1>6. Total(b, Names) = Total(a, Names) - a[m] + b[m] BY <1>4, <1>5, Finite, TotalChange
<1>7. Within(y, p) = Within(z, p) - z[f] + y[f] BY <1>1, <1>2, <1>3, <1>6 DEF Within
<1>8. \A g \in Files : g[1] # p => z[g] = y[g] BY <1>1
<1>9. /\ All(y) = All(z) - Within(z, p) + Within(y, p)
      /\ \A q \in Places : q # p => Within(y, q) = Within(z, q)
  BY <1>8, AllPlace
<1>10. Within(z, p) \in Int /\ All(z) \in Int /\ z[f] \in Int /\ y[f] \in Int
  BY WithinInt, AllInt
<1> QED BY <1>1, <1>7, <1>9, <1>10

\* The files of a place, none of which is negative.
LEMMA WithinMember ==
  ASSUME NEW z \in [Files -> Int], NEW f \in Files, \A g \in Files : g[1] = f[1] => z[g] >= 0
  PROVE  z[f] <= Within(z, f[1])
<1>1. PICK p \in Places, m \in Names : f = <<p, m>> BY DEF Files
<1>2. PICK a : a = [n \in Names |-> z[<<p, n>>]] OBVIOUS
<1>3. a \in [Names -> Int] BY <1>2, WithinInt
<1>4. \A n \in Names : <<p, n>> \in Files /\ <<p, n>>[1] = p BY DEF Files
<1>5. \A n \in Names : a[n] >= 0 BY <1>1, <1>2, <1>4
<1>6. a[m] <= Total(a, Names) BY <1>3, <1>5, Finite, TotalMember
<1> QED BY <1>1, <1>2, <1>6 DEF Within

\* A place whose files are all empty has size 0.
LEMMA WithinZero ==
  ASSUME NEW z \in [Files -> Int], NEW p \in Places, \A n \in Names : z[<<p, n>>] = 0
  PROVE  Within(z, p) = 0
<1>1. [n \in Names |-> z[<<p, n>>]] = [n \in Names |-> 0] OBVIOUS
<1> QED BY <1>1, Finite, TotalZero DEF Within

\* The disk holds no more than its files may.
LEMMA AllBound ==
  ASSUME NEW z \in [Files -> 0..Largest]
  PROVE  /\ All(z) \in Nat /\ All(z) <= Largest * Cardinality(Files)
         /\ \A p \in Places : Within(z, p) \in Nat /\ Within(z, p) <= All(z)
<1>1. Largest \in Nat BY FilesAssumption
<1>2. z \in [Files -> Int] /\ \A f \in Files : z[f] >= 0 /\ z[f] <= Largest BY <1>1
<1>3. ASSUME NEW p \in Places
      PROVE  0 <= Within(z, p) /\ Within(z, p) <= Largest * Cardinality(Names)
  <2>1. PICK a : a = [n \in Names |-> z[<<p, n>>]] OBVIOUS
  <2>2. \A n \in Names : <<p, n>> \in Files BY DEF Files
  <2>3. a \in [Names -> Int] /\ \A n \in Names : a[n] >= 0 /\ a[n] <= Largest
    BY <1>2, <2>1, <2>2
  <2>4. Total(a, Names) <= Largest * Cardinality(Names) BY <1>1, <2>3, Finite, TotalBound
  <2>5. PICK o : o = [n \in Names |-> 0] OBVIOUS
  <2>6. Total(o, Names) = 0 /\ o \in [Names -> Int] /\ \A n \in Names : o[n] <= a[n]
    BY <2>3, <2>5, Finite, TotalZero
  <2>7. Total(o, Names) <= Total(a, Names) BY <2>3, <2>6, Finite, TotalMono
  <2> QED BY <2>1, <2>4, <2>6, <2>7 DEF Within
<1>4. PICK b : b = [p \in Places |-> Within(z, p)] OBVIOUS
<1>5. PICK m \in Nat : m = Largest * Cardinality(Names) BY <1>1, Finite
<1>6. b \in [Places -> Int] /\ \A p \in Places : b[p] >= 0 /\ b[p] <= m
  BY <1>2, <1>3, <1>4, <1>5, AllInt
<1>7. Total(b, Places) <= m * Cardinality(Places) BY <1>6, Finite, TotalBound
<1>8. \A p \in Places : b[p] <= Total(b, Places) BY <1>6, Finite, TotalMember
<1>9. All(z) = Total(b, Places) /\ All(z) \in Int BY <1>2, <1>4, AllInt DEF All
<1>10. m * Cardinality(Places) = Largest * Cardinality(Files) BY <1>1, <1>5, Finite
<1>11. Root \in Places BY DEF Places
<1>12. \A p \in Places : Within(z, p) \in Int BY <1>2, WithinInt
<1> QED BY <1>3, <1>4, <1>6, <1>7, <1>8, <1>9, <1>10, <1>11, <1>12

\* The sum of two functions.
LEMMA TotalAdd ==
  ASSUME NEW S, IsFiniteSet(S), NEW f \in [S -> Int], NEW g \in [S -> Int], NEW s \in [S -> Int],
         \A x \in S : s[x] = f[x] + g[x]
  PROVE  Total(s, S) = Total(f, S) + Total(g, S)
<1>1. PICK h, k, m : h = Sums(f, S) /\ k = Sums(g, S) /\ m = Sums(s, S) OBVIOUS
<1>2. \A T \in SUBSET S : h[T] = Value(f, h, T) /\ k[T] = Value(g, k, T) /\ m[T] = Value(s, m, T)
  BY <1>1, SumsStep
<1>3. \A T \in SUBSET S : h[T] \in Int /\ k[T] \in Int /\ m[T] \in Int BY <1>1, SumsInt
<1> DEFINE Bad == {T \in SUBSET S : ~(m[T] = h[T] + k[T])}
<1>4. Bad \subseteq SUBSET S OBVIOUS
<1>5. ASSUME NEW T \in Bad, \A x \in T : T \ {x} \notin Bad PROVE FALSE
  <2>1. CASE T = {}
    <3>1. h[T] = 0 /\ k[T] = 0 /\ m[T] = 0 BY <1>2, <2>1 DEF Value
    <3>2. m[T] = h[T] + k[T] BY <3>1
    <3> QED BY <1>5, <3>2
  <2>2. CASE T # {}
    <3>1. Pick(T) \in T /\ Pick(T) \in S /\ T \ {Pick(T)} \in SUBSET S BY <2>2, PickRest
    <3>2. /\ h[T] = f[Pick(T)] + h[T \ {Pick(T)}] /\ k[T] = g[Pick(T)] + k[T \ {Pick(T)}]
          /\ m[T] = s[Pick(T)] + m[T \ {Pick(T)}]
      BY <1>2, <2>2 DEF Value
    <3>3. m[T \ {Pick(T)}] = h[T \ {Pick(T)}] + k[T \ {Pick(T)}] BY <1>5, <3>1
    <3>4. s[Pick(T)] = f[Pick(T)] + g[Pick(T)] /\ f[Pick(T)] \in Int /\ g[Pick(T)] \in Int
      BY <3>1
    <3>5. h[T \ {Pick(T)}] \in Int /\ k[T \ {Pick(T)}] \in Int BY <1>3, <3>1
    <3>6. m[T] = h[T] + k[T] BY <3>2, <3>3, <3>4, <3>5
    <3> QED BY <1>5, <3>6
  <2> QED BY <2>1, <2>2
<1>6. Bad = {}
  <2> HIDE DEF Bad
  <2> QED BY <1>4, <1>5, Smallest
<1> QED BY <1>1, <1>6, TotalIs

\* The lengths of directories.
LEMMA Lengthy ==
  ASSUME NEW S \in SUBSET Dirs
  PROVE  /\ Owns(S) \in [Places -> Int] /\ Lengths(S) \in Nat /\ Lengths(S) <= Lengths(Dirs)
         /\ \A p \in Places : Owns(S)[p] \in Nat /\ Owns(S)[p] <= Lengths(S)
         /\ Lengths(S) <= Largest * Cardinality(Places)
<1>1. Length \in Nat /\ Largest \in Nat /\ Length <= Largest BY FilesAssumption
<1>2. PICK a, b : a = Owns(S) /\ b = Owns(Dirs) OBVIOUS
<1>3. a \in [Places -> Int] /\ b \in [Places -> Int] BY <1>1, <1>2 DEF Owns
<1>4. \A p \in Places : a[p] \in Nat /\ a[p] >= 0 /\ a[p] <= Largest /\ a[p] <= b[p]
  BY <1>1, <1>2 DEF Owns
<1>5. Total(a, Places) <= Total(b, Places) /\ Total(a, Places) <= Largest * Cardinality(Places)
  BY <1>1, <1>3, <1>4, Finite, TotalMono, TotalBound
<1>6. \A p \in Places : a[p] <= Total(a, Places) BY <1>3, <1>4, Finite, TotalMember
<1>7. Total(a, Places) \in Int BY <1>3, Finite, TotalInt
<1>8. Root \in Places BY DEF Places
<1>9. Total(a, Places) \in Nat BY <1>4, <1>6, <1>7, <1>8
<1> QED BY <1>2, <1>3, <1>4, <1>5, <1>6, <1>9 DEF Lengths
------------------------------------------------------------------------------
(* The inductive invariant. *)

Kinds  == {"none", "write", "async", "sync", "copy", "delete", "delete_dir", "rename", "rename_dir", "truncate"}
Labels == {"idle", "check", "add", "load", "sub", "tree", "create", "body", "open", "done", "copy", "prune",
           "zero", "remove", "move", "rename"}
Paths  == Files \cup {<<>>} \cup {<<d>> : d \in Dirs}

Records ==
  [op : Kinds, at : Labels, files : SUBSET Files, from : Paths, to : Paths, bytes : 0..Largest, body : 0..Largest,
   delta : Int, dir : Places, ignorant : BOOLEAN, seen : Nat, then : Labels, acc : Nat, owed : Nat]

Checks ==
  [at : {"asleep", "walk", "store"}, todo : SUBSET Files, tmp : [Dirs -> Nat], total : Nat, found : SUBSET Dirs,
   quiet : BOOLEAN, exact : BOOLEAN]

Typed ==
  /\ size \in [Files -> 0..Largest]
  /\ cached \in 0..(Word - 1)
  /\ tree \in [Dirs -> Nat]
  /\ limit \in Limits
  /\ client \in [Clients -> Records]
  /\ check \in Checks
  /\ ops \in 0..MaxOps /\ checks \in Nat
  /\ leak \in Nat /\ drift \in BOOLEAN /\ pristine \in BOOLEAN

\* What the record of a client looks like in each operation.
WriteShape(r) ==
  /\ r.at \in {"check", "add", "load", "sub", "tree", "create", "body"} /\ r.acc = 0
  /\ r.to \in Files /\ r.files = {r.to}
  /\ r.at \in {"check", "add", "load", "sub", "tree"} => r.then = "create" /\ r.dir = r.to[1]
  /\ r.at \in {"check", "add"} => r.delta > 0 /\ r.owed = 0
  /\ r.at \in {"load", "sub"} => r.delta < 0 /\ r.owed = 0
  /\ r.at = "tree" => (r.delta > 0 /\ r.owed = 0) \/ (r.delta < 0 /\ r.owed = -r.delta)

WriterShape(r) ==
  /\ r.at \in {"open", "check", "add", "tree", "done"} /\ r.owed = r.acc
  /\ r.to \in Files /\ r.files = {r.to}
  /\ r.at \in {"check", "add", "tree"} => r.then \in {"open", "done"} /\ r.dir = r.to[1] /\ r.delta > 0
  /\ r.at \in {"check", "add"} => r.delta = r.acc
  /\ r.at \in {"tree", "done"} => r.acc = 0

CopyShape(r) ==
  /\ r.at \in {"check", "add", "tree", "copy"} /\ r.acc = 0 /\ r.owed = 0
  /\ r.from \in Files /\ r.to \in Files /\ r.from # r.to /\ r.files = {r.from, r.to}
  /\ r.at \in {"check", "add", "tree"} => r.then = "copy" /\ r.dir = r.to[1] /\ r.delta > 0

DeleteShape(r) ==
  /\ r.at \in {"load", "sub", "tree", "remove"} /\ r.acc = 0
  /\ r.from \in Files /\ r.files = {r.from}
  /\ r.at \in {"load", "sub", "tree"} => r.then = "remove" /\ r.dir = r.from[1] /\ r.delta < 0
  /\ r.at \in {"load", "sub"} => r.owed = 0
  /\ r.at = "tree" => r.owed = -r.delta

DeleteDirShape(r) ==
  /\ r.at \in {"load", "sub", "tree", "prune", "remove"} /\ r.acc = 0
  /\ \E d \in Dirs : r.from = <<d>> /\ r.files = In(d) /\
        (r.at \in {"load", "sub", "tree"} => r.dir = d /\ r.then = "prune" /\ r.delta < 0)
  /\ r.at \in {"load", "sub"} => r.owed = 0
  /\ r.at = "tree" => r.owed = -r.delta

RenameShape(r) ==
  /\ r.at \in {"load", "sub", "tree", "move", "add", "rename"} /\ r.acc = 0 /\ r.bytes > 0
  /\ r.from \in Files /\ r.to \in Files /\ r.from # r.to /\ r.files = {r.from, r.to}
  /\ r.then \in {"move", "rename"}
  /\ r.at \in {"load", "sub", "move"} => r.then = "move"
  /\ r.at \in {"add", "rename"} => r.then = "rename"
  /\ r.at \in {"load", "sub"} \/ (r.at = "tree" /\ r.then = "move") => r.dir = r.from[1] /\ r.delta = -r.bytes
  /\ r.at = "add" \/ (r.at = "tree" /\ r.then = "rename") => r.dir = r.to[1] /\ r.delta = r.bytes
  /\ r.owed = IF r.at \in {"move", "add"} \/ (r.at = "tree" /\ r.then = "move") THEN r.bytes ELSE 0

RenameDirShape(r) ==
  /\ r.at = "rename" /\ r.acc = 0 /\ r.owed = 0
  /\ \E d, e \in Dirs : d # e /\ r.from = <<d>> /\ r.to = <<e>> /\ r.files = In(d) \cup In(e)

TruncateShape(r) == r.at \in {"zero", "remove"} /\ r.acc = 0 /\ r.files = Files /\ (r.at = "zero" => r.owed = 0)

Shape(r) ==
  /\ r.op = "none" => r = Idle
  /\ r.op = "write" => WriteShape(r)
  /\ r.op \in {"async", "sync"} => WriterShape(r)
  /\ r.op = "copy" => CopyShape(r)
  /\ r.op = "delete" => DeleteShape(r)
  /\ r.op = "delete_dir" => DeleteDirShape(r)
  /\ r.op = "rename" => RenameShape(r)
  /\ r.op = "rename_dir" => RenameDirShape(r)
  /\ r.op = "truncate" => TruncateShape(r)

Shapes == \A c \in Clients : Shape(client[c])

\* The walk of a recount that nothing has disturbed.
Visited == [f \in Files |-> IF f \in check.todo THEN 0 ELSE size[f]]

Walk ==
  /\ check.exact => check.at = "asleep"
  /\ check.quiet => \A c \in Clients : client[c].at = "idle"
  /\ check.at = "walk" /\ check.quiet =>
       /\ check.total = All(Visited) /\ check.tmp = [d \in Dirs |-> Within(Visited, d)]
       /\ \A f \in Files : f \notin check.todo /\ size[f] > 0 /\ f[1] \in Dirs => f[1] \in check.found
  /\ check.at = "store" /\ check.quiet =>
       check.total = Real /\ AreThere(check.found) /\ tree = [d \in Dirs |-> Sum(d) + Owns(check.found)[d]]
  /\ RecountHeals

\* What each operation has in the books, where `z' is the disk and `t' the tree: `due[f]'
\* is what the account should hold for the file, `g' the bytes by which the client's files
\* exceed it.
WriteBook(z, r, due, g) ==
  /\ r.at \in {"check", "add", "load", "sub"} => due[r.to] = z[r.to] /\ z[r.to] + r.delta = r.bytes
  /\ r.at = "tree" => due[r.to] = r.bytes /\ z[r.to] + r.delta = r.bytes
  /\ r.at = "create" => due[r.to] = r.bytes /\ (r.owed = z[r.to] - r.bytes \/ (r.owed = 0 /\ z[r.to] <= r.bytes))
  /\ r.at = "body" => due[r.to] = r.bytes /\ z[r.to] = 0 /\ r.owed = 0
  /\ g = z[r.to] - due[r.to]

WriterBook(z, r, due, g) ==
  /\ r.owed <= z[r.to] /\ due[r.to] = z[r.to] - r.owed
  /\ g = r.owed

CopyBook(z, r, due, g) ==
  /\ due[r.from] = z[r.from]
  /\ due[r.to] = z[r.to] + IF r.at \in {"tree", "copy"} THEN z[r.from] ELSE 0
  /\ r.at \in {"check", "add", "tree"} => r.delta = z[r.from]
  /\ g = z[r.to] - due[r.to]

DeleteBook(z, r, due, g) ==
  /\ r.at \in {"load", "sub"} => due[r.from] = z[r.from] /\ r.delta = -z[r.from]
  /\ r.at \in {"tree", "remove"} => due[r.from] = 0 /\ r.owed = z[r.from]
  /\ g = z[r.from] - due[r.from]

DeleteDirBook(z, t, r, due, g) ==
  /\ Within(due, r.from[1]) = Within(z, r.from[1]) - r.owed
  /\ r.at \in {"load", "sub", "tree"} => r.delta = -t[r.from[1]]
  /\ r.at \in {"prune", "remove"} => t[r.from[1]] = 0
  /\ g = r.owed

RenameBook(z, r, due, g) ==
  /\ z[r.from] = r.bytes /\ z[r.to] = 0
  /\ due[r.from] = IF r.at \in {"load", "sub"} THEN r.bytes ELSE 0
  /\ due[r.to] = IF r.at = "rename" \/ (r.at = "tree" /\ r.then = "rename") THEN r.bytes ELSE 0
  /\ g = r.bytes - due[r.from] - due[r.to]

RenameDirBook(z, r, due, g) ==
  /\ \A n \in Names : due[<<r.from[1], n>>] = 0 /\ due[<<r.to[1], n>>] = z[<<r.from[1], n>>]
  /\ \A n \in Names : z[<<r.to[1], n>>] = 0
  /\ g = 0

TruncateBook(z, t, r, due, g) ==
  /\ r.at = "zero" => due = z /\ g = 0 /\ \A d \in Dirs : t[d] = 0
  /\ r.at # "zero" => (\A f \in Files : due[f] = 0) /\ r.owed = All(z) /\ g = All(z)

Book(z, t, r, due, g) ==
  /\ r.op = "none" => g = 0
  /\ r.op = "write" => WriteBook(z, r, due, g)
  /\ r.op \in {"async", "sync"} => WriterBook(z, r, due, g)
  /\ r.op = "copy" => CopyBook(z, r, due, g)
  /\ r.op = "delete" => DeleteBook(z, r, due, g)
  /\ r.op = "delete_dir" => DeleteDirBook(z, t, r, due, g)
  /\ r.op = "rename" => RenameBook(z, r, due, g)
  /\ r.op = "rename_dir" => RenameDirBook(z, r, due, g)
  /\ r.op = "truncate" => TruncateBook(z, t, r, due, g)

\* What the clients are about to add to the tree of a directory.
Awaits(r, d) == IF r.at = "tree" /\ r.dir = d THEN r.delta ELSE 0
Pend(cl, d)  == Total([c \in Clients |-> Awaits(cl[c], d)], Clients)

Disjoint(cl) == \A b, c \in Clients : b # c => cl[b].files \cap cl[c].files = {}

Linked(z, t, cl, due, gap) ==
  /\ \A c \in Clients : Book(z, t, cl[c], due, gap[c])
  /\ \A f \in Files : (\A c \in Clients : f \notin cl[c].files) => due[f] = z[f]
  /\ \A f \in Files : due[f] >= 0 \/ \E c \in Clients : cl[c].op = "delete_dir" /\ f \in cl[c].files
  /\ All(z) = All(due) + Total(gap, Clients)

\* What the account holds for each place: enough for its files and for its tree.
Worthy(t, cl, x, due, worth) ==
  /\ \A p \in Places : worth[p] >= 0 /\ worth[p] >= Within(due, p)
  /\ \A d \in Dirs : worth[d] >= t[d] + Pend(cl, d)
  /\ x >= Total(worth, Places)

\* How far the total `x' and the tree can have gone after `o' operations, up and down.
Entries == Cardinality(Files) + Cardinality(Places)
Cap == Largest * (Entries + MaxOps)
Room(z, r) == IF r.op \in {"async", "sync"} THEN Largest - z[r.to] + r.owed
              ELSE IF r.at \in {"check", "add"} \/ (r.op = "rename" /\ r.then = "move") THEN Largest ELSE 0
Late(r) == IF r.at = "tree" /\ r.delta > 0 THEN r.delta ELSE 0
Fall(r) == IF r.at \in {"load", "sub"} THEN Cap ELSE 0
Rooms(z, cl) == Total([c \in Clients |-> Room(z, cl[c])], Clients)
Lates(cl) == Total([c \in Clients |-> Late(cl[c])], Clients)
Falls(cl) == Total([c \in Clients |-> Fall(cl[c])], Clients)
Bounded(z, t, cl, x, o) ==
  /\ Rooms(z, cl) <= Largest * o /\ x <= Largest * (Entries + o) - Rooms(z, cl)
  /\ \A d \in Dirs : t[d] + Lates(cl) <= Largest * (Entries + o) - Rooms(z, cl)
  /\ Falls(cl) <= Cap * o /\ x >= Falls(cl) - Cap * o

KeptIn(z, t, cl, x, k, o) ==
  /\ Disjoint(cl)
  /\ Bounded(z, t, cl, x, o)
  /\ \E due \in [Files -> Int], gap \in [Clients -> Int], worth \in [Places -> Int] :
        Linked(z, t, cl, due, gap) /\ Worthy(t, cl, x + k, due, worth)

Kept == KeptIn(size, tree, client, AsI64, leak, ops)

\* What was compared with the limit and is not added yet.
Coming(r) == IF r.at = "add" THEN r.delta
             ELSE IF r.op = "rename" /\ r.at \in {"tree", "move"} /\ r.then = "move" THEN r.bytes ELSE 0
Comings(cl) == Total([c \in Clients |-> Coming(cl[c])], Clients)

Ceiling == Max(Limits \cup {Largest + Lengths(Dirs)}) + (Cardinality(Clients) - 1) * Largest
Sights(r) == r.at = "sub" => r.seen >= -r.delta

Clean ==
  pristine =>
    /\ ~drift /\ leak = 0
    /\ \A c \in Clients : Sights(client[c])
    /\ 0 \notin Limits => AsI64 + Comings(client) <= Ceiling


------------------------------------------------------------------------------
(* What each step makes of the record of its client. *)

Moves(c, R) == R \in Records /\ Shape(R) /\ client' = [client EXCEPT ![c] = R]

\* What the assumptions on the constants say, in the form the proofs use.
LEMMA Constants ==
  /\ Largest \in Nat /\ MaxOps \in Nat /\ Word \in Nat /\ Word > 0 /\ Threshold \in Nat /\ Threshold > 0
  /\ Sizes \subseteq 0..Largest /\ Limits \subseteq Nat /\ Root \notin Dirs
BY FilesAssumption

\* The record of a client between two operations is well formed.
LEMMA IdleRecord == Idle \in Records /\ Shape(Idle)
<1>1. Idle \in Records
  <2>1. Root \in Places /\ 0 \in 0..Largest /\ <<>> \in Paths /\ {} \in SUBSET Files
    BY Constants DEF Places, Paths
  <2> QED BY <2>1 DEF Idle, Records, Kinds, Labels
<1> QED BY <1>1 DEF Shape, Idle

\* async_allocate_in_path leaves all but its own fields.
AllocatedTo(a, r, d, n, ignorant, then) ==
  /\ a.op = r.op /\ a.files = r.files /\ a.from = r.from /\ a.to = r.to /\ a.bytes = r.bytes /\ a.body = r.body
  /\ a.seen = r.seen /\ a.acc = r.acc /\ a.owed = r.owed
  /\ a.dir = d /\ a.delta = n /\ a.ignorant = ignorant /\ a.then = then
  /\ n = 0 => a.at = then
  /\ n > 0 /\ ~ignorant => a.at = "check"
  /\ n > 0 /\ ignorant => a.at = "add"
  /\ n < 0 => a.at = "load"

\* async_allocate_in_path begins with the comparison, the addition or the load, or ends at
\* once for 0 bytes.
LEMMA Allocated ==
  ASSUME NEW r \in Records, NEW d \in Places, NEW n \in Int, NEW ignorant \in BOOLEAN, NEW then \in Labels
  PROVE  /\ Allocate(r, d, n, ignorant, then) \in Records
         /\ AllocatedTo(Allocate(r, d, n, ignorant, then), r, d, n, ignorant, then)
<1> DEFINE label == CASE n = 0              -> then
                      [] n > 0 /\ ~ignorant -> "check"
                      [] n > 0 /\ ignorant  -> "add"
                      [] OTHER              -> "load"
<1>1. /\ label \in Labels
      /\ n = 0 => label = then
      /\ n > 0 /\ ~ignorant => label = "check"
      /\ n > 0 /\ ignorant => label = "add"
      /\ n < 0 => label = "load"
  <2>1. CASE n = 0 BY <2>1 DEF Labels
  <2>2. CASE n > 0 /\ ~ignorant BY <2>2 DEF Labels
  <2>3. CASE n > 0 /\ ignorant BY <2>3 DEF Labels
  <2>4. CASE n < 0 BY <2>4 DEF Labels
  <2> QED BY <2>1, <2>2, <2>3, <2>4
<1>2. Allocate(r, d, n, ignorant, then) =
        [r EXCEPT !.dir = d, !.delta = n, !.ignorant = ignorant, !.then = then, !.at = label]
  BY DEF Allocate
<1> HIDE DEF label
<1>3. Allocate(r, d, n, ignorant, then) \in Records BY <1>1, <1>2 DEF Records
<1> QED BY <1>1, <1>2, <1>3 DEF Records, AllocatedTo

\* A file is a place and a name, and the path of an operation on one file.
LEMMA FileParts ==
  ASSUME NEW f \in Files
  PROVE  f[1] \in Places /\ f[2] \in Names /\ f = <<f[1], f[2]>> /\ f \in Paths /\ {f} \in SUBSET Files
BY DEF Files, Paths

\* A client begins: the record that is given gets its kind and its files.
BegunAs(R, r, op, files) ==
  /\ R.op = op /\ R.files = files /\ R.at = r.at /\ R.from = r.from /\ R.to = r.to /\ R.bytes = r.bytes
  /\ R.body = r.body /\ R.delta = r.delta /\ R.dir = r.dir /\ R.ignorant = r.ignorant /\ R.seen = r.seen
  /\ R.then = r.then /\ R.acc = r.acc /\ R.owed = r.owed

\* What the record holds after an operation began on it.
LEMMA Begun ==
  ASSUME NEW op \in Kinds, NEW files \in SUBSET Files, NEW r \in Records
  PROVE  /\ [r EXCEPT !.op = op, !.files = files] \in Records
         /\ BegunAs([r EXCEPT !.op = op, !.files = files], r, op, files)
<1>1. PICK R : R = [r EXCEPT !.op = op, !.files = files] OBVIOUS
<1>2. R \in Records BY <1>1 DEF Records
<1>3. BegunAs(R, r, op, files) BY <1>1, <1>2 DEF Records, BegunAs
<1> QED BY <1>1, <1>2, <1>3

\* POST files/write, which compares the announced size with the old one, leaves its client
\* a well-formed record.
LEMMA WriteMoves ==
  ASSUME Typed, NEW c \in Clients, NEW f \in Files, NEW n \in Sizes, NEW body \in Sizes, Write(c, f, n, body)
  PROVE  \E R : /\ Moves(c, R)
                /\ R.op = "write" /\ R.to = f /\ R.files = {f} /\ R.bytes = n /\ R.owed = 0 /\ R.delta = n - size[f]
                /\ R.at = IF n > size[f] THEN "check" ELSE IF n < size[f] THEN "load" ELSE "create"
<1>1. /\ f[1] \in Places /\ f \in Paths /\ {f} \in SUBSET Files
      /\ n \in 0..Largest /\ body \in 0..Largest /\ n \in Int /\ size[f] \in Int /\ n - size[f] \in Int
  BY Constants, FileParts DEF Typed
<1>2. PICK r : r = [Idle EXCEPT !.to = f, !.bytes = n, !.body = body] OBVIOUS
<1>3. /\ r \in Records /\ r.to = f /\ r.bytes = n /\ r.body = body /\ r.from = <<>> /\ r.acc = 0 /\ r.owed = 0
  BY <1>1, <1>2, IdleRecord DEF Records, Idle
<1>4. PICK a : a = Allocate(r, f[1], n - size[f], FALSE, "create") OBVIOUS
<1>5. a \in Records /\ AllocatedTo(a, r, f[1], n - size[f], FALSE, "create")
  BY <1>1, <1>3, <1>4, Allocated DEF Labels
<1>6. PICK R : R = [a EXCEPT !.op = "write", !.files = {f}] OBVIOUS
<1>7. R \in Records /\ BegunAs(R, a, "write", {f}) BY <1>1, <1>5, <1>6, Begun DEF Kinds
<1>8. client' = [client EXCEPT ![c] = R] BY <1>2, <1>4, <1>6 DEF Write, Begin
<1>9. R.at = IF n > size[f] THEN "check" ELSE IF n < size[f] THEN "load" ELSE "create"
  BY <1>1, <1>5, <1>7 DEF AllocatedTo, BegunAs
<1>10. Shape(R) BY <1>1, <1>3, <1>5, <1>7, <1>9 DEF Shape, WriteShape, AllocatedTo, BegunAs
<1> QED BY <1>3, <1>5, <1>7, <1>8, <1>9, <1>10 DEF Moves, AllocatedTo, BegunAs

\* Opening a writer, which empties the file, leaves its client a well-formed record.
LEMMA OpenMoves ==
  ASSUME Typed, NEW c \in Clients, NEW f \in Files, NEW op \in {"async", "sync"}, Open(c, op, f)
  PROVE  \E R : /\ Moves(c, R)
                /\ R.op = op /\ R.at = "open" /\ R.to = f /\ R.files = {f} /\ R.owed = 0
<1>1. f \in Paths /\ {f} \in SUBSET Files /\ op \in Kinds BY FileParts DEF Kinds
<1>2. PICK r : r = [Idle EXCEPT !.at = "open", !.to = f] OBVIOUS
<1>3. r \in Records /\ r.to = f /\ r.at = "open" /\ r.acc = 0 /\ r.owed = 0
  BY <1>1, <1>2, IdleRecord DEF Records, Idle, Labels
<1>4. PICK R : R = [r EXCEPT !.op = op, !.files = {f}] OBVIOUS
<1>5. R \in Records /\ BegunAs(R, r, op, {f}) BY <1>1, <1>3, <1>4, Begun
<1>6. client' = [client EXCEPT ![c] = R] BY <1>2, <1>4 DEF Open, Begin
<1>7. Shape(R) BY <1>1, <1>3, <1>5 DEF Shape, WriterShape, BegunAs
<1> QED BY <1>3, <1>5, <1>6, <1>7 DEF Moves, BegunAs

\* POST files/copy, which allocates the size of the source first, leaves its client a
\* well-formed record.
LEMMA CopyMoves ==
  ASSUME Typed, NEW c \in Clients, NEW f \in Files, NEW g \in Files, Copy(c, f, g)
  PROVE  \E R : /\ Moves(c, R)
                /\ R.op = "copy" /\ R.at = "check" /\ R.from = f /\ R.to = g /\ R.files = {f, g} /\ R.owed = 0
                /\ R.delta = size[f]
<1>1. /\ g[1] \in Places /\ f \in Paths /\ g \in Paths /\ {f, g} \in SUBSET Files
      /\ size[f] \in Int /\ size[f] > 0 /\ f # g
  BY Constants, FileParts DEF Typed, Copy
<1>2. PICK r : r = [Idle EXCEPT !.from = f, !.to = g] OBVIOUS
<1>3. r \in Records /\ r.to = g /\ r.from = f /\ r.acc = 0 /\ r.owed = 0
  BY <1>1, <1>2, IdleRecord DEF Records, Idle
<1>4. PICK a : a = Allocate(r, g[1], size[f], FALSE, "copy") OBVIOUS
<1>5. a \in Records /\ AllocatedTo(a, r, g[1], size[f], FALSE, "copy")
  BY <1>1, <1>3, <1>4, Allocated DEF Labels
<1>6. PICK R : R = [a EXCEPT !.op = "copy", !.files = {f, g}] OBVIOUS
<1>7. R \in Records /\ BegunAs(R, a, "copy", {f, g}) BY <1>1, <1>5, <1>6, Begun DEF Kinds
<1>8. client' = [client EXCEPT ![c] = R] BY <1>2, <1>4, <1>6 DEF Copy, Begin
<1>9. Shape(R) BY <1>1, <1>3, <1>5, <1>7 DEF Shape, CopyShape, AllocatedTo, BegunAs
<1> QED BY <1>1, <1>3, <1>5, <1>7, <1>8, <1>9 DEF Moves, AllocatedTo, BegunAs

\* `truncate_path' of a file, which gives its size back first, leaves its client a
\* well-formed record.
LEMMA DeleteFileMoves ==
  ASSUME Typed, NEW c \in Clients, NEW f \in Files, DeleteFile(c, f)
  PROVE  \E R : /\ Moves(c, R)
                /\ R.op = "delete" /\ R.at = "load" /\ R.from = f /\ R.files = {f} /\ R.owed = 0 /\ R.delta = -size[f]
<1>1. /\ f[1] \in Places /\ f \in Paths /\ {f} \in SUBSET Files
      /\ -size[f] \in Int /\ -size[f] < 0
  BY Constants, FileParts DEF Typed, DeleteFile
<1>2. PICK r : r = [Idle EXCEPT !.from = f] OBVIOUS
<1>3. r \in Records /\ r.from = f /\ r.acc = 0 /\ r.owed = 0
  BY <1>1, <1>2, IdleRecord DEF Records, Idle
<1>4. PICK a : a = Allocate(r, f[1], -size[f], FALSE, "remove") OBVIOUS
<1>5. a \in Records /\ AllocatedTo(a, r, f[1], -size[f], FALSE, "remove")
  BY <1>1, <1>3, <1>4, Allocated DEF Labels
<1>6. PICK R : R = [a EXCEPT !.op = "delete", !.files = {f}] OBVIOUS
<1>7. R \in Records /\ BegunAs(R, a, "delete", {f}) BY <1>1, <1>5, <1>6, Begun DEF Kinds
<1>8. client' = [client EXCEPT ![c] = R] BY <1>2, <1>4, <1>6 DEF DeleteFile, Begin
<1>9. Shape(R) BY <1>1, <1>3, <1>5, <1>7 DEF Shape, DeleteShape, AllocatedTo, BegunAs
<1> QED BY <1>1, <1>3, <1>5, <1>7, <1>8, <1>9 DEF Moves, AllocatedTo, BegunAs

\* A directory is a place, a path, and a set of files.
LEMMA DirParts ==
  ASSUME NEW d \in Dirs
  PROVE  d \in Places /\ <<d>> \in Paths /\ In(d) \in SUBSET Files
BY DEF Places, Paths, In

\* `truncate_path' of a directory, which gives back what the tree says of it, leaves its
\* client a well-formed record.
LEMMA DeleteDirMoves ==
  ASSUME Typed, NEW c \in Clients, NEW d \in Dirs, DeleteDir(c, d)
  PROVE  \E R : /\ Moves(c, R)
                /\ R.op = "delete_dir" /\ R.from = <<d>> /\ R.files = In(d) /\ R.owed = 0 /\ R.delta = -tree[d]
                /\ R.at = IF tree[d] = 0 THEN "prune" ELSE "load"
<1>1. d \in Places /\ <<d>> \in Paths /\ In(d) \in SUBSET Files /\ tree[d] \in Nat /\ -tree[d] \in Int
  BY DirParts DEF Typed
<1>0. PICK k \in Int : k = -tree[d] BY <1>1
<1>01. tree[d] = 0 => k = 0
  <2>1. k + tree[d] = 0 /\ tree[d] \in Int BY <1>0, <1>1
  <2> QED BY <2>1
<1>02. tree[d] # 0 => k < 0 BY <1>0, <1>1
<1>2. PICK r : r = [Idle EXCEPT !.from = <<d>>] OBVIOUS
<1>3. r \in Records /\ r.from = <<d>> /\ r.acc = 0 /\ r.owed = 0
  BY <1>1, <1>2, IdleRecord DEF Records, Idle
<1>4. PICK a : a = Allocate(r, d, k, FALSE, "prune") OBVIOUS
<1>5. a \in Records /\ AllocatedTo(a, r, d, k, FALSE, "prune")
  BY <1>0, <1>1, <1>3, <1>4, Allocated DEF Labels
<1>6. PICK R : R = [a EXCEPT !.op = "delete_dir", !.files = In(d)] OBVIOUS
<1>7. R \in Records /\ BegunAs(R, a, "delete_dir", In(d)) BY <1>1, <1>5, <1>6, Begun DEF Kinds
<1>8. client' = [client EXCEPT ![c] = R] BY <1>0, <1>2, <1>4, <1>6 DEF DeleteDir, Begin
<1>9. R.at = IF tree[d] = 0 THEN "prune" ELSE "load"
  BY <1>01, <1>02, <1>5, <1>7 DEF AllocatedTo, BegunAs
<1>10. Shape(R)
  BY <1>01, <1>02, <1>3, <1>5, <1>7, <1>9 DEF Shape, DeleteDirShape, AllocatedTo, BegunAs
<1> QED BY <1>0, <1>3, <1>5, <1>7, <1>8, <1>9, <1>10 DEF Moves, AllocatedTo, BegunAs

\* `rename_path' of a file, which gives its size back to the old parent first, leaves its
\* client a well-formed record.
LEMMA RenameFileMoves ==
  ASSUME Typed, NEW c \in Clients, NEW f \in Files, NEW g \in Files, RenameFile(c, f, g)
  PROVE  \E R : /\ Moves(c, R)
                /\ R.op = "rename" /\ R.at = "load" /\ R.from = f /\ R.to = g /\ R.files = {f, g} /\ R.owed = 0
                /\ R.bytes = size[f] /\ R.delta = -size[f] /\ R.then = "move"
<1>1. /\ f[1] \in Places /\ f \in Paths /\ g \in Paths /\ {f, g} \in SUBSET Files
      /\ size[f] \in 0..Largest /\ -size[f] \in Int /\ -size[f] < 0 /\ size[f] > 0 /\ f # g
  BY Constants, FileParts DEF Typed, RenameFile
<1>0. PICK k \in Int : k = -size[f] /\ k < 0 BY <1>1
<1>2. PICK r : r = [Idle EXCEPT !.from = f, !.to = g, !.bytes = size[f]] OBVIOUS
<1>3. r \in Records /\ r.to = g /\ r.from = f /\ r.bytes = size[f] /\ r.acc = 0 /\ r.owed = 0
  BY <1>1, <1>2, IdleRecord DEF Records, Idle
<1>4. PICK a : a = Allocate(r, f[1], k, TRUE, "move") OBVIOUS
<1>5. a \in Records /\ AllocatedTo(a, r, f[1], k, TRUE, "move")
  BY <1>0, <1>1, <1>3, <1>4, Allocated DEF Labels
<1>6. PICK R : R = [a EXCEPT !.op = "rename", !.files = {f, g}] OBVIOUS
<1>7. R \in Records /\ BegunAs(R, a, "rename", {f, g}) BY <1>1, <1>5, <1>6, Begun DEF Kinds
<1>8. client' = [client EXCEPT ![c] = R] BY <1>0, <1>2, <1>4, <1>6 DEF RenameFile, Begin
<1>9. Shape(R) BY <1>0, <1>1, <1>3, <1>5, <1>7 DEF Shape, RenameShape, AllocatedTo, BegunAs
<1>10. /\ R.op = "rename" /\ R.at = "load" /\ R.from = f /\ R.to = g /\ R.files = {f, g} /\ R.owed = 0
       /\ R.bytes = size[f] /\ R.delta = -size[f] /\ R.then = "move"
  BY <1>0, <1>3, <1>5, <1>7 DEF AllocatedTo, BegunAs
<1>11. Moves(c, R) BY <1>7, <1>8, <1>9 DEF Moves
<1> QED BY <1>10, <1>11, Zenon

RenamesDir(R, d, e) ==
  /\ R.op = "rename_dir" /\ R.at = "rename" /\ R.from = <<d>> /\ R.to = <<e>>
  /\ R.files = In(d) \cup In(e) /\ R.owed = 0

\* `rename_path' of a directory, whose entry of the tree moves at once, leaves its client a
\* well-formed record.
LEMMA RenameDirMoves ==
  ASSUME Typed, NEW c \in Clients, NEW d \in Dirs, NEW e \in Dirs, RenameDir(c, d, e)
  PROVE  \E R : Moves(c, R) /\ RenamesDir(R, d, e)
<1>1. <<d>> \in Paths /\ <<e>> \in Paths /\ In(d) \cup In(e) \in SUBSET Files /\ d # e
  BY DirParts DEF RenameDir
<1>2. PICK r : r = [Idle EXCEPT !.at = "rename", !.from = <<d>>, !.to = <<e>>] OBVIOUS
<1>3. r \in Records /\ r.at = "rename" /\ r.from = <<d>> /\ r.to = <<e>> /\ r.acc = 0 /\ r.owed = 0
  BY <1>1, <1>2, IdleRecord DEF Records, Idle, Labels
<1>4. PICK R : R = [r EXCEPT !.op = "rename_dir", !.files = In(d) \cup In(e)] OBVIOUS
<1>5. R \in Records /\ BegunAs(R, r, "rename_dir", In(d) \cup In(e))
  BY <1>1, <1>3, <1>4, Begun DEF Kinds
<1>6. client' = [client EXCEPT ![c] = R] BY <1>2, <1>4 DEF RenameDir, Begin
<1>7. Shape(R) BY <1>1, <1>3, <1>5 DEF Shape, RenameDirShape, BegunAs
<1>8. Moves(c, R) BY <1>5, <1>6, <1>7 DEF Moves
<1>9. RenamesDir(R, d, e) BY <1>3, <1>5 DEF BegunAs, RenamesDir
<1> QED BY <1>8, <1>9

\* `truncate_root' leaves its client a well-formed record.
LEMMA TruncateMoves ==
  ASSUME Typed, NEW c \in Clients, TruncateRoot(c)
  PROVE  \E R : /\ Moves(c, R)
                /\ R.op = "truncate" /\ R.at = "zero" /\ R.files = Files /\ R.owed = 0
<1>2. PICK r : r = [Idle EXCEPT !.at = "zero"] OBVIOUS
<1>3. r \in Records /\ r.at = "zero" /\ r.acc = 0 /\ r.owed = 0
  BY <1>2, IdleRecord DEF Records, Idle, Labels
<1>4. PICK R : R = [r EXCEPT !.op = "truncate", !.files = Files] OBVIOUS
<1>5. R \in Records /\ BegunAs(R, r, "truncate", Files) BY <1>3, <1>4, Begun DEF Kinds
<1>6. client' = [client EXCEPT ![c] = R] BY <1>2, <1>4 DEF TruncateRoot, Begin
<1>7. Shape(R) BY <1>3, <1>5 DEF Shape, TruncateShape, BegunAs
<1> QED BY <1>3, <1>5, <1>6, <1>7 DEF Moves, BegunAs

\* The fields that stay through an operation.
Keeps(R, r) == R.op = r.op /\ R.files = r.files /\ R.from = r.from /\ R.to = r.to /\ R.bytes = r.bytes /\ R.body = r.body

\* The record of every client has its type and its shape.
LEMMA ClientRecord ==
  ASSUME Typed, Shapes, NEW c \in Clients
  PROVE  client[c] \in Records /\ Shape(client[c])
BY DEF Typed, Shapes

\* An operation that ends leaves the idle record behind.
LEMMA GoesIdle ==
  ASSUME NEW c \in Clients, NEW from, Goes(c, from, Idle)
  PROVE  Moves(c, Idle)
BY IdleRecord DEF Goes, Moves

\* At which steps the operations can be.
LEMMA KindLabels ==
  ASSUME NEW r \in Records, Shape(r)
  PROVE  /\ r.at = "idle" <=> r.op = "none"
         /\ r.at = "check" => r.op \in {"write", "async", "sync", "copy"}
         /\ r.at = "add" => r.op \in {"write", "async", "sync", "copy", "rename"}
         /\ r.at \in {"load", "sub"} => r.op \in {"write", "delete", "delete_dir", "rename"}
         /\ r.at = "tree" => r.op \in {"write", "async", "sync", "copy", "delete", "delete_dir", "rename"}
         /\ r.at \in {"create", "body"} => r.op = "write"
         /\ r.at \in {"open", "done"} => r.op \in {"async", "sync"}
         /\ r.at = "copy" => r.op = "copy"
         /\ r.at = "prune" => r.op = "delete_dir"
         /\ r.at = "zero" => r.op = "truncate"
         /\ r.at = "remove" => r.op \in {"delete", "delete_dir", "truncate"}
         /\ r.at = "move" => r.op = "rename"
         /\ r.at = "rename" => r.op \in {"rename", "rename_dir"}
<1>1. CASE r.op = "none" BY <1>1 DEF Shape, Idle
<1>2. CASE r.op = "write"
  <2>1. r.at \in {"check", "add", "load", "sub", "tree", "create", "body"}
    BY <1>2 DEF Shape, WriteShape
  <2> QED BY <1>2, <2>1
<1>3. CASE r.op \in {"async", "sync"}
  <2>1. r.at \in {"open", "check", "add", "tree", "done"} BY <1>3 DEF Shape, WriterShape
  <2> QED BY <1>3, <2>1
<1>4. CASE r.op = "copy"
  <2>1. r.at \in {"check", "add", "tree", "copy"} BY <1>4 DEF Shape, CopyShape
  <2> QED BY <1>4, <2>1
<1>5. CASE r.op = "delete"
  <2>1. r.at \in {"load", "sub", "tree", "remove"} BY <1>5 DEF Shape, DeleteShape
  <2> QED BY <1>5, <2>1
<1>6. CASE r.op = "delete_dir"
  <2>1. r.at \in {"load", "sub", "tree", "prune", "remove"} BY <1>6 DEF Shape, DeleteDirShape
  <2> QED BY <1>6, <2>1
<1>7. CASE r.op = "rename"
  <2>1. r.at \in {"load", "sub", "tree", "move", "add", "rename"} BY <1>7 DEF Shape, RenameShape
  <2> QED BY <1>7, <2>1
<1>8. CASE r.op = "rename_dir"
  <2>1. r.at = "rename" BY <1>8 DEF Shape, RenameDirShape
  <2> QED BY <1>8, <2>1
<1>9. CASE r.op = "truncate"
  <2>1. r.at \in {"zero", "remove"} BY <1>9 DEF Shape, TruncateShape
  <2> QED BY <1>9, <2>1
<1>10. r.op \in Kinds BY DEF Records
<1> QED BY <1>1, <1>2, <1>3, <1>4, <1>5, <1>6, <1>7, <1>8, <1>9, <1>10 DEF Kinds

\* The comparison with disk_limit leaves its client a well-formed record.
LEMMA CheckMoves ==
  ASSUME Typed, Shapes, NEW c \in Clients, Goes(c, "check", [client[c] EXCEPT !.at = "add"])
  PROVE  \E R : Moves(c, R) /\ Keeps(R, client[c]) /\ R.at = "add" /\ R.delta = client[c].delta /\ R.dir = client[c].dir /\ R.then = client[c].then /\ R.acc = client[c].acc /\ R.owed = client[c].owed
<1>1. PICK r : r = client[c] OBVIOUS
<1>2. r \in Records /\ Shape(r) /\ r.at = "check"
  BY <1>1, ClientRecord, Constants DEF Goes, Typed, Places
<1>3. r.delta \in Int /\ r.bytes \in Int /\ r.acc \in Nat /\ r.owed \in Nat
  BY <1>2, Constants DEF Records
<1>4. PICK R : R = [r EXCEPT !.at = "add"] OBVIOUS
<1>5. R \in Records BY <1>2, <1>3, <1>4 DEF Records, Labels
<1>6. Keeps(R, r) /\ R.at = "add" /\ R.delta = r.delta /\ R.dir = r.dir /\ R.then = r.then /\ R.acc = r.acc /\ R.owed = r.owed
  BY <1>2, <1>4 DEF Records, Keeps
<1>7. Shape(R)
  <2>1. CASE r.op = "write"
    <3>1. WriteShape(r) BY <1>2, <1>3, <1>6, <2>1 DEF Shape
    <3>2. WriteShape(R) BY <1>2, <1>3, <1>6, <3>1 DEF WriteShape, Keeps
    <3> QED BY <1>2, <1>3, <1>6, <2>1, <3>2 DEF Shape, Keeps
  <2>2. CASE r.op \in {"async", "sync"}
    <3>1. WriterShape(r) BY <1>2, <1>3, <1>6, <2>2 DEF Shape
    <3>2. WriterShape(R) BY <1>2, <1>3, <1>6, <3>1 DEF WriterShape, Keeps
    <3> QED BY <1>2, <1>3, <1>6, <2>2, <3>2 DEF Shape, Keeps
  <2>3. CASE r.op = "copy"
    <3>1. CopyShape(r) BY <1>2, <1>3, <1>6, <2>3 DEF Shape
    <3>2. CopyShape(R) BY <1>2, <1>3, <1>6, <3>1 DEF CopyShape, Keeps
    <3> QED BY <1>2, <1>3, <1>6, <2>3, <3>2 DEF Shape, Keeps
  <2> QED BY <1>2, <1>3, <1>6, <2>1, <2>2, <2>3, KindLabels
<1>8. Moves(c, R) BY <1>1, <1>4, <1>5, <1>7 DEF Moves, Goes
<1> QED BY <1>1, <1>6, <1>8, Zenon

\* The fetch_add leaves its client a well-formed record.
LEMMA AddMoves ==
  ASSUME Typed, Shapes, NEW c \in Clients, Goes(c, "add", [client[c] EXCEPT !.at = "tree", !.owed = 0, !.acc = 0])
  PROVE  \E R : Moves(c, R) /\ Keeps(R, client[c]) /\ R.at = "tree" /\ R.delta = client[c].delta /\ R.dir = client[c].dir /\ R.then = client[c].then /\ R.acc = 0 /\ R.owed = 0
<1>1. PICK r : r = client[c] OBVIOUS
<1>2. r \in Records /\ Shape(r) /\ r.at = "add"
  BY <1>1, ClientRecord, Constants DEF Goes, Typed, Places
<1>3. r.delta \in Int /\ r.bytes \in Int /\ r.acc \in Nat /\ r.owed \in Nat
  BY <1>2, Constants DEF Records
<1>4. PICK R : R = [r EXCEPT !.at = "tree", !.owed = 0, !.acc = 0] OBVIOUS
<1>5. R \in Records BY <1>2, <1>3, <1>4 DEF Records, Labels
<1>6. Keeps(R, r) /\ R.at = "tree" /\ R.delta = r.delta /\ R.dir = r.dir /\ R.then = r.then /\ R.acc = 0 /\ R.owed = 0
  BY <1>2, <1>4 DEF Records, Keeps
<1>7. Shape(R)
  <2>1. CASE r.op = "write"
    <3>1. WriteShape(r) BY <1>2, <1>3, <1>6, <2>1 DEF Shape
    <3>2. WriteShape(R) BY <1>2, <1>3, <1>6, <3>1 DEF WriteShape, Keeps
    <3> QED BY <1>2, <1>3, <1>6, <2>1, <3>2 DEF Shape, Keeps
  <2>2. CASE r.op \in {"async", "sync"}
    <3>1. WriterShape(r) BY <1>2, <1>3, <1>6, <2>2 DEF Shape
    <3>2. WriterShape(R) BY <1>2, <1>3, <1>6, <3>1 DEF WriterShape, Keeps
    <3> QED BY <1>2, <1>3, <1>6, <2>2, <3>2 DEF Shape, Keeps
  <2>3. CASE r.op = "copy"
    <3>1. CopyShape(r) BY <1>2, <1>3, <1>6, <2>3 DEF Shape
    <3>2. CopyShape(R) BY <1>2, <1>3, <1>6, <3>1 DEF CopyShape, Keeps
    <3> QED BY <1>2, <1>3, <1>6, <2>3, <3>2 DEF Shape, Keeps
  <2>4. CASE r.op = "rename"
    <3>1. RenameShape(r) BY <1>2, <1>3, <1>6, <2>4 DEF Shape
    <3>2. RenameShape(R) BY <1>2, <1>3, <1>6, <3>1 DEF RenameShape, Keeps
    <3> QED BY <1>2, <1>3, <1>6, <2>4, <3>2 DEF Shape, Keeps
  <2> QED BY <1>2, <1>3, <1>6, <2>1, <2>2, <2>3, <2>4, KindLabels
<1>8. Moves(c, R) BY <1>1, <1>4, <1>5, <1>7 DEF Moves, Goes
<1> QED BY <1>1, <1>6, <1>8, Zenon

\* The load of the cached total leaves its client a well-formed record.
LEMMA LoadMoves ==
  ASSUME Typed, Shapes, NEW c \in Clients, Goes(c, "load", [client[c] EXCEPT !.at = "sub", !.seen = cached])
  PROVE  \E R : Moves(c, R) /\ Keeps(R, client[c]) /\ R.at = "sub" /\ R.delta = client[c].delta /\ R.dir = client[c].dir /\ R.then = client[c].then /\ R.acc = client[c].acc /\ R.owed = client[c].owed /\ R.seen = cached
<1>1. PICK r : r = client[c] OBVIOUS
<1>2. r \in Records /\ Shape(r) /\ r.at = "load" /\ cached \in Nat
  BY <1>1, ClientRecord, Constants DEF Goes, Typed, Places
<1>3. r.delta \in Int /\ r.bytes \in Int /\ r.acc \in Nat /\ r.owed \in Nat
  BY <1>2, Constants DEF Records
<1>4. PICK R : R = [r EXCEPT !.at = "sub", !.seen = cached] OBVIOUS
<1>5. R \in Records BY <1>2, <1>3, <1>4 DEF Records, Labels
<1>6. Keeps(R, r) /\ R.at = "sub" /\ R.delta = r.delta /\ R.dir = r.dir /\ R.then = r.then /\ R.acc = r.acc /\ R.owed = r.owed /\ R.seen = cached
  BY <1>2, <1>4 DEF Records, Keeps
<1>7. Shape(R)
  <2>1. CASE r.op = "write"
    <3>1. WriteShape(r) BY <1>2, <1>3, <1>6, <2>1 DEF Shape
    <3>2. WriteShape(R) BY <1>2, <1>3, <1>6, <3>1 DEF WriteShape, Keeps
    <3> QED BY <1>2, <1>3, <1>6, <2>1, <3>2 DEF Shape, Keeps
  <2>2. CASE r.op = "delete"
    <3>1. DeleteShape(r) BY <1>2, <1>3, <1>6, <2>2 DEF Shape
    <3>2. DeleteShape(R) BY <1>2, <1>3, <1>6, <3>1 DEF DeleteShape, Keeps
    <3> QED BY <1>2, <1>3, <1>6, <2>2, <3>2 DEF Shape, Keeps
  <2>3. CASE r.op = "delete_dir"
    <3>1. DeleteDirShape(r) BY <1>2, <1>3, <1>6, <2>3 DEF Shape
    <3>2. DeleteDirShape(R) BY <1>2, <1>3, <1>6, <3>1 DEF DeleteDirShape, Keeps
    <3> QED BY <1>2, <1>3, <1>6, <2>3, <3>2 DEF Shape, Keeps
  <2>4. CASE r.op = "rename"
    <3>1. RenameShape(r) BY <1>2, <1>3, <1>6, <2>4 DEF Shape
    <3>2. RenameShape(R) BY <1>2, <1>3, <1>6, <3>1 DEF RenameShape, Keeps
    <3> QED BY <1>2, <1>3, <1>6, <2>4, <3>2 DEF Shape, Keeps
  <2> QED BY <1>2, <1>3, <1>6, <2>1, <2>2, <2>3, <2>4, KindLabels
<1>8. Moves(c, R) BY <1>1, <1>4, <1>5, <1>7 DEF Moves, Goes
<1> QED BY <1>1, <1>6, <1>8, Zenon

\* Where something is taken out of the account, the amount is negative.
LEMMA Negative ==
  ASSUME NEW r \in Records, Shape(r), r.at \in {"load", "sub"}
  PROVE  r.delta < 0 /\ -r.delta \in Nat /\ -r.delta > 0
<1>1. r.delta \in Int /\ r.bytes \in Int BY Constants DEF Records
<1>2. r.delta < 0
  <2>1. CASE r.op = "write" BY <1>1, <2>1 DEF Shape, WriteShape
  <2>2. CASE r.op = "delete" BY <1>1, <2>2 DEF Shape, DeleteShape
  <2>3. CASE r.op = "delete_dir" BY <1>1, <2>3 DEF Shape, DeleteDirShape
  <2>4. CASE r.op = "rename" BY <1>1, <2>4 DEF Shape, RenameShape
  <2> QED BY <2>1, <2>2, <2>3, <2>4, KindLabels
<1> QED BY <1>1, <1>2

\* The fetch_sub leaves its client a well-formed record.
LEMMA SubMoves ==
  ASSUME Typed, Shapes, NEW c \in Clients, Goes(c, "sub", [client[c] EXCEPT !.at = "tree", !.owed = -client[c].delta])
  PROVE  \E R : Moves(c, R) /\ Keeps(R, client[c]) /\ R.at = "tree" /\ R.delta = client[c].delta /\ R.dir = client[c].dir /\ R.then = client[c].then /\ R.acc = client[c].acc /\ R.owed = -client[c].delta
<1>1. PICK r : r = client[c] OBVIOUS
<1>2. r \in Records /\ Shape(r) /\ r.at = "sub"
  BY <1>1, ClientRecord, Constants DEF Goes, Typed, Places
<1>3. r.delta \in Int /\ r.bytes \in Int /\ r.acc \in Nat /\ r.owed \in Nat
  BY <1>2, Constants DEF Records
<1>0. r.delta < 0 /\ -r.delta \in Nat BY <1>2, Negative
<1>4. PICK R : R = [r EXCEPT !.at = "tree", !.owed = -r.delta] OBVIOUS
<1>5. R \in Records BY <1>2, <1>3, <1>4, <1>0 DEF Records, Labels
<1>6. Keeps(R, r) /\ R.at = "tree" /\ R.delta = r.delta /\ R.dir = r.dir /\ R.then = r.then /\ R.acc = r.acc /\ R.owed = -r.delta
  BY <1>2, <1>4 DEF Records, Keeps
<1>7. Shape(R)
  <2>1. CASE r.op = "write"
    <3>1. WriteShape(r) BY <1>2, <1>3, <1>6, <1>0, <2>1 DEF Shape
    <3>2. WriteShape(R) BY <1>2, <1>3, <1>6, <1>0, <3>1 DEF WriteShape, Keeps
    <3> QED BY <1>2, <1>3, <1>6, <1>0, <2>1, <3>2 DEF Shape, Keeps
  <2>2. CASE r.op = "delete"
    <3>1. DeleteShape(r) BY <1>2, <1>3, <1>6, <1>0, <2>2 DEF Shape
    <3>2. DeleteShape(R) BY <1>2, <1>3, <1>6, <1>0, <3>1 DEF DeleteShape, Keeps
    <3> QED BY <1>2, <1>3, <1>6, <1>0, <2>2, <3>2 DEF Shape, Keeps
  <2>3. CASE r.op = "delete_dir"
    <3>1. DeleteDirShape(r) BY <1>2, <1>3, <1>6, <1>0, <2>3 DEF Shape
    <3>2. DeleteDirShape(R) BY <1>2, <1>3, <1>6, <1>0, <3>1 DEF DeleteDirShape, Keeps
    <3> QED BY <1>2, <1>3, <1>6, <1>0, <2>3, <3>2 DEF Shape, Keeps
  <2>4. CASE r.op = "rename"
    <3>1. RenameShape(r) BY <1>2, <1>3, <1>6, <1>0, <2>4 DEF Shape
    <3>2. RenameShape(R) BY <1>2, <1>3, <1>6, <1>0, <3>1 DEF RenameShape, Keeps
    <3> QED BY <1>2, <1>3, <1>6, <1>0, <2>4, <3>2 DEF Shape, Keeps
  <2> QED BY <1>2, <1>3, <1>6, <1>0, <2>1, <2>2, <2>3, <2>4, KindLabels
<1>8. Moves(c, R) BY <1>1, <1>4, <1>5, <1>7 DEF Moves, Goes
<1> QED BY <1>1, <1>6, <1>8, Zenon

\* `update_size' of the tree leaves its client a well-formed record.
LEMMA TreeMoves ==
  ASSUME Typed, Shapes, NEW c \in Clients, Goes(c, "tree", [client[c] EXCEPT !.at = client[c].then, !.delta = 0, !.dir = Root, !.seen = 0])
  PROVE  \E R : Moves(c, R) /\ Keeps(R, client[c]) /\ R.at = client[c].then /\ R.then = client[c].then /\ R.acc = client[c].acc /\ R.owed = client[c].owed
<1>1. PICK r : r = client[c] OBVIOUS
<1>2. r \in Records /\ Shape(r) /\ r.at = "tree" /\ Root \in Places
  BY <1>1, ClientRecord, Constants DEF Goes, Typed, Places
<1>3. r.delta \in Int /\ r.bytes \in Int /\ r.acc \in Nat /\ r.owed \in Nat
  BY <1>2, Constants DEF Records
<1>4. PICK R : R = [r EXCEPT !.at = r.then, !.delta = 0, !.dir = Root, !.seen = 0] OBVIOUS
<1>5. R \in Records
  <2>1. PICK l \in Labels : l = r.then BY <1>2 DEF Records
  <2>2. R = [r EXCEPT !.at = l, !.delta = 0, !.dir = Root, !.seen = 0] BY <1>4, <2>1
  <2>3. 0 \in Int /\ 0 \in Nat OBVIOUS
  <2> QED BY <1>2, <2>2, <2>3 DEF Records
<1>6. Keeps(R, r) /\ R.at = r.then /\ R.then = r.then /\ R.acc = r.acc /\ R.owed = r.owed
  BY <1>2, <1>4 DEF Records, Keeps
<1>7. Shape(R)
  <2>1. CASE r.op = "write"
    <3>1. WriteShape(r) BY <1>2, <1>3, <1>6, <2>1 DEF Shape
    <3>2. WriteShape(R) BY <1>2, <1>3, <1>6, <3>1 DEF WriteShape, Keeps
    <3> QED BY <1>2, <1>3, <1>6, <2>1, <3>2 DEF Shape, Keeps
  <2>2. CASE r.op \in {"async", "sync"}
    <3>1. WriterShape(r) BY <1>2, <1>3, <1>6, <2>2 DEF Shape
    <3>2. WriterShape(R) BY <1>2, <1>3, <1>6, <3>1 DEF WriterShape, Keeps
    <3> QED BY <1>2, <1>3, <1>6, <2>2, <3>2 DEF Shape, Keeps
  <2>3. CASE r.op = "copy"
    <3>1. CopyShape(r) BY <1>2, <1>3, <1>6, <2>3 DEF Shape
    <3>2. CopyShape(R) BY <1>2, <1>3, <1>6, <3>1 DEF CopyShape, Keeps
    <3> QED BY <1>2, <1>3, <1>6, <2>3, <3>2 DEF Shape, Keeps
  <2>4. CASE r.op = "delete"
    <3>1. DeleteShape(r) BY <1>2, <1>3, <1>6, <2>4 DEF Shape
    <3>2. DeleteShape(R) BY <1>2, <1>3, <1>6, <3>1 DEF DeleteShape, Keeps
    <3> QED BY <1>2, <1>3, <1>6, <2>4, <3>2 DEF Shape, Keeps
  <2>5. CASE r.op = "delete_dir"
    <3>1. DeleteDirShape(r) BY <1>2, <1>3, <1>6, <2>5 DEF Shape
    <3>2. DeleteDirShape(R) BY <1>2, <1>3, <1>6, <3>1 DEF DeleteDirShape, Keeps
    <3> QED BY <1>2, <1>3, <1>6, <2>5, <3>2 DEF Shape, Keeps
  <2>6. CASE r.op = "rename"
    <3>1. RenameShape(r) BY <1>2, <1>3, <1>6, <2>6 DEF Shape
    <3>2. RenameShape(R) BY <1>2, <1>3, <1>6, <3>1 DEF RenameShape, Keeps
    <3> QED BY <1>2, <1>3, <1>6, <2>6, <3>2 DEF Shape, Keeps
  <2> QED BY <1>2, <1>3, <1>6, <2>1, <2>2, <2>3, <2>4, <2>5, <2>6, KindLabels
<1>8. Moves(c, R) BY <1>1, <1>4, <1>5, <1>7 DEF Moves, Goes
<1> QED BY <1>1, <1>6, <1>8, Zenon

\* The File::create of a write request leaves its client a well-formed record.
LEMMA CreateMoves ==
  ASSUME Typed, Shapes, NEW c \in Clients, Goes(c, "create", [client[c] EXCEPT !.at = "body", !.owed = 0])
  PROVE  \E R : Moves(c, R) /\ Keeps(R, client[c]) /\ R.at = "body" /\ R.owed = 0 /\ R.acc = client[c].acc /\ R.then = client[c].then
<1>1. PICK r : r = client[c] OBVIOUS
<1>2. r \in Records /\ Shape(r) /\ r.at = "create"
  BY <1>1, ClientRecord, Constants DEF Goes, Typed, Places
<1>3. r.delta \in Int /\ r.bytes \in Int /\ r.acc \in Nat /\ r.owed \in Nat
  BY <1>2, Constants DEF Records
<1>4. PICK R : R = [r EXCEPT !.at = "body", !.owed = 0] OBVIOUS
<1>5. R \in Records BY <1>2, <1>3, <1>4 DEF Records, Labels
<1>6. Keeps(R, r) /\ R.at = "body" /\ R.owed = 0 /\ R.acc = r.acc /\ R.then = r.then
  BY <1>2, <1>4 DEF Records, Keeps
<1>7. Shape(R)
  <2>1. CASE r.op = "write"
    <3>1. WriteShape(r) BY <1>2, <1>3, <1>6, <2>1 DEF Shape
    <3>2. WriteShape(R) BY <1>2, <1>3, <1>6, <3>1 DEF WriteShape, Keeps
    <3> QED BY <1>2, <1>3, <1>6, <2>1, <3>2 DEF Shape, Keeps
  <2> QED BY <1>2, <1>3, <1>6, <2>1, KindLabels
<1>8. Moves(c, R) BY <1>1, <1>4, <1>5, <1>7 DEF Moves, Goes
<1> QED BY <1>1, <1>6, <1>8, Zenon

\* The removal of a directory from the tree leaves its client a well-formed record.
LEMMA PruneMoves ==
  ASSUME Typed, Shapes, NEW c \in Clients, Goes(c, "prune", [client[c] EXCEPT !.at = "remove"])
  PROVE  \E R : Moves(c, R) /\ Keeps(R, client[c]) /\ R.at = "remove" /\ R.owed = client[c].owed /\ R.acc = client[c].acc /\ R.then = client[c].then
<1>1. PICK r : r = client[c] OBVIOUS
<1>2. r \in Records /\ Shape(r) /\ r.at = "prune"
  BY <1>1, ClientRecord, Constants DEF Goes, Typed, Places
<1>3. r.delta \in Int /\ r.bytes \in Int /\ r.acc \in Nat /\ r.owed \in Nat
  BY <1>2, Constants DEF Records
<1>4. PICK R : R = [r EXCEPT !.at = "remove"] OBVIOUS
<1>5. R \in Records BY <1>2, <1>3, <1>4 DEF Records, Labels
<1>6. Keeps(R, r) /\ R.at = "remove" /\ R.owed = r.owed /\ R.acc = r.acc /\ R.then = r.then
  BY <1>2, <1>4 DEF Records, Keeps
<1>7. Shape(R)
  <2>1. CASE r.op = "delete_dir"
    <3>1. DeleteDirShape(r) BY <1>2, <1>3, <1>6, <2>1 DEF Shape
    <3>2. DeleteDirShape(R) BY <1>2, <1>3, <1>6, <3>1 DEF DeleteDirShape, Keeps
    <3> QED BY <1>2, <1>3, <1>6, <2>1, <3>2 DEF Shape, Keeps
  <2> QED BY <1>2, <1>3, <1>6, <2>1, KindLabels
<1>8. Moves(c, R) BY <1>1, <1>4, <1>5, <1>7 DEF Moves, Goes
<1> QED BY <1>1, <1>6, <1>8, Zenon

\* The second step of truncate_root, which sets the total to zero, leaves its client a
\* well-formed record.
LEMMA ZeroMoves ==
  ASSUME Typed, Shapes, NEW c \in Clients, Goes(c, "zero", [client[c] EXCEPT !.at = "remove", !.owed = Real])
  PROVE  \E R : Moves(c, R) /\ Keeps(R, client[c]) /\ R.at = "remove" /\ R.owed = Real /\ R.acc = client[c].acc /\ R.then = client[c].then
<1>1. PICK r : r = client[c] OBVIOUS
<1>2. r \in Records /\ Shape(r) /\ r.at = "zero"
  BY <1>1, ClientRecord, Constants DEF Goes, Typed, Places
<1>0. Real \in Nat BY AllBound DEF Real, Typed
<1>3. r.delta \in Int /\ r.bytes \in Int /\ r.acc \in Nat /\ r.owed \in Nat
  BY <1>2, Constants DEF Records
<1>4. PICK R : R = [r EXCEPT !.at = "remove", !.owed = Real] OBVIOUS
<1>5. R \in Records BY <1>0, <1>2, <1>3, <1>4 DEF Records, Labels
<1>6. Keeps(R, r) /\ R.at = "remove" /\ R.owed = Real /\ R.acc = r.acc /\ R.then = r.then
  BY <1>0, <1>2, <1>4 DEF Records, Keeps
<1>7. Shape(R)
  <2>1. CASE r.op = "truncate"
    <3>1. TruncateShape(r) BY <1>2, <1>3, <1>6, <2>1 DEF Shape
    <3>2. TruncateShape(R) BY <1>2, <1>3, <1>6, <3>1 DEF TruncateShape, Keeps
    <3> QED BY <1>2, <1>3, <1>6, <2>1, <3>2 DEF Shape, Keeps
  <2> QED BY <1>2, <1>3, <1>6, <2>1, KindLabels
<1>8. Moves(c, R) BY <1>1, <1>4, <1>5, <1>7 DEF Moves, Goes
<1> QED BY <1>1, <1>6, <1>8, Zenon

\* A writer that goes to allocate, or on.
LEMMA WriterMoves ==
  ASSUME Typed, Shapes, NEW c \in Clients, client[c].at = "open", NEW then \in {"open", "done"},
         NEW r \in Records, Keeps(r, client[c]), r.acc = r.owed,
         r.then = client[c].then,
         client' = [client EXCEPT ![c] = Allocate(r, r.to[1], r.acc, FALSE, then)]
  PROVE  \E R : /\ Moves(c, R) /\ Keeps(R, client[c]) /\ R.acc = r.acc /\ R.owed = r.owed /\ R.delta = r.acc
                /\ R.at = IF r.acc = 0 THEN then ELSE "check"
<1>1. client[c] \in Records /\ Shape(client[c]) BY ClientRecord
<1>2. r.op \in {"async", "sync"} /\ r.to \in Files /\ r.files = {r.to} /\ r.acc \in Nat
  <2>1. PICK q : q = client[c] OBVIOUS
  <2>2. q.op \in {"async", "sync"} BY <1>1, <2>1, KindLabels
  <2>3. WriterShape(q) BY <1>1, <2>1, <2>2 DEF Shape
  <2>4. q.to \in Files /\ q.files = {q.to} BY <2>3 DEF WriterShape
  <2>5. Keeps(r, q) /\ r.acc \in Nat BY <2>1 DEF Records
  <2> QED BY <2>2, <2>4, <2>5 DEF Keeps
<1>3. r.to[1] \in Places /\ then \in Labels /\ r.acc \in Int BY <1>2, FileParts DEF Labels
<1>4. PICK R : R = Allocate(r, r.to[1], r.acc, FALSE, then) OBVIOUS
<1>5. R \in Records /\ AllocatedTo(R, r, r.to[1], r.acc, FALSE, then)
  BY <1>2, <1>3, <1>4, Allocated
<1>6. R.at = IF r.acc = 0 THEN then ELSE "check" BY <1>2, <1>5 DEF AllocatedTo
<1>7. WriterShape(R) BY <1>2, <1>5, <1>6 DEF WriterShape, AllocatedTo
<1>8. Shape(R) BY <1>2, <1>5, <1>7 DEF Shape, AllocatedTo
<1>9. Moves(c, R) BY <1>4, <1>5, <1>8 DEF Moves
<1>10. Keeps(R, client[c]) /\ R.acc = r.acc /\ R.owed = r.owed /\ R.delta = r.acc
  BY <1>5 DEF Keeps, AllocatedTo
<1> QED BY <1>6, <1>9, <1>10, Zenon

\* A chunk that a writer appends, allocated from ALLOCATION_THRESHOLD on, leaves its client
\* a well-formed record.
LEMMA WriterWriteMoves ==
  ASSUME Typed, Shapes, NEW c \in Clients, WriterWrite(c)
  PROVE  \E R : /\ Moves(c, R) /\ Keeps(R, client[c]) /\ R.owed = client[c].owed + 1
                /\ R.op \in {"async", "sync"} /\ R.at \in {"open", "check"}
<1>1. PICK q : q = client[c] OBVIOUS
<1>2. q \in Records /\ Shape(q) /\ q.at = "open" /\ q.op \in {"async", "sync"} /\ WriterShape(q)
  BY <1>1, ClientRecord, KindLabels DEF WriterWrite, Shape
<1>3. q.acc \in Nat /\ q.owed = q.acc BY <1>2 DEF WriterShape, Records
<1>0. PICK k \in Nat : k = q.acc + 1 BY <1>3
<1>4. PICK r : r = [q EXCEPT !.acc = k, !.owed = k] OBVIOUS
<1>5. r \in Records BY <1>2, <1>4 DEF Records
<1>50. Keeps(r, q) /\ r.at = "open" /\ r.then = q.then /\ r.acc = k /\ r.owed = k
  BY <1>2, <1>4 DEF Records, Keeps
<1>6. client' = [client EXCEPT ![c] = IF r.acc >= Threshold THEN Allocate(r, r.to[1], r.acc, FALSE, "open") ELSE r]
  <2>1. r = [client[c] EXCEPT !.acc = @ + 1, !.owed = @ + 1]
    <3>1. q.acc + 1 = k /\ q.owed + 1 = k BY <1>0, <1>3
    <3> QED BY <1>1, <1>4, <3>1
  <2> QED BY <2>1 DEF WriterWrite, Goes
<1>7. CASE r.acc >= Threshold
  <2>1. client' = [client EXCEPT ![c] = Allocate(r, r.to[1], r.acc, FALSE, "open")]
    BY <1>6, <1>7
  <2>2. PICK R : /\ Moves(c, R) /\ Keeps(R, client[c]) /\ R.acc = r.acc /\ R.owed = r.owed /\ R.delta = r.acc
                 /\ R.at = IF r.acc = 0 THEN "open" ELSE "check"
    <3>1. r.acc = r.owed /\ r.then = client[c].then /\ Keeps(r, client[c]) /\ client[c].at = "open" /\ "open" \in {"open", "done"}
      BY <1>1, <1>2, <1>50
    <3> QED BY <1>5, <2>1, <3>1, WriterMoves
  <2>3. R.owed = client[c].owed + 1 /\ R.op \in {"async", "sync"} /\ R.at \in {"open", "check"}
    BY <1>0, <1>1, <1>2, <1>3, <1>50, <2>2 DEF Keeps
  <2> QED BY <2>2, <2>3, Zenon
<1>8. CASE ~(r.acc >= Threshold)
  <2>1. client' = [client EXCEPT ![c] = r] BY <1>6, <1>8
  <2>2. WriterShape(r) BY <1>2, <1>3, <1>50 DEF WriterShape, Keeps
  <2>3. Shape(r) BY <1>2, <1>50, <2>2 DEF Shape, Keeps
  <2>4. Moves(c, r) /\ Keeps(r, client[c]) BY <1>1, <1>5, <1>50, <2>1, <2>3 DEF Moves
  <2>5. r.owed = client[c].owed + 1 /\ r.op \in {"async", "sync"} /\ r.at \in {"open", "check"}
    BY <1>0, <1>1, <1>2, <1>3, <1>50 DEF Keeps
  <2> QED BY <2>4, <2>5, Zenon
<1> QED BY <1>7, <1>8

\* The allocation of what a writer has left, at flush or in its drop, leaves its client a
\* well-formed record.
LEMMA FlushMoves ==
  ASSUME Typed, Shapes, NEW c \in Clients,
         Goes(c, "open", Allocate(client[c], client[c].to[1], client[c].acc, FALSE, "done"))
  PROVE  \E R : /\ Moves(c, R) /\ Keeps(R, client[c]) /\ R.owed = client[c].owed
                /\ R.op \in {"async", "sync"} /\ R.at \in {"done", "check"}
<1>1. PICK q : q = client[c] OBVIOUS
<1>2. q \in Records /\ Shape(q) /\ q.at = "open" /\ q.op \in {"async", "sync"} /\ WriterShape(q)
  BY <1>1, ClientRecord, KindLabels DEF Goes, Shape
<1>3. q.acc \in Nat /\ q.owed = q.acc /\ Keeps(q, q) BY <1>2 DEF WriterShape, Records, Keeps
<1>4. client' = [client EXCEPT ![c] = Allocate(q, q.to[1], q.acc, FALSE, "done")]
  BY <1>1 DEF Goes
<1>5. PICK R : /\ Moves(c, R) /\ Keeps(R, client[c]) /\ R.acc = q.acc /\ R.owed = q.owed /\ R.delta = q.acc
               /\ R.at = IF q.acc = 0 THEN "done" ELSE "check"
  BY <1>1, <1>2, <1>3, <1>4, WriterMoves
<1>6. R.owed = client[c].owed /\ R.op \in {"async", "sync"} /\ R.at \in {"done", "check"}
  BY <1>1, <1>2, <1>3, <1>5 DEF Keeps
<1> QED BY <1>5, <1>6, Zenon

\* The second allocation of a rename, in the new parent, leaves its client a well-formed
\* record.
LEMMA RenameMoveMoves ==
  ASSUME Typed, Shapes, NEW c \in Clients, RenameMove(c)
  PROVE  \E R : /\ Moves(c, R) /\ Keeps(R, client[c]) /\ R.owed = client[c].owed
                /\ R.op = "rename" /\ R.at = "add" /\ R.then = "rename" /\ R.delta = client[c].bytes
<1>1. PICK q : q = client[c] OBVIOUS
<1>2. q \in Records /\ Shape(q) /\ q.at = "move" /\ q.op = "rename" /\ RenameShape(q)
  BY <1>1, ClientRecord, KindLabels DEF RenameMove, Goes, Shape
<1>3. q.to \in Files /\ q.to[1] \in Places /\ q.bytes \in Int /\ q.bytes > 0
  BY <1>2, FileParts, Constants DEF RenameShape, Records
<1>4. PICK R : R = Allocate(q, q.to[1], q.bytes, TRUE, "rename") OBVIOUS
<1>5. R \in Records /\ AllocatedTo(R, q, q.to[1], q.bytes, TRUE, "rename")
  BY <1>2, <1>3, <1>4, Allocated DEF Labels
<1>6. R.at = "add" BY <1>3, <1>5 DEF AllocatedTo
<1>7. RenameShape(R) BY <1>2, <1>3, <1>5, <1>6 DEF RenameShape, AllocatedTo
<1>8. Shape(R) BY <1>2, <1>5, <1>7 DEF Shape, AllocatedTo
<1>9. Moves(c, R) BY <1>1, <1>4, <1>5, <1>8 DEF Moves, RenameMove, Goes
<1>10. Keeps(R, client[c]) /\ R.owed = client[c].owed /\ R.op = "rename" /\ R.then = "rename" /\ R.delta = client[c].bytes
  BY <1>1, <1>2, <1>5 DEF Keeps, AllocatedTo
<1> QED BY <1>6, <1>9, <1>10, Zenon

------------------------------------------------------------------------------
(* Types, the records of the clients and the walk of a recount. *)

Base == Typed /\ Shapes /\ Walk

\* How the other variables go when an operation begins, and in the steps that follow.
Began(c, R) ==
  /\ client[c].at = "idle" /\ ops < MaxOps /\ ops' = ops + 1
  /\ drift' = (drift \/ check.at = "store" \/ \E b \in Clients \ {c} : client[b].files \cap R.files # {})
  /\ pristine' = (pristine /\ ~drift')
  /\ Disturb
  /\ UNCHANGED <<limit, checks, leak>>

Went == Disturb /\ UNCHANGED <<limit, bounds>>

Disked == size' \in [Files -> 0..Largest] /\ cached' \in 0..(Word - 1) /\ tree' \in [Dirs -> Nat]

Storied == leak' \in Nat /\ drift' \in BOOLEAN /\ pristine' \in BOOLEAN

\* A word holds all that can be counted.
LEMMA WordHolds ==
  /\ Cap \in Nat /\ Entries \in Nat /\ Largest * Entries \in Nat
  /\ Largest * Cardinality(Files) \in Nat /\ Largest * Cardinality(Places) \in Nat
  /\ Largest * Cardinality(Files) + Largest * Cardinality(Places) = Largest * Entries
  /\ Largest * Entries <= Cap
  /\ Cap * MaxOps \in Nat
  /\ Word \div 2 \in Nat /\ Word \div 2 > Cap + Cap * MaxOps /\ Word >= 2 * (Word \div 2) /\ Word <= 2 * (Word \div 2) + 1
<1>0. PICK f \in Nat, p \in Nat : f = Cardinality(Files) /\ p = Cardinality(Places) BY Finite
<1>1. PICK n \in Nat : n = Entries /\ n = f + p BY <1>0 DEF Entries
<1>2. PICK l \in Nat, m \in Nat : l = Largest /\ m = MaxOps BY Constants
<1>3. PICK a \in Nat : a = l * n BY <1>1, <1>2
<1>4. PICK k \in Nat : k = l * m BY <1>2
<1>5. Cap = a + k BY <1>1, <1>2, <1>3, <1>4 DEF Cap
<1>6. PICK w \in Nat : w = (a + k) * m OBVIOUS
<1>7. l * (n + m) * (m + 1) = (a + k) + w
  <2>1. l * (n + m) = a + k BY <1>1, <1>2, <1>3, <1>4
  <2>2. PICK s \in Nat : s = a + k OBVIOUS
  <2>3. s * (m + 1) = w + s BY <1>6, <2>2
  <2> QED BY <2>1, <2>2, <2>3
<1>8. Word \div 2 > Largest * (Entries + MaxOps) * (MaxOps + 1) BY FilesAssumption DEF Entries
<1>9. Word \div 2 \in Nat /\ Word >= 2 * (Word \div 2) /\ Word <= 2 * (Word \div 2) + 1
  BY Constants
<1>10. l * f \in Nat /\ l * p \in Nat /\ l * f + l * p = a
  <2>1. l * f \in Nat /\ l * p \in Nat OBVIOUS
  <2>2. l * (f + p) = l * f + l * p OBVIOUS
  <2> QED BY <1>1, <1>3, <2>1, <2>2
<1> QED BY <1>0, <1>1, <1>2, <1>3, <1>5, <1>6, <1>7, <1>8, <1>9, <1>10

\* The arithmetic of the 64-bit total on the range of one wrap in each direction (fetch_add,
\* fetch_sub).
LEMMA ModWord ==
  ASSUME NEW x \in Int
  PROVE  /\ x % Word \in 0..(Word - 1)
         /\ 0 <= x /\ x < Word => x % Word = x
         /\ -Word <= x /\ x < 0 => x % Word = x + Word
         /\ Word <= x /\ x < 2 * Word => x % Word = x - Word
BY Constants

\* A disk without files has size 0, everywhere.
LEMMA Zeros ==
  ASSUME NEW z, z = [f \in Files |-> 0]
  PROVE  All(z) = 0 /\ \A p \in Places : Within(z, p) = 0
<1>1. z \in [Files -> Int] OBVIOUS
<1>2. \A p \in Places, n \in Names : z[<<p, n>>] = 0 BY DEF Files
<1>3. \A p \in Places : Within(z, p) = 0 BY <1>1, <1>2, WithinZero
<1>4. [p \in Places |-> Within(z, p)] = [p \in Places |-> 0] BY <1>3
<1>5. All(z) = 0 BY <1>4, Finite, TotalZero DEF All
<1> QED BY <1>3, <1>5

\* When one client moves on to a well-formed record, all clients keep theirs.
LEMMA MoveTyped ==
  ASSUME Typed, Shapes, NEW c \in Clients, NEW R, Moves(c, R)
  PROVE  /\ client' \in [Clients -> Records] /\ Shapes'
         /\ client'[c] = R /\ \A b \in Clients : b # c => client'[b] = client[b]
<1>1. /\ client' \in [Clients -> Records]
      /\ client'[c] = R /\ \A b \in Clients : b # c => client'[b] = client[b]
  BY DEF Typed, Moves
<1>2. \A b \in Clients : Shape(client'[b]) BY <1>1 DEF Shapes, Moves
<1> QED BY <1>1, <1>2 DEF Shapes

\* A recount that a client disturbs promises nothing any more.
LEMMA Disturbed ==
  ASSUME Typed, Disturb
  PROVE  check' \in Checks /\ Walk'
<1>1. check' \in Checks /\ ~check'.quiet /\ ~check'.exact BY DEF Typed, Disturb, Checks
<1> QED BY <1>1 DEF Walk, RecountHeals

\* The start of any operation keeps Base when its record and the disk stay well formed.
LEMMA BeganBase ==
  ASSUME Base, NEW c \in Clients, NEW R, Moves(c, R), Began(c, R), Disked
  PROVE  Base'
<1>1. client' \in [Clients -> Records] /\ Shapes' BY MoveTyped DEF Base
<1>2. check' \in Checks /\ Walk' BY Disturbed DEF Base, Began
<1>3. /\ limit' \in Limits /\ ops' \in 0..MaxOps /\ checks' \in Nat
      /\ leak' \in Nat
  BY Constants DEF Base, Typed, Began
<1>4. drift' \in BOOLEAN /\ pristine' \in BOOLEAN BY DEF Base, Typed, Began
<1> QED BY <1>1, <1>2, <1>3, <1>4 DEF Base, Typed, Disked

\* A step of any operation keeps Base when its record, the disk and the history stay well
\* formed.
LEMMA WentBase ==
  ASSUME Base, NEW c \in Clients, NEW R, Moves(c, R), Went, Disked, Storied
  PROVE  Base'
<1>1. client' \in [Clients -> Records] /\ Shapes' BY MoveTyped DEF Base
<1>2. check' \in Checks /\ Walk' BY Disturbed DEF Base, Went
<1>3. limit' \in Limits /\ ops' \in 0..MaxOps /\ checks' \in Nat
  BY DEF Base, Typed, Went, bounds
<1> QED BY <1>1, <1>2, <1>3 DEF Base, Typed, Disked, Storied

\* A step that leaves the disk and the account alone keeps their types.
LEMMA SameDisk ==
  ASSUME Typed, UNCHANGED disk
  PROVE  Disked
BY DEF Typed, Disked, disk

\* A step that leaves the history alone keeps its types.
LEMMA SameStory ==
  ASSUME Typed, UNCHANGED history
  PROVE  Storied
BY DEF Typed, Storied, history

\* A step that loses bytes from the account keeps the types of the history.
LEMMA LeakStory ==
  ASSUME Typed, NEW n \in Nat, Leak(n)
  PROVE  Storied
<1>1. leak' \in Nat /\ drift' \in BOOLEAN BY DEF Typed, Leak
<1>2. pristine' \in BOOLEAN BY DEF Typed, Leak
<1> QED BY <1>1, <1>2 DEF Storied

\* The saturation of update_size: a number below zero becomes zero.
LEMMA AtLeastZero ==
  ASSUME NEW n \in Int
  PROVE  Max({0, n}) \in Nat /\ Max({0, n}) = IF n > 0 THEN n ELSE 0
<1>1. PICK m : m = Max({0, n}) OBVIOUS
<1>2. m = CHOOSE x \in {0, n} : \A y \in {0, n} : x >= y BY <1>1 DEF Max
<1>3. \E x \in {0, n} : \A y \in {0, n} : x >= y OBVIOUS
<1>4. m \in {0, n} /\ \A y \in {0, n} : m >= y BY <1>2, <1>3
<1> QED BY <1>1, <1>4

\* The client is idle before POST files/write, which compares the announced size with the
\* old one; the operation is counted and the recount disturbed.
LEMMA WriteBegins ==
  ASSUME NEW c \in Clients, NEW f \in Files, NEW n \in Sizes, NEW body \in Sizes, NEW R, R.files = {f}, Write(c, f, n, body)
  PROVE  Began(c, R)
BY DEF Write, Begin, Began

\* POST files/write, which compares the announced size with the old one keeps `Base'.
LEMMA WriteBase ==
  ASSUME Base, NEW c \in Clients, NEW f \in Files, NEW n \in Sizes, NEW body \in Sizes, Write(c, f, n, body)
  PROVE  Base'
<1>1. PICK R : Moves(c, R) /\ R.files = {f} BY WriteMoves DEF Base
<1>2. Began(c, R) BY <1>1, WriteBegins
<1>3. Disked BY SameDisk DEF Base, Write
<1> QED BY <1>1, <1>2, <1>3, BeganBase

\* The client is idle before opening a writer, which empties the file; the operation is
\* counted and the recount disturbed.
LEMMA OpenBegins ==
  ASSUME NEW c \in Clients, NEW op \in {"async", "sync"}, NEW f \in Files, NEW R, R.files = {f}, Open(c, op, f)
  PROVE  Began(c, R)
BY DEF Open, Begin, Began

\* Opening a writer, which empties the file keeps `Base'.
LEMMA OpenBase ==
  ASSUME Base, NEW c \in Clients, NEW op \in {"async", "sync"}, NEW f \in Files, Open(c, op, f)
  PROVE  Base'
<1>1. PICK R : Moves(c, R) /\ R.files = {f} BY OpenMoves DEF Base
<1>2. Began(c, R) BY <1>1, OpenBegins
<1>3. Disked BY Constants DEF Base, Typed, Disked, Open
<1> QED BY <1>1, <1>2, <1>3, BeganBase

\* The client is idle before POST files/copy, which allocates the size of the source first;
\* the operation is counted and the recount disturbed.
LEMMA CopyBegins ==
  ASSUME NEW c \in Clients, NEW f \in Files, NEW g \in Files, NEW R, R.files = {f, g}, Copy(c, f, g)
  PROVE  Began(c, R)
BY DEF Copy, Begin, Began

\* POST files/copy, which allocates the size of the source first keeps `Base'.
LEMMA CopyBase ==
  ASSUME Base, NEW c \in Clients, NEW f \in Files, NEW g \in Files, Copy(c, f, g)
  PROVE  Base'
<1>1. PICK R : Moves(c, R) /\ R.files = {f, g} BY CopyMoves DEF Base
<1>2. Began(c, R) BY <1>1, CopyBegins
<1>3. Disked BY SameDisk DEF Base, Copy
<1> QED BY <1>1, <1>2, <1>3, BeganBase

\* The client is idle before truncate_path of a file, which gives its size back first; the
\* operation is counted and the recount disturbed.
LEMMA DeleteFileBegins ==
  ASSUME NEW c \in Clients, NEW f \in Files, NEW R, R.files = {f}, DeleteFile(c, f)
  PROVE  Began(c, R)
BY DEF DeleteFile, Begin, Began

\* `truncate_path' of a file, which gives its size back first keeps `Base'.
LEMMA DeleteFileBase ==
  ASSUME Base, NEW c \in Clients, NEW f \in Files, DeleteFile(c, f)
  PROVE  Base'
<1>1. PICK R : Moves(c, R) /\ R.files = {f} BY DeleteFileMoves DEF Base
<1>2. Began(c, R) BY <1>1, DeleteFileBegins
<1>3. Disked BY SameDisk DEF Base, DeleteFile
<1> QED BY <1>1, <1>2, <1>3, BeganBase

\* The client is idle before truncate_path of a directory, which gives back what the tree
\* says of it; the operation is counted and the recount disturbed.
LEMMA DeleteDirBegins ==
  ASSUME NEW c \in Clients, NEW d \in Dirs, NEW R, R.files = In(d), DeleteDir(c, d)
  PROVE  Began(c, R)
BY DEF DeleteDir, Begin, Began

\* `truncate_path' of a directory, which gives back what the tree says of it keeps `Base'.
LEMMA DeleteDirBase ==
  ASSUME Base, NEW c \in Clients, NEW d \in Dirs, DeleteDir(c, d)
  PROVE  Base'
<1>1. PICK R : Moves(c, R) /\ R.files = In(d) BY DeleteDirMoves DEF Base
<1>2. Began(c, R) BY <1>1, DeleteDirBegins
<1>3. Disked BY SameDisk DEF Base, DeleteDir
<1> QED BY <1>1, <1>2, <1>3, BeganBase

\* The client is idle before rename_path of a file, which gives its size back to the old
\* parent first; the operation is counted and the recount disturbed.
LEMMA RenameFileBegins ==
  ASSUME NEW c \in Clients, NEW f \in Files, NEW g \in Files, NEW R, R.files = {f, g}, RenameFile(c, f, g)
  PROVE  Began(c, R)
BY DEF RenameFile, Begin, Began

\* `rename_path' of a file, which gives its size back to the old parent first keeps `Base'.
LEMMA RenameFileBase ==
  ASSUME Base, NEW c \in Clients, NEW f \in Files, NEW g \in Files, RenameFile(c, f, g)
  PROVE  Base'
<1>1. PICK R : Moves(c, R) /\ R.files = {f, g} BY RenameFileMoves DEF Base
<1>2. Began(c, R) BY <1>1, RenameFileBegins
<1>3. Disked BY SameDisk DEF Base, RenameFile
<1> QED BY <1>1, <1>2, <1>3, BeganBase

\* The client is idle before rename_path of a directory, whose entry of the tree moves at
\* once; the operation is counted and the recount disturbed.
LEMMA RenameDirBegins ==
  ASSUME NEW c \in Clients, NEW d \in Dirs, NEW e \in Dirs, NEW R, R.files = In(d) \cup In(e), RenameDir(c, d, e)
  PROVE  Began(c, R)
BY DEF RenameDir, Begin, Began

\* `rename_path' of a directory, whose entry of the tree moves at once keeps `Base'.
LEMMA RenameDirBase ==
  ASSUME Base, NEW c \in Clients, NEW d \in Dirs, NEW e \in Dirs, RenameDir(c, d, e)
  PROVE  Base'
<1>0. PICK R : Moves(c, R) /\ RenamesDir(R, d, e) BY RenameDirMoves DEF Base
<1>1. Moves(c, R) /\ R.files = In(d) \cup In(e) BY <1>0 DEF RenamesDir
<1>2. Began(c, R) BY <1>1, RenameDirBegins
<1>3. Disked BY DEF Base, Typed, Disked, RenameDir
<1> QED BY <1>1, <1>2, <1>3, BeganBase

\* The client is idle before the start of truncate_root, which clears the tree; the
\* operation is counted and the recount disturbed.
LEMMA TruncateRootBegins ==
  ASSUME NEW c \in Clients, NEW R, R.files = Files, TruncateRoot(c)
  PROVE  Began(c, R)
BY DEF TruncateRoot, Begin, Began

\* The start of truncate_root, which clears the tree keeps `Base'.
LEMMA TruncateRootBase ==
  ASSUME Base, NEW c \in Clients, TruncateRoot(c)
  PROVE  Base'
<1>1. PICK R : Moves(c, R) /\ R.files = Files BY TruncateMoves DEF Base
<1>2. Began(c, R) BY <1>1, TruncateRootBegins
<1>3. Disked BY Constants DEF Base, Typed, Disked, TruncateRoot
<1> QED BY <1>1, <1>2, <1>3, BeganBase

\* Every request as it starts keeps `Base'.
LEMMA StartsBase ==
  ASSUME Base, NEW c \in Clients, Starts(c)
  PROVE  Base'
<1>1. ASSUME NEW f \in Files, Upload(c, f) \/ Pull(c, f) \/ Compress(c, f) \/ Decompress(c, f)
      PROVE  Base'
  <2>1. PICK op \in {"async", "sync"} : Open(c, op, f)
    BY <1>1 DEF Upload, Pull, Compress, Decompress
  <2> QED BY <2>1, OpenBase
<1> QED BY <1>1, WriteBase, CopyBase, DeleteFileBase, DeleteDirBase, RenameFileBase, RenameDirBase, TruncateRootBase DEF Starts

\* The types of the fields of a record of a client.
LEMMA FieldTypes ==
  ASSUME NEW r \in Records
  PROVE  /\ r.delta \in Int /\ r.bytes \in Int /\ r.body \in Int /\ r.bytes \in Nat /\ r.acc \in Nat /\ r.owed \in Nat
         /\ r.seen \in Nat /\ r.body \in 0..Largest /\ r.bytes \in 0..Largest
         /\ r.files \in SUBSET Files /\ r.dir \in Places
         /\ r.dir # Root => r.dir \in Dirs
BY Constants DEF Records, Places

\* A step of a client leaves the limit and the counters alone and disturbs the recount.
LEMMA GoesWent ==
  ASSUME NEW c, NEW from, NEW to, Goes(c, from, to)
  PROVE  Went /\ client[c].at = from
BY DEF Goes, Went

\* The size of every file is a number up to Largest.
LEMMA SizeNat ==
  ASSUME Typed, NEW f \in Files
  PROVE  size[f] \in Nat /\ size[f] \in Int /\ size[f] \in 0..Largest /\ size \in [Files -> Int] /\ size[f] <= Largest
BY Constants DEF Typed

\* A step that gives up.
LEMMA IdleBase ==
  ASSUME Base, NEW c \in Clients, NEW from, Goes(c, from, Idle), Disked, Storied
  PROVE  Base'
<1>1. Moves(c, Idle) /\ Went BY GoesIdle, GoesWent
<1> QED BY <1>1, WentBase

\* The comparison of async_allocate_in_path with disk_limit keeps `Base'.
LEMMA AllocCheckBase ==
  ASSUME Base, NEW c \in Clients, AllocCheck(c)
  PROVE  Base'
<1>1. Typed /\ Shapes /\ Disked BY SameDisk DEF Base, AllocCheck
<1>2. CASE Goes(c, "check", Idle) /\ Refused(c)
  <2>1. PICK n \in Nat : n = client[c].acc BY <1>1, ClientRecord, FieldTypes
  <2>2. Storied BY <1>1, <1>2, <2>1, LeakStory DEF Refused
  <2> QED BY <1>1, <1>2, <2>2, IdleBase
<1>3. CASE Goes(c, "check", [client[c] EXCEPT !.at = "add"]) /\ UNCHANGED history
  <2>1. PICK R : Moves(c, R) BY <1>1, <1>3, CheckMoves
  <2>2. Went /\ Storied BY <1>1, <1>3, SameStory DEF Goes, Went
  <2> QED BY <1>1, <2>1, <2>2, WentBase
<1> QED BY <1>2, <1>3 DEF AllocCheck

\* The fetch_add of async_allocate_in_path keeps `Base'.
LEMMA AllocAddBase ==
  ASSUME Base, NEW c \in Clients, AllocAdd(c)
  PROVE  Base'
<1>1. Typed /\ Shapes BY DEF Base
<1>2. PICK R : Moves(c, R) BY <1>1, AddMoves DEF AllocAdd
<1>3. PICK n \in Int : n = cached + client[c].delta
  <2>1. client[c].delta \in Int BY <1>1, ClientRecord, FieldTypes
  <2>2. cached \in Int BY <1>1, Constants DEF Typed
  <2> QED BY <2>1, <2>2
<1>4. cached' \in 0..(Word - 1) BY <1>3, ModWord DEF AllocAdd
<1>5. Disked /\ Storied BY <1>1, <1>4, SameStory DEF AllocAdd, Disked, Typed
<1>6. Went BY DEF AllocAdd, Goes, Went
<1> QED BY <1>2, <1>5, <1>6, WentBase

\* The load of the cached total before it is lowered keeps `Base'.
LEMMA AllocLoadBase ==
  ASSUME Base, NEW c \in Clients, AllocLoad(c)
  PROVE  Base'
<1>1. Typed /\ Shapes BY DEF Base
<1>2. PICK R : Moves(c, R) BY <1>1, LoadMoves DEF AllocLoad
<1>3. Disked /\ Storied BY <1>1, SameDisk, SameStory DEF AllocLoad
<1>4. Went BY DEF AllocLoad, Goes, Went
<1> QED BY <1>2, <1>3, <1>4, WentBase

\* The total, read as a signed number as the comparison does, is an integer.
LEMMA SignedInt ==
  ASSUME Typed
  PROVE  AsI64 \in Int /\ cached \in Int
BY Constants DEF Typed, AsI64

\* The fetch_sub, or the store of zero when the total seen is too small keeps `Base'.
LEMMA AllocSubBase ==
  ASSUME Base, NEW c \in Clients, AllocSub(c)
  PROVE  Base'
<1>1. Typed /\ Shapes /\ cached \in Int /\ AsI64 \in Int BY SignedInt DEF Base
<1>2. Goes(c, "sub", [client[c] EXCEPT !.at = "tree", !.owed = -client[c].delta])
  BY DEF AllocSub
<1>3. PICK R : Moves(c, R) BY <1>1, <1>2, SubMoves
<1>4. PICK k \in Int : k = -client[c].delta
  <2>1. client[c].delta \in Int BY <1>1, ClientRecord, FieldTypes
  <2> QED BY <2>1
<1>5. PICK n \in Int : n = cached - k BY <1>1
<1>6. PICK m \in Nat : m = Max({0, AsI64 - k}) BY <1>1, AtLeastZero
<1>7. cached' \in 0..(Word - 1)
  <2>1. cached' = n % Word \/ cached' = 0 BY <1>4, <1>5 DEF AllocSub
  <2> QED BY <2>1, ModWord, Constants
<1>8. Storied
  <2>1. UNCHANGED history \/ Leak(m) BY <1>4, <1>6 DEF AllocSub
  <2> QED BY <1>1, <2>1, SameStory, LeakStory
<1>9. Disked BY <1>1, <1>7 DEF AllocSub, Disked, Typed
<1>10. Went BY <1>2 DEF Goes, Went
<1> QED BY <1>3, <1>8, <1>9, <1>10, WentBase

\* What update_size makes of the tree.
LEMMA TreeEffect ==
  ASSUME Typed, Shapes, NEW c \in Clients, AllocTree(c)
  PROVE  \E n \in Int :
           /\ n = IF client[c].dir = Root THEN 0 ELSE tree[client[c].dir] + client[c].delta
           /\ Leak(IF n < 0 THEN -n ELSE 0)
           /\ client[c].dir = Root => tree' = tree
           /\ client[c].dir # Root =>
                client[c].dir \in Dirs /\ tree' = [tree EXCEPT ![client[c].dir] = IF n > 0 THEN n ELSE 0]
<1>1. PICK r : r = client[c] OBVIOUS
<1>2. r \in Records /\ r.delta \in Int /\ (r.dir # Root => r.dir \in Dirs)
  BY <1>1, ClientRecord, FieldTypes
<1>3. r.dir # Root => tree[r.dir] \in Int BY <1>2 DEF Typed
<1>4. PICK n \in Int : n = IF r.dir = Root THEN 0 ELSE tree[r.dir] + r.delta BY <1>2, <1>3
<1>5. PICK k \in Int : k = -n OBVIOUS
<1>6. Max({0, n}) = IF n > 0 THEN n ELSE 0 BY AtLeastZero
<1>7. Max({0, k}) = IF n < 0 THEN -n ELSE 0
  <2>1. Max({0, k}) = IF k > 0 THEN k ELSE 0 BY AtLeastZero
  <2> QED BY <1>5, <2>1
<1>8. Leak(Max({0, k})) BY <1>1, <1>4, <1>5 DEF AllocTree
<1>9. Leak(IF n < 0 THEN -n ELSE 0) BY <1>7, <1>8
<1>10. tree' = IF r.dir = Root THEN tree ELSE [tree EXCEPT ![r.dir] = Max({0, n})]
  BY <1>1, <1>4 DEF AllocTree
<1>11. /\ r.dir = Root => tree' = tree
       /\ r.dir # Root => r.dir \in Dirs /\ tree' = [tree EXCEPT ![r.dir] = IF n > 0 THEN n ELSE 0]
  BY <1>2, <1>6, <1>10
<1> QED BY <1>1, <1>4, <1>9, <1>11

\* `update_size' of the tree, which saturates at zero keeps `Base'.
LEMMA AllocTreeBase ==
  ASSUME Base, NEW c \in Clients, AllocTree(c)
  PROVE  Base'
<1>1. Typed /\ Shapes BY DEF Base
<1>2. PICK R : Moves(c, R) BY <1>1, TreeMoves DEF AllocTree
<1>3. PICK n \in Int :
           /\ n = IF client[c].dir = Root THEN 0 ELSE tree[client[c].dir] + client[c].delta
           /\ Leak(IF n < 0 THEN -n ELSE 0)
           /\ client[c].dir = Root => tree' = tree
           /\ client[c].dir # Root =>
                client[c].dir \in Dirs /\ tree' = [tree EXCEPT ![client[c].dir] = IF n > 0 THEN n ELSE 0]
  BY <1>1, TreeEffect
<1>4. PICK m \in Nat : m = IF n < 0 THEN -n ELSE 0 OBVIOUS
<1>5. Storied BY <1>1, <1>3, <1>4, LeakStory
<1>6. tree' \in [Dirs -> Nat] BY <1>1, <1>3 DEF Typed
<1>7. Disked BY <1>1, <1>6 DEF AllocTree, Disked, Typed
<1>8. Went BY DEF AllocTree, Goes, Went
<1> QED BY <1>2, <1>5, <1>7, <1>8, WentBase

\* The destination of a write, a writer, a copy or a rename is a file, and not the source.
LEMMA ToFile ==
  ASSUME Typed, Shapes, NEW c \in Clients, client[c].op \in {"write", "async", "sync", "copy", "rename"}
  PROVE  client[c].to \in Files /\ (client[c].op \in {"copy", "rename"} => client[c].from \in Files /\ client[c].from # client[c].to)
<1>1. PICK r : r = client[c] OBVIOUS
<1>2. r \in Records /\ Shape(r) BY <1>1, ClientRecord
<1>3. CASE r.op = "write" BY <1>1, <1>2, <1>3 DEF Shape, WriteShape
<1>4. CASE r.op \in {"async", "sync"} BY <1>1, <1>2, <1>4 DEF Shape, WriterShape
<1>5. CASE r.op = "copy" BY <1>1, <1>2, <1>5 DEF Shape, CopyShape
<1>6. CASE r.op = "rename" BY <1>1, <1>2, <1>6 DEF Shape, RenameShape
<1> QED BY <1>1, <1>3, <1>4, <1>5, <1>6

\* Which operation a client is in follows from its label.
LEMMA AtOp ==
  ASSUME Typed, Shapes, NEW c \in Clients
  PROVE  /\ client[c].at \in {"create", "body"} => client[c].op = "write"
         /\ client[c].at \in {"open", "done"} => client[c].op \in {"async", "sync"}
         /\ client[c].at = "copy" => client[c].op = "copy"
         /\ client[c].at = "prune" => client[c].op = "delete_dir"
         /\ client[c].at = "zero" => client[c].op = "truncate"
         /\ client[c].at = "remove" => client[c].op \in {"delete", "delete_dir", "truncate"}
         /\ client[c].at = "move" => client[c].op = "rename"
         /\ client[c].at = "rename" => client[c].op \in {"rename", "rename_dir"}
<1>1. client[c] \in Records /\ Shape(client[c]) BY ClientRecord
<1> QED BY <1>1, KindLabels

\* The File::create of a write request, which empties the file keeps `Base'.
LEMMA WriteCreateBase ==
  ASSUME Base, NEW c \in Clients, WriteCreate(c)
  PROVE  Base'
<1>1. Typed /\ Shapes BY DEF Base
<1>2. CASE /\ Goes(c, "create", [client[c] EXCEPT !.at = "body", !.owed = 0])
           /\ size' = [size EXCEPT ![client[c].to] = 0] /\ UNCHANGED history
  <2>1. PICK R : Moves(c, R) BY <1>1, <1>2, CreateMoves
  <2>2. client[c].to \in Files BY <1>1, <1>2, AtOp, ToFile DEF Goes
  <2>3. Disked /\ Storied
    BY <1>1, <1>2, <2>2, SameStory, Constants DEF WriteCreate, Disked, Typed
  <2>4. Went BY <1>2 DEF Goes, Went
  <2> QED BY <2>1, <2>3, <2>4, WentBase
<1>3. CASE Goes(c, "create", Idle) /\ Leak(client[c].owed) /\ UNCHANGED size
  <2>1. PICK n \in Nat : n = client[c].owed BY <1>1, ClientRecord, FieldTypes
  <2>2. Disked /\ Storied BY <1>1, <1>3, <2>1, LeakStory DEF WriteCreate, Disked, Typed
  <2> QED BY <1>3, <2>2, IdleBase
<1> QED BY <1>2, <1>3 DEF WriteCreate

\* The end of a request whose future is dropped as it waits for the lock of the tree keeps
\* `Base'.
LEMMA DroppedBase ==
  ASSUME Base, NEW c \in Clients, Dropped(c)
  PROVE  Base'
<1>1. Typed /\ Shapes /\ Disked /\ Leak(client[c].owed) BY SameDisk DEF Base, Dropped
<1>2. PICK label \in {"tree", "prune"} : Goes(c, label, Idle) BY DEF Dropped
<1>3. PICK n \in Nat : n = client[c].owed BY <1>1, ClientRecord, FieldTypes
<1>4. Storied BY <1>1, <1>3, LeakStory
<1> QED BY <1>1, <1>2, <1>4, IdleBase

\* The second step of truncate_root, which sets the total to zero keeps `Base'.
LEMMA TruncateZeroBase ==
  ASSUME Base, NEW c \in Clients, TruncateZero(c)
  PROVE  Base'
<1>1. Typed /\ Shapes BY DEF Base
<1>2. PICK R : Moves(c, R) BY <1>1, ZeroMoves DEF TruncateZero
<1>3. Disked /\ Storied BY <1>1, SameStory, Constants DEF TruncateZero, Disked, Typed
<1>4. Went BY DEF TruncateZero, Goes, Went
<1> QED BY <1>2, <1>3, <1>4, WentBase

\* The writing of the body, which may be shorter or longer than announced keeps `Base'.
LEMMA WriteBodyBase ==
  ASSUME Base, NEW c \in Clients, WriteBody(c)
  PROVE  Base'
<1>1. Typed /\ Shapes /\ Goes(c, "body", Idle) BY DEF Base, WriteBody
<1>2. client[c].to \in Files BY <1>1, AtOp, ToFile DEF Goes
<1>3. client[c].body \in 0..Largest /\ client[c].body - client[c].bytes \in Int
  BY <1>1, ClientRecord, FieldTypes
<1>4. PICK n \in Nat : n = Max({0, client[c].body - client[c].bytes}) BY <1>3, AtLeastZero
<1>5. Storied BY <1>1, <1>4, LeakStory DEF WriteBody
<1>6. Disked BY <1>1, <1>2, <1>3 DEF WriteBody, Disked, Typed
<1> QED BY <1>1, <1>5, <1>6, IdleBase

\* A chunk that a writer appends, allocated from ALLOCATION_THRESHOLD on keeps `Base'.
LEMMA WriterWriteBase ==
  ASSUME Base, NEW c \in Clients, WriterWrite(c)
  PROVE  Base'
<1>1. Typed /\ Shapes BY DEF Base
<1>2. PICK R : Moves(c, R) BY <1>1, WriterWriteMoves
<1>3. PICK f \in Files : f = client[c].to BY <1>1, AtOp, ToFile DEF WriterWrite
<1>4. size[f] \in Nat /\ size[f] < Largest BY <1>1, <1>3, SizeNat DEF WriterWrite
<1>5. size' \in [Files -> 0..Largest]
  <2>1. size[f] + 1 \in 0..Largest BY <1>4, Constants
  <2>2. size' = [size EXCEPT ![f] = size[f] + 1] BY <1>3 DEF WriterWrite
  <2> QED BY <1>1, <2>1, <2>2 DEF Typed
<1>6. Disked /\ Storied BY <1>1, <1>5, SameStory DEF WriterWrite, Disked, Typed
<1>7. Went BY DEF WriterWrite, Goes, Went
<1> QED BY <1>2, <1>6, <1>7, WentBase

\* The allocation of what a writer has left, at flush or in its drop keeps `Base'.
LEMMA FlushBase ==
  ASSUME Base, NEW c \in Clients, UNCHANGED disk, UNCHANGED history,
         Goes(c, "open", Allocate(client[c], client[c].to[1], client[c].acc, FALSE, "done"))
  PROVE  Base'
<1>1. Typed /\ Shapes /\ Disked /\ Storied BY SameDisk, SameStory DEF Base
<1>2. PICK R : Moves(c, R) BY <1>1, FlushMoves
<1>3. Went BY DEF Goes, Went
<1> QED BY <1>1, <1>2, <1>3, WentBase

\* Flush of a writer keeps `Base'.
LEMMA WriterFlushBase ==
  ASSUME Base, NEW c \in Clients, WriterFlush(c)
  PROVE  Base'
BY FlushBase DEF WriterFlush

\* Drop of a writer, which only the asynchronous one follows with an allocation keeps
\* `Base'.
LEMMA WriterDropBase ==
  ASSUME Base, NEW c \in Clients, WriterDrop(c)
  PROVE  Base'
<1>1. UNCHANGED disk /\ Typed /\ Shapes /\ Disked BY SameDisk DEF WriterDrop, Base
<1>2. CASE client[c].op = "async" BY <1>1, <1>2, FlushBase DEF WriterDrop
<1>3. CASE client[c].op # "async"
  <2>1. Goes(c, "open", Idle) /\ Leak(client[c].acc) BY <1>3 DEF WriterDrop
  <2>2. PICK n \in Nat : n = client[c].acc BY <1>1, ClientRecord, FieldTypes
  <2>3. Storied BY <1>1, <2>1, <2>2, LeakStory
  <2> QED BY <1>1, <2>1, <2>3, IdleBase
<1> QED BY <1>2, <1>3

\* The end of a writer keeps `Base'.
LEMMA DoneBase ==
  ASSUME Base, NEW c \in Clients, Done(c)
  PROVE  Base'
<1>1. Goes(c, "done", Idle) /\ Disked /\ Storied BY SameDisk, SameStory DEF Done, Base
<1> QED BY <1>1, IdleBase

\* The copy itself, which may fail keeps `Base'.
LEMMA CopyBodyBase ==
  ASSUME Base, NEW c \in Clients, CopyBody(c)
  PROVE  Base'
<1>1. Typed /\ Shapes /\ Goes(c, "copy", Idle) /\ Storied BY SameStory DEF Base, CopyBody
<1>2. client[c].op = "copy" BY <1>1, AtOp DEF Goes
<1>3. client[c].to \in Files /\ client[c].from \in Files BY <1>1, <1>2, ToFile
<1>4. Disked BY <1>1, <1>3 DEF CopyBody, Disked, Typed
<1> QED BY <1>1, <1>4, IdleBase

\* The removal of a directory from the tree keeps `Base'.
LEMMA DeletePruneBase ==
  ASSUME Base, NEW c \in Clients, DeletePrune(c)
  PROVE  Base'
<1>1. Typed /\ Shapes BY DEF Base
<1>2. PICK R : Moves(c, R) BY <1>1, PruneMoves DEF DeletePrune
<1>3. Disked /\ Storied BY <1>1, SameStory DEF DeletePrune, Disked, Typed
<1>4. Went BY DEF DeletePrune, Goes, Went
<1> QED BY <1>2, <1>3, <1>4, WentBase

\* The removal from the disk, which may fail keeps `Base'.
LEMMA RemoveBase ==
  ASSUME Base, NEW c \in Clients, Remove(c)
  PROVE  Base'
<1>1. Typed /\ Shapes /\ Goes(c, "remove", Idle) BY DEF Base, Remove
<1>2. size' \in [Files -> 0..Largest] BY <1>1, Constants DEF Remove, Typed
<1>3. Disked BY <1>1, <1>2 DEF Remove, Disked, Typed
<1>4. Storied
  <2>1. PICK n \in Nat : n = client[c].owed BY <1>1, ClientRecord, FieldTypes
  <2>2. UNCHANGED history \/ Leak(n) BY <2>1 DEF Remove
  <2> QED BY <1>1, <2>2, SameStory, LeakStory
<1> QED BY <1>1, <1>3, <1>4, IdleBase

\* The second allocation of a rename, in the new parent keeps `Base'.
LEMMA RenameMoveBase ==
  ASSUME Base, NEW c \in Clients, RenameMove(c)
  PROVE  Base'
<1>1. Typed /\ Shapes BY DEF Base
<1>2. PICK R : Moves(c, R) BY <1>1, RenameMoveMoves
<1>3. Disked /\ Storied BY <1>1, SameDisk, SameStory DEF RenameMove
<1>4. Went BY DEF RenameMove, Goes, Went
<1> QED BY <1>2, <1>3, <1>4, WentBase

\* The rename of a directory holds the files of both directories, which differ.
LEMMA RenameDirParts ==
  ASSUME Typed, Shapes, NEW c \in Clients, client[c].op = "rename_dir"
  PROVE  \E d, e \in Dirs : d # e /\ client[c].from = <<d>> /\ client[c].to = <<e>> /\ client[c].files = In(d) \cup In(e)
<1>1. RenameDirShape(client[c]) BY ClientRecord DEF Shape
<1> QED BY <1>1 DEF RenameDirShape

\* The move on the disk at the end of a rename, which may fail keeps `Base'.
LEMMA RenameDiskBase ==
  ASSUME Base, NEW c \in Clients, RenameDisk(c)
  PROVE  Base'
<1>1. Typed /\ Shapes /\ Goes(c, "rename", Idle) BY DEF Base, RenameDisk
<1>2. PICK from, to : from = client[c].from /\ to = client[c].to OBVIOUS
<1>3. client[c].op \in {"rename", "rename_dir"} BY <1>1, AtOp DEF Goes
<1>4. CASE client[c].op = "rename"
  <2>1. from \in Files /\ to \in Files BY <1>1, <1>2, <1>4, ToFile
  <2>2. PICK n \in Nat : n = IF from[1] = to[1] THEN 0
                               ELSE IF client[c].op = "rename" THEN client[c].bytes ELSE Sum(from[1])
    <3>1. client[c].bytes \in Nat BY <1>1, ClientRecord, FieldTypes
    <3> QED BY <1>4, <3>1
  <2>3. (UNCHANGED size \/ size' = [size EXCEPT ![from] = 0, ![to] = size[from]]) /\ (UNCHANGED history \/ Leak(n))
    BY <1>2, <1>4, <2>2 DEF RenameDisk
  <2>4. size' \in [Files -> 0..Largest] BY <1>1, <2>1, <2>3, Constants DEF Typed
  <2>5. Disked /\ Storied
    BY <1>1, <2>3, <2>4, SameStory, LeakStory DEF RenameDisk, Disked, Typed
  <2> QED BY <1>1, <2>5, IdleBase
<1>5. CASE client[c].op = "rename_dir"
  <2>1. PICK d, e \in Dirs : d # e /\ from = <<d>> /\ to = <<e>>
    BY <1>1, <1>2, <1>5, RenameDirParts
  <2>2. d \in Places /\ e \in Places /\ from[1] = d /\ to[1] = e BY <2>1, DirParts
  <2>3. PICK n \in Nat : n = IF from[1] = to[1] THEN 0
                               ELSE IF client[c].op = "rename" THEN client[c].bytes ELSE Sum(from[1])
    <3>1. Sum(d) \in Nat BY <1>1, <2>2, AllBound DEF Sum, Typed
    <3> QED BY <1>5, <2>1, <2>2, <3>1
  <2>4. PICK z : z = [f \in Files |-> CASE f[1] = from[1] -> 0
                                      [] f[1] = to[1]   -> size[<<from[1], f[2]>>]
                                      [] OTHER          -> size[f]]
    OBVIOUS
  <2>5. (UNCHANGED size \/ size' = z) /\ (UNCHANGED history \/ Leak(n))
    BY <1>2, <1>5, <2>3, <2>4 DEF RenameDisk
  <2>6. z \in [Files -> 0..Largest]
    <3>1. ASSUME NEW f \in Files PROVE z[f] \in 0..Largest
      <4>1. <<d, f[2]>> \in Files BY <2>2 DEF Files
      <4>2. size[<<d, f[2]>>] \in 0..Largest /\ size[f] \in 0..Largest /\ 0 \in 0..Largest
        BY <1>1, <4>1, Constants DEF Typed
      <4>3. z[f] = CASE f[1] = d -> 0
                    [] f[1] = e   -> size[<<d, f[2]>>]
                    [] OTHER      -> size[f]
        BY <2>2, <2>4
      <4>4. CASE f[1] = d BY <2>1, <4>2, <4>3, <4>4
      <4>5. CASE f[1] # d /\ f[1] = e BY <4>2, <4>3, <4>5
      <4>6. CASE f[1] # d /\ f[1] # e BY <4>2, <4>3, <4>6
      <4> QED BY <4>4, <4>5, <4>6
    <3> QED BY <2>4, <3>1
  <2>7. Disked /\ Storied
    BY <1>1, <2>5, <2>6, SameStory, LeakStory DEF RenameDisk, Disked, Typed
  <2> QED BY <1>1, <2>7, IdleBase
<1> QED BY <1>3, <1>4, <1>5

\* Every step of a request, writer or task under way keeps `Base'.
LEMMA ContinuesBase ==
  ASSUME Base, NEW c \in Clients, Continues(c)
  PROVE  Base'
BY AllocCheckBase, AllocAddBase, AllocLoadBase, AllocSubBase, AllocTreeBase, DroppedBase, TruncateZeroBase, WriteCreateBase, WriteBodyBase,
   WriterWriteBase, WriterFlushBase, WriterDropBase, DoneBase, CopyBodyBase, DeletePruneBase, RemoveBase,
   RenameMoveBase, RenameDiskBase DEF Continues

\* The disk checker as it wakes up keeps `Base'.
LEMMA CheckBeginBase ==
  ASSUME Base, CheckBegin
  PROVE  Base'
<1>1. /\ check'.at = "walk" /\ check'.todo = Files /\ check'.tmp = [d \in Dirs |-> 0] /\ check'.total = 0
      /\ check'.quiet = (\A c \in Clients : client[c].at = "idle") /\ check'.exact = FALSE
      /\ check' \in Checks
  BY DEF CheckBegin, Asleep, Checks
<1>2. size' = size /\ client' = client /\ tree' = tree BY DEF CheckBegin, disk
<1>3. Typed' BY <1>1, <1>2 DEF Base, Typed, CheckBegin, disk, history
<1>4. Shapes' BY <1>2 DEF Base, Shapes
<1>5. check'.quiet => \A c \in Clients : client'[c].at = "idle" BY <1>1, <1>2
<1>6. PICK z : z = [f \in Files |-> 0] OBVIOUS
<1>7. Visited' = z BY <1>1, <1>6 DEF Visited
<1>8. All(z) = 0 /\ \A d \in Dirs : Within(z, d) = 0 BY <1>6, Zeros DEF Places
<1>9. check'.total = All(Visited') /\ check'.tmp = [d \in Dirs |-> Within(Visited', d)]
  BY <1>1, <1>7, <1>8
<1>10. Walk' BY <1>1, <1>5, <1>9 DEF Walk, RecountHeals
<1> QED BY <1>3, <1>4, <1>10 DEF Base

\* What the walk has visited so far is a part of the disk.
LEMMA VisitedTyped ==
  ASSUME Typed
  PROVE  Visited \in [Files -> 0..Largest] /\ Visited \in [Files -> Int]
BY Constants DEF Typed, Visited

\* One file that the disk checker counts keeps `Base'.
LEMMA CheckVisitBase ==
  ASSUME Base, NEW f \in Files, CheckVisit(f)
  PROVE  Base'
<1>1. Typed /\ Shapes /\ Walk BY DEF Base
<1>2. /\ check.at = "walk" /\ f \in check.todo /\ check \in Checks
      /\ check'.at = "walk" /\ check'.todo = check.todo \ {f} /\ check'.total = check.total + size[f]
      /\ check'.tmp = [d \in Dirs |-> check.tmp[d] + IF f[1] = d THEN size[f] ELSE 0]
      /\ check'.found = IF size[f] > 0 THEN check.found \cup ({f[1]} \cap Dirs) ELSE check.found
      /\ check'.quiet = check.quiet /\ check'.exact = check.exact
  BY <1>1 DEF CheckVisit, Typed, Checks
<1>3. size' = size /\ client' = client /\ tree' = tree /\ cached' = cached
  BY DEF CheckVisit, disk
<1>4. size[f] \in Nat BY <1>1, SizeNat
<1>5. check' \in Checks
  <2>1. check.total \in Nat /\ check.tmp \in [Dirs -> Nat] BY <1>2 DEF Checks
  <2>2. PICK t \in [Dirs -> Nat] : t = [d \in Dirs |-> check.tmp[d] + IF f[1] = d THEN size[f] ELSE 0]
    <3>1. ASSUME NEW d \in Dirs PROVE check.tmp[d] + (IF f[1] = d THEN size[f] ELSE 0) \in Nat
      <4>1. check.tmp[d] \in Nat BY <2>1
      <4> QED BY <1>4, <4>1
    <3> QED BY <3>1
  <2>3. PICK n \in Nat : n = check.total + size[f] BY <1>4, <2>1
  <2>4. PICK s \in SUBSET Dirs : s = IF size[f] > 0 THEN check.found \cup ({f[1]} \cap Dirs) ELSE check.found
    BY <1>2 DEF Checks
  <2>5. check' = [check EXCEPT !.todo = check.todo \ {f}, !.total = n, !.found = s, !.tmp = t]
    BY <2>2, <2>3, <2>4 DEF CheckVisit
  <2> QED BY <1>2, <2>5 DEF Checks
<1>6. Typed' BY <1>1, <1>3, <1>5 DEF Typed, CheckVisit, disk, bounds, history
<1>7. Shapes' BY <1>1, <1>3 DEF Shapes
<1>8. ~check.exact /\ ~check'.exact BY <1>1, <1>2 DEF Walk
<1>9. check'.quiet => \A c \in Clients : client'[c].at = "idle" BY <1>1, <1>2, <1>3 DEF Walk
<1>10. ASSUME check.quiet
       PROVE  check'.total = All(Visited') /\ check'.tmp = [d \in Dirs |-> Within(Visited', d)]
  <2>1. check.total = All(Visited) /\ check.tmp = [d \in Dirs |-> Within(Visited, d)]
    BY <1>1, <1>2, <1>10 DEF Walk
  <2>2. PICK a \in [Files -> Int] : a = Visited BY <1>1, VisitedTyped
  <2>3. PICK b \in [Files -> Int] : b = Visited'
    <3>1. PICK b : b = [g \in Files |-> IF g \in check'.todo THEN 0 ELSE size[g]] OBVIOUS
    <3>2. b \in [Files -> Int] BY <1>1, <3>1, Constants DEF Typed
    <3>3. b = Visited' BY <1>3, <3>1 DEF Visited
    <3> QED BY <3>2, <3>3
  <2>4. a[f] = 0 /\ b[f] = size[f] /\ \A g \in Files : g # f => a[g] = b[g]
    BY <1>2, <1>3, <2>2, <2>3 DEF Visited
  <2>5. /\ All(b) = All(a) - a[f] + b[f]
        /\ Within(b, f[1]) = Within(a, f[1]) - a[f] + b[f]
        /\ \A q \in Places : q # f[1] => Within(b, q) = Within(a, q)
    BY <2>4, AllChange
  <2>6. All(a) \in Int /\ \A q \in Places : Within(a, q) \in Int BY AllInt, WithinInt
  <2>7. check'.total = All(b) BY <1>2, <1>4, <2>1, <2>2, <2>4, <2>5, <2>6
  <2>8. ASSUME NEW d \in Dirs PROVE check'.tmp[d] = Within(b, d)
    <3>1. check'.tmp[d] = Within(a, d) + IF f[1] = d THEN size[f] ELSE 0 BY <1>2, <2>1, <2>2
    <3>2. d \in Places BY DirParts
    <3> QED BY <1>4, <2>4, <2>5, <2>6, <3>1, <3>2
  <2>9. check'.tmp = [d \in Dirs |-> Within(b, d)] BY <1>2, <2>8
  <2> QED BY <2>3, <2>7, <2>9
<1>11. ASSUME check.quiet, NEW g \in Files, g \notin check'.todo, size[g] > 0, g[1] \in Dirs
       PROVE  g[1] \in check'.found
  <2>1. CASE g = f BY <1>2, <1>11, <2>1
  <2>2. CASE g # f
    <3>1. g[1] \in check.found BY <1>1, <1>2, <1>11, <2>2 DEF Walk
    <3> QED BY <1>2, <3>1
  <2> QED BY <2>1, <2>2
<1>12. Walk' BY <1>2, <1>3, <1>8, <1>9, <1>10, <1>11 DEF Walk, RecountHeals
<1> QED BY <1>6, <1>7, <1>12 DEF Base

\* One more directory that the disk checker counts keeps `Base'.
LEMMA CheckVisitDirBase ==
  ASSUME Base, NEW d \in Dirs, CheckVisitDir(d)
  PROVE  Base'
<1>1. Typed /\ Shapes /\ Walk BY DEF Base
<1>2. /\ check.at = "walk" /\ check \in Checks /\ check' \in Checks
      /\ check'.at = "walk" /\ check'.todo = check.todo /\ check'.total = check.total
      /\ check'.tmp = check.tmp /\ check'.found = check.found \cup {d}
      /\ check'.quiet = check.quiet /\ check'.exact = check.exact
  BY <1>1 DEF CheckVisitDir, Typed, Checks
<1>3. size' = size /\ client' = client /\ tree' = tree /\ cached' = cached
  BY DEF CheckVisitDir, disk
<1>4. Typed' BY <1>1, <1>2, <1>3 DEF Typed, CheckVisitDir, disk, bounds, history
<1>5. Shapes' BY <1>1, <1>3 DEF Shapes
<1>6. ~check'.exact BY <1>1, <1>2 DEF Walk
<1>7. Visited' = Visited BY <1>2, <1>3 DEF Visited
<1>8. ASSUME check.quiet
      PROVE  /\ check'.total = All(Visited') /\ check'.tmp = [e \in Dirs |-> Within(Visited', e)]
             /\ \A f \in Files : f \notin check'.todo /\ size'[f] > 0 /\ f[1] \in Dirs => f[1] \in check'.found
  BY <1>1, <1>2, <1>3, <1>7, <1>8 DEF Walk
<1>9. Walk' BY <1>1, <1>2, <1>3, <1>6, <1>8 DEF Walk, RecountHeals
<1> QED BY <1>4, <1>5, <1>9 DEF Base

\* The disk checker as it replaces the tree keeps `Base'.
LEMMA CheckTreeBase ==
  ASSUME Base, CheckTree
  PROVE  Base'
<1>1. Typed /\ Shapes /\ Walk BY DEF Base
<1>2. /\ check.at = "walk" /\ check.todo = {} /\ check \in Checks /\ check' \in Checks
      /\ check'.at = "store" /\ check'.total = check.total /\ check'.found = check.found
      /\ check'.quiet = check.quiet /\ check'.exact = check.exact
  BY <1>1 DEF CheckTree, Typed, Checks
<1>3. /\ size' = size /\ client' = client
      /\ tree' = [d \in Dirs |-> check.tmp[d] + Owns(check.found)[d]] /\ tree' \in [Dirs -> Nat]
  <2>1. check.tmp \in [Dirs -> Nat] /\ check.found \in SUBSET Dirs BY <1>2 DEF Checks
  <2>2. \A d \in Dirs : Owns(check.found)[d] \in Nat BY <2>1, Lengthy DEF Places
  <2> QED BY <2>1, <2>2 DEF CheckTree
<1>4. drift' \in BOOLEAN /\ pristine' \in BOOLEAN BY <1>1 DEF CheckTree, Typed
<1>5. Typed' BY <1>1, <1>2, <1>3, <1>4 DEF Typed, CheckTree, bounds
<1>6. Shapes' BY <1>1, <1>3 DEF Shapes
<1>7. ~check'.exact BY <1>1, <1>2 DEF Walk
<1>8. check'.quiet => \A c \in Clients : client'[c].at = "idle" BY <1>1, <1>2, <1>3 DEF Walk
<1>9. ASSUME check.quiet
      PROVE  /\ check'.total = Real' /\ AreThere(check.found)'
             /\ tree' = [d \in Dirs |-> Sum(d) + Owns(check.found)[d]]'
  <2>1. check.total = All(Visited) /\ check.tmp = [d \in Dirs |-> Within(Visited, d)]
    BY <1>1, <1>2, <1>9 DEF Walk
  <2>2. Visited = size BY <1>1, <1>2 DEF Visited, Typed
  <2>3. check'.total = Real' BY <1>2, <1>3, <2>1, <2>2 DEF Real
  <2>4. \A f \in Files : size[f] > 0 /\ f[1] \in Dirs => f[1] \in check.found
    BY <1>1, <1>2, <1>9 DEF Walk
  <2>5. AreThere(check.found)' BY <1>2, <1>3, <2>4 DEF AreThere
  <2>6. tree' = [d \in Dirs |-> Sum(d) + Owns(check.found)[d]]'
    <3>1. \A d \in Dirs : check.tmp[d] = Sum(d)' BY <1>3, <2>1, <2>2 DEF Sum
    <3> QED BY <1>2, <1>3, <3>1 DEF Sum
  <2> QED BY <2>3, <2>5, <2>6
<1>10. Walk' BY <1>2, <1>7, <1>8, <1>9 DEF Walk, RecountHeals
<1> QED BY <1>5, <1>6, <1>10 DEF Base

\* The disk checker as it stores the total keeps `Base'.
LEMMA CheckStoreBase ==
  ASSUME Base, CheckStore
  PROVE  Base'
<1>1. Typed /\ Shapes /\ Walk BY DEF Base
<1>2. /\ check.at = "store" /\ check \in Checks /\ check' \in Checks /\ check.total \in Nat
      /\ check'.at = "asleep" /\ check'.quiet = FALSE /\ check'.exact = check.quiet /\ check.quiet \in BOOLEAN
      /\ check'.found = check.found /\ check.found \in SUBSET Dirs
  BY <1>1 DEF CheckStore, Typed, Checks, Asleep
<1>3. size' = size /\ client' = client /\ tree' = tree BY DEF CheckStore
<1>4. Counted \in Nat /\ cached' \in 0..(Word - 1)
  <2>1. Counted \in Nat BY <1>2, Lengthy DEF Counted
  <2> QED BY <2>1, ModWord DEF CheckStore
<1>5. drift' \in BOOLEAN /\ pristine' \in BOOLEAN BY <1>1, <1>2 DEF CheckStore, Typed
<1>6. leak' \in Nat BY <1>1 DEF CheckStore, Typed
<1>7. Typed' BY <1>1, <1>2, <1>3, <1>4, <1>5, <1>6 DEF Typed, CheckStore, bounds
<1>8. Shapes' BY <1>1, <1>3 DEF Shapes
<1>9. ASSUME check.quiet
      PROVE  /\ cached' = Real + Lengths(check.found) /\ AreThere(check.found)
             /\ tree = [d \in Dirs |-> Sum(d) + Owns(check.found)[d]]
  <2>1. /\ check.total = Real /\ AreThere(check.found)
        /\ tree = [d \in Dirs |-> Sum(d) + Owns(check.found)[d]]
    BY <1>1, <1>2, <1>9 DEF Walk
  <2>2. Real <= Largest * Cardinality(Files) /\ Real \in Nat BY <1>1, AllBound DEF Real, Typed
  <2>3. Lengths(check.found) \in Nat /\ Lengths(check.found) <= Largest * Cardinality(Places)
    BY <1>2, Lengthy
  <2>4. Counted = Real + Lengths(check.found) /\ Counted < Word
    <3>1. Counted = Real + Lengths(check.found) BY <2>1 DEF Counted
    <3> QED BY <2>2, <2>3, <3>1, WordHolds, Constants
  <2>5. Counted % Word = Counted BY <1>4, <2>4, ModWord
  <2> QED BY <2>1, <2>4, <2>5 DEF CheckStore
<1>10. /\ Real' = Real /\ AreThere(check.found)' = AreThere(check.found)
       /\ [d \in Dirs |-> Sum(d) + Owns(check.found)[d]]' = [d \in Dirs |-> Sum(d) + Owns(check.found)[d]]
       /\ Lengths(check.found)' = Lengths(check.found)
  BY <1>2, <1>3 DEF Real, Sum, AreThere
<1>11. RecountHeals' BY <1>2, <1>3, <1>9, <1>10 DEF RecountHeals
<1>12. Walk' BY <1>2, <1>11 DEF Walk
<1> QED BY <1>7, <1>8, <1>12 DEF Base

\* A walk of the disk checker that fails keeps `Base'.
LEMMA CheckFailsBase ==
  ASSUME Base, CheckFails
  PROVE  Base'
<1>1. check'.at = "asleep" /\ check'.quiet = FALSE /\ check'.exact = FALSE /\ check' \in Checks
  BY DEF CheckFails, Asleep, Checks
<1>2. Typed' /\ Shapes' BY <1>1 DEF Base, Typed, Shapes, CheckFails, disk, bounds, history
<1>3. Walk' BY <1>1 DEF Walk, RecountHeals
<1> QED BY <1>2, <1>3 DEF Base

\* `update_disk_limit' keeps `Base'.
LEMMA SetLimitBase ==
  ASSUME Base, SetLimit
  PROVE  Base'
<1>1. Typed' /\ Shapes' BY Constants DEF Base, Typed, Shapes, SetLimit, disk, history
<1>2. Walk' BY DEF Base, Walk, SetLimit, disk, RecountHeals, AreThere, Visited, Real, Sum
<1> QED BY <1>1, <1>2 DEF Base

\* A step that changes nothing keeps `Base'.
LEMMA SameBase ==
  ASSUME Base, UNCHANGED vars
  PROVE  Base'
<1>1. Typed' /\ Shapes' BY DEF Base, Typed, Shapes, vars, disk, bounds, history
<1>2. Walk' BY DEF Base, Walk, vars, disk, RecountHeals, AreThere, Visited, Real, Sum
<1> QED BY <1>1, <1>2 DEF Base

\* Every step keeps Base: the types, the records and the walk of the disk checker.
LEMMA NextBase ==
  ASSUME Base, [Next]_vars
  PROVE  Base'
<1>1. CASE Checker
  BY <1>1, CheckBeginBase, CheckVisitBase, CheckVisitDirBase, CheckTreeBase, CheckStoreBase, CheckFailsBase DEF Checker
<1> QED BY <1>1, SetLimitBase, SameBase, StartsBase, ContinuesBase DEF Next

\* Some value of disk_limit is the largest.
LEMMA LargestLimit ==
  /\ Max(Limits) \in Limits /\ \A l \in Limits : l <= Max(Limits)
<1>1. PICK m : m = Max(Limits) OBVIOUS
<1>2. m = CHOOSE x \in Limits : \A y \in Limits : x >= y BY <1>1 DEF Max
<1>3. \E x \in Limits : \A y \in Limits : x >= y BY FilesAssumption
<1>4. m \in Limits /\ \A y \in Limits : m >= y BY <1>2, <1>3
<1>5. m \in Nat /\ Limits \subseteq Nat BY <1>4, Constants
<1> QED BY <1>1, <1>4, <1>5

\* Base holds when the server starts: no operation, and the account counted.
LEMMA InitBase ==
  ASSUME Init
  PROVE  Base
<1>1. size \in [Files -> 0..Largest] BY Constants DEF Init
<1>2. Real \in Nat /\ Real <= Largest * Cardinality(Files) /\ \A d \in Dirs : Sum(d) \in Nat
  BY <1>1, AllBound, DirParts DEF Real, Sum
<1>0. PICK S \in SUBSET Dirs : cached = Real + Lengths(S) /\ tree = [d \in Dirs |-> Sum(d) + Owns(S)[d]]
  BY DEF Init
<1>3. cached \in 0..(Word - 1)
  <2>1. Lengths(S) \in Nat /\ Lengths(S) <= Largest * Cardinality(Places) BY Lengthy
  <2>2. Real + Lengths(S) < Word BY <1>2, <2>1, WordHolds, Constants
  <2> QED BY <1>0, <1>2, <2>1, <2>2, Constants
<1>4. tree \in [Dirs -> Nat]
  <2>1. \A d \in Dirs : Owns(S)[d] \in Nat BY Lengthy DEF Places
  <2> QED BY <1>0, <1>2, <2>1
<1>5. check \in Checks /\ check.at = "asleep" /\ ~check.exact /\ ~check.quiet
  BY DEF Init, Asleep, Checks
<1>6. client \in [Clients -> Records] /\ Shapes BY IdleRecord DEF Init, Shapes
<1>7. limit \in Limits /\ ops \in 0..MaxOps /\ checks \in Nat /\ leak \in Nat /\ drift \in BOOLEAN /\ pristine \in BOOLEAN
  <2>1. limit \in Limits BY LargestLimit DEF Init
  <2>2. ops \in 0..MaxOps /\ checks \in Nat /\ leak \in Nat BY Constants DEF Init
  <2>3. drift \in BOOLEAN /\ pristine \in BOOLEAN BY DEF Init
  <2> QED BY <2>1, <2>2, <2>3
<1>8. Typed BY <1>1, <1>3, <1>4, <1>5, <1>6, <1>7 DEF Typed
<1>9. Walk BY <1>5 DEF Walk, RecountHeals
<1> QED BY <1>6, <1>8, <1>9 DEF Base

\* Base implies the type invariant, and that an undisturbed recount heals the account.
LEMMA BaseTypeOK == Base => TypeOK /\ RecountHeals
<1> SUFFICES ASSUME Base PROVE TypeOK /\ RecountHeals
  OBVIOUS
<1>1. \A c \in Clients : client[c].owed >= 0 /\ client[c].files \subseteq Files
  <2>1. ASSUME NEW c \in Clients PROVE client[c].owed >= 0 /\ client[c].files \subseteq Files
    <3>1. client[c] \in Records BY DEF Base, Typed
    <3> QED BY <3>1, FieldTypes
  <2> QED BY <2>1
<1>2. TypeOK BY <1>1 DEF TypeOK, Base, Typed
<1> QED BY <1>2 DEF Base, Walk

\* The types, the records of the operations and the walk of the disk checker hold in every
\* reachable state.
THEOREM Spec_Base == Spec => []Base
BY InitBase, NextBase, PTL DEF Spec

\* TypeOK holds in every reachable state: sizes, the 64-bit total, the tree and the limit
\* keep their ranges through every request, writer and recount.
THEOREM FilesTypeCorrect == Spec => []TypeOK
BY Spec_Base, BaseTypeOK, PTL

\* RecountHeals holds in every reachable state: when no client did anything from the first
\* file the disk checker counts to the store of the total, the total and the tree hold all
\* files and the directories found, however wrong they were before (run of the disk checker
\* in Filesystem::new).
THEOREM RecountsHeal == Spec => []RecountHeals
BY Spec_Base, BaseTypeOK, PTL

------------------------------------------------------------------------------
(* Sums over the clients, of which one moves. *)

\* The sizes on a disk are numbers.
LEMMA SizesInt ==
  ASSUME NEW z \in [Files -> 0..Largest]
  PROVE  z \in [Files -> Int] /\ \A f \in Files : z[f] \in Nat /\ z[f] \in Int /\ z[f] <= Largest
BY Constants

\* What a record contributes to the sums over the clients is a number.
LEMMA OfRecord ==
  ASSUME NEW r \in Records
  PROVE  /\ Late(r) \in Nat /\ Fall(r) \in Nat /\ Coming(r) \in Int
         /\ \A d : Awaits(r, d) \in Int
BY FieldTypes, WordHolds DEF Late, Fall, Coming, Awaits

\* What awaits the tree changes by what one client changes (update_size comes after
\* fetch_add).
LEMMA PendStep ==
  ASSUME NEW cl \in [Clients -> Records], NEW c \in Clients, NEW R \in Records, NEW d
  PROVE  /\ Pend(cl, d) \in Int
         /\ Pend([cl EXCEPT ![c] = R], d) = Pend(cl, d) - Awaits(cl[c], d) + Awaits(R, d)
<1>1. PICK a, b : a = [e \in Clients |-> Awaits(cl[e], d)] /\ b = [e \in Clients |-> Awaits([cl EXCEPT ![c] = R][e], d)]
  OBVIOUS
<1>2. a \in [Clients -> Int] /\ b \in [Clients -> Int] BY <1>1, OfRecord
<1>3. a[c] = Awaits(cl[c], d) /\ b[c] = Awaits(R, d) /\ \A e \in Clients : e # c => a[e] = b[e]
  BY <1>1
<1>4. Total(b, Clients) = Total(a, Clients) - a[c] + b[c] /\ Total(a, Clients) \in Int
  BY <1>2, <1>3, Finite, TotalChange, TotalInt
<1> QED BY <1>1, <1>3, <1>4 DEF Pend

\* The additions that await the tree change by what one client changes.
LEMMA LatesStep ==
  ASSUME NEW cl \in [Clients -> Records], NEW c \in Clients, NEW R \in Records
  PROVE  /\ Lates(cl) \in Int
         /\ Lates([cl EXCEPT ![c] = R]) = Lates(cl) - Late(cl[c]) + Late(R)
<1>1. PICK a, b : a = [e \in Clients |-> Late(cl[e])] /\ b = [e \in Clients |-> Late([cl EXCEPT ![c] = R][e])]
  OBVIOUS
<1>2. a \in [Clients -> Int] /\ b \in [Clients -> Int] BY <1>1, OfRecord
<1>3. a[c] = Late(cl[c]) /\ b[c] = Late(R) /\ \A e \in Clients : e # c => a[e] = b[e] BY <1>1
<1>4. Total(b, Clients) = Total(a, Clients) - a[c] + b[c] /\ Total(a, Clients) \in Int
  BY <1>2, <1>3, Finite, TotalChange, TotalInt
<1> QED BY <1>1, <1>3, <1>4 DEF Lates

\* The subtractions under way change by what one client changes.
LEMMA FallsStep ==
  ASSUME NEW cl \in [Clients -> Records], NEW c \in Clients, NEW R \in Records
  PROVE  /\ Falls(cl) \in Int
         /\ Falls([cl EXCEPT ![c] = R]) = Falls(cl) - Fall(cl[c]) + Fall(R)
<1>1. PICK a, b : a = [e \in Clients |-> Fall(cl[e])] /\ b = [e \in Clients |-> Fall([cl EXCEPT ![c] = R][e])]
  OBVIOUS
<1>2. a \in [Clients -> Int] /\ b \in [Clients -> Int] BY <1>1, OfRecord
<1>3. a[c] = Fall(cl[c]) /\ b[c] = Fall(R) /\ \A e \in Clients : e # c => a[e] = b[e] BY <1>1
<1>4. Total(b, Clients) = Total(a, Clients) - a[c] + b[c] /\ Total(a, Clients) \in Int
  BY <1>2, <1>3, Finite, TotalChange, TotalInt
<1> QED BY <1>1, <1>3, <1>4 DEF Falls

\* What was compared and is not added yet changes by what one client changes.
LEMMA ComingsStep ==
  ASSUME NEW cl \in [Clients -> Records], NEW c \in Clients, NEW R \in Records
  PROVE  /\ Comings(cl) \in Int
         /\ Comings([cl EXCEPT ![c] = R]) = Comings(cl) - Coming(cl[c]) + Coming(R)
<1>1. PICK a, b : a = [e \in Clients |-> Coming(cl[e])] /\ b = [e \in Clients |-> Coming([cl EXCEPT ![c] = R][e])]
  OBVIOUS
<1>2. a \in [Clients -> Int] /\ b \in [Clients -> Int] BY <1>1, OfRecord
<1>3. a[c] = Coming(cl[c]) /\ b[c] = Coming(R) /\ \A e \in Clients : e # c => a[e] = b[e]
  BY <1>1
<1>4. Total(b, Clients) = Total(a, Clients) - a[c] + b[c] /\ Total(a, Clients) \in Int
  BY <1>2, <1>3, Finite, TotalChange, TotalInt
<1> QED BY <1>1, <1>3, <1>4 DEF Comings

\* A writer holds one file, and owes what it has accumulated and not allocated.
LEMMA WriterTo ==
  ASSUME NEW r \in Records, Shape(r), r.op \in {"async", "sync"}
  PROVE  r.to \in Files /\ r.files = {r.to} /\ r.owed = r.acc
BY DEF Shape, WriterShape

\* A client never has less than nothing left to add.
LEMMA RoomNat ==
  ASSUME NEW z \in [Files -> 0..Largest], NEW r \in Records, Shape(r)
  PROVE  Room(z, r) \in Nat
<1>1. CASE r.op \in {"async", "sync"}
  <2>1. r.to \in Files /\ r.owed \in Nat BY <1>1, WriterTo, FieldTypes
  <2>2. z[r.to] \in Nat /\ z[r.to] <= Largest BY <2>1, SizesInt
  <2> QED BY <1>1, <2>1, <2>2, Constants DEF Room
<1>2. CASE r.op \notin {"async", "sync"} BY <1>2, Constants DEF Room
<1> QED BY <1>1, <1>2

\* What all clients may still add changes by what one client changes, as no other touches
\* its file.
LEMMA RoomsStep ==
  ASSUME NEW z \in [Files -> 0..Largest], NEW y \in [Files -> 0..Largest],
         NEW cl \in [Clients -> Records], \A b \in Clients : Shape(cl[b]), NEW c \in Clients,
         NEW R \in Records, Shape(R),
         \A b \in Clients : b # c => \A f \in cl[b].files : y[f] = z[f]
  PROVE  /\ Rooms(z, cl) \in Int
         /\ Rooms(y, [cl EXCEPT ![c] = R]) = Rooms(z, cl) - Room(z, cl[c]) + Room(y, R)
<1>1. PICK a, b : a = [e \in Clients |-> Room(z, cl[e])] /\ b = [e \in Clients |-> Room(y, [cl EXCEPT ![c] = R][e])]
  OBVIOUS
<1>2. a \in [Clients -> Int] BY <1>1, RoomNat
<1>3. \A e \in Clients : [cl EXCEPT ![c] = R][e] \in Records /\ Shape([cl EXCEPT ![c] = R][e])
  OBVIOUS
<1>4. b \in [Clients -> Int] BY <1>1, <1>3, RoomNat
<1>5. a[c] = Room(z, cl[c]) /\ b[c] = Room(y, R) BY <1>1
<1>6. ASSUME NEW e \in Clients, e # c PROVE a[e] = b[e]
  <2>1. a[e] = Room(z, cl[e]) /\ b[e] = Room(y, cl[e]) BY <1>1, <1>6
  <2>2. cl[e].op \in {"async", "sync"} => y[cl[e].to] = z[cl[e].to] BY <1>6, WriterTo
  <2> QED BY <2>1, <2>2 DEF Room
<1>7. Total(b, Clients) = Total(a, Clients) - a[c] + b[c] /\ Total(a, Clients) \in Int
  BY <1>2, <1>4, <1>6, Finite, TotalChange, TotalInt
<1> QED BY <1>1, <1>5, <1>7 DEF Rooms

\* The sums are not negative.
LEMMA SumsNat ==
  ASSUME NEW z \in [Files -> 0..Largest], NEW cl \in [Clients -> Records], \A b \in Clients : Shape(cl[b])
  PROVE  Rooms(z, cl) \in Nat /\ Falls(cl) \in Nat /\ Lates(cl) \in Nat
<1>1. PICK o : o = [e \in Clients |-> 0] OBVIOUS
<1>2. o \in [Clients -> Int] /\ Total(o, Clients) = 0 BY <1>1, Finite, TotalZero
<1>3. ASSUME NEW a \in [Clients -> Int], \A e \in Clients : a[e] >= 0
      PROVE  Total(a, Clients) \in Nat
  <2>1. Total(o, Clients) <= Total(a, Clients) BY <1>1, <1>2, <1>3, Finite, TotalMono
  <2> QED BY <1>2, <1>3, <2>1, Finite, TotalInt
<1>4. PICK a : a = [e \in Clients |-> Room(z, cl[e])] OBVIOUS
<1>5. PICK b : b = [e \in Clients |-> Fall(cl[e])] OBVIOUS
<1>6. PICK l : l = [e \in Clients |-> Late(cl[e])] OBVIOUS
<1>7. a \in [Clients -> Int] /\ \A e \in Clients : a[e] >= 0 BY <1>4, RoomNat
<1>8. b \in [Clients -> Int] /\ \A e \in Clients : b[e] >= 0 BY <1>5, OfRecord
<1>9. l \in [Clients -> Int] /\ \A e \in Clients : l[e] >= 0 BY <1>6, OfRecord
<1>10. Total(a, Clients) \in Nat BY <1>3, <1>7
<1>11. Total(b, Clients) \in Nat BY <1>3, <1>8
<1>12. Total(l, Clients) \in Nat BY <1>3, <1>9
<1> QED BY <1>4, <1>5, <1>6, <1>10, <1>11, <1>12 DEF Rooms, Falls, Lates

------------------------------------------------------------------------------
(* The parts of the invariant, when one client moves. *)

\* A step changes the disk, the account of files and the tree only where the client is.
Local(z, y, t, u, due, own, F) ==
  /\ \A f \in Files : f \notin F => y[f] = z[f] /\ own[f] = due[f]
  /\ \A d \in Dirs : u[d] = t[d] \/ \E f \in F : f[1] = d

\* The files that it leaves are in order.
Settled(y, R, own, F) ==
  \A f \in F : /\ f \notin R.files => own[f] = y[f]
               /\ own[f] >= 0 \/ (R.op = "delete_dir" /\ f \in R.files)

\* A file belongs to its directory.
LEMMA InDir ==
  ASSUME NEW d \in Places, NEW n \in Names
  PROVE  <<d, n>> \in Files /\ <<d, n>>[1] = d /\ <<d, n>> \in In(d)
BY DEF Files, In

\* The books of a client whose files are left alone.
LEMMA BookOther ==
  ASSUME NEW z \in [Files -> 0..Largest], NEW y \in [Files -> 0..Largest],
         NEW t \in [Dirs -> Nat], NEW u \in [Dirs -> Nat], NEW r \in Records, Shape(r),
         NEW due \in [Files -> Int], NEW own \in [Files -> Int], NEW g \in Int,
         \A f \in r.files : y[f] = z[f] /\ own[f] = due[f],
         \A d \in Dirs : In(d) \subseteq r.files => u[d] = t[d],
         Book(z, t, r, due, g)
  PROVE  Book(y, u, r, own, g)
<1>1. CASE r.op = "none" BY <1>1 DEF Book
<1>2. CASE r.op = "write"
  <2>1. r.to \in r.files BY <1>2 DEF Shape, WriteShape
  <2>2. y[r.to] = z[r.to] /\ own[r.to] = due[r.to] BY <2>1
  <2>3. WriteBook(z, r, due, g) BY <1>2 DEF Book
  <2>4. WriteBook(y, r, own, g) BY <2>2, <2>3 DEF WriteBook
  <2> QED BY <1>2, <2>4 DEF Book
<1>3. CASE r.op \in {"async", "sync"}
  <2>1. r.to \in r.files BY <1>3, WriterTo
  <2>2. y[r.to] = z[r.to] /\ own[r.to] = due[r.to] BY <2>1
  <2>3. WriterBook(z, r, due, g) BY <1>3 DEF Book
  <2>4. WriterBook(y, r, own, g) BY <2>2, <2>3 DEF WriterBook
  <2> QED BY <1>3, <2>4 DEF Book
<1>4. CASE r.op = "copy"
  <2>1. r.to \in r.files /\ r.from \in r.files BY <1>4 DEF Shape, CopyShape
  <2>2. y[r.to] = z[r.to] /\ own[r.to] = due[r.to] /\ y[r.from] = z[r.from] /\ own[r.from] = due[r.from]
    BY <2>1
  <2>3. CopyBook(z, r, due, g) BY <1>4 DEF Book
  <2>4. CopyBook(y, r, own, g) BY <2>2, <2>3 DEF CopyBook
  <2> QED BY <1>4, <2>4 DEF Book
<1>5. CASE r.op = "delete"
  <2>1. r.from \in r.files BY <1>5 DEF Shape, DeleteShape
  <2>2. y[r.from] = z[r.from] /\ own[r.from] = due[r.from] BY <2>1
  <2>3. DeleteBook(z, r, due, g) BY <1>5 DEF Book
  <2>4. DeleteBook(y, r, own, g) BY <2>2, <2>3 DEF DeleteBook
  <2> QED BY <1>5, <2>4 DEF Book
<1>6. CASE r.op = "delete_dir"
  <2>1. PICK d \in Dirs : r.from = <<d>> /\ r.files = In(d) BY <1>6 DEF Shape, DeleteDirShape
  <2>2. u[d] = t[d] /\ r.from[1] = d /\ d \in Places
    <3>1. In(d) \subseteq r.files BY <2>1
    <3>2. r.from[1] = d BY <2>1
    <3>3. d \in Places BY DirParts
    <3> QED BY <3>1, <3>2, <3>3
  <2>3. \A n \in Names : y[<<d, n>>] = z[<<d, n>>] /\ own[<<d, n>>] = due[<<d, n>>]
    BY <2>1, <2>2, InDir
  <2>4. Within(y, d) = Within(z, d) /\ Within(own, d) = Within(due, d)
    BY <2>2, <2>3, WithinSame, SizesInt
  <2>5. DeleteDirBook(z, t, r, due, g) BY <1>6 DEF Book
  <2>6. DeleteDirBook(y, u, r, own, g) BY <2>2, <2>4, <2>5 DEF DeleteDirBook
  <2> QED BY <1>6, <2>6 DEF Book
<1>7. CASE r.op = "rename"
  <2>1. r.to \in r.files /\ r.from \in r.files BY <1>7 DEF Shape, RenameShape
  <2>2. y[r.to] = z[r.to] /\ own[r.to] = due[r.to] /\ y[r.from] = z[r.from] /\ own[r.from] = due[r.from]
    BY <2>1
  <2>3. RenameBook(z, r, due, g) BY <1>7 DEF Book
  <2>4. RenameBook(y, r, own, g) BY <2>2, <2>3 DEF RenameBook
  <2> QED BY <1>7, <2>4 DEF Book
<1>8. CASE r.op = "rename_dir"
  <2>1. PICK d, e \in Dirs : r.from = <<d>> /\ r.to = <<e>> /\ r.files = In(d) \cup In(e)
    BY <1>8 DEF Shape, RenameDirShape
  <2>2. r.from[1] = d /\ d \in Places /\ r.to[1] = e /\ e \in Places
    <3>1. r.from[1] = d /\ r.to[1] = e BY <2>1
    <3>2. d \in Places /\ e \in Places BY DirParts
    <3> QED BY <3>1, <3>2
  <2>3. \A n \in Names : /\ y[<<d, n>>] = z[<<d, n>>] /\ own[<<d, n>>] = due[<<d, n>>]
                         /\ y[<<e, n>>] = z[<<e, n>>] /\ own[<<e, n>>] = due[<<e, n>>]
    BY <2>1, <2>2, InDir
  <2>4. RenameDirBook(z, r, due, g) BY <1>8 DEF Book
  <2>5. RenameDirBook(y, r, own, g) BY <2>2, <2>3, <2>4 DEF RenameDirBook
  <2> QED BY <1>8, <2>5 DEF Book
<1>9. CASE r.op = "truncate"
  <2>1. r.files = Files BY <1>9 DEF Shape, TruncateShape
  <2>2. y = z /\ own = due /\ u = t
    <3>1. \A d \in Dirs : u[d] = t[d] BY <2>1, DirParts
    <3> QED BY <2>1, <3>1
  <2>3. TruncateBook(z, t, r, due, g) BY <1>9 DEF Book
  <2>4. TruncateBook(y, u, r, own, g) BY <2>2, <2>3
  <2> QED BY <1>9, <2>4 DEF Book
<1>10. r.op \in Kinds BY DEF Records
<1> QED BY <1>1, <1>2, <1>3, <1>4, <1>5, <1>6, <1>7, <1>8, <1>9, <1>10 DEF Kinds

\* The books of all clients still hold when one client changes its own files and its own
\* book.
LEMMA LinkedStep ==
  ASSUME NEW z \in [Files -> 0..Largest], NEW y \in [Files -> 0..Largest],
         NEW t \in [Dirs -> Nat], NEW u \in [Dirs -> Nat],
         NEW cl \in [Clients -> Records], \A b \in Clients : Shape(cl[b]), NEW c \in Clients,
         NEW R \in Records, NEW F \in SUBSET Files, F = cl[c].files \cup R.files,
         NEW due \in [Files -> Int], NEW own \in [Files -> Int], NEW gap \in [Clients -> Int], NEW h \in Int,
         Disjoint(cl), Disjoint([cl EXCEPT ![c] = R]),
         Linked(z, t, cl, due, gap), Local(z, y, t, u, due, own, F), Settled(y, R, own, F),
         Book(y, u, R, own, h),
         All(y) - All(z) = All(own) - All(due) + h - gap[c]
  PROVE  Linked(y, u, [cl EXCEPT ![c] = R], own, [gap EXCEPT ![c] = h])
<1>1. PICK m : m = [cl EXCEPT ![c] = R] OBVIOUS
<1>2. PICK k : k = [gap EXCEPT ![c] = h] OBVIOUS
<1>3. m \in [Clients -> Records] /\ m[c] = R /\ \A b \in Clients : b # c => m[b] = cl[b] BY <1>1
<1>4. k \in [Clients -> Int] /\ k[c] = h /\ \A b \in Clients : b # c => k[b] = gap[b] BY <1>2
<1>5. Disjoint(m) BY <1>1
<1>6. ASSUME NEW b \in Clients, b # c PROVE \A f \in cl[b].files : f \in Files /\ f \notin F
  <2>1. cl[b].files \cap cl[c].files = {} BY <1>6 DEF Disjoint
  <2>2. cl[b].files \cap R.files = {} BY <1>3, <1>5, <1>6 DEF Disjoint
  <2>3. cl[b].files \subseteq Files BY FieldTypes
  <2> QED BY <2>1, <2>2, <2>3
<1>7. ASSUME NEW b \in Clients PROVE Book(y, u, m[b], own, k[b])
  <2>1. CASE b = c BY <1>3, <1>4, <2>1
  <2>2. CASE b # c
    <3>1. cl[b] \in Records /\ Shape(cl[b]) /\ Book(z, t, cl[b], due, gap[b]) /\ gap[b] \in Int
      BY DEF Linked
    <3>2. \A f \in cl[b].files : y[f] = z[f] /\ own[f] = due[f] BY <1>6, <2>2 DEF Local
    <3>3. ASSUME NEW d \in Dirs, In(d) \subseteq cl[b].files PROVE u[d] = t[d]
      <4>1. ASSUME NEW f \in F PROVE f[1] # d
        <5>1. f \in Files BY <4>1
        <5>2. f \in In(d) => f \in cl[b].files BY <3>3
        <5> QED BY <1>6, <2>2, <4>1, <5>1, <5>2 DEF In
      <4> QED BY <4>1 DEF Local
    <3>4. Book(y, u, cl[b], own, gap[b]) BY <3>1, <3>2, <3>3, BookOther
    <3> QED BY <1>3, <1>4, <2>2, <3>4
  <2> QED BY <2>1, <2>2
<1>8. ASSUME NEW f \in Files, \A b \in Clients : f \notin m[b].files PROVE own[f] = y[f]
  <2>1. f \notin R.files BY <1>3, <1>8
  <2>2. CASE f \in F BY <2>1, <2>2 DEF Settled
  <2>3. CASE f \notin F
    <3>1. \A b \in Clients : f \notin cl[b].files BY <1>3, <1>8, <2>3
    <3> QED BY <2>3, <3>1 DEF Linked, Local
  <2> QED BY <2>2, <2>3
<1>9. ASSUME NEW f \in Files
      PROVE  own[f] >= 0 \/ \E b \in Clients : m[b].op = "delete_dir" /\ f \in m[b].files
  <2>1. CASE f \in F BY <1>3, <2>1 DEF Settled
  <2>2. CASE f \notin F
    <3>1. own[f] = due[f] BY <2>2 DEF Local
    <3>2. due[f] >= 0 \/ \E b \in Clients : cl[b].op = "delete_dir" /\ f \in cl[b].files
      BY DEF Linked
    <3>3. \A b \in Clients : f \in cl[b].files => b # c BY <2>2
    <3> QED BY <1>3, <3>1, <3>2, <3>3
  <2> QED BY <2>1, <2>2
<1>10. All(y) = All(own) + Total(k, Clients)
  <2>1. Total(k, Clients) = Total(gap, Clients) - gap[c] + h /\ Total(gap, Clients) \in Int
    BY <1>4, Finite, TotalChange, TotalInt
  <2>2. All(z) = All(due) + Total(gap, Clients) BY DEF Linked
  <2>3. All(y) \in Int /\ All(z) \in Int /\ All(own) \in Int /\ All(due) \in Int /\ gap[c] \in Int
    BY AllInt, SizesInt
  <2> QED BY <2>1, <2>2, <2>3
<1>11. Linked(y, u, m, own, k) BY <1>7, <1>8, <1>9, <1>10 DEF Linked
<1> QED BY <1>1, <1>2, <1>11

\* Each place is still worth its files and its tree when one place changes by what the total
\* changes.
LEMMA WorthyStep ==
  ASSUME NEW t \in [Dirs -> Nat], NEW u \in [Dirs -> Nat],
         NEW cl \in [Clients -> Records], NEW m \in [Clients -> Records],
         NEW due \in [Files -> Int], NEW own \in [Files -> Int], NEW worth \in [Places -> Int],
         NEW x \in Int, NEW w \in Int, NEW p \in Places, NEW a \in Int,
         Worthy(t, cl, x, due, worth),
         worth[p] + a >= 0, worth[p] + a >= Within(own, p),
         \A q \in Places : q # p => Within(own, q) <= Within(due, q),
         \A d \in Dirs : d # p => u[d] + Pend(m, d) <= t[d] + Pend(cl, d),
         p \in Dirs => u[p] + Pend(m, p) <= worth[p] + a,
         w >= x + a
  PROVE  \E new \in [Places -> Int] : Worthy(u, m, w, own, new)
<1>0. PICK v \in Int : v = worth[p] + a OBVIOUS
<1>1. PICK new \in [Places -> Int] : new = [worth EXCEPT ![p] = v]
  <2>1. [worth EXCEPT ![p] = v] \in [Places -> Int] OBVIOUS
  <2> QED BY <2>1
<1>2. new[p] = worth[p] + a /\ \A q \in Places : q # p => new[q] = worth[q] BY <1>0, <1>1
<1>3. Total(new, Places) = Total(worth, Places) + a
  <2>1. Total(new, Places) = Total(worth, Places) - worth[p] + new[p] /\ Total(worth, Places) \in Int
    BY <1>2, Finite, TotalChange, TotalInt
  <2> QED BY <1>2, <2>1
<1>4. ASSUME NEW q \in Places PROVE new[q] >= 0 /\ new[q] >= Within(own, q)
  <2>1. CASE q = p BY <1>2, <2>1
  <2>2. CASE q # p
    <3>1. worth[q] >= 0 /\ worth[q] >= Within(due, q) BY DEF Worthy
    <3>2. Within(own, q) \in Int /\ Within(due, q) \in Int /\ worth[q] \in Int BY WithinInt
    <3> QED BY <1>2, <2>2, <3>1, <3>2
  <2> QED BY <2>1, <2>2
<1>5. ASSUME NEW d \in Dirs PROVE new[d] >= u[d] + Pend(m, d)
  <2>1. CASE d = p BY <1>2, <2>1
  <2>2. CASE d # p
    <3>1. worth[d] >= t[d] + Pend(cl, d) BY DEF Worthy
    <3>2. d \in Places BY DirParts
    <3>3. Pend(cl, d) \in Int /\ Pend(m, d) \in Int
      <4>1. PICK e \in Clients : TRUE BY FilesAssumption
      <4> QED BY <4>1, PendStep
    <3>4. worth[d] \in Int /\ t[d] \in Int /\ u[d] \in Int BY <3>2
    <3> QED BY <1>2, <2>2, <3>1, <3>2, <3>3, <3>4
  <2> QED BY <2>1, <2>2
<1>6. w >= Total(new, Places)
  <2>1. x >= Total(worth, Places) /\ Total(worth, Places) \in Int BY Finite, TotalInt DEF Worthy
  <2> QED BY <1>3, <2>1
<1>7. Worthy(u, m, w, own, new) BY <1>4, <1>5, <1>6 DEF Worthy
<1> QED BY <1>7

\* The arithmetic of the bounds: one more operation adds Largest to the room and Cap to the
\* fall.
LEMMA Grow ==
  ASSUME NEW o \in Nat
  PROVE  /\ Largest * o \in Nat /\ Largest * (o + 1) = Largest * o + Largest
         /\ Largest * (Entries + o) \in Nat
         /\ Largest * (Entries + o) = Largest * Entries + Largest * o
         /\ Largest * (Entries + (o + 1)) = Largest * (Entries + o) + Largest
         /\ Cap * o \in Nat /\ Cap * (o + 1) = Cap * o + Cap
         /\ o <= MaxOps => Largest * (Entries + o) <= Cap /\ Cap * o <= Cap * MaxOps
<1>1. PICK l \in Nat, n \in Nat, k \in Nat, m \in Nat : l = Largest /\ n = Entries /\ k = Cap /\ m = MaxOps
  BY Finite, Constants, WordHolds
<1>2. l * o \in Nat /\ l * (o + 1) = l * o + l /\ l * (n + o) \in Nat /\ l * (n + o) = l * n + l * o
  OBVIOUS
<1>3. l * (n + (o + 1)) = l * (n + o) + l OBVIOUS
<1>4. k * o \in Nat /\ k * (o + 1) = k * o + k OBVIOUS
<1>5. ASSUME o <= m PROVE l * (n + o) <= l * (n + m) /\ k * o <= k * m
  <2>1. PICK e \in Nat : m = o + e
    <3>1. m - o \in Nat /\ m = o + (m - o) BY <1>5
    <3> QED BY <3>1
  <2>2. l * (n + m) = l * (n + o) + l * e /\ k * m = k * o + k * e /\ l * e \in Nat /\ k * e \in Nat
    BY <2>1
  <2> QED BY <1>2, <1>4, <2>2
<1> QED BY <1>1, <1>2, <1>3, <1>4, <1>5 DEF Cap

\* The bounds keep the total in a word.
LEMMA BoundsOf ==
  ASSUME NEW z \in [Files -> 0..Largest], NEW t \in [Dirs -> Nat], NEW cl \in [Clients -> Records],
         \A b \in Clients : Shape(cl[b]), NEW x \in Int, NEW o \in 0..MaxOps, Bounded(z, t, cl, x, o)
  PROVE  x <= Cap /\ x >= -(Cap * MaxOps) /\ \A d \in Dirs : t[d] <= Cap
<1>1. o \in Nat /\ o <= MaxOps BY Constants
<1>2. /\ Rooms(z, cl) \in Nat /\ Falls(cl) \in Nat /\ Lates(cl) \in Nat BY SumsNat
<1>3. /\ Largest * (Entries + o) \in Nat /\ Largest * (Entries + o) <= Cap
      /\ Cap * o \in Nat /\ Cap * o <= Cap * MaxOps
  BY <1>1, Grow
<1>4. Cap \in Nat /\ Cap * MaxOps \in Nat BY WordHolds
<1>5. /\ x <= Largest * (Entries + o) - Rooms(z, cl) /\ x >= Falls(cl) - Cap * o
      /\ \A d \in Dirs : t[d] + Lates(cl) <= Largest * (Entries + o) - Rooms(z, cl)
  BY DEF Bounded
<1>6. \A d \in Dirs : t[d] \in Nat OBVIOUS
<1> QED BY <1>2, <1>3, <1>4, <1>5, <1>6

Signed(n) == IF n >= Word \div 2 THEN n - Word ELSE n

\* As long as the total stays within the word, fetch_add and fetch_sub add to the signed
\* total without wrap.
LEMMA SignedSum ==
  ASSUME NEW n \in 0..(Word - 1), NEW a \in Int, NEW w \in Int, w = Signed(n) + a,
         w <= Cap, w >= -(Cap * MaxOps)
  PROVE  Signed((n + a) % Word) = w
<1>1. PICK h \in Nat : h = Word \div 2 BY WordHolds
<1>2. Word \in Nat /\ Word >= 2 * h /\ Word <= 2 * h + 1 /\ w < h /\ w >= -h
  BY <1>1, WordHolds, Constants
<1>3. n \in Nat /\ n < Word /\ n + a \in Int BY <1>2
<1>4. n + a = w \/ n + a = w + Word BY <1>1, <1>2, <1>3 DEF Signed
<1>5. CASE w >= 0
  <2>1. (n + a) % Word = w
    <3>1. CASE n + a = w BY <1>2, <1>3, <1>5, <3>1, ModWord
    <3>2. CASE n + a = w + Word BY <1>2, <1>3, <1>5, <3>2, ModWord
    <3> QED BY <1>4, <3>1, <3>2
  <2> QED BY <1>1, <1>2, <2>1 DEF Signed
<1>6. CASE w < 0
  <2>1. (n + a) % Word = w + Word
    <3>1. CASE n + a = w BY <1>2, <1>3, <1>6, <3>1, ModWord
    <3>2. CASE n + a = w + Word BY <1>2, <1>3, <1>6, <3>2, ModWord
    <3> QED BY <1>4, <3>1, <3>2
  <2>2. w + Word >= h BY <1>2
  <2> QED BY <1>1, <1>2, <2>1, <2>2 DEF Signed
<1> QED BY <1>5, <1>6

\* Clients that hold different files still do when one of them takes files nobody holds.
LEMMA DisjointGo ==
  ASSUME NEW cl \in [Clients -> Records], NEW c \in Clients, NEW R \in Records, Disjoint(cl),
         \A b \in Clients : b # c => cl[b].files \cap R.files = {}
  PROVE  Disjoint([cl EXCEPT ![c] = R])
<1>1. PICK m : m = [cl EXCEPT ![c] = R] OBVIOUS
<1>2. m[c] = R /\ \A b \in Clients : b # c => m[b] = cl[b] BY <1>1
<1>3. ASSUME NEW a \in Clients, NEW b \in Clients, a # b PROVE m[a].files \cap m[b].files = {}
  <2>1. CASE a = c BY <1>2, <1>3, <2>1
  <2>2. CASE b = c BY <1>2, <1>3, <2>2
  <2>3. CASE a # c /\ b # c BY <1>2, <1>3, <2>3 DEF Disjoint
  <2> QED BY <2>1, <2>2, <2>3
<1> QED BY <1>1, <1>3 DEF Disjoint

\* What a step has to do: to the books, to the worth of the places, and within the bounds.
Books(z, y, t, u, r, R, due, own, g, h) ==
  /\ Local(z, y, t, u, due, own, r.files \cup R.files)
  /\ Settled(y, R, own, r.files \cup R.files)
  /\ Book(y, u, R, own, h)
  /\ All(y) - All(z) = All(own) - All(due) + h - g

Worths(t, u, r, R, due, own, worth, p, a) ==
  /\ worth[p] + a >= 0 /\ worth[p] + a >= Within(own, p)
  /\ \A q \in Places : q # p => Within(own, q) <= Within(due, q)
  /\ \A d \in Dirs : d # p => u[d] + Awaits(R, d) <= t[d] + Awaits(r, d)
  /\ p \in Dirs => u[p] + Awaits(R, p) <= t[p] + Awaits(r, p) + a

Bounds(z, y, t, u, r, R, x, w) ==
  /\ Room(y, R) <= Room(z, r)
  /\ w <= x + Room(z, r) - Room(y, R) \/ w = 0
  /\ \A d \in Dirs : u[d] + Late(R) <= t[d] + Late(r) + Room(z, r) - Room(y, R)
  /\ Fall(R) <= Fall(r)
  /\ w >= x - Fall(r) + Fall(R) \/ w = 0

\* The bounds of the total and the tree hold after a step, when the room covers what it
\* adds.
LEMMA BoundedGo ==
  ASSUME NEW z \in [Files -> 0..Largest], NEW y \in [Files -> 0..Largest],
         NEW t \in [Dirs -> Nat], NEW u \in [Dirs -> Nat],
         NEW cl \in [Clients -> Records], \A b \in Clients : Shape(cl[b]), NEW c \in Clients,
         NEW R \in Records, Shape(R), NEW x \in Int, NEW w \in Int, NEW o \in Nat,
         \A b \in Clients : b # c => \A f \in cl[b].files : y[f] = z[f],
         Bounded(z, t, cl, x, o), Bounds(z, y, t, u, cl[c], R, x, w)
  PROVE  Bounded(y, u, [cl EXCEPT ![c] = R], w, o)
<1>1. PICK m : m = [cl EXCEPT ![c] = R] OBVIOUS
<1>2. PICK s \in Int, q \in Int : s = Room(z, cl[c]) - Room(y, R) /\ q = Fall(cl[c]) - Fall(R)
  <2>1. Room(z, cl[c]) \in Nat /\ Room(y, R) \in Nat /\ Fall(cl[c]) \in Nat /\ Fall(R) \in Nat
    BY RoomNat, OfRecord
  <2> QED BY <2>1
<1>3. /\ s >= 0 /\ q >= 0 /\ (w <= x + s \/ w = 0) /\ (w >= x - q \/ w = 0)
      /\ \A d \in Dirs : u[d] + Late(R) <= t[d] + Late(cl[c]) + s
  <2>1. Room(z, cl[c]) \in Nat /\ Room(y, R) \in Nat /\ Fall(cl[c]) \in Nat /\ Fall(R) \in Nat
    BY RoomNat, OfRecord
  <2>2. Late(R) \in Nat /\ Late(cl[c]) \in Nat /\ \A d \in Dirs : u[d] \in Nat /\ t[d] \in Nat
    BY OfRecord
  <2> QED BY <1>2, <2>1, <2>2 DEF Bounds
<1>4. Rooms(y, m) = Rooms(z, cl) - s /\ Rooms(z, cl) \in Int
  <2>1. Rooms(y, m) = Rooms(z, cl) - Room(z, cl[c]) + Room(y, R) /\ Rooms(z, cl) \in Int
    BY <1>1, RoomsStep
  <2>2. Room(z, cl[c]) \in Int /\ Room(y, R) \in Int BY RoomNat
  <2> QED BY <1>2, <2>1, <2>2
<1>5. Falls(m) = Falls(cl) - q /\ Falls(cl) \in Int
  <2>1. Falls(m) = Falls(cl) - Fall(cl[c]) + Fall(R) /\ Falls(cl) \in Int BY <1>1, FallsStep
  <2>2. Fall(cl[c]) \in Int /\ Fall(R) \in Int BY OfRecord
  <2> QED BY <1>2, <2>1, <2>2
<1>6. Lates(m) = Lates(cl) - Late(cl[c]) + Late(R) /\ Lates(cl) \in Int /\ Late(cl[c]) \in Int /\ Late(R) \in Int
  <2>1. Lates(m) = Lates(cl) - Late(cl[c]) + Late(R) /\ Lates(cl) \in Int BY <1>1, LatesStep
  <2>2. Late(cl[c]) \in Int /\ Late(R) \in Int BY OfRecord
  <2> QED BY <2>1, <2>2
<1>7. PICK a \in Nat, b \in Nat, k \in Nat, f \in Nat :
        a = Largest * o /\ b = Largest * (Entries + o) /\ k = Cap * o /\ f = Largest * Entries /\ b = f + a
  BY Grow, WordHolds
<1>8. /\ Rooms(z, cl) <= a /\ x <= b - Rooms(z, cl)
      /\ \A d \in Dirs : t[d] + Lates(cl) <= b - Rooms(z, cl)
      /\ Falls(cl) <= k /\ x >= Falls(cl) - k
  BY <1>7 DEF Bounded
<1>9. /\ Rooms(y, m) <= a /\ w <= b - Rooms(y, m)
      /\ Falls(m) <= k /\ w >= Falls(m) - k
  BY <1>3, <1>4, <1>5, <1>7, <1>8
<1>10. ASSUME NEW d \in Dirs PROVE u[d] + Lates(m) <= b - Rooms(y, m)
  <2>1. u[d] \in Int /\ t[d] \in Int /\ u[d] + Late(R) <= t[d] + Late(cl[c]) + s /\ t[d] + Lates(cl) <= b - Rooms(z, cl)
    BY <1>3, <1>8
  <2> QED BY <1>4, <1>6, <2>1
<1>11. Bounded(y, u, m, w, o) BY <1>7, <1>9, <1>10 DEF Bounded
<1> QED BY <1>1, <1>11

\* The bounds of the total and the tree hold when an operation begins: it brings room for
\* Largest.
LEMMA BoundedBegin ==
  ASSUME NEW z \in [Files -> 0..Largest], NEW y \in [Files -> 0..Largest],
         NEW t \in [Dirs -> Nat], NEW u \in [Dirs -> Nat],
         NEW cl \in [Clients -> Records], \A b \in Clients : Shape(cl[b]), NEW c \in Clients, cl[c] = Idle,
         NEW R \in Records, Shape(R), NEW x \in Int, NEW w \in Int, NEW o \in Nat,
         \A b \in Clients : b # c => \A f \in cl[b].files : y[f] = z[f],
         Bounded(z, t, cl, x, o),
         Room(y, R) <= Largest, Late(R) = 0, w = x \/ w = 0,
         \A d \in Dirs : \E e \in Dirs : u[d] <= t[e]
  PROVE  Bounded(y, u, [cl EXCEPT ![c] = R], w, o + 1)
<1>1. PICK m : m = [cl EXCEPT ![c] = R] OBVIOUS
<1>2. Room(z, cl[c]) = 0 /\ Late(cl[c]) = 0 /\ Fall(cl[c]) = 0 BY DEF Idle, Room, Late, Fall
<1>3. PICK s \in Nat, q \in Nat : s = Room(y, R) /\ q = Fall(R) /\ s <= Largest /\ q <= Cap
  <2>1. Room(y, R) \in Nat /\ Fall(R) \in Nat BY RoomNat, OfRecord
  <2>2. Fall(R) <= Cap BY WordHolds DEF Fall
  <2> QED BY <2>1, <2>2
<1>4. Rooms(y, m) = Rooms(z, cl) + s /\ Rooms(z, cl) \in Int
  <2>1. Rooms(y, m) = Rooms(z, cl) - Room(z, cl[c]) + Room(y, R) /\ Rooms(z, cl) \in Int
    BY <1>1, RoomsStep
  <2> QED BY <1>2, <1>3, <2>1
<1>5. Falls(m) = Falls(cl) + q /\ Falls(cl) \in Int
  <2>1. Falls(m) = Falls(cl) - Fall(cl[c]) + Fall(R) /\ Falls(cl) \in Int BY <1>1, FallsStep
  <2> QED BY <1>2, <1>3, <2>1
<1>6. Lates(m) = Lates(cl) /\ Lates(cl) \in Int
  <2>1. Lates(m) = Lates(cl) - Late(cl[c]) + Late(R) /\ Lates(cl) \in Int BY <1>1, LatesStep
  <2> QED BY <1>2, <2>1
<1>7. PICK a \in Nat, b \in Nat, k \in Nat, f \in Nat :
        /\ a = Largest * o /\ b = Largest * (Entries + o) /\ k = Cap * o /\ f = Largest * Entries /\ b = f + a
        /\ Largest * (o + 1) = a + Largest /\ Largest * (Entries + (o + 1)) = b + Largest /\ Cap * (o + 1) = k + Cap
  BY Grow, WordHolds
<1>8. /\ Rooms(z, cl) <= a /\ x <= b - Rooms(z, cl)
      /\ \A d \in Dirs : t[d] + Lates(cl) <= b - Rooms(z, cl)
      /\ Falls(cl) <= k /\ x >= Falls(cl) - k
  BY <1>7 DEF Bounded
<1>9. /\ Rooms(y, m) <= a + Largest /\ w <= (b + Largest) - Rooms(y, m)
      /\ Falls(m) <= k + Cap /\ w >= Falls(m) - (k + Cap)
  BY <1>3, <1>4, <1>5, <1>7, <1>8, WordHolds, Constants
<1>10. ASSUME NEW d \in Dirs PROVE u[d] + Lates(m) <= (b + Largest) - Rooms(y, m)
  <2>1. PICK e \in Dirs : u[d] <= t[e] OBVIOUS
  <2>2. u[d] \in Int /\ t[e] \in Int /\ t[e] + Lates(cl) <= b - Rooms(z, cl) BY <1>8
  <2> QED BY <1>3, <1>4, <1>6, <1>7, <2>1, <2>2, Constants
<1>11. Bounded(y, u, m, w, o + 1) BY <1>7, <1>9, <1>10 DEF Bounded
<1> QED BY <1>1, <1>11

\* The parts of `Kept' in the current state.
KeptBy(due, gap, worth) ==
  /\ due \in [Files -> Int] /\ gap \in [Clients -> Int] /\ worth \in [Places -> Int]
  /\ Disjoint(client) /\ Bounded(size, tree, client, AsI64, ops)
  /\ Linked(size, tree, client, due, gap) /\ Worthy(tree, client, AsI64 + leak, due, worth)

\* While the books are kept there is an attribution of the account to name.
LEMMA KeptHas == Kept => \E due, gap, worth : KeptBy(due, gap, worth)
BY DEF Kept, KeptIn, KeptBy

\* The worth of the places after a step of a client that changes one place.
LEMMA WorthsStep ==
  ASSUME NEW t \in [Dirs -> Nat], NEW u \in [Dirs -> Nat],
         NEW cl \in [Clients -> Records], NEW c \in Clients, NEW R \in Records,
         NEW due \in [Files -> Int], NEW own \in [Files -> Int], NEW worth \in [Places -> Int],
         NEW x \in Int, NEW w \in Int, NEW p \in Places, NEW a \in Int,
         Worthy(t, cl, x, due, worth), Worths(t, u, cl[c], R, due, own, worth, p, a), w >= x + a
  PROVE  \E new \in [Places -> Int] : Worthy(u, [cl EXCEPT ![c] = R], w, own, new)
<1>1. PICK m \in [Clients -> Records] : m = [cl EXCEPT ![c] = R] OBVIOUS
<1>2. ASSUME NEW d \in Dirs
      PROVE  /\ Pend(m, d) = Pend(cl, d) - Awaits(cl[c], d) + Awaits(R, d) /\ Pend(cl, d) \in Int
             /\ Awaits(cl[c], d) \in Int /\ Awaits(R, d) \in Int /\ t[d] \in Int /\ u[d] \in Int
  <2>1. Pend(m, d) = Pend(cl, d) - Awaits(cl[c], d) + Awaits(R, d) /\ Pend(cl, d) \in Int
    <3>1. Pend([cl EXCEPT ![c] = R], d) = Pend(cl, d) - Awaits(cl[c], d) + Awaits(R, d) /\ Pend(cl, d) \in Int
      BY PendStep
    <3> QED BY <1>1, <3>1
  <2>2. Awaits(cl[c], d) \in Int /\ Awaits(R, d) \in Int BY OfRecord
  <2> QED BY <2>1, <2>2
<1>3. ASSUME NEW d \in Dirs, d # p PROVE u[d] + Pend(m, d) <= t[d] + Pend(cl, d)
  <2>1. u[d] + Awaits(R, d) <= t[d] + Awaits(cl[c], d) BY <1>3 DEF Worths
  <2> QED BY <1>2, <2>1
<1>4. ASSUME p \in Dirs PROVE u[p] + Pend(m, p) <= worth[p] + a
  <2>1. u[p] + Awaits(R, p) <= t[p] + Awaits(cl[c], p) + a BY <1>4 DEF Worths
  <2>2. worth[p] >= t[p] + Pend(cl, p) BY <1>4 DEF Worthy
  <2> QED BY <1>2, <1>4, <2>1, <2>2
<1>5. /\ worth[p] + a >= 0 /\ worth[p] + a >= Within(own, p)
      /\ \A q \in Places : q # p => Within(own, q) <= Within(due, q)
  BY DEF Worths
<1>6. \E new \in [Places -> Int] : Worthy(u, m, w, own, new) BY <1>3, <1>4, <1>5, WorthyStep
<1> QED BY <1>1, <1>6

\* The books after a step of an operation, from its own book, the worth of the places and
\* the bounds.
LEMMA KeptGone ==
  ASSUME Base, Base', NEW c \in Clients, NEW R, Moves(c, R), R.files \subseteq client[c].files, ops' = ops,
         NEW due, NEW gap, NEW worth, KeptBy(due, gap, worth),
         NEW own \in [Files -> Int], NEW h \in Int, NEW w \in Int,
         Books(size, size', tree, tree', client[c], R, due, own, gap[c], h),
         \E new \in [Places -> Int] : Worthy(tree', client', w + leak', own, new),
         Bounds(size, size', tree, tree', client[c], R, AsI64, w)
  PROVE  KeptIn(size', tree', client', w, leak', ops')
<1>1. /\ size \in [Files -> 0..Largest] /\ size' \in [Files -> 0..Largest]
      /\ tree \in [Dirs -> Nat] /\ tree' \in [Dirs -> Nat]
      /\ client \in [Clients -> Records] /\ R \in Records /\ Shape(R)
      /\ leak \in Int /\ leak' \in Int /\ ops \in Nat
  BY Constants DEF Base, Typed, Moves
<1>2. AsI64 \in Int BY SignedInt DEF Base
<1>3. \A b \in Clients : Shape(client[b]) BY DEF Base, Shapes
<1>4. PICK cl \in [Clients -> Records] : cl = client BY <1>1
<1>5. client' = [cl EXCEPT ![c] = R] BY <1>4 DEF Moves
<1>6. /\ due \in [Files -> Int] /\ gap \in [Clients -> Int] /\ worth \in [Places -> Int]
      /\ Disjoint(cl) /\ Bounded(size, tree, cl, AsI64, ops)
      /\ Linked(size, tree, cl, due, gap) /\ Worthy(tree, cl, AsI64 + leak, due, worth)
  BY <1>4 DEF KeptBy
<1>7. \A b \in Clients : b # c => cl[b].files \cap R.files = {} BY <1>4, <1>6 DEF Disjoint
<1>8. Disjoint([cl EXCEPT ![c] = R]) BY <1>1, <1>6, <1>7, DisjointGo
<1>9. PICK F \in SUBSET Files : F = cl[c].files \cup R.files BY <1>1, <1>4, FieldTypes
<1>10. /\ Local(size, size', tree, tree', due, own, F) /\ Settled(size', R, own, F) /\ Book(size', tree', R, own, h)
       /\ All(size') - All(size) = All(own) - All(due) + h - gap[c]
  BY <1>4, <1>9 DEF Books
<1>11. Linked(size', tree', [cl EXCEPT ![c] = R], own, [gap EXCEPT ![c] = h])
  BY <1>1, <1>3, <1>4, <1>6, <1>8, <1>9, <1>10, LinkedStep
<1>12. PICK new \in [Places -> Int] : Worthy(tree', [cl EXCEPT ![c] = R], w + leak', own, new)
  BY <1>5
<1>13. \A b \in Clients : b # c => \A f \in cl[b].files : size'[f] = size[f]
  <2>1. \A f \in Files : f \notin F => size'[f] = size[f] BY <1>10 DEF Local
  <2>2. ASSUME NEW b \in Clients, b # c, NEW f \in cl[b].files PROVE size'[f] = size[f]
    <3>1. f \in Files BY FieldTypes
    <3>2. f \notin cl[c].files /\ f \notin R.files BY <1>6, <1>7, <2>2 DEF Disjoint
    <3> QED BY <1>9, <2>1, <3>1, <3>2
  <2> QED BY <2>2
<1>14. Bounded(size', tree', [cl EXCEPT ![c] = R], w, ops)
  <2>1. Bounds(size, size', tree, tree', cl[c], R, AsI64, w) BY <1>4
  <2> QED BY <1>1, <1>2, <1>3, <1>4, <1>6, <1>13, <2>1, BoundedGo
<1>15. [gap EXCEPT ![c] = h] \in [Clients -> Int] BY <1>6
<1> QED BY <1>5, <1>8, <1>11, <1>12, <1>14, <1>15 DEF KeptIn

\* The account of one place changes.
LEMMA KeptGo ==
  ASSUME Base, Base', NEW c \in Clients, NEW R, Moves(c, R), R.files \subseteq client[c].files, ops' = ops,
         NEW due, NEW gap, NEW worth, KeptBy(due, gap, worth),
         NEW own \in [Files -> Int], NEW h \in Int, NEW p \in Places, NEW a \in Int, NEW w \in Int,
         Books(size, size', tree, tree', client[c], R, due, own, gap[c], h),
         Worths(tree, tree', client[c], R, due, own, worth, p, a),
         Bounds(size, size', tree, tree', client[c], R, AsI64, w),
         w + leak' >= AsI64 + leak + a
  PROVE  KeptIn(size', tree', client', w, leak', ops')
<1>1. /\ tree \in [Dirs -> Nat] /\ tree' \in [Dirs -> Nat]
      /\ client \in [Clients -> Records] /\ R \in Records
      /\ leak \in Int /\ leak' \in Int
  BY Constants DEF Base, Typed, Moves
<1>2. AsI64 \in Int BY SignedInt DEF Base
<1>4. PICK cl \in [Clients -> Records] : cl = client BY <1>1
<1>5. client' = [cl EXCEPT ![c] = R] BY <1>4 DEF Moves
<1>6. due \in [Files -> Int] /\ worth \in [Places -> Int] /\ Worthy(tree, cl, AsI64 + leak, due, worth)
  BY <1>4 DEF KeptBy
<1>12. PICK new \in [Places -> Int] : Worthy(tree', [cl EXCEPT ![c] = R], w + leak', own, new)
  <2>0. PICK x : x = AsI64 + leak OBVIOUS
  <2>01. PICK v : v = w + leak' OBVIOUS
  <2>02. x \in Int /\ v \in Int BY <1>1, <1>2, <2>0, <2>01
  <2>1. x = AsI64 + leak /\ v = w + leak' /\ v >= x + a BY <1>1, <1>2, <2>0, <2>01
  <2>2. Worthy(tree, cl, x, due, worth) /\ Worths(tree, tree', cl[c], R, due, own, worth, p, a)
    BY <1>4, <1>6, <2>1
  <2>3. \E new \in [Places -> Int] : Worthy(tree', [cl EXCEPT ![c] = R], v, own, new)
    BY <1>1, <1>6, <2>02, <2>1, <2>2, WorthsStep
  <2> QED BY <2>1, <2>3
<1> QED BY <1>5, <1>12, KeptGone

\* Nothing of an operation that begins is in the account yet.
LEMMA KeptBegin ==
  ASSUME Base, Base', NEW c \in Clients, NEW R, Moves(c, R), Began(c, R), ~drift',
         NEW due, NEW gap, NEW worth, KeptBy(due, gap, worth),
         NEW own \in [Files -> Int], NEW h \in Int, NEW w \in Int,
         Books(size, size', tree, tree', Idle, R, due, own, gap[c], h),
         \E new \in [Places -> Int] : Worthy(tree', client', w + leak', own, new),
         Room(size', R) <= Largest, Late(R) = 0, w = AsI64 \/ w = 0,
         \A d \in Dirs : \E e \in Dirs : tree'[d] <= tree[e]
  PROVE  KeptIn(size', tree', client', w, leak', ops')
<1>1. /\ size \in [Files -> 0..Largest] /\ size' \in [Files -> 0..Largest]
      /\ tree \in [Dirs -> Nat] /\ tree' \in [Dirs -> Nat]
      /\ client \in [Clients -> Records] /\ R \in Records /\ Shape(R) /\ ops \in Nat /\ ops' = ops + 1
  BY Constants DEF Base, Typed, Moves, Began
<1>2. AsI64 \in Int BY SignedInt DEF Base
<1>3. \A b \in Clients : Shape(client[b]) BY DEF Base, Shapes
<1>4. PICK cl \in [Clients -> Records] : cl = client BY <1>1
<1>5. client' = [cl EXCEPT ![c] = R] BY <1>4 DEF Moves
<1>6. /\ due \in [Files -> Int] /\ gap \in [Clients -> Int]
      /\ Disjoint(cl) /\ Bounded(size, tree, cl, AsI64, ops)
      /\ Linked(size, tree, cl, due, gap)
  BY <1>4 DEF KeptBy
<1>7. \A b \in Clients : b # c => cl[b].files \cap R.files = {} BY <1>4 DEF Began
<1>8. Disjoint([cl EXCEPT ![c] = R]) BY <1>1, <1>6, <1>7, DisjointGo
<1>9. cl[c] = Idle
  <2>1. client[c].op = "none" BY <1>1, <1>3, KindLabels DEF Began
  <2> QED BY <1>3, <1>4, <2>1 DEF Shape
<1>10. PICK F \in SUBSET Files : F = cl[c].files \cup R.files BY <1>1, FieldTypes
<1>11. /\ Local(size, size', tree, tree', due, own, F) /\ Settled(size', R, own, F) /\ Book(size', tree', R, own, h)
       /\ All(size') - All(size) = All(own) - All(due) + h - gap[c]
  BY <1>9, <1>10 DEF Books
<1>12. Linked(size', tree', [cl EXCEPT ![c] = R], own, [gap EXCEPT ![c] = h])
  BY <1>1, <1>3, <1>4, <1>6, <1>8, <1>10, <1>11, LinkedStep
<1>13. \A b \in Clients : b # c => \A f \in cl[b].files : size'[f] = size[f]
  <2>1. \A f \in Files : f \notin F => size'[f] = size[f] BY <1>11 DEF Local
  <2>2. ASSUME NEW b \in Clients, b # c, NEW f \in cl[b].files PROVE size'[f] = size[f]
    <3>1. f \in Files BY FieldTypes
    <3>2. f \notin cl[c].files /\ f \notin R.files BY <1>6, <1>7, <2>2 DEF Disjoint
    <3> QED BY <1>10, <2>1, <3>1, <3>2
  <2> QED BY <2>2
<1>14. Bounded(size', tree', [cl EXCEPT ![c] = R], w, ops + 1)
  BY <1>1, <1>2, <1>3, <1>4, <1>6, <1>9, <1>13, BoundedBegin
<1>15. [gap EXCEPT ![c] = h] \in [Clients -> Int] BY <1>6
<1> QED BY <1>1, <1>5, <1>8, <1>12, <1>14, <1>15 DEF KeptIn

------------------------------------------------------------------------------
(* Steps that leave the account as it is. *)

\* The types of the state, in the form the proofs of the steps use.
LEMMA StateTypes ==
  ASSUME Base
  PROVE  /\ size \in [Files -> 0..Largest] /\ size \in [Files -> Int] /\ tree \in [Dirs -> Nat]
         /\ client \in [Clients -> Records] /\ cached \in 0..(Word - 1)
         /\ AsI64 \in Int /\ leak \in Nat /\ leak \in Int /\ ops \in Nat /\ ops \in 0..MaxOps
         /\ \A c \in Clients : client[c] \in Records /\ Shape(client[c])
<1>1. size \in [Files -> 0..Largest] /\ size \in [Files -> Int] BY SizesInt DEF Base, Typed
<1>2. AsI64 \in Int BY SignedInt DEF Base
<1>3. ops \in Nat /\ leak \in Int BY Constants DEF Base, Typed
<1> QED BY <1>1, <1>2, <1>3 DEF Base, Typed, Shapes

\* Each client has its book.
LEMMA BookOf ==
  ASSUME NEW due, NEW gap, NEW worth, KeptBy(due, gap, worth), NEW c \in Clients
  PROVE  Book(size, tree, client[c], due, gap[c]) /\ gap[c] \in Int /\ due \in [Files -> Int] /\ worth \in [Places -> Int]
BY DEF KeptBy, Linked

\* Only a directory that is deleted can be short in the account.
LEMMA DueNat ==
  ASSUME Base, NEW due, NEW gap, NEW worth, KeptBy(due, gap, worth), NEW c \in Clients, NEW f \in client[c].files
  PROVE  f \in Files /\ (due[f] >= 0 \/ client[c].op = "delete_dir")
<1>1. f \in Files BY StateTypes, FieldTypes
<1>2. due[f] >= 0 \/ \E b \in Clients : client[b].op = "delete_dir" /\ f \in client[b].files
  BY <1>1 DEF KeptBy, Linked
<1>3. \A b \in Clients : f \in client[b].files => b = c BY DEF KeptBy, Disjoint
<1> QED BY <1>1, <1>2, <1>3

\* The signed total changes only with the cached total.
LEMMA SignedSame ==
  ASSUME cached' = cached
  PROVE  AsI64' = AsI64
BY DEF AsI64

\* A step that changes neither the disk nor the account keeps the books.
LEMMA KeptSame ==
  ASSUME Base, Base', NEW c \in Clients, NEW R, Moves(c, R), R.files = client[c].files, R.op = client[c].op,
         ops' = ops, size' = size, tree' = tree, cached' = cached, leak' = leak,
         NEW due, NEW gap, NEW worth, KeptBy(due, gap, worth),
         Book(size, tree, R, due, gap[c]),
         R.at # "tree", client[c].at # "tree",
         Room(size, R) <= Room(size, client[c]), Fall(R) <= Fall(client[c]), Fall(client[c]) <= Fall(R)
  PROVE  Kept'
<1>1. PICK r : r = client[c] OBVIOUS
<1>2. r \in Records /\ R \in Records /\ Shape(R) /\ Shape(r) BY <1>1, StateTypes DEF Moves
<1>3. due \in [Files -> Int] /\ gap[c] \in Int /\ worth \in [Places -> Int] BY BookOf
<1>4. /\ Local(size, size', tree, tree', due, due, r.files \cup R.files) BY DEF Local
<1>5. Settled(size', R, due, r.files \cup R.files)
  <2>1. ASSUME NEW f \in r.files \cup R.files
        PROVE  f \in R.files /\ (due[f] >= 0 \/ R.op = "delete_dir")
    <3>1. f \in client[c].files BY <1>1, <2>1
    <3> QED BY <3>1, DueNat
  <2> QED BY <2>1 DEF Settled
<1>6. Books(size, size', tree, tree', r, R, due, due, gap[c], gap[c])
  <2>1. All(size) \in Int /\ All(due) \in Int BY <1>3, AllInt, StateTypes
  <2>2. All(size') - All(size) = All(due) - All(due) + gap[c] - gap[c] BY <1>3, <2>1
  <2> QED BY <1>4, <1>5, <2>2 DEF Books
<1>7. Root \in Places /\ Within(due, Root) \in Int /\ worth[Root] \in Int
  BY <1>3, WithinInt DEF Places
<1>8. Worths(tree, tree', r, R, due, due, worth, Root, 0)
  <2>1. worth[Root] >= 0 /\ worth[Root] >= Within(due, Root) BY <1>7 DEF KeptBy, Worthy
  <2>2. \A d \in Dirs : tree[d] \in Int BY StateTypes
  <2>3. \A q \in Places : Within(due, q) \in Int BY <1>3, WithinInt
  <2> QED BY <1>1, <1>7, <2>1, <2>2, <2>3, Constants DEF Worths, Awaits
<1>9. Bounds(size, size', tree, tree', r, R, AsI64, AsI64)
  <2>1. Room(size, r) \in Nat /\ Room(size, R) \in Nat /\ Fall(r) \in Nat /\ Fall(R) \in Nat /\ AsI64 \in Int
    BY <1>2, StateTypes, RoomNat, OfRecord
  <2>2. Late(r) = 0 /\ Late(R) = 0 BY <1>1 DEF Late
  <2>3. \A d \in Dirs : tree[d] \in Int BY StateTypes
  <2> QED BY <1>1, <2>1, <2>2, <2>3 DEF Bounds
<1>10. AsI64 \in Int /\ leak \in Int /\ AsI64 + leak' >= AsI64 + leak + 0 BY StateTypes
<1>11. KeptIn(size', tree', client', AsI64, leak', ops')
  BY <1>1, <1>3, <1>6, <1>7, <1>8, <1>9, <1>10, KeptGo
<1> QED BY <1>11, SignedSame DEF Kept

\* A client that gives its files up, all of them in order.  What it was about to add
\* to the tree of a place is lost.
LEMMA KeptIdle ==
  ASSUME Base, Base', NEW c \in Clients, Moves(c, Idle), client[c].at \notin {"load", "sub"},
         ops' = ops, tree' = tree, cached' = cached,
         NEW due, NEW gap, NEW worth, KeptBy(due, gap, worth), NEW own \in [Files -> Int],
         \A f \in Files : f \notin client[c].files => size'[f] = size[f] /\ own[f] = due[f],
         \A f \in client[c].files : own[f] = size'[f],
         All(size') - All(size) = All(own) - All(due) - gap[c],
         NEW p \in Places, NEW a \in Nat, leak' = leak + a,
         client[c].at = "tree" => client[c].dir = p /\ client[c].delta + a >= 0,
         Within(own, p) <= Within(due, p) + a \/ Within(own, p) <= a,
         \A q \in Places : q # p => Within(own, q) <= Within(due, q)
  PROVE  Kept'
<1>1. PICK r : r = client[c] OBVIOUS
<1>2. r \in Records /\ Shape(r) /\ Idle \in Records /\ Shape(Idle)
  BY <1>1, StateTypes, IdleRecord
<1>3. due \in [Files -> Int] /\ gap[c] \in Int /\ worth \in [Places -> Int] BY BookOf
<1>4. r.files \cup Idle.files = r.files /\ Idle.files = {} /\ Idle.op = "none" BY DEF Idle
<1>5. size' \in [Files -> 0..Largest] /\ size' \in [Files -> Int] /\ r.files \subseteq Files
  BY <1>2, SizesInt, FieldTypes DEF Base, Typed
<1>6. Local(size, size', tree, tree', due, own, r.files \cup Idle.files) BY <1>1, <1>4 DEF Local
<1>7. Settled(size', Idle, own, r.files \cup Idle.files)
  <2>1. \A f \in r.files : own[f] = size'[f] /\ own[f] >= 0 BY <1>1, <1>5, SizesInt
  <2> QED BY <1>4, <2>1 DEF Settled
<1>8. Book(size', tree', Idle, own, 0) BY <1>4 DEF Book
<1>9. Books(size, size', tree, tree', r, Idle, due, own, gap[c], 0)
  <2>1. All(size) \in Int /\ All(due) \in Int /\ All(own) \in Int /\ All(size') \in Int
    BY <1>3, <1>5, AllInt, StateTypes
  <2>2. All(size') - All(size) = All(own) - All(due) + 0 - gap[c] BY <1>3, <2>1
  <2> QED BY <1>6, <1>7, <1>8, <2>2 DEF Books
<1>10. /\ \A d : Awaits(Idle, d) = 0 /\ Awaits(r, d) \in Int
       /\ \A d : d # p => Awaits(r, d) = 0
       /\ Awaits(r, p) + a >= 0
  <2>1. \A d : Awaits(Idle, d) = 0 /\ Awaits(r, d) \in Int BY <1>2, OfRecord DEF Awaits, Idle
  <2>2. \A d : d # p => Awaits(r, d) = 0 BY <1>1 DEF Awaits
  <2>3. Awaits(r, p) + a >= 0 BY <1>1 DEF Awaits
  <2> QED BY <2>1, <2>2, <2>3
<1>11. Worths(tree, tree', r, Idle, due, own, worth, p, a)
  <2>1. worth[p] >= 0 /\ worth[p] >= Within(due, p) BY DEF KeptBy, Worthy
  <2>2. worth[p] \in Int /\ Within(due, p) \in Int /\ Within(own, p) \in Int BY <1>3, WithinInt
  <2>3. worth[p] + a >= 0 /\ worth[p] + a >= Within(own, p) BY <2>1, <2>2
  <2>4. \A d \in Dirs : tree[d] \in Int BY StateTypes
  <2> QED BY <1>10, <2>3, <2>4 DEF Worths
<1>12. Bounds(size, size', tree, tree', r, Idle, AsI64, AsI64)
  <2>1. Room(size, r) \in Nat /\ AsI64 \in Int /\ Room(size', Idle) = 0
    BY <1>2, StateTypes, RoomNat DEF Room, Idle
  <2>2. Late(r) \in Nat /\ Late(Idle) = 0 /\ Fall(r) = 0 /\ Fall(Idle) = 0
    BY <1>1, <1>2, OfRecord DEF Late, Fall, Idle
  <2>3. \A d \in Dirs : tree[d] \in Int BY StateTypes
  <2> QED BY <2>1, <2>2, <2>3 DEF Bounds
<1>13. AsI64 \in Int /\ leak \in Int /\ AsI64 + leak' >= AsI64 + leak + a BY StateTypes
<1>14. KeptIn(size', tree', client', AsI64, leak', ops')
  <2>1. Idle.files \subseteq client[c].files /\ 0 \in Int /\ a \in Int BY <1>4
  <2>2. PICK R : R = Idle OBVIOUS
  <2> QED BY <1>1, <1>3, <1>9, <1>11, <1>12, <1>13, <2>1, <2>2, KeptGo
<1> QED BY <1>14, SignedSame DEF Kept

------------------------------------------------------------------------------
(* Operations begin. *)

\* When an operation begins without overlap, its files are exact in the books and nobody
\* else holds them.
LEMMA BeginFacts ==
  ASSUME Base, NEW c \in Clients, NEW R, Moves(c, R), Began(c, R), ~drift',
         NEW due, NEW gap, NEW worth, KeptBy(due, gap, worth)
  PROVE  /\ client[c] = Idle /\ gap[c] = 0 /\ leak' = leak
         /\ \A f \in R.files : f \in Files /\ due[f] = size[f] /\ due[f] \in Nat
         /\ \A b \in Clients : b # c => client[b].files \cap R.files = {}
<1>1. client[c] \in Records /\ Shape(client[c]) /\ R \in Records BY StateTypes DEF Moves
<1>2. client[c].op = "none" BY <1>1, KindLabels DEF Began
<1>3. client[c] = Idle BY <1>1, <1>2 DEF Shape
<1>4. gap[c] = 0
  <2>1. Book(size, tree, client[c], due, gap[c]) BY BookOf
  <2> QED BY <1>2, <2>1 DEF Book
<1>5. \A b \in Clients : b # c => client[b].files \cap R.files = {} BY DEF Began
<1>6. ASSUME NEW f \in R.files PROVE f \in Files /\ due[f] = size[f] /\ due[f] \in Nat
  <2>1. f \in Files BY <1>1, FieldTypes
  <2>2. \A b \in Clients : f \notin client[b].files BY <1>3, <1>5, <1>6 DEF Idle
  <2>3. due[f] = size[f] BY <2>1, <2>2 DEF KeptBy, Linked
  <2>4. size[f] \in Nat BY <2>1, StateTypes, SizesInt
  <2> QED BY <2>1, <2>3, <2>4
<1> QED BY <1>3, <1>4, <1>5, <1>6 DEF Began

\* No account is changed yet.
LEMMA WorthyBegin ==
  ASSUME Base, NEW c \in Clients, NEW R, Moves(c, R), client[c] = Idle, R.at # "tree", leak' = leak,
         NEW due, NEW gap, NEW worth, KeptBy(due, gap, worth), NEW own \in [Files -> Int],
         \A q \in Places : Within(own, q) <= Within(due, q), tree' = tree
  PROVE  \E new \in [Places -> Int] : Worthy(tree', client', AsI64 + leak', own, new)
<1>1. PICK cl \in [Clients -> Records] : cl = client BY StateTypes
<1>2. due \in [Files -> Int] /\ worth \in [Places -> Int] /\ R \in Records /\ Root \in Places
  BY BookOf DEF Moves, Places
<1>3. PICK x \in Int : x = AsI64 + leak BY StateTypes
<1>4. Worthy(tree, cl, x, due, worth) BY <1>1, <1>3 DEF KeptBy
<1>5. Worths(tree, tree, cl[c], R, due, own, worth, Root, 0)
  <2>1. worth[Root] >= 0 /\ worth[Root] >= Within(due, Root) /\ worth[Root] \in Int
    BY <1>2 DEF KeptBy, Worthy
  <2>2. Within(due, Root) \in Int /\ Within(own, Root) \in Int /\ Within(own, Root) <= Within(due, Root)
    BY <1>2, WithinInt
  <2>3. \A d \in Dirs : tree[d] \in Int BY StateTypes
  <2>4. \A d : Awaits(R, d) = 0 /\ Awaits(cl[c], d) = 0 BY <1>1 DEF Awaits, Idle
  <2> QED BY <2>1, <2>2, <2>3, <2>4 DEF Worths
<1>6. \E new \in [Places -> Int] : Worthy(tree, [cl EXCEPT ![c] = R], x, own, new)
  <2>1. PICK t \in [Dirs -> Nat], a \in Int, w \in Int : t = tree /\ a = 0 /\ w = x
    BY StateTypes
  <2>2. Worthy(t, cl, x, due, worth) /\ Worths(t, t, cl[c], R, due, own, worth, Root, a) /\ w >= x + a
    BY <1>4, <1>5, <2>1
  <2>3. \E new \in [Places -> Int] : Worthy(t, [cl EXCEPT ![c] = R], w, own, new)
    BY <1>2, <2>2, WorthsStep
  <2> QED BY <2>1, <2>3
<1> QED BY <1>1, <1>3, <1>6 DEF Moves

\* An operation that begins without touching the disk or the account keeps the books.
LEMMA KeptBeginSame ==
  ASSUME Base, Base', NEW c \in Clients, NEW R, Moves(c, R), Began(c, R), ~drift',
         size' = size, tree' = tree, cached' = cached,
         NEW due, NEW gap, NEW worth, KeptBy(due, gap, worth),
         Book(size, tree, R, due, 0), Room(size, R) <= Largest, R.at # "tree"
  PROVE  Kept'
<1>1. /\ client[c] = Idle /\ gap[c] = 0 /\ leak' = leak
      /\ \A f \in R.files : f \in Files /\ due[f] = size[f] /\ due[f] \in Nat
  BY BeginFacts
<1>2. due \in [Files -> Int] BY BookOf
<1>3. Books(size, size', tree, tree', Idle, R, due, due, gap[c], 0)
  <2>1. Local(size, size', tree, tree', due, due, Idle.files \cup R.files) BY DEF Local
  <2>2. Settled(size', R, due, Idle.files \cup R.files)
    <3>1. Idle.files \cup R.files = R.files BY DEF Idle
    <3>2. \A f \in R.files : due[f] >= 0 BY <1>1
    <3> QED BY <3>1, <3>2 DEF Settled
  <2>3. All(size') - All(size) = All(due) - All(due) + 0 - gap[c]
    <3>1. All(size) \in Int /\ All(due) \in Int BY <1>2, AllInt, StateTypes
    <3> QED BY <1>1, <3>1
  <2> QED BY <2>1, <2>2, <2>3 DEF Books
<1>4. \E new \in [Places -> Int] : Worthy(tree', client', AsI64 + leak', due, new)
  <2>1. \A q \in Places : Within(due, q) \in Int BY <1>2, WithinInt
  <2>2. \A q \in Places : Within(due, q) <= Within(due, q) BY <2>1
  <2> QED BY <1>1, <1>2, <2>2, WorthyBegin
<1>5. Late(R) = 0 /\ AsI64 \in Int /\ \A d \in Dirs : \E e \in Dirs : tree'[d] <= tree[e]
  <2>1. Late(R) = 0 BY DEF Late
  <2>2. \A d \in Dirs : tree'[d] <= tree[d] BY StateTypes
  <2>3. AsI64 \in Int BY StateTypes
  <2> QED BY <2>1, <2>2, <2>3
<1>6. KeptIn(size', tree', client', AsI64, leak', ops')
  <2>1. Room(size', R) <= Largest /\ 0 \in Int OBVIOUS
  <2> QED BY <1>2, <1>3, <1>4, <1>5, <2>1, KeptBegin
<1> QED BY <1>6, SignedSame DEF Kept

\* POST files/write, which compares the announced size with the old one, keeps the books.
LEMMA WriteKept ==
  ASSUME Base, Base', Kept, ~drift', NEW c \in Clients, NEW f \in Files, NEW n \in Sizes, NEW body \in Sizes,
         Write(c, f, n, body)
  PROVE  Kept'
<1>1. PICK due, gap, worth : KeptBy(due, gap, worth) BY KeptHas
<1>2. PICK R : /\ Moves(c, R)
               /\ R.op = "write" /\ R.to = f /\ R.files = {f} /\ R.bytes = n /\ R.owed = 0 /\ R.delta = n - size[f]
               /\ R.at = IF n > size[f] THEN "check" ELSE IF n < size[f] THEN "load" ELSE "create"
  BY WriteMoves DEF Base
<1>3. Began(c, R) BY <1>2, WriteBegins
<1>4. size' = size /\ tree' = tree /\ cached' = cached BY DEF Write, disk
<1>5. due[f] = size[f] /\ size[f] \in Nat /\ n \in Nat
  <2>1. due[f] = size[f] BY <1>1, <1>2, <1>3, BeginFacts
  <2> QED BY <2>1, StateTypes, SizesInt, Constants
<1>6. R.at \in {"check", "load", "create"} BY <1>2, <1>5
<1>7. WriteBook(size, R, due, 0) BY <1>2, <1>5, <1>6 DEF WriteBook
<1>8. Book(size, tree, R, due, 0) BY <1>2, <1>7 DEF Book
<1>9. Room(size, R) <= Largest BY <1>2, Constants DEF Room
<1>10. R.at # "tree" BY <1>6
<1> QED BY <1>1, <1>2, <1>3, <1>4, <1>8, <1>9, <1>10, KeptBeginSame

\* POST files/copy, which allocates the size of the source first, keeps the books.
LEMMA CopyKept ==
  ASSUME Base, Base', Kept, ~drift', NEW c \in Clients, NEW f \in Files, NEW g \in Files, Copy(c, f, g)
  PROVE  Kept'
<1>1. PICK due, gap, worth : KeptBy(due, gap, worth) BY KeptHas
<1>2. PICK R : /\ Moves(c, R)
               /\ R.op = "copy" /\ R.at = "check" /\ R.from = f /\ R.to = g /\ R.files = {f, g} /\ R.owed = 0
               /\ R.delta = size[f]
  BY CopyMoves DEF Base
<1>3. Began(c, R) BY <1>2, CopyBegins
<1>4. size' = size /\ tree' = tree /\ cached' = cached BY DEF Copy, disk
<1>5. due[f] = size[f] /\ due[g] = size[g] /\ size[f] \in Nat /\ size[g] \in Nat
  <2>1. due[f] = size[f] /\ due[g] = size[g] BY <1>1, <1>2, <1>3, BeginFacts
  <2> QED BY <2>1, StateTypes, SizesInt
<1>6. CopyBook(size, R, due, 0) BY <1>2, <1>5 DEF CopyBook
<1>7. Book(size, tree, R, due, 0) BY <1>2, <1>6 DEF Book
<1>8. Room(size, R) <= Largest /\ R.at # "tree" BY <1>2, Constants DEF Room
<1> QED BY <1>1, <1>2, <1>3, <1>4, <1>7, <1>8, KeptBeginSame

\* `truncate_path' of a file, which gives its size back first, keeps the books.
LEMMA DeleteFileKept ==
  ASSUME Base, Base', Kept, ~drift', NEW c \in Clients, NEW f \in Files, DeleteFile(c, f)
  PROVE  Kept'
<1>1. PICK due, gap, worth : KeptBy(due, gap, worth) BY KeptHas
<1>2. PICK R : /\ Moves(c, R)
               /\ R.op = "delete" /\ R.at = "load" /\ R.from = f /\ R.files = {f} /\ R.owed = 0 /\ R.delta = -size[f]
  BY DeleteFileMoves DEF Base
<1>3. Began(c, R) BY <1>2, DeleteFileBegins
<1>4. size' = size /\ tree' = tree /\ cached' = cached BY DEF DeleteFile, disk
<1>5. due[f] = size[f] /\ size[f] \in Nat
  <2>1. due[f] = size[f] BY <1>1, <1>2, <1>3, BeginFacts
  <2> QED BY <2>1, StateTypes, SizesInt
<1>6. DeleteBook(size, R, due, 0) BY <1>2, <1>5 DEF DeleteBook
<1>7. Book(size, tree, R, due, 0) BY <1>2, <1>6 DEF Book
<1>8. Room(size, R) <= Largest /\ R.at # "tree" BY <1>2, Constants DEF Room
<1> QED BY <1>1, <1>2, <1>3, <1>4, <1>7, <1>8, KeptBeginSame

\* `truncate_path' of a directory, which gives back what the tree says of it, keeps the
\* books.
LEMMA DeleteDirKept ==
  ASSUME Base, Base', Kept, ~drift', NEW c \in Clients, NEW d \in Dirs, DeleteDir(c, d)
  PROVE  Kept'
<1>1. PICK due, gap, worth : KeptBy(due, gap, worth) BY KeptHas
<1>2. PICK R : /\ Moves(c, R)
               /\ R.op = "delete_dir" /\ R.from = <<d>> /\ R.files = In(d) /\ R.owed = 0 /\ R.delta = -tree[d]
               /\ R.at = IF tree[d] = 0 THEN "prune" ELSE "load"
  BY DeleteDirMoves DEF Base
<1>21. R.op = "delete_dir" /\ R.from = <<d>> /\ R.files = In(d) /\ R.owed = 0 /\ R.delta = -tree[d]
  BY <1>2, Zenon
<1>22. Moves(c, R) /\ R.at = IF tree[d] = 0 THEN "prune" ELSE "load" BY <1>2, Zenon
<1>3. Began(c, R) BY <1>21, DeleteDirBegins
<1>4. size' = size /\ tree' = tree /\ cached' = cached BY DEF DeleteDir, disk
<1>5. d \in Places /\ due \in [Files -> Int] /\ size \in [Files -> Int] /\ R.from[1] = d
  <2>0. R.from = <<d>> BY <1>21, Zenon
  <2>1. R.from[1] = d BY <2>0
  <2>2. d \in Places BY DirParts
  <2>3. due \in [Files -> Int] BY <1>1 DEF KeptBy
  <2> QED BY <2>1, <2>2, <2>3, StateTypes
<1>6. Within(due, d) = Within(size, d)
  <2>0. \A f \in R.files : due[f] = size[f] BY <1>1, <1>22, <1>3, BeginFacts
  <2>1. \A f \in In(d) : due[f] = size[f] BY <1>21, <2>0
  <2>2. \A n \in Names : due[<<d, n>>] = size[<<d, n>>] BY <1>5, <2>1, InDir
  <2> QED BY <1>5, <2>2, WithinSame
<1>7. Within(size, d) \in Int /\ tree[d] \in Nat BY <1>5, WithinInt, StateTypes
<1>8. DeleteDirBook(size, tree, R, due, 0)
  <2>1. R.owed = 0 /\ R.delta = -tree[d] /\ R.at \in {"prune", "load"} /\ (R.at = "prune" => tree[d] = 0)
    BY <1>21, <1>22
  <2>2. R.from[1] = d /\ Within(due, d) = Within(size, d) - 0 BY <1>5, <1>6, <1>7
  <2> QED BY <2>1, <2>2 DEF DeleteDirBook
<1>9. Book(size, tree, R, due, 0) BY <1>21, <1>8 DEF Book
<1>10. Room(size, R) <= Largest /\ R.at # "tree"
  <2>1. R.op = "delete_dir" /\ R.at \in {"prune", "load"} BY <1>21, <1>22
  <2>2. R.op \notin {"async", "sync"} /\ R.at \notin {"check", "add"} /\ R.op # "rename" /\ R.at # "tree"
    BY <2>1
  <2>3. Room(size, R) = 0 BY <2>2 DEF Room
  <2> QED BY <2>2, <2>3, Constants
<1> QED BY <1>1, <1>22, <1>3, <1>4, <1>9, <1>10, KeptBeginSame

\* `rename_path' of a file, which gives its size back to the old parent first, keeps the
\* books.
LEMMA RenameFileKept ==
  ASSUME Base, Base', Kept, ~drift', NEW c \in Clients, NEW f \in Files, NEW g \in Files, RenameFile(c, f, g)
  PROVE  Kept'
<1>1. PICK due, gap, worth : KeptBy(due, gap, worth) BY KeptHas
<1>2. PICK R : /\ Moves(c, R)
               /\ R.op = "rename" /\ R.at = "load" /\ R.from = f /\ R.to = g /\ R.files = {f, g} /\ R.owed = 0
               /\ R.bytes = size[f] /\ R.delta = -size[f] /\ R.then = "move"
  BY RenameFileMoves DEF Base
<1>3. Began(c, R) BY <1>2, RenameFileBegins
<1>4. size' = size /\ tree' = tree /\ cached' = cached /\ size[g] = 0 BY DEF RenameFile, disk
<1>5. due[f] = size[f] /\ due[g] = size[g] /\ size[f] \in Nat /\ size[g] \in Nat
  <2>1. due[f] = size[f] /\ due[g] = size[g] BY <1>1, <1>2, <1>3, BeginFacts
  <2> QED BY <2>1, StateTypes, SizesInt
<1>6. RenameBook(size, R, due, 0) BY <1>2, <1>4, <1>5 DEF RenameBook
<1>7. Book(size, tree, R, due, 0) BY <1>2, <1>6 DEF Book
<1>8. Room(size, R) <= Largest /\ R.at # "tree" BY <1>2, Constants DEF Room
<1> QED BY <1>1, <1>2, <1>3, <1>4, <1>7, <1>8, KeptBeginSame

\* Opening a writer, which empties the file, keeps the books.
LEMMA OpenKept ==
  ASSUME Base, Base', Kept, ~drift', NEW c \in Clients, NEW op \in {"async", "sync"}, NEW f \in Files, Open(c, op, f)
  PROVE  Kept'
<1>1. PICK due, gap, worth : KeptBy(due, gap, worth) BY KeptHas
<1>2. PICK R : /\ Moves(c, R)
               /\ R.op = op /\ R.at = "open" /\ R.to = f /\ R.files = {f} /\ R.owed = 0
  BY OpenMoves DEF Base
<1>3. Began(c, R) BY <1>2, OpenBegins
<1>4. size' = [size EXCEPT ![f] = 0] /\ tree' = tree /\ cached' = cached BY DEF Open
<1>5. /\ client[c] = Idle /\ gap[c] = 0 /\ leak' = leak
      /\ due[f] = size[f] /\ size[f] \in Nat
  <2>1. client[c] = Idle /\ gap[c] = 0 /\ leak' = leak /\ due[f] = size[f]
    BY <1>1, <1>2, <1>3, BeginFacts
  <2> QED BY <2>1, StateTypes, SizesInt
<1>6. due \in [Files -> Int] /\ size \in [Files -> Int]
  <2>1. due \in [Files -> Int] BY <1>1 DEF KeptBy
  <2> QED BY <2>1, StateTypes
<1>7. PICK own : own = [due EXCEPT ![f] = 0] OBVIOUS
<1>8. PICK y : y = size' OBVIOUS
<1>81. own \in [Files -> Int] /\ y \in [Files -> Int] BY <1>4, <1>6, <1>7, <1>8
<1>9. /\ own[f] = 0 /\ y[f] = 0
      /\ \A g \in Files : g # f => own[g] = due[g] /\ y[g] = size[g]
  BY <1>4, <1>6, <1>7, <1>8
<1>10. /\ All(own) = All(due) - due[f] + 0 /\ Within(own, f[1]) = Within(due, f[1]) - due[f] + 0
       /\ \A q \in Places : q # f[1] => Within(own, q) = Within(due, q)
  BY <1>6, <1>81, <1>9, AllChange
<1>11. All(y) = All(size) - size[f] + 0 BY <1>6, <1>81, <1>9, AllChange
<1>12. All(own) \in Int /\ All(due) \in Int /\ All(y) \in Int /\ All(size) \in Int
  BY <1>6, <1>81, AllInt
<1>13. \A q \in Places : Within(own, q) <= Within(due, q)
  <2>1. ASSUME NEW q \in Places PROVE Within(own, q) <= Within(due, q)
    <3>1. Within(own, q) \in Int /\ Within(due, q) \in Int BY <1>6, <1>81, WithinInt
    <3>2. CASE q = f[1]
      <4>1. Within(own, q) = Within(due, q) - due[f] + 0 BY <1>10, <3>2
      <4> QED BY <1>5, <3>1, <4>1
    <3>3. CASE q # f[1]
      <4>1. Within(own, q) = Within(due, q) BY <1>10, <3>3
      <4> QED BY <3>1, <4>1
    <3> QED BY <3>2, <3>3
  <2> QED BY <2>1
<1>14. Books(size, size', tree, tree', Idle, R, due, own, gap[c], 0)
  <2>0. Idle.files \cup R.files = {f} BY <1>2 DEF Idle
  <2>1. Local(size, size', tree, tree', due, own, Idle.files \cup R.files)
    BY <1>4, <1>8, <1>9, <2>0 DEF Local
  <2>2. Settled(size', R, own, Idle.files \cup R.files)
    <3>1. \A g \in {f} : g \in R.files /\ own[g] >= 0 BY <1>2, <1>9
    <3> QED BY <2>0, <3>1 DEF Settled
  <2>3. All(size') - All(size) = All(own) - All(due) + 0 - gap[c]
    BY <1>5, <1>8, <1>10, <1>11, <1>12
  <2>4. WriterBook(size', R, own, 0) BY <1>2, <1>8, <1>9 DEF WriterBook
  <2>5. Book(size', tree', R, own, 0) BY <1>2, <2>4 DEF Book
  <2> QED BY <2>1, <2>2, <2>3, <2>5 DEF Books
<1>15. \E new \in [Places -> Int] : Worthy(tree', client', AsI64 + leak', own, new)
  BY <1>1, <1>2, <1>4, <1>5, <1>81, <1>13, WorthyBegin
<1>16. Room(size', R) <= Largest /\ Late(R) = 0
  <2>1. Room(size', R) = Largest - 0 + 0 BY <1>2, <1>8, <1>9 DEF Room
  <2>2. Late(R) = 0 BY <1>2 DEF Late
  <2> QED BY <2>1, <2>2, Constants
<1>17. AsI64 \in Int /\ \A d \in Dirs : \E e \in Dirs : tree'[d] <= tree[e]
  <2>1. \A d \in Dirs : tree'[d] <= tree[d] BY <1>4, StateTypes
  <2>2. AsI64 \in Int BY StateTypes
  <2> QED BY <2>1, <2>2
<1>18. KeptIn(size', tree', client', AsI64, leak', ops')
  <2>1. 0 \in Int OBVIOUS
  <2> QED BY <1>1, <1>2, <1>3, <1>81, <1>14, <1>15, <1>16, <1>17, <2>1, KeptBegin
<1> QED BY <1>4, <1>18, SignedSame DEF Kept

\* A client that is about to change the tree has a file in that directory.
LEMMA TreeFile ==
  ASSUME NEW r \in Records, Shape(r), r.at = "tree"
  PROVE  \E f \in r.files : f \in In(r.dir)
<1>1. r.op \in {"write", "async", "sync", "copy", "delete", "delete_dir", "rename"}
  BY KindLabels
<1>2. CASE r.op \in {"write", "async", "sync"}
  <2>1. r.to \in Files /\ r.to \in r.files /\ r.dir = r.to[1]
    BY <1>2 DEF Shape, WriteShape, WriterShape
  <2> QED BY <2>1 DEF In
<1>3. CASE r.op = "copy"
  <2>1. r.to \in Files /\ r.to \in r.files /\ r.dir = r.to[1] BY <1>3 DEF Shape, CopyShape
  <2> QED BY <2>1 DEF In
<1>4. CASE r.op = "delete"
  <2>1. r.from \in Files /\ r.from \in r.files /\ r.dir = r.from[1]
    BY <1>4 DEF Shape, DeleteShape
  <2> QED BY <2>1 DEF In
<1>5. CASE r.op = "delete_dir"
  <2>1. PICK d \in Dirs : r.files = In(d) /\ r.dir = d BY <1>5 DEF Shape, DeleteDirShape
  <2>2. PICK n \in Names : TRUE BY FilesAssumption
  <2>3. <<d, n>> \in In(d) BY DirParts, InDir
  <2> QED BY <2>1, <2>3
<1>6. CASE r.op = "rename"
  <2>1. RenameShape(r) BY <1>6 DEF Shape
  <2>2. r.then = "move" \/ r.then = "rename" BY <2>1 DEF RenameShape
  <2>3. CASE r.then = "move"
    <3>1. r.from \in Files /\ r.from \in r.files /\ r.dir = r.from[1]
      BY <2>1, <2>3 DEF RenameShape
    <3> QED BY <3>1 DEF In
  <2>4. CASE r.then = "rename"
    <3>1. r.to \in Files /\ r.to \in r.files /\ r.dir = r.to[1] BY <2>1, <2>4 DEF RenameShape
    <3> QED BY <3>1 DEF In
  <2> QED BY <2>2, <2>3, <2>4
<1> QED BY <1>1, <1>2, <1>3, <1>4, <1>5, <1>6

\* Nothing awaits the tree of a directory whose files no client in its tree step holds.
LEMMA NonePending ==
  ASSUME NEW cl \in [Clients -> Records], \A b \in Clients : Shape(cl[b]), NEW d \in Dirs,
         \A b \in Clients : cl[b].at = "tree" => cl[b].files \cap In(d) = {}
  PROVE  Pend(cl, d) = 0
<1>1. ASSUME NEW b \in Clients PROVE Awaits(cl[b], d) = 0
  <2>1. ASSUME cl[b].at = "tree", cl[b].dir = d PROVE FALSE
    <3>1. PICK f \in cl[b].files : f \in In(cl[b].dir) BY <2>1, TreeFile
    <3> QED BY <2>1, <3>1
  <2> QED BY <2>1 DEF Awaits
<1>2. [b \in Clients |-> Awaits(cl[b], d)] = [b \in Clients |-> 0] BY <1>1
<1> QED BY <1>2, Finite, TotalZero DEF Pend

\* Nothing is under way beside an operation that has all files.
LEMMA TruncatePending ==
  ASSUME Base, NEW c \in Clients, NEW R, Moves(c, R), R.at # "tree",
         \A b \in Clients : b # c => client[b].files \cap Files = {}
  PROVE  \A d \in Dirs : Pend(client', d) = 0
<1>1. PICK m \in [Clients -> Records] : m = client' BY StateTypes DEF Moves
<1>2. \A b \in Clients : Shape(m[b]) BY <1>1, StateTypes DEF Moves
<1>3. ASSUME NEW d \in Dirs PROVE Pend(m, d) = 0
  <2>1. ASSUME NEW b \in Clients, m[b].at = "tree" PROVE m[b].files \cap In(d) = {}
    <3>1. b # c /\ m[b] = client[b] BY <1>1, <2>1, StateTypes DEF Moves
    <3>2. In(d) \subseteq Files BY DirParts
    <3> QED BY <3>1, <3>2
  <2> QED BY <1>2, <2>1, NonePending
<1> QED BY <1>1, <1>3

\* The tree is cleared, the account stays.
LEMMA TruncateRootKept ==
  ASSUME Base, Base', Kept, ~drift', NEW c \in Clients, TruncateRoot(c)
  PROVE  Kept'
<1>1. PICK due, gap, worth : KeptBy(due, gap, worth) BY KeptHas
<1>2. PICK R : /\ Moves(c, R)
               /\ R.op = "truncate" /\ R.at = "zero" /\ R.files = Files /\ R.owed = 0
  BY TruncateMoves DEF Base
<1>3. Began(c, R) BY <1>2, TruncateRootBegins
<1>4. size' = size /\ tree' = [d \in Dirs |-> 0] /\ cached' = cached BY DEF TruncateRoot
<1>5. /\ client[c] = Idle /\ gap[c] = 0 /\ leak' = leak
      /\ \A f \in Files : due[f] = size[f]
      /\ \A b \in Clients : b # c => client[b].files \cap Files = {}
  <2>1. /\ client[c] = Idle /\ gap[c] = 0 /\ leak' = leak
        /\ \A f \in R.files : due[f] = size[f]
        /\ \A b \in Clients : b # c => client[b].files \cap R.files = {}
    BY <1>1, <1>2, <1>3, BeginFacts
  <2> QED BY <1>2, <2>1
<1>6. due \in [Files -> Int] /\ size \in [Files -> 0..Largest] /\ size \in [Files -> Int] /\ worth \in [Places -> Int]
  <2>1. due \in [Files -> Int] /\ worth \in [Places -> Int] BY <1>1 DEF KeptBy
  <2> QED BY <2>1, StateTypes
<1>7. due = size BY <1>5, <1>6
<1>8. Books(size, size', tree, tree', Idle, R, due, due, gap[c], 0)
  <2>0. Idle.files \cup R.files = Files BY <1>2 DEF Idle
  <2>1. ASSUME NEW d \in Dirs PROVE \E f \in Files : f[1] = d
    <3>1. PICK n \in Names : TRUE BY FilesAssumption
    <3> QED BY <3>1, DirParts, InDir
  <2>2. Local(size, size', tree, tree', due, due, Idle.files \cup R.files)
    BY <1>4, <2>0, <2>1 DEF Local
  <2>3. \A f \in Files : due[f] = size'[f] /\ due[f] >= 0 BY <1>4, <1>6, <1>7, SizesInt
  <2>4. Settled(size', R, due, Idle.files \cup R.files) BY <2>0, <2>3 DEF Settled
  <2>5. All(size') - All(size) = All(due) - All(due) + 0 - gap[c]
    <3>1. All(size) \in Int BY <1>6, AllInt
    <3> QED BY <1>4, <1>5, <1>7, <3>1
  <2>6. TruncateBook(size', tree', R, due, 0) BY <1>2, <1>4, <1>7 DEF TruncateBook
  <2>7. Book(size', tree', R, due, 0) BY <1>2, <2>6 DEF Book
  <2> QED BY <2>2, <2>4, <2>5, <2>7 DEF Books
<1>9. \A d \in Dirs : Pend(client', d) = 0 BY <1>2, <1>5, TruncatePending
<1>10. Worthy(tree', client', AsI64 + leak', due, worth)
  <2>1. \A p \in Places : worth[p] >= 0 /\ worth[p] >= Within(due, p) BY <1>1 DEF KeptBy, Worthy
  <2>2. AsI64 + leak' >= Total(worth, Places) BY <1>1, <1>5 DEF KeptBy, Worthy
  <2>3. ASSUME NEW d \in Dirs PROVE worth[d] >= tree'[d] + Pend(client', d)
    <3>1. worth[d] >= 0 /\ worth[d] \in Int BY <1>6, <2>1, DirParts
    <3>2. tree'[d] = 0 BY <1>4
    <3>3. Pend(client', d) = 0 BY <1>9
    <3> QED BY <3>1, <3>2, <3>3
  <2>4. PICK t, m, x : t = tree' /\ m = client' /\ x = AsI64 + leak' OBVIOUS
  <2>5. \A d \in Dirs : worth[d] >= t[d] + Pend(m, d) BY <2>3, <2>4
  <2>6. Worthy(t, m, x, due, worth) BY <2>1, <2>2, <2>4, <2>5 DEF Worthy
  <2> QED BY <2>4, <2>6
<1>11. Room(size', R) <= Largest /\ Late(R) = 0
  <2>1. Room(size', R) = 0 BY <1>2 DEF Room
  <2>2. Late(R) = 0 BY <1>2 DEF Late
  <2> QED BY <2>1, <2>2, Constants
<1>12. \A d \in Dirs : \E e \in Dirs : tree'[d] <= tree[e]
  <2>1. \A d \in Dirs : tree'[d] <= tree[d] BY <1>4, StateTypes
  <2> QED BY <2>1
<1>13. KeptIn(size', tree', client', AsI64, leak', ops')
  <2>1. PICK w \in Int : w = AsI64 BY StateTypes
  <2>2. \E new \in [Places -> Int] : Worthy(tree', client', w + leak', due, new)
    BY <1>6, <1>10, <2>1
  <2>3. KeptIn(size', tree', client', w, leak', ops')
    BY <1>1, <1>2, <1>3, <1>6, <1>8, <1>11, <1>12, <2>1, <2>2, KeptBegin
  <2> QED BY <2>1, <2>3
<1> QED BY <1>4, <1>13, SignedSame DEF Kept

\* The total is set to zero: nothing is in the account, and all there is is owed.
LEMMA TruncateZeroKept ==
  ASSUME Base, Base', Kept, NEW c \in Clients, TruncateZero(c)
  PROVE  Kept'
<1>1. PICK due, gap, worth : KeptBy(due, gap, worth) BY KeptHas
<1>2. PICK R : Moves(c, R) /\ Keeps(R, client[c]) /\ R.at = "remove" /\ R.owed = Real /\ R.acc = client[c].acc /\ R.then = client[c].then
  BY ZeroMoves DEF Base, TruncateZero
<1>3. size' = size /\ tree' = tree /\ cached' = 0 /\ leak' = leak /\ ops' = ops /\ client[c].at = "zero"
  BY DEF TruncateZero, Goes, bounds, history
<1>4. PICK r : r = client[c] OBVIOUS
<1>5. r \in Records /\ Shape(r) /\ r.op = "truncate" /\ r.at = "zero" /\ Book(size, tree, r, due, gap[c]) /\ gap[c] \in Int
  BY <1>1, <1>3, <1>4, StateTypes, KindLabels, BookOf
<1>6. r.files = Files /\ R.files = Files /\ R.op = "truncate"
  BY <1>2, <1>4, <1>5 DEF Shape, TruncateShape, Keeps
<1>7. due = size /\ gap[c] = 0 /\ \A d \in Dirs : tree[d] = 0 BY <1>5 DEF Book, TruncateBook
<1>8. size \in [Files -> 0..Largest] /\ size \in [Files -> Int] /\ All(size) \in Nat /\ AsI64 \in Int /\ leak \in Nat
  BY StateTypes, AllBound
<1>9. PICK own : own = [f \in Files |-> 0] OBVIOUS
<1>10. own \in [Files -> Int] /\ All(own) = 0 /\ \A p \in Places : Within(own, p) = 0
  BY <1>9, Zeros
<1>11. Books(size, size', tree, tree', r, R, due, own, gap[c], All(size))
  <2>0. r.files \cup R.files = Files BY <1>6
  <2>1. Local(size, size', tree, tree', due, own, r.files \cup R.files) BY <1>3, <2>0 DEF Local
  <2>2. Settled(size', R, own, r.files \cup R.files) BY <1>6, <1>9, <2>0 DEF Settled
  <2>3. All(size') - All(size) = All(own) - All(due) + All(size) - gap[c]
    BY <1>3, <1>7, <1>8, <1>10
  <2>4. TruncateBook(size', tree', R, own, All(size)) BY <1>2, <1>3, <1>9 DEF TruncateBook, Real
  <2>5. Book(size', tree', R, own, All(size)) BY <1>6, <2>4 DEF Book
  <2> QED BY <2>1, <2>2, <2>3, <2>5 DEF Books
<1>12. \A d \in Dirs : Pend(client', d) = 0
  <2>1. \A b \in Clients : b # c => client[b].files \cap Files = {}
    BY <1>1, <1>4, <1>6 DEF KeptBy, Disjoint
  <2> QED BY <1>2, <1>3, <2>1, TruncatePending
<1>13. \E new \in [Places -> Int] : Worthy(tree', client', 0 + leak', own, new)
  <2>1. PICK new : new = [p \in Places |-> 0] OBVIOUS
  <2>2. new \in [Places -> Int] /\ Total(new, Places) = 0 /\ \A p \in Places : new[p] = 0
    BY <2>1, Finite, TotalZero
  <2>3. 0 + leak' >= 0 BY <1>3, <1>8
  <2>4. \A p \in Places : new[p] >= 0 /\ new[p] >= Within(own, p) BY <1>10, <2>2
  <2>5. PICK t, m, x : t = tree' /\ m = client' /\ x = 0 + leak' OBVIOUS
  <2>6. \A d \in Dirs : new[d] >= t[d] + Pend(m, d)
    <3>1. \A d \in Dirs : new[d] = 0 /\ t[d] = 0 /\ Pend(m, d) = 0
      BY <1>3, <1>7, <1>12, <2>2, <2>5, DirParts
    <3> QED BY <3>1
  <2>7. Worthy(t, m, x, own, new) BY <2>2, <2>3, <2>4, <2>5, <2>6 DEF Worthy
  <2> QED BY <2>2, <2>5, <2>7
<1>14. Bounds(size, size', tree, tree', r, R, AsI64, 0)
  <2>1. Room(size, r) = 0 /\ Room(size', R) = 0 /\ Late(r) = 0 /\ Late(R) = 0 /\ Fall(r) = 0 /\ Fall(R) = 0
    BY <1>2, <1>5, <1>6 DEF Room, Late, Fall
  <2>2. \A d \in Dirs : tree'[d] = 0 /\ tree[d] = 0 BY <1>3, <1>7
  <2> QED BY <1>8, <2>1, <2>2 DEF Bounds
<1>15. KeptIn(size', tree', client', 0, leak', ops')
  <2>1. R.files \subseteq client[c].files BY <1>4, <1>6
  <2>2. PICK w \in Int : w = 0 OBVIOUS
  <2>3. \E new \in [Places -> Int] : Worthy(tree', client', w + leak', own, new) BY <1>13, <2>2
  <2>4. KeptIn(size', tree', client', w, leak', ops')
    BY <1>1, <1>2, <1>3, <1>4, <1>8, <1>10, <1>11, <1>14, <2>1, <2>2, <2>3, KeptGone
  <2> QED BY <2>2, <2>4
<1>16. AsI64' = 0 BY <1>3, WordHolds DEF AsI64
<1> QED BY <1>15, <1>16 DEF Kept

\* What a directory holds moves to another one, which is empty.
MovedTo(due, own, d, e) ==
  \A f \in Files : own[f] = IF f[1] = d THEN 0 ELSE IF f[1] = e THEN due[<<d, f[2]>>] ELSE due[f]

\* The sums after the files of a directory have moved to an empty one.
LEMMA MovedSums ==
  ASSUME NEW due \in [Files -> Int], NEW own \in [Files -> Int], NEW d \in Places, NEW e \in Places, d # e,
         MovedTo(due, own, d, e), Within(due, e) = 0
  PROVE  /\ All(own) = All(due) /\ Within(own, d) = 0 /\ Within(own, e) = Within(due, d)
         /\ \A q \in Places : q # d /\ q # e => Within(own, q) = Within(due, q)
<1>1. PICK mid : mid = [f \in Files |-> IF f[1] = d THEN 0 ELSE due[f]] OBVIOUS
<1>2. mid \in [Files -> Int] /\ \A f \in Files : mid[f] = IF f[1] = d THEN 0 ELSE due[f] BY <1>1
<1>3. \A n \in Names : mid[<<d, n>>] = 0 /\ mid[<<e, n>>] = due[<<e, n>>] BY <1>2, InDir
<1>4. \A n \in Names : own[<<d, n>>] = 0 /\ own[<<e, n>>] = due[<<d, n>>]
  <2>1. ASSUME NEW n \in Names PROVE own[<<d, n>>] = 0 /\ own[<<e, n>>] = due[<<d, n>>]
    <3>1. <<d, n>> \in Files /\ <<d, n>>[1] = d /\ <<e, n>> \in Files /\ <<e, n>>[1] = e /\ <<e, n>>[2] = n
      BY InDir
    <3> QED BY <3>1 DEF MovedTo
  <2> QED BY <2>1
<1>5. Within(mid, d) = 0 /\ Within(own, d) = 0 BY <1>2, <1>3, <1>4, WithinZero
<1>6. Within(mid, e) = Within(due, e) BY <1>2, <1>3, WithinSame
<1>7. Within(own, e) = Within(due, d)
  <2>1. [n \in Names |-> own[<<e, n>>]] = [n \in Names |-> due[<<d, n>>]] BY <1>4
  <2> QED BY <2>1 DEF Within
<1>8. /\ All(mid) = All(due) - Within(due, d) + Within(mid, d)
      /\ \A q \in Places : q # d => Within(mid, q) = Within(due, q)
  <2>1. \A f \in Files : f[1] # d => due[f] = mid[f] BY <1>2
  <2> QED BY <1>2, <2>1, AllPlace
<1>9. /\ All(own) = All(mid) - Within(mid, e) + Within(own, e)
      /\ \A q \in Places : q # e => Within(own, q) = Within(mid, q)
  <2>1. \A f \in Files : f[1] # e => mid[f] = own[f] BY <1>2 DEF MovedTo
  <2> QED BY <1>2, <2>1, AllPlace
<1>10. All(due) \in Int /\ Within(due, d) \in Int BY AllInt, WithinInt
<1>11. All(own) = All(due) BY <1>5, <1>6, <1>7, <1>8, <1>9, <1>10
<1>12. \A q \in Places : q # d /\ q # e => Within(own, q) = Within(due, q) BY <1>8, <1>9
<1> QED BY <1>5, <1>7, <1>11, <1>12

\* An empty directory has no file.
LEMMA NoFiles ==
  ASSUME NEW z \in [Files -> 0..Largest], NEW p \in Places, Within(z, p) = 0
  PROVE  \A n \in Names : z[<<p, n>>] = 0
<1>1. ASSUME NEW n \in Names PROVE z[<<p, n>>] = 0
  <2>1. PICK f : f = <<p, n>> OBVIOUS
  <2>2. f \in Files /\ f[1] = p BY <2>1, InDir
  <2>3. z \in [Files -> Int] /\ \A g \in Files : z[g] \in Nat BY SizesInt
  <2>4. z[f] <= Within(z, f[1]) BY <2>2, <2>3, WithinMember
  <2> QED BY <2>1, <2>2, <2>3, <2>4
<1> QED BY <1>1

\* The worth of a directory moves with it.
LEMMA MovedWorth ==
  ASSUME NEW worth \in [Places -> Int], NEW d \in Places, NEW e \in Places, d # e, worth[e] >= 0
  PROVE  \E new \in [Places -> Int] :
           /\ new[d] = 0 /\ new[e] = worth[d] /\ \A q \in Places : q # d /\ q # e => new[q] = worth[q]
           /\ Total(new, Places) <= Total(worth, Places)
<1>1. PICK mid : mid = [worth EXCEPT ![e] = worth[d]] OBVIOUS
<1>2. PICK new : new = [mid EXCEPT ![d] = 0] OBVIOUS
<1>3. mid \in [Places -> Int] /\ mid[e] = worth[d] /\ \A q \in Places : q # e => mid[q] = worth[q]
  BY <1>1
<1>4. new \in [Places -> Int] /\ new[d] = 0 /\ \A q \in Places : q # d => new[q] = mid[q]
  BY <1>2, <1>3
<1>5. Total(mid, Places) = Total(worth, Places) - worth[e] + mid[e] BY <1>3, Finite, TotalChange
<1>6. Total(new, Places) = Total(mid, Places) - mid[d] + new[d]
  BY <1>3, <1>4, Finite, TotalChange
<1>7. Total(worth, Places) \in Int BY Finite, TotalInt
<1>8. Total(new, Places) <= Total(worth, Places)
  <2>1. worth[e] \in Int /\ worth[d] \in Int /\ mid[d] = worth[d] BY <1>3
  <2> QED BY <1>3, <1>4, <1>5, <1>6, <1>7, <2>1
<1> QED BY <1>3, <1>4, <1>8

\* `rename_path' of a directory, whose entry of the tree moves at once, keeps the books.
LEMMA RenameDirKept ==
  ASSUME Base, Base', Kept, ~drift', NEW c \in Clients, NEW d \in Dirs, NEW e \in Dirs, RenameDir(c, d, e)
  PROVE  Kept'
<1>1. PICK due, gap, worth : KeptBy(due, gap, worth) BY KeptHas
<1>2. PICK R : Moves(c, R) /\ RenamesDir(R, d, e) BY RenameDirMoves DEF Base
<1>21. R.op = "rename_dir" /\ R.at = "rename" /\ R.owed = 0 BY <1>2 DEF RenamesDir
<1>22. R.files = In(d) \cup In(e) BY <1>2 DEF RenamesDir
<1>23. R.from = <<d>> /\ R.to = <<e>> BY <1>2 DEF RenamesDir
<1>24. R.from[1] = d /\ R.to[1] = e BY <1>23
<1>3. Began(c, R) BY <1>22, RenameDirBegins
<1>4. size' = size /\ tree' = [tree EXCEPT ![d] = 0, ![e] = tree[d]] /\ cached' = cached /\ d # e /\ Within(size, e) = 0
  BY DEF RenameDir, Sum
<1>5. /\ client[c] = Idle /\ gap[c] = 0 /\ leak' = leak
      /\ \A f \in In(d) \cup In(e) : due[f] = size[f]
      /\ \A b \in Clients : b # c => client[b].files \cap (In(d) \cup In(e)) = {}
  <2>1. /\ client[c] = Idle /\ gap[c] = 0 /\ leak' = leak
        /\ \A f \in R.files : due[f] = size[f]
        /\ \A b \in Clients : b # c => client[b].files \cap R.files = {}
    BY <1>1, <1>2, <1>3, BeginFacts
  <2> QED BY <1>22, <2>1
<1>6. due \in [Files -> Int] /\ size \in [Files -> Int] /\ size \in [Files -> 0..Largest] /\ worth \in [Places -> Int]
  <2>1. due \in [Files -> Int] /\ worth \in [Places -> Int] BY <1>1 DEF KeptBy
  <2> QED BY <2>1, StateTypes
<1>7. d \in Places /\ e \in Places BY DirParts
<1>8. \A n \in Names : due[<<d, n>>] = size[<<d, n>>] /\ due[<<e, n>>] = size[<<e, n>>] /\ size[<<e, n>>] = 0
  <2>1. \A n \in Names : size[<<e, n>>] = 0 BY <1>4, <1>6, <1>7, NoFiles
  <2>2. \A n \in Names : <<d, n>> \in In(d) /\ <<e, n>> \in In(e) BY <1>7, InDir
  <2> QED BY <1>5, <2>1, <2>2
<1>9. PICK own : own = [f \in Files |-> IF f[1] = d THEN 0 ELSE IF f[1] = e THEN due[<<d, f[2]>>] ELSE due[f]]
  OBVIOUS
<1>10. MovedTo(due, own, d, e) BY <1>9 DEF MovedTo
<1>11. own \in [Files -> Int]
  <2>1. \A f \in Files : <<d, f[2]>> \in Files BY <1>7, InDir, FileParts
  <2> QED BY <1>6, <1>9, <2>1
<1>12. Within(due, e) = 0 BY <1>6, <1>7, <1>8, WithinZero
<1>13. /\ All(own) = All(due) /\ Within(own, d) = 0 /\ Within(own, e) = Within(due, d)
       /\ \A q \in Places : q # d /\ q # e => Within(own, q) = Within(due, q)
  BY <1>4, <1>6, <1>7, <1>10, <1>11, <1>12, MovedSums
<1>14. \A n \in Names : own[<<d, n>>] = 0 /\ own[<<e, n>>] = size[<<d, n>>]
  <2>1. ASSUME NEW n \in Names PROVE own[<<d, n>>] = 0 /\ own[<<e, n>>] = size[<<d, n>>]
    <3>1. <<d, n>> \in Files /\ <<d, n>>[1] = d /\ <<e, n>> \in Files /\ <<e, n>>[1] = e /\ <<e, n>>[2] = n
      BY <1>7, InDir
    <3> QED BY <1>4, <1>8, <1>10, <3>1 DEF MovedTo
  <2> QED BY <2>1
<1>15. \A f \in In(d) \cup In(e) : f \in Files /\ own[f] >= 0
  <2>1. ASSUME NEW f \in In(d) \cup In(e) PROVE f \in Files /\ own[f] >= 0
    <3>1. f \in Files /\ (f[1] = d \/ f[1] = e) BY DEF In
    <3>2. f[2] \in Names /\ f = <<f[1], f[2]>> BY <3>1, FileParts
    <3>3. own[f] = 0 \/ own[f] = size[<<d, f[2]>>] BY <1>14, <3>1, <3>2
    <3>4. size[<<d, f[2]>>] \in Nat BY <1>6, <1>7, <3>2, InDir, SizesInt
    <3> QED BY <3>1, <3>3, <3>4
  <2> QED BY <2>1
<1>16. Books(size, size', tree, tree', Idle, R, due, own, gap[c], 0)
  <2>0. Idle.files \cup R.files = In(d) \cup In(e) BY <1>22 DEF Idle
  <2>1. \A f \in Files : f \notin In(d) \cup In(e) => own[f] = due[f] BY <1>10 DEF MovedTo, In
  <2>2. \A b \in Dirs : tree'[b] = tree[b] \/ \E f \in In(d) \cup In(e) : f[1] = b
    <3>1. PICK n \in Names : TRUE BY FilesAssumption
    <3>2. <<d, n>> \in In(d) /\ <<d, n>>[1] = d /\ <<e, n>> \in In(e) /\ <<e, n>>[1] = e
      BY <1>7, InDir
    <3>3. \A b \in Dirs : b = d \/ b = e \/ tree'[b] = tree[b] BY <1>4, StateTypes
    <3> QED BY <3>2, <3>3
  <2>3. Local(size, size', tree, tree', due, own, Idle.files \cup R.files)
    BY <1>4, <2>0, <2>1, <2>2 DEF Local
  <2>4. Settled(size', R, own, Idle.files \cup R.files) BY <1>15, <1>22, <2>0 DEF Settled
  <2>5. All(size') - All(size) = All(own) - All(due) + 0 - gap[c]
    <3>1. All(size) \in Int /\ All(due) \in Int BY <1>6, AllInt
    <3> QED BY <1>4, <1>5, <1>13, <3>1
  <2>6. RenameDirBook(size', R, own, 0) BY <1>4, <1>8, <1>14, <1>24 DEF RenameDirBook
  <2>7. Book(size', tree', R, own, 0) BY <1>21, <2>6 DEF Book
  <2> QED BY <2>3, <2>4, <2>5, <2>7 DEF Books
<1>17. /\ \A p \in Places : worth[p] >= 0 /\ worth[p] >= Within(due, p)
       /\ \A b \in Dirs : worth[b] >= tree[b] + Pend(client, b)
       /\ AsI64 + leak >= Total(worth, Places)
  BY <1>1 DEF KeptBy, Worthy
<1>18. PICK new \in [Places -> Int] :
         /\ new[d] = 0 /\ new[e] = worth[d] /\ \A q \in Places : q # d /\ q # e => new[q] = worth[q]
         /\ Total(new, Places) <= Total(worth, Places)
  BY <1>4, <1>6, <1>7, <1>17, MovedWorth
<1>19. \E n \in [Places -> Int] : Worthy(tree', client', AsI64 + leak', own, n)
  <2>1. PICK m : m = client' OBVIOUS
  <2>2. PICK cl \in [Clients -> Records] : cl = client BY StateTypes
  <2>3. R \in Records /\ m = [cl EXCEPT ![c] = R] /\ cl[c] = Idle
    BY <1>2, <1>5, <2>1, <2>2 DEF Moves
  <2>4. ASSUME NEW b \in Dirs PROVE Pend(m, b) = Pend(cl, b) /\ Pend(cl, b) \in Int
    <3>1. R \in Records BY <2>3
    <3>2. Pend([cl EXCEPT ![c] = R], b) = Pend(cl, b) - Awaits(cl[c], b) + Awaits(R, b) /\ Pend(cl, b) \in Int
      BY <3>1, PendStep, Zenon
    <3>3. Awaits(cl[c], b) = 0 /\ Awaits(R, b) = 0
      <4>1. cl[c].at # "tree" /\ R.at # "tree"
        <5>1. Idle.at # "tree" BY DEF Idle
        <5>2. cl[c] = Idle BY <2>3, Zenon
        <5>3. R.at # "tree" BY <1>21
        <5> QED BY <5>1, <5>2, <5>3, Zenon
      <4> QED BY <4>1 DEF Awaits
    <3> QED BY <2>3, <3>2, <3>3
  <2>5. Pend(cl, d) = 0 /\ Pend(cl, e) = 0
    <3>1. \A b \in Clients : Shape(cl[b]) BY <2>2, StateTypes
    <3>2. cl[c].files = {} BY <2>3 DEF Idle
    <3>3. \A b \in Clients : cl[b].files \cap In(d) = {} /\ cl[b].files \cap In(e) = {}
      BY <1>5, <2>2, <3>2
    <3> QED BY <3>1, <3>3, NonePending
  <2>6. \A p \in Places : new[p] >= 0 /\ new[p] >= Within(own, p)
    <3>1. ASSUME NEW p \in Places PROVE new[p] >= 0 /\ new[p] >= Within(own, p)
      <4>1. CASE p = d BY <1>13, <1>18, <4>1
      <4>2. CASE p = e BY <1>7, <1>13, <1>17, <1>18, <4>2
      <4>3. CASE p # d /\ p # e BY <1>13, <1>17, <1>18, <4>3
      <4> QED BY <4>1, <4>2, <4>3
    <3> QED BY <3>1
  <2>7. \A b \in Dirs : new[b] >= tree'[b] + Pend(m, b)
    <3>1. ASSUME NEW b \in Dirs PROVE new[b] >= tree'[b] + Pend(m, b)
      <4>0. tree \in [Dirs -> Nat] /\ b \in Places /\ worth[d] \in Int
        BY <1>6, <1>7, StateTypes, DirParts
      <4>1. CASE b = d
        <5>1. tree'[b] = 0 BY <1>4, <4>0, <4>1
        <5> QED BY <1>18, <2>4, <2>5, <4>1, <5>1
      <4>2. CASE b = e
        <5>1. tree'[b] = tree[d] /\ tree[d] \in Int BY <1>4, <4>0, <4>2
        <5>2. worth[d] >= tree[d] + 0 BY <1>17, <2>2, <2>5
        <5> QED BY <1>18, <2>4, <2>5, <4>0, <4>2, <5>1, <5>2
      <4>3. CASE b # d /\ b # e
        <5>1. tree'[b] = tree[b] /\ new[b] = worth[b] BY <1>4, <1>18, <4>0, <4>3
        <5> QED BY <1>17, <2>2, <2>4, <5>1
      <4> QED BY <4>1, <4>2, <4>3
    <3> QED BY <3>1
  <2>8. AsI64 + leak' >= Total(new, Places)
    <3>1. Total(new, Places) \in Int /\ Total(worth, Places) \in Int BY <1>6, Finite, TotalInt
    <3> QED BY <1>5, <1>17, <1>18, <3>1, StateTypes
  <2>9. Worthy(tree', m, AsI64 + leak', own, new) BY <2>6, <2>7, <2>8 DEF Worthy
  <2> QED BY <2>1, <2>9
<1>20. Room(size', R) <= Largest /\ Late(R) = 0
  <2>1. Room(size', R) = 0 BY <1>21 DEF Room
  <2>2. Late(R) = 0 BY <1>21 DEF Late
  <2> QED BY <2>1, <2>2, Constants
<1>25. AsI64 \in Int /\ \A b \in Dirs : \E q \in Dirs : tree'[b] <= tree[q]
  <2>1. tree \in [Dirs -> Nat] BY StateTypes
  <2>2. \A b \in Dirs : tree'[b] = 0 \/ tree'[b] = tree[d] \/ tree'[b] = tree[b] BY <1>4, <2>1
  <2>3. \A b \in Dirs : tree'[b] <= tree[d] \/ tree'[b] <= tree[b] BY <2>1, <2>2
  <2>4. AsI64 \in Int BY StateTypes
  <2> QED BY <2>3, <2>4
<1>26. KeptIn(size', tree', client', AsI64, leak', ops')
  <2>1. 0 \in Int OBVIOUS
  <2> QED BY <1>1, <1>2, <1>3, <1>11, <1>16, <1>19, <1>20, <1>25, <2>1, KeptBegin
<1> QED BY <1>4, <1>26, SignedSame DEF Kept

------------------------------------------------------------------------------
(* Operations go on, and nothing changes but the place in the code. *)

\* The fields of a record that its books depend on.
Alike(R, r) ==
  /\ R.op = r.op /\ R.files = r.files /\ R.from = r.from /\ R.to = r.to /\ R.bytes = r.bytes
  /\ R.delta = r.delta /\ R.then = r.then /\ R.owed = r.owed

\* The book of a client stays the same from the comparison to the addition and from the load
\* to the subtraction.
LEMMA BookGoes ==
  ASSUME NEW r \in Records, NEW R \in Records, Shape(r), Alike(R, r),
         (r.at = "check" /\ R.at = "add") \/ (r.at = "load" /\ R.at = "sub"),
         NEW z, NEW t, NEW due, NEW g, Book(z, t, r, due, g)
  PROVE  Book(z, t, R, due, g)
<1>1. /\ R.op = r.op /\ R.from = r.from /\ R.to = r.to /\ R.bytes = r.bytes
      /\ R.delta = r.delta /\ R.then = r.then /\ R.owed = r.owed
  BY DEF Alike
<1>2. r.op \in {"write", "async", "sync", "copy", "delete", "delete_dir", "rename"}
  BY KindLabels
<1>3. CASE r.op = "write"
  <2>1. WriteBook(z, r, due, g) BY <1>3 DEF Book
  <2>2. WriteBook(z, R, due, g) BY <1>1, <2>1 DEF WriteBook
  <2> QED BY <1>1, <1>3, <2>2 DEF Book
<1>4. CASE r.op \in {"async", "sync"}
  <2>1. WriterBook(z, r, due, g) BY <1>4 DEF Book
  <2>2. WriterBook(z, R, due, g) BY <1>1, <2>1 DEF WriterBook
  <2> QED BY <1>1, <1>4, <2>2 DEF Book
<1>5. CASE r.op = "copy"
  <2>0. r.at = "check" /\ R.at = "add" BY <1>5, KindLabels
  <2>1. CopyBook(z, r, due, g) BY <1>5 DEF Book
  <2>2. CopyBook(z, R, due, g) BY <1>1, <2>0, <2>1 DEF CopyBook
  <2> QED BY <1>1, <1>5, <2>2 DEF Book
<1>6. CASE r.op = "delete"
  <2>0. r.at = "load" /\ R.at = "sub" BY <1>6, KindLabels
  <2>1. DeleteBook(z, r, due, g) BY <1>6 DEF Book
  <2>2. DeleteBook(z, R, due, g) BY <1>1, <2>0, <2>1 DEF DeleteBook
  <2> QED BY <1>1, <1>6, <2>2 DEF Book
<1>7. CASE r.op = "delete_dir"
  <2>0. r.at = "load" /\ R.at = "sub" BY <1>7, KindLabels
  <2>1. DeleteDirBook(z, t, r, due, g) BY <1>7 DEF Book
  <2>2. DeleteDirBook(z, t, R, due, g) BY <1>1, <2>0, <2>1 DEF DeleteDirBook
  <2> QED BY <1>1, <1>7, <2>2 DEF Book
<1>8. CASE r.op = "rename"
  <2>0. r.at = "load" /\ R.at = "sub" BY <1>8, KindLabels
  <2>1. RenameBook(z, r, due, g) BY <1>8 DEF Book
  <2>2. RenameBook(z, R, due, g) BY <1>1, <2>0, <2>1 DEF RenameBook
  <2> QED BY <1>1, <1>8, <2>2 DEF Book
<1> QED BY <1>2, <1>3, <1>4, <1>5, <1>6, <1>7, <1>8

\* The room of a client, and what it can take away, stay as they are.
LEMMA RoomGoes ==
  ASSUME NEW z, NEW r \in Records, NEW R \in Records, Alike(R, r),
         (r.at = "check" /\ R.at = "add") \/ (r.at = "load" /\ R.at = "sub")
  PROVE  Room(z, R) = Room(z, r) /\ Fall(R) = Fall(r) /\ R.at # "tree" /\ r.at # "tree"
<1>1. R.op = r.op /\ R.to = r.to /\ R.then = r.then /\ R.owed = r.owed BY DEF Alike
<1>2. CASE r.at = "check" /\ R.at = "add" BY <1>1, <1>2 DEF Room, Fall
<1>3. CASE r.at = "load" /\ R.at = "sub" BY <1>1, <1>3 DEF Room, Fall
<1> QED BY <1>2, <1>3

\* The comparison and the load keep the books: they only read the total.
LEMMA KeptAlike ==
  ASSUME Base, Base', Kept, NEW c \in Clients, NEW R, Moves(c, R), Alike(R, client[c]),
         (client[c].at = "check" /\ R.at = "add") \/ (client[c].at = "load" /\ R.at = "sub"),
         ops' = ops, size' = size, tree' = tree, cached' = cached, leak' = leak
  PROVE  Kept'
<1>1. PICK due, gap, worth : KeptBy(due, gap, worth) BY KeptHas
<1>2. PICK r : r = client[c] OBVIOUS
<1>3. r \in Records /\ Shape(r) /\ R \in Records /\ Shape(R) BY <1>2, StateTypes DEF Moves
<1>4. Book(size, tree, R, due, gap[c])
  <2>1. Book(size, tree, r, due, gap[c]) BY <1>1, <1>2, BookOf
  <2> QED BY <1>2, <1>3, <2>1, BookGoes
<1>5. Room(size, R) = Room(size, r) /\ Fall(R) = Fall(r) /\ R.at # "tree" /\ r.at # "tree"
  BY <1>2, <1>3, RoomGoes
<1>6. Room(size, r) \in Int /\ Fall(r) \in Int BY <1>3, RoomNat, OfRecord, StateTypes
<1>7. Room(size, R) <= Room(size, r) /\ Fall(R) <= Fall(r) /\ Fall(r) <= Fall(R) BY <1>5, <1>6
<1>8. R.op = r.op /\ R.files = r.files BY <1>2 DEF Alike
<1> QED BY <1>1, <1>2, <1>4, <1>5, <1>7, <1>8, KeptSame

\* The comparison with disk_limit, when it passes, keeps the books.
LEMMA AllocPassKept ==
  ASSUME Base, Base', Kept, NEW c \in Clients, Goes(c, "check", [client[c] EXCEPT !.at = "add"]),
         UNCHANGED disk, UNCHANGED history
  PROVE  Kept'
<1>1. PICK R : Moves(c, R) /\ Keeps(R, client[c]) /\ R.at = "add" /\ R.delta = client[c].delta /\ R.dir = client[c].dir /\ R.then = client[c].then /\ R.acc = client[c].acc /\ R.owed = client[c].owed
  BY CheckMoves DEF Base
<1>2. Alike(R, client[c]) BY <1>1 DEF Alike, Keeps
<1>3. client[c].at = "check" /\ ops' = ops BY DEF Goes, bounds
<1>4. size' = size /\ tree' = tree /\ cached' = cached /\ leak' = leak BY DEF disk, history
<1> QED BY <1>1, <1>2, <1>3, <1>4, KeptAlike

\* The load of the cached total before it is lowered keeps the books.
LEMMA AllocLoadKept ==
  ASSUME Base, Base', Kept, NEW c \in Clients, AllocLoad(c)
  PROVE  Kept'
<1>1. PICK R : Moves(c, R) /\ Keeps(R, client[c]) /\ R.at = "sub" /\ R.delta = client[c].delta /\ R.dir = client[c].dir /\ R.then = client[c].then /\ R.acc = client[c].acc /\ R.owed = client[c].owed /\ R.seen = cached
  BY LoadMoves DEF Base, AllocLoad
<1>2. Alike(R, client[c]) BY <1>1 DEF Alike, Keeps
<1>3. client[c].at = "load" /\ ops' = ops BY DEF AllocLoad, Goes, bounds
<1>4. size' = size /\ tree' = tree /\ cached' = cached /\ leak' = leak
  BY DEF AllocLoad, disk, history
<1> QED BY <1>1, <1>2, <1>3, <1>4, KeptAlike

\* The allocation of what a writer has left, at flush or in its drop, keeps the books.
LEMMA FlushKept ==
  ASSUME Base, Base', Kept, NEW c \in Clients, UNCHANGED disk, UNCHANGED history,
         Goes(c, "open", Allocate(client[c], client[c].to[1], client[c].acc, FALSE, "done"))
  PROVE  Kept'
<1>1. PICK R : /\ Moves(c, R) /\ Keeps(R, client[c]) /\ R.owed = client[c].owed
               /\ R.op \in {"async", "sync"} /\ R.at \in {"done", "check"}
  BY FlushMoves DEF Base
<1>2. PICK due, gap, worth : KeptBy(due, gap, worth) BY KeptHas
<1>3. PICK r : r = client[c] OBVIOUS
<1>4. /\ R.op = r.op /\ R.files = r.files /\ R.to = r.to /\ R.owed = r.owed /\ r.op \in {"async", "sync"}
      /\ r \in Records /\ Shape(r) /\ r.at = "open"
  BY <1>1, <1>3, StateTypes DEF Keeps, Goes
<1>5. ops' = ops /\ size' = size /\ tree' = tree /\ cached' = cached /\ leak' = leak
  BY DEF Goes, bounds, disk, history
<1>6. Book(size, tree, R, due, gap[c])
  <2>1. Book(size, tree, r, due, gap[c]) BY <1>2, <1>3, BookOf
  <2>2. WriterBook(size, r, due, gap[c]) BY <1>4, <2>1 DEF Book
  <2>3. WriterBook(size, R, due, gap[c]) BY <1>4, <2>2 DEF WriterBook
  <2> QED BY <1>1, <2>3 DEF Book
<1>7. Room(size, R) = Room(size, r) /\ Fall(R) = 0 /\ Fall(r) = 0 BY <1>1, <1>4 DEF Room, Fall
<1>8. Room(size, r) \in Int BY <1>4, RoomNat, StateTypes
<1>9. Room(size, R) <= Room(size, r) /\ Fall(R) <= Fall(r) /\ Fall(r) <= Fall(R) BY <1>7, <1>8
<1>10. R.at # "tree" /\ r.at # "tree" BY <1>1, <1>4
<1> QED BY <1>1, <1>2, <1>3, <1>4, <1>5, <1>6, <1>9, <1>10, KeptSame

\* The second allocation of a rename, in the new parent, keeps the books.
LEMMA RenameMoveKept ==
  ASSUME Base, Base', Kept, NEW c \in Clients, RenameMove(c)
  PROVE  Kept'
<1>1. PICK R : /\ Moves(c, R) /\ Keeps(R, client[c]) /\ R.owed = client[c].owed
               /\ R.op = "rename" /\ R.at = "add" /\ R.then = "rename" /\ R.delta = client[c].bytes
  BY RenameMoveMoves DEF Base
<1>2. PICK due, gap, worth : KeptBy(due, gap, worth) BY KeptHas
<1>3. PICK r : r = client[c] OBVIOUS
<1>4. /\ R.op = r.op /\ R.files = r.files /\ R.from = r.from /\ R.to = r.to /\ R.bytes = r.bytes /\ R.owed = r.owed
      /\ r.op = "rename" /\ r \in Records /\ Shape(r) /\ r.at = "move"
  BY <1>1, <1>3, StateTypes DEF Keeps, Goes, RenameMove
<1>5. ops' = ops /\ size' = size /\ tree' = tree /\ cached' = cached /\ leak' = leak
  BY DEF Goes, bounds, disk, history, RenameMove
<1>6. Book(size, tree, R, due, gap[c])
  <2>1. Book(size, tree, r, due, gap[c]) BY <1>2, <1>3, BookOf
  <2>2. RenameBook(size, r, due, gap[c]) BY <1>4, <2>1 DEF Book
  <2>3. RenameBook(size, R, due, gap[c]) BY <1>1, <1>4, <2>2 DEF RenameBook
  <2> QED BY <1>1, <2>3 DEF Book
<1>7. r.then = "move" BY <1>4 DEF Shape, RenameShape
<1>8. Room(size, R) = Largest /\ Room(size, r) = Largest /\ Fall(R) = 0 /\ Fall(r) = 0
  BY <1>1, <1>4, <1>7 DEF Room, Fall
<1>9. Room(size, R) <= Room(size, r) /\ Fall(R) <= Fall(r) /\ Fall(r) <= Fall(R)
  BY <1>8, Constants
<1>10. R.at # "tree" /\ r.at # "tree" BY <1>1, <1>4
<1> QED BY <1>1, <1>2, <1>3, <1>4, <1>5, <1>6, <1>9, <1>10, KeptSame

------------------------------------------------------------------------------
(* Operations end. *)

\* One file may change, and the account was right for the others.
LEMMA KeptIdleFile ==
  ASSUME Base, Base', NEW c \in Clients, Moves(c, Idle), client[c].at \notin {"load", "sub"},
         ops' = ops, tree' = tree, cached' = cached,
         NEW due, NEW gap, NEW worth, KeptBy(due, gap, worth),
         NEW f \in Files, f \in client[c].files,
         \A g \in Files : g # f => size'[g] = size[g],
         \A g \in client[c].files : g # f => due[g] = size[g],
         gap[c] = size[f] - due[f], NEW a \in Nat, leak' = leak + a, size'[f] <= due[f] + a,
         client[c].at = "tree" => client[c].dir = f[1] /\ client[c].delta + a >= 0
  PROVE  Kept'
<1>1. due \in [Files -> Int] /\ size \in [Files -> Int] /\ gap[c] \in Int /\ size' \in [Files -> Int]
  <2>1. due \in [Files -> Int] /\ gap[c] \in Int BY BookOf
  <2>2. size' \in [Files -> 0..Largest] BY DEF Base, Typed
  <2>3. size' \in [Files -> Int] BY <2>2, SizesInt
  <2> QED BY <2>1, <2>3, StateTypes
<1>2. PICK y : y = size' OBVIOUS
<1>3. PICK own : own = [due EXCEPT ![f] = y[f]] OBVIOUS
<1>4. y \in [Files -> Int] /\ y[f] \in Int BY <1>1, <1>2
<1>5. own \in [Files -> Int] /\ own[f] = y[f] /\ \A g \in Files : g # f => own[g] = due[g]
  BY <1>1, <1>3, <1>4
<1>6. /\ All(own) = All(due) - due[f] + own[f] /\ Within(own, f[1]) = Within(due, f[1]) - due[f] + own[f]
      /\ \A q \in Places : q # f[1] => Within(own, q) = Within(due, q)
  BY <1>1, <1>5, AllChange
<1>7. All(y) = All(size) - size[f] + y[f]
  <2>1. \A g \in Files : g # f => size[g] = y[g] BY <1>2
  <2> QED BY <1>1, <1>4, <2>1, AllChange
<1>8. All(own) \in Int /\ All(due) \in Int /\ All(y) \in Int /\ All(size) \in Int /\ due[f] \in Int /\ size[f] \in Int
  BY <1>1, <1>4, <1>5, AllInt
<1>9. All(size') - All(size) = All(own) - All(due) - gap[c]
  BY <1>2, <1>4, <1>5, <1>6, <1>7, <1>8
<1>10. f[1] \in Places BY FileParts
<1>11. Within(own, f[1]) <= Within(due, f[1]) + a
  <2>1. Within(due, f[1]) \in Int BY <1>1, <1>10, WithinInt
  <2> QED BY <1>2, <1>4, <1>5, <1>6, <1>8, <2>1
<1>12. \A q \in Places : q # f[1] => Within(own, q) <= Within(due, q)
  <2>1. ASSUME NEW q \in Places, q # f[1] PROVE Within(own, q) <= Within(due, q)
    <3>1. Within(own, q) = Within(due, q) BY <1>6, <2>1
    <3>2. Within(due, q) \in Int BY <1>1, WithinInt
    <3> QED BY <3>1, <3>2
  <2> QED BY <2>1
<1>13. \A g \in client[c].files : own[g] = size'[g]
  <2>1. ASSUME NEW g \in client[c].files PROVE own[g] = size'[g]
    <3>1. g \in Files BY StateTypes, FieldTypes
    <3>2. CASE g = f BY <1>2, <1>5, <3>2
    <3>3. CASE g # f BY <1>5, <3>1, <3>3
    <3> QED BY <3>2, <3>3
  <2> QED BY <2>1
<1>14. \A g \in Files : g \notin client[c].files => size'[g] = size[g] /\ own[g] = due[g]
  BY <1>5
<1> QED BY <1>5, <1>9, <1>10, <1>11, <1>12, <1>13, <1>14, KeptIdle

\* An operation that ends leaves an idle client.
LEMMA EndFacts ==
  ASSUME NEW c \in Clients, NEW from, Goes(c, from, Idle)
  PROVE  Moves(c, Idle) /\ client[c].at = from /\ ops' = ops
BY GoesIdle DEF Goes, bounds

\* What a writer, a write or a copy that ends early has in the books.
LEMMA EarlyBook ==
  ASSUME Base, NEW c \in Clients, client[c].at = "check" \/ client[c].op \in {"async", "sync"},
         NEW due, NEW gap, NEW worth, KeptBy(due, gap, worth)
  PROVE  /\ client[c].to \in Files /\ client[c].to \in client[c].files
         /\ \A g \in client[c].files : g # client[c].to => due[g] = size[g]
         /\ gap[c] = size[client[c].to] - due[client[c].to]
         /\ size[client[c].to] = due[client[c].to] + client[c].acc
<1>1. PICK r : r = client[c] OBVIOUS
<1>2. r \in Records /\ Shape(r) /\ Book(size, tree, r, due, gap[c]) /\ due \in [Files -> Int] /\ size \in [Files -> Int]
  BY <1>1, StateTypes, BookOf
<1>3. r.op \in {"write", "async", "sync", "copy"} BY <1>1, <1>2, KindLabels
<1>4. CASE r.op = "write"
  <2>1. r.at = "check" BY <1>1, <1>4
  <2>2. r.to \in Files /\ r.files = {r.to} /\ r.acc = 0 BY <1>2, <1>4 DEF Shape, WriteShape
  <2>3. WriteBook(size, r, due, gap[c]) BY <1>2, <1>4 DEF Book
  <2>4. due[r.to] = size[r.to] /\ gap[c] = size[r.to] - due[r.to] BY <2>1, <2>3 DEF WriteBook
  <2>5. size[r.to] \in Int BY <1>2, <2>2
  <2> QED BY <1>1, <2>2, <2>4, <2>5
<1>5. CASE r.op \in {"async", "sync"}
  <2>1. r.to \in Files /\ r.files = {r.to} /\ r.owed = r.acc /\ r.acc \in Nat
    BY <1>2, <1>5, WriterTo, FieldTypes
  <2>2. WriterBook(size, r, due, gap[c]) BY <1>2, <1>5 DEF Book
  <2>3. due[r.to] = size[r.to] - r.owed /\ gap[c] = r.owed BY <2>2 DEF WriterBook
  <2>4. size[r.to] \in Int BY <1>2, <2>1
  <2>5. gap[c] = size[r.to] - due[r.to] /\ size[r.to] = due[r.to] + r.acc BY <2>1, <2>3, <2>4
  <2> QED BY <1>1, <2>1, <2>5
<1>6. CASE r.op = "copy"
  <2>1. r.at = "check" BY <1>1, <1>6
  <2>2. r.to \in Files /\ r.files = {r.from, r.to} /\ r.acc = 0
    BY <1>2, <1>6 DEF Shape, CopyShape
  <2>3. CopyBook(size, r, due, gap[c]) BY <1>2, <1>6 DEF Book
  <2>4. size[r.to] \in Int BY <1>2, <2>2
  <2>5. due[r.to] = size[r.to] /\ gap[c] = size[r.to] - due[r.to] /\ due[r.from] = size[r.from]
    BY <2>1, <2>3, <2>4 DEF CopyBook
  <2> QED BY <1>1, <2>2, <2>4, <2>5
<1> QED BY <1>3, <1>4, <1>5, <1>6

\* An operation that ends before it has allocated, or as a writer, keeps the books: what it
\* wrote and did not allocate is lost.
LEMMA EarlyKept ==
  ASSUME Base, Base', Kept, NEW c \in Clients, NEW from \in {"check", "open", "done"}, Goes(c, from, Idle),
         UNCHANGED disk, leak' = leak + client[c].acc
  PROVE  Kept'
<1>1. PICK due, gap, worth : KeptBy(due, gap, worth) BY KeptHas
<1>2. Moves(c, Idle) /\ client[c].at = from /\ ops' = ops BY EndFacts
<1>3. client[c].at = "check" \/ client[c].op \in {"async", "sync"} BY <1>2, AtOp DEF Base
<1>4. PICK f, a : f = client[c].to /\ a = client[c].acc OBVIOUS
<1>5. a \in Nat BY <1>4, StateTypes, FieldTypes
<1>6. /\ f \in Files /\ f \in client[c].files
      /\ \A g \in client[c].files : g # f => due[g] = size[g]
      /\ gap[c] = size[f] - due[f] /\ size[f] = due[f] + a
  BY <1>1, <1>3, <1>4, EarlyBook
<1>7. size' = size /\ tree' = tree /\ cached' = cached BY DEF disk
<1>8. size'[f] <= due[f] + a
  <2>1. size[f] \in Int BY <1>6, StateTypes
  <2> QED BY <1>6, <1>7, <2>1
<1>9. client[c].at \notin {"tree", "load", "sub"} BY <1>2
<1>10. leak' = leak + a BY <1>4
<1> QED BY <1>1, <1>2, <1>5, <1>6, <1>7, <1>8, <1>9, <1>10, KeptIdleFile

\* The comparison of async_allocate_in_path with disk_limit keeps the books.
LEMMA AllocCheckKept ==
  ASSUME Base, Base', Kept, NEW c \in Clients, AllocCheck(c)
  PROVE  Kept'
<1>1. CASE limit # 0 /\ AsI64 + client[c].delta > limit
  <2>1. Goes(c, "check", Idle) /\ leak' = leak + client[c].acc /\ UNCHANGED disk
    BY <1>1 DEF AllocCheck, Refused, Leak
  <2> QED BY <2>1, EarlyKept
<1>2. CASE ~(limit # 0 /\ AsI64 + client[c].delta > limit)
  <2>1. Goes(c, "check", [client[c] EXCEPT !.at = "add"]) /\ UNCHANGED disk /\ UNCHANGED history
    BY <1>2 DEF AllocCheck
  <2> QED BY <2>1, AllocPassKept
<1> QED BY <1>1, <1>2

\* Drop of a writer, which only the asynchronous one follows with an allocation, keeps the
\* books.
LEMMA WriterDropKept ==
  ASSUME Base, Base', Kept, NEW c \in Clients, WriterDrop(c)
  PROVE  Kept'
<1>1. CASE client[c].op = "async"
  <2>1. /\ Goes(c, "open", Allocate(client[c], client[c].to[1], client[c].acc, FALSE, "done"))
        /\ UNCHANGED disk /\ UNCHANGED history
    BY <1>1 DEF WriterDrop
  <2> QED BY <2>1, FlushKept
<1>2. CASE client[c].op # "async"
  <2>1. Goes(c, "open", Idle) /\ leak' = leak + client[c].acc /\ UNCHANGED disk
    BY <1>2 DEF WriterDrop, Leak
  <2> QED BY <2>1, EarlyKept
<1> QED BY <1>1, <1>2

\* The end of a writer keeps the books.
LEMMA DoneKept ==
  ASSUME Base, Base', Kept, NEW c \in Clients, Done(c)
  PROVE  Kept'
<1>1. Goes(c, "done", Idle) /\ UNCHANGED disk /\ leak' = leak BY DEF Done, history
<1>2. client[c].acc = 0
  <2>1. client[c].at = "done" /\ client[c] \in Records /\ Shape(client[c])
    BY <1>1, StateTypes DEF Goes
  <2>2. client[c].op \in {"async", "sync"} BY <2>1, KindLabels
  <2> QED BY <2>1, <2>2 DEF Shape, WriterShape
<1>3. leak' = leak + client[c].acc BY <1>1, <1>2, StateTypes
<1> QED BY <1>1, <1>3, EarlyKept

\* Flush of a writer keeps the books.
LEMMA WriterFlushKept ==
  ASSUME Base, Base', Kept, NEW c \in Clients, WriterFlush(c)
  PROVE  Kept'
BY FlushKept DEF WriterFlush

\* The writing of the body, which may be shorter or longer than announced, keeps the books.
LEMMA WriteBodyKept ==
  ASSUME Base, Base', Kept, NEW c \in Clients, WriteBody(c)
  PROVE  Kept'
<1>1. PICK due, gap, worth : KeptBy(due, gap, worth) BY KeptHas
<1>2. Moves(c, Idle) /\ client[c].at = "body" /\ ops' = ops BY EndFacts DEF WriteBody
<1>3. PICK r : r = client[c] OBVIOUS
<1>4. r \in Records /\ Shape(r) /\ Book(size, tree, r, due, gap[c]) /\ size \in [Files -> Int]
  BY <1>1, <1>3, StateTypes, BookOf
<1>5. r.op = "write" BY <1>2, <1>3, <1>4, KindLabels
<1>6. r.to \in Files /\ r.files = {r.to} BY <1>4, <1>5 DEF Shape, WriteShape
<1>7. WriteBook(size, r, due, gap[c]) BY <1>4, <1>5 DEF Book
<1>8. due[r.to] = r.bytes /\ gap[c] = size[r.to] - due[r.to] BY <1>2, <1>3, <1>7 DEF WriteBook
<1>9. size' = [size EXCEPT ![r.to] = r.body] /\ tree' = tree /\ cached' = cached
  BY <1>3 DEF WriteBody
<1>10. size'[r.to] = r.body /\ \A g \in Files : g # r.to => size'[g] = size[g]
  BY <1>4, <1>6, <1>9
<1>11. r.bytes \in Int /\ r.body \in Int BY <1>4, FieldTypes
<1>12. PICK a \in Nat : leak' = leak + a /\ r.body <= r.bytes + a
  <2>1. PICK n \in Int : n = r.body - r.bytes BY <1>11
  <2>2. Max({0, n}) \in Nat /\ Max({0, n}) = IF n > 0 THEN n ELSE 0 BY AtLeastZero
  <2>3. leak' = leak + Max({0, n}) BY <1>3, <2>1 DEF WriteBody, Leak
  <2>4. r.body <= r.bytes + Max({0, n}) BY <1>11, <2>1, <2>2
  <2> QED BY <2>2, <2>3, <2>4
<1>13. size'[r.to] <= due[r.to] + a BY <1>8, <1>10, <1>12
<1>14. /\ client[c].at \notin {"tree", "load", "sub"}
       /\ r.to \in client[c].files /\ \A g \in client[c].files : g # r.to => due[g] = size[g]
  BY <1>2, <1>3, <1>6
<1> QED BY <1>1, <1>2, <1>6, <1>8, <1>9, <1>10, <1>12, <1>13, <1>14, KeptIdleFile

\* The copy itself, which may fail, keeps the books.
LEMMA CopyBodyKept ==
  ASSUME Base, Base', Kept, NEW c \in Clients, CopyBody(c)
  PROVE  Kept'
<1>1. PICK due, gap, worth : KeptBy(due, gap, worth) BY KeptHas
<1>2. Moves(c, Idle) /\ client[c].at = "copy" /\ ops' = ops BY EndFacts DEF CopyBody
<1>3. PICK r : r = client[c] OBVIOUS
<1>4. r \in Records /\ Shape(r) /\ Book(size, tree, r, due, gap[c]) /\ size \in [Files -> Int] /\ size \in [Files -> 0..Largest]
  BY <1>1, <1>3, StateTypes, BookOf
<1>5. r.op = "copy" BY <1>2, <1>3, <1>4, KindLabels
<1>6. r.to \in Files /\ r.from \in Files /\ r.files = {r.from, r.to}
  BY <1>4, <1>5 DEF Shape, CopyShape
<1>7. CopyBook(size, r, due, gap[c]) BY <1>4, <1>5 DEF Book
<1>8. due[r.to] = size[r.to] + size[r.from] /\ gap[c] = size[r.to] - due[r.to] /\ due[r.from] = size[r.from]
  BY <1>2, <1>3, <1>7 DEF CopyBook
<1>9. /\ size' = size \/ size' = [size EXCEPT ![r.to] = size[r.from]]
      /\ tree' = tree /\ cached' = cached /\ leak' = leak
  BY <1>3 DEF CopyBody, history
<1>10. (size'[r.to] = size[r.to] \/ size'[r.to] = size[r.from]) /\ \A g \in Files : g # r.to => size'[g] = size[g]
  BY <1>4, <1>6, <1>9
<1>11. size[r.to] \in Nat /\ size[r.from] \in Nat BY <1>4, <1>6, SizesInt
<1>12. PICK a \in Nat : a = 0 OBVIOUS
<1>13. size'[r.to] <= due[r.to] + a BY <1>8, <1>10, <1>11, <1>12
<1>14. leak' = leak + a BY <1>9, <1>12, StateTypes
<1>15. /\ client[c].at \notin {"tree", "load", "sub"}
       /\ r.to \in client[c].files /\ \A g \in client[c].files : g # r.to => due[g] = size[g]
  BY <1>2, <1>3, <1>6, <1>8
<1> QED BY <1>1, <1>2, <1>6, <1>8, <1>9, <1>10, <1>13, <1>14, <1>15, KeptIdleFile

\* The removal of a file from the disk, which may fail, keeps the books.
LEMMA RemoveFileKept ==
  ASSUME Base, Base', Kept, NEW c \in Clients, Remove(c), client[c].op = "delete"
  PROVE  Kept'
<1>1. PICK due, gap, worth : KeptBy(due, gap, worth) BY KeptHas
<1>2. Moves(c, Idle) /\ client[c].at = "remove" /\ ops' = ops
  <2>1. Goes(c, "remove", Idle) BY DEF Remove
  <2> QED BY <2>1, EndFacts
<1>3. PICK r : r = client[c] OBVIOUS
<1>4. r \in Records /\ Shape(r) /\ Book(size, tree, r, due, gap[c]) /\ size \in [Files -> Int] /\ size \in [Files -> 0..Largest]
  BY <1>1, <1>3, StateTypes, BookOf
<1>5. r.from \in Files /\ r.files = {r.from} BY <1>3, <1>4 DEF Shape, DeleteShape
<1>6. DeleteBook(size, r, due, gap[c]) BY <1>3, <1>4 DEF Book
<1>7. due[r.from] = 0 /\ r.owed = size[r.from] /\ gap[c] = size[r.from] - due[r.from]
  BY <1>2, <1>3, <1>6 DEF DeleteBook
<1>8. /\ \/ leak' = leak /\ size' = [f \in Files |-> IF f \in r.files THEN 0 ELSE size[f]]
         \/ leak' = leak + r.owed /\ size' = size
      /\ tree' = tree /\ cached' = cached
  BY <1>3 DEF Remove, history, Leak
<1>9. leak \in Int /\ size[r.from] \in Nat BY <1>4, <1>5, StateTypes, SizesInt
<1>10. PICK a \in Nat : leak' = leak + a /\ size'[r.from] <= due[r.from] + a
  <2>1. CASE leak' = leak /\ size' = [f \in Files |-> IF f \in r.files THEN 0 ELSE size[f]]
    <3>1. size'[r.from] = 0 BY <1>5, <2>1
    <3>2. leak' = leak + 0 /\ size'[r.from] <= due[r.from] + 0 BY <1>7, <1>9, <2>1, <3>1
    <3> QED BY <3>2
  <2>2. CASE leak' = leak + r.owed /\ size' = size
    <3>1. size'[r.from] <= due[r.from] + r.owed BY <1>7, <1>9, <2>2
    <3>2. r.owed \in Nat BY <1>7, <1>9
    <3> QED BY <2>2, <3>1, <3>2
  <2> QED BY <1>8, <2>1, <2>2
<1>11. \A g \in Files : g # r.from => size'[g] = size[g] BY <1>5, <1>8
<1>12. /\ client[c].at \notin {"tree", "load", "sub"}
       /\ r.from \in client[c].files /\ \A g \in client[c].files : g # r.from => due[g] = size[g]
  BY <1>2, <1>3, <1>5
<1> QED BY <1>1, <1>2, <1>5, <1>7, <1>8, <1>10, <1>11, <1>12, KeptIdleFile

\* The operation a client is in.
Doing(c, op) == client[c].op = op

RemoveEffect(r) ==
  /\ \/ leak' = leak /\ size' = [f \in Files |-> IF f \in r.files THEN 0 ELSE size[f]]
     \/ leak' = leak + r.owed /\ size' = size
  /\ tree' = tree /\ cached' = cached

\* What a removal does: the files are gone, or they stay and their bytes are lost from the
\* account.
LEMMA RemoveFacts ==
  ASSUME NEW c \in Clients, Remove(c)
  PROVE  Moves(c, Idle) /\ client[c].at = "remove" /\ ops' = ops /\ RemoveEffect(client[c])
<1>1. Goes(c, "remove", Idle) BY DEF Remove
<1>2. RemoveEffect(client[c]) BY DEF Remove, RemoveEffect, Leak, history
<1> QED BY <1>1, <1>2, EndFacts

\* The directory named by a path of one part.
LEMMA OneTuple ==
  ASSUME NEW p, NEW d, p = <<d>>
  PROVE  p[1] = d
OBVIOUS

\* The files of one place change, and the account of them is made right.
Righted(own, z, y, due, d) ==
  /\ \A f \in Files : own[f] = IF f \in In(d) THEN y[f] ELSE due[f]
  /\ All(y) - All(z) = All(own) - All(due) - (Within(z, d) - Within(due, d))
  /\ Within(own, d) = Within(y, d)
  /\ \A q \in Places : q # d => Within(own, q) <= Within(due, q)

\* An attribution that agrees with the disk in one directory, and with the old one
\* elsewhere.
LEMMA PlaceRight ==
  ASSUME NEW z \in [Files -> Int], NEW y \in [Files -> Int], NEW due \in [Files -> Int], NEW d \in Places,
         \A f \in Files : f \notin In(d) => y[f] = z[f]
  PROVE  \E own \in [Files -> Int] : Righted(own, z, y, due, d)
<1>1. PICK own : own = [f \in Files |-> IF f \in In(d) THEN y[f] ELSE due[f]] OBVIOUS
<1>2. own \in [Files -> Int] /\ \A f \in Files : own[f] = IF f \in In(d) THEN y[f] ELSE due[f]
  BY <1>1
<1>3. Within(own, d) = Within(y, d)
  <2>1. \A n \in Names : own[<<d, n>>] = y[<<d, n>>] BY <1>2, InDir
  <2> QED BY <1>2, <2>1, WithinSame
<1>4. /\ All(own) = All(due) - Within(due, d) + Within(own, d)
      /\ \A q \in Places : q # d => Within(own, q) = Within(due, q)
  <2>1. \A f \in Files : f[1] # d => due[f] = own[f] BY <1>2 DEF In
  <2> QED BY <1>2, <2>1, AllPlace
<1>5. All(y) = All(z) - Within(z, d) + Within(y, d)
  <2>1. \A f \in Files : f[1] # d => z[f] = y[f] BY DEF In
  <2> QED BY <2>1, AllPlace
<1>6. PICK a, b, e, g, h, i, j :
        a = All(own) /\ b = All(due) /\ e = All(y) /\ g = All(z) /\ h = Within(due, d) /\ i = Within(z, d) /\ j = Within(y, d)
  OBVIOUS
<1>7. a \in Int /\ b \in Int /\ e \in Int /\ g \in Int /\ h \in Int /\ i \in Int /\ j \in Int
  BY <1>2, <1>6, AllInt, WithinInt
<1>8. a = b - h + j /\ e = g - i + j BY <1>3, <1>4, <1>5, <1>6
<1>9. e - g = a - b - (i - h) BY <1>7, <1>8
<1>10. All(y) - All(z) = All(own) - All(due) - (Within(z, d) - Within(due, d)) BY <1>6, <1>9
<1>11. ASSUME NEW q \in Places, q # d PROVE Within(own, q) <= Within(due, q)
  <2>1. Within(own, q) = Within(due, q) BY <1>4, <1>11
  <2>2. Within(due, q) \in Int BY WithinInt
  <2> QED BY <2>1, <2>2
<1> QED BY <1>2, <1>3, <1>10, <1>11 DEF Righted

\* The removal of a directory from the disk, which may fail, keeps the books.
LEMMA RemoveDirKept ==
  ASSUME Base, Base', Kept, NEW c \in Clients, Remove(c), Doing(c, "delete_dir")
  PROVE  Kept'
<1>1. PICK due, gap, worth : KeptBy(due, gap, worth) BY KeptHas
<1>2. Moves(c, Idle) /\ client[c].at = "remove" /\ ops' = ops /\ RemoveEffect(client[c])
  BY RemoveFacts
<1>3. PICK r : r = client[c] OBVIOUS
<1>31. r.op = "delete_dir" BY <1>3 DEF Doing
<1>32. due \in [Files -> Int] /\ size \in [Files -> Int] /\ leak \in Int /\ r.owed \in Nat
  <2>1. due \in [Files -> Int] BY <1>1 DEF KeptBy
  <2>2. r \in Records BY <1>3, StateTypes
  <2> QED BY <2>1, <2>2, StateTypes, FieldTypes
<1>4. r \in Records /\ Shape(r) /\ Book(size, tree, r, due, gap[c])
  BY <1>1, <1>3, StateTypes, BookOf
<1>5. PICK d \in Dirs : r.from = <<d>> /\ r.files = In(d)
  BY <1>31, <1>4 DEF Shape, DeleteDirShape
<1>51. r.files = In(d) BY <1>5, Zenon
<1>6. r.from[1] = d /\ d \in Places
  <2>1. r.from = <<d>> BY <1>5, Zenon
  <2>2. r.from[1] = d BY <2>1, OneTuple, Zenon
  <2> QED BY <2>2, DirParts
<1>7. Within(due, d) = Within(size, d) - r.owed /\ gap[c] = r.owed
  <2>1. DeleteDirBook(size, tree, r, due, gap[c]) BY <1>31, <1>4 DEF Book
  <2> QED BY <1>6, <2>1 DEF DeleteDirBook
<1>8. PICK y : y = size' OBVIOUS
<1>9. y \in [Files -> Int]
  <2>1. y \in [Files -> 0..Largest] BY <1>8 DEF Base, Typed
  <2> QED BY <2>1, SizesInt
<1>10. \/ leak' = leak /\ y = [f \in Files |-> IF f \in In(d) THEN 0 ELSE size[f]]
       \/ leak' = leak + r.owed /\ y = size
  BY <1>2, <1>3, <1>51, <1>8 DEF RemoveEffect
<1>11. \A f \in Files : f \notin In(d) => y[f] = size[f] BY <1>10
<1>12. PICK own \in [Files -> Int] :
         /\ \A f \in Files : own[f] = IF f \in In(d) THEN y[f] ELSE due[f]
         /\ All(y) - All(size) = All(own) - All(due) - (Within(size, d) - Within(due, d))
         /\ Within(own, d) = Within(y, d)
         /\ \A q \in Places : q # d => Within(own, q) <= Within(due, q)
  <2>1. PICK z : z = size OBVIOUS
  <2>2. z \in [Files -> Int] /\ \A f \in Files : f \notin In(d) => y[f] = z[f]
    BY <1>32, <1>11, <2>1
  <2>3. \E own \in [Files -> Int] : Righted(own, z, y, due, d)
    <3>1. due \in [Files -> Int] /\ d \in Places /\ z \in [Files -> Int] /\ y \in [Files -> Int]
      BY <1>32, <1>6, <1>9, <2>2
    <3>2. \A f \in Files : f \notin In(d) => y[f] = z[f] BY <2>2
    <3> QED BY <3>1, <3>2, PlaceRight
  <2> QED BY <2>1, <2>3 DEF Righted
<1>13. Within(due, d) \in Int /\ Within(size, d) \in Int BY <1>32, <1>6, WithinInt
<1>14. Within(size, d) - Within(due, d) = gap[c] BY <1>7, <1>13, <1>32
<1>15. All(size') - All(size) = All(own) - All(due) - gap[c] BY <1>8, <1>12, <1>14
<1>16. PICK a \in Nat : leak' = leak + a /\ (Within(own, d) <= Within(due, d) + a \/ Within(own, d) <= a)
  <2>1. CASE leak' = leak /\ y = [f \in Files |-> IF f \in In(d) THEN 0 ELSE size[f]]
    <3>1. \A n \in Names : y[<<d, n>>] = 0 BY <1>6, <2>1, InDir
    <3>2. Within(y, d) = 0 BY <1>6, <1>9, <3>1, WithinZero
    <3>3. Within(own, d) <= 0 BY <1>12, <3>2
    <3>4. leak' = leak + 0 BY <1>32, <2>1
    <3> QED BY <3>3, <3>4
  <2>2. CASE leak' = leak + r.owed /\ y = size
    <3>1. Within(own, d) = Within(size, d) BY <1>12, <2>2
    <3>2. Within(own, d) <= Within(due, d) + r.owed BY <1>7, <1>13, <1>32, <3>1
    <3> QED BY <1>32, <2>2, <3>2
  <2> QED BY <1>10, <2>1, <2>2
<1>17. \A q \in Places : q # d => Within(own, q) <= Within(due, q) BY <1>12
<1>18. client[c].files = In(d) BY <1>3, <1>51
<1>19. \A f \in Files : f \notin client[c].files => size'[f] = size[f] /\ own[f] = due[f]
  BY <1>8, <1>11, <1>12, <1>18
<1>20. \A f \in client[c].files : own[f] = size'[f]
  <2>1. \A f \in In(d) : f \in Files BY DEF In
  <2> QED BY <1>8, <1>12, <1>18, <2>1
<1>21. tree' = tree /\ cached' = cached BY <1>2 DEF RemoveEffect
<1>22. client[c].at \notin {"tree", "load", "sub"} BY <1>2
<1> QED BY <1>1, <1>2, <1>6, <1>12, <1>15, <1>16, <1>17, <1>19, <1>20, <1>21, <1>22, KeptIdle

\* Everything is removed, or nothing: then every place is owed what it holds.
LEMMA RemoveAllKept ==
  ASSUME Base, Base', Kept, NEW c \in Clients, Remove(c), Doing(c, "truncate")
  PROVE  Kept'
<1>1. PICK due, gap, worth : KeptBy(due, gap, worth) BY KeptHas
<1>2. Moves(c, Idle) /\ client[c].at = "remove" /\ ops' = ops /\ RemoveEffect(client[c])
  BY RemoveFacts
<1>3. PICK r : r = client[c] OBVIOUS
<1>4. r.op = "truncate" /\ r.at = "remove" BY <1>2, <1>3 DEF Doing
<1>5. r \in Records /\ Shape(r) /\ Book(size, tree, r, due, gap[c])
  BY <1>1, <1>3, StateTypes, BookOf
<1>6. /\ due \in [Files -> Int] /\ size \in [Files -> 0..Largest] /\ size \in [Files -> Int] /\ worth \in [Places -> Int]
      /\ leak \in Int /\ AsI64 \in Int
  <2>1. due \in [Files -> Int] /\ worth \in [Places -> Int] BY <1>1 DEF KeptBy
  <2> QED BY <2>1, StateTypes
<1>7. r.files = Files BY <1>4, <1>5 DEF Shape, TruncateShape
<1>8. (\A f \in Files : due[f] = 0) /\ r.owed = All(size) /\ gap[c] = All(size)
  BY <1>4, <1>5 DEF Book, TruncateBook
<1>9. PICK own, y : own = size' /\ y = size' OBVIOUS
<1>10. y \in [Files -> 0..Largest] /\ own \in [Files -> Int]
  <2>1. y \in [Files -> 0..Largest] BY <1>9 DEF Base, Typed
  <2> QED BY <1>9, <2>1, SizesInt
<1>11. All(due) = 0 /\ \A p \in Places : Within(due, p) = 0
  <2>1. due = [f \in Files |-> 0] BY <1>6, <1>8
  <2> QED BY <2>1, Zeros
<1>12. All(size) \in Nat /\ \A p \in Places : Within(size, p) \in Nat BY <1>6, AllBound
<1>13. All(own) \in Int BY <1>10, AllInt
<1>14. Books(size, size', tree, tree', r, Idle, due, own, gap[c], 0)
  <2>0. r.files \cup Idle.files = Files BY <1>7 DEF Idle
  <2>1. Local(size, size', tree, tree', due, own, r.files \cup Idle.files)
    BY <1>2, <2>0 DEF Local, RemoveEffect
  <2>2. \A f \in Files : own[f] = size'[f] /\ own[f] >= 0 BY <1>9, <1>10, SizesInt
  <2>3. Settled(size', Idle, own, r.files \cup Idle.files) BY <2>0, <2>2 DEF Settled
  <2>4. Book(size', tree', Idle, own, 0) BY DEF Book, Idle
  <2>5. All(size') - All(size) = All(own) - All(due) + 0 - gap[c]
    BY <1>8, <1>9, <1>11, <1>12, <1>13
  <2> QED BY <2>1, <2>3, <2>4, <2>5 DEF Books
<1>15. /\ \A p \in Places : worth[p] >= 0
       /\ \A d \in Dirs : worth[d] >= tree[d] + Pend(client, d)
       /\ AsI64 + leak >= Total(worth, Places)
  BY <1>1 DEF KeptBy, Worthy
<1>16. PICK m : m = client' OBVIOUS
<1>17. \A d \in Dirs : Pend(m, d) = Pend(client, d)
  <2>1. PICK cl \in [Clients -> Records] : cl = client BY StateTypes
  <2>2. Idle \in Records BY IdleRecord
  <2>3. m = [cl EXCEPT ![c] = Idle] BY <1>2, <1>16, <2>1 DEF Moves
  <2>4. ASSUME NEW d \in Dirs PROVE Pend(m, d) = Pend(cl, d)
    <3>1. Pend([cl EXCEPT ![c] = Idle], d) = Pend(cl, d) - Awaits(cl[c], d) + Awaits(Idle, d) /\ Pend(cl, d) \in Int
      BY <2>2, PendStep
    <3>2. cl[c].at # "tree" /\ Idle.at # "tree" BY <1>3, <1>4, <2>1 DEF Idle
    <3>3. Awaits(cl[c], d) = 0 /\ Awaits(Idle, d) = 0 BY <3>2 DEF Awaits
    <3> QED BY <2>3, <3>1, <3>3
  <2> QED BY <2>1, <2>4
<1>18. \E new \in [Places -> Int] : Worthy(tree', client', AsI64 + leak', own, new)
  <2>1. CASE leak' = leak /\ size' = [f \in Files |-> IF f \in r.files THEN 0 ELSE size[f]]
    <3>1. own = [f \in Files |-> 0] BY <1>7, <1>9, <2>1
    <3>2. \A p \in Places : Within(own, p) = 0 BY <3>1, Zeros
    <3>3. tree' = tree BY <1>2 DEF RemoveEffect
    <3>4. \A p \in Places : worth[p] >= 0 /\ worth[p] >= Within(own, p) BY <1>15, <3>2
    <3>5. \A d \in Dirs : worth[d] >= tree'[d] + Pend(m, d) BY <1>15, <1>17, <3>3
    <3>6. AsI64 + leak' >= Total(worth, Places) BY <1>15, <2>1
    <3>7. Worthy(tree', m, AsI64 + leak', own, worth) BY <3>4, <3>5, <3>6 DEF Worthy
    <3> QED BY <1>6, <1>16, <3>7
  <2>2. CASE leak' = leak + r.owed /\ size' = size
    <3>1. PICK held : held = [p \in Places |-> Within(size, p)] OBVIOUS
    <3>2. held \in [Places -> Int] /\ \A p \in Places : held[p] = Within(size, p) /\ held[p] >= 0
      BY <1>6, <1>12, <3>1, AllInt
    <3>3. PICK new : new = [p \in Places |-> worth[p] + held[p]] OBVIOUS
    <3>4. new \in [Places -> Int] /\ \A p \in Places : new[p] = worth[p] + held[p]
      BY <1>6, <3>2, <3>3
    <3>5. Total(new, Places) = Total(worth, Places) + Total(held, Places)
      BY <1>6, <3>2, <3>4, Finite, TotalAdd
    <3>6. Total(held, Places) = All(size) BY <3>1 DEF All
    <3>7. AsI64 + leak' >= Total(new, Places)
      <4>1. Total(worth, Places) \in Int BY <1>6, Finite, TotalInt
      <4>2. leak' = leak + All(size) BY <1>8, <2>2
      <4> QED BY <1>6, <1>12, <1>15, <3>5, <3>6, <4>1, <4>2
    <3>8. tree' = tree /\ own = size BY <1>2, <1>9, <2>2 DEF RemoveEffect
    <3>9. ASSUME NEW p \in Places
          PROVE  new[p] >= 0 /\ new[p] >= Within(own, p) /\ new[p] >= worth[p]
      <4>1. worth[p] \in Int /\ worth[p] >= 0 /\ held[p] \in Int BY <1>6, <1>15, <3>2
      <4>2. new[p] = worth[p] + held[p] /\ held[p] = Within(own, p) /\ held[p] >= 0
        BY <3>2, <3>4, <3>8
      <4> QED BY <4>1, <4>2
    <3>10. ASSUME NEW d \in Dirs PROVE new[d] >= tree'[d] + Pend(m, d)
      <4>1. d \in Places BY DirParts
      <4>2. worth[d] >= tree'[d] + Pend(m, d) /\ new[d] >= worth[d]
        BY <1>15, <1>17, <3>8, <3>9, <4>1
      <4>3. worth[d] \in Int /\ new[d] \in Int /\ tree'[d] \in Int
        BY <1>6, <3>4, <3>8, <4>1, StateTypes
      <4>4. Pend(m, d) \in Int
        <5>1. m \in [Clients -> Records] BY <1>16 DEF Base, Typed
        <5>2. Idle \in Records BY IdleRecord
        <5> QED BY <5>1, <5>2, PendStep
      <4> QED BY <4>2, <4>3, <4>4
    <3>11. Worthy(tree', m, AsI64 + leak', own, new) BY <3>7, <3>9, <3>10 DEF Worthy
    <3> QED BY <1>16, <3>4, <3>11
  <2> QED BY <1>2, <1>3, <2>1, <2>2 DEF RemoveEffect
<1>19. Bounds(size, size', tree, tree', r, Idle, AsI64, AsI64)
  <2>1. Room(size, r) = 0 /\ Room(size', Idle) = 0 /\ Late(r) = 0 /\ Late(Idle) = 0 /\ Fall(r) = 0 /\ Fall(Idle) = 0
    BY <1>4 DEF Room, Late, Fall, Idle
  <2>2. tree' = tree /\ \A d \in Dirs : tree[d] \in Int BY <1>2, StateTypes DEF RemoveEffect
  <2> QED BY <1>6, <2>1, <2>2 DEF Bounds
<1>20. KeptIn(size', tree', client', AsI64, leak', ops')
  <2>1. Idle.files \subseteq client[c].files /\ 0 \in Int BY DEF Idle
  <2>2. PICK R : R = Idle OBVIOUS
  <2> QED BY <1>1, <1>2, <1>3, <1>6, <1>10, <1>14, <1>18, <1>19, <2>1, <2>2, KeptGone
<1>21. cached' = cached BY <1>2 DEF RemoveEffect
<1> QED BY <1>20, <1>21, SignedSame DEF Kept

\* The removal from the disk, which may fail, keeps the books.
LEMMA RemoveKept ==
  ASSUME Base, Base', Kept, NEW c \in Clients, Remove(c)
  PROVE  Kept'
<1>1. client[c].at = "remove" BY RemoveFacts
<1>2. client[c].op \in {"delete", "delete_dir", "truncate"} BY <1>1, AtOp DEF Base
<1>3. CASE client[c].op = "delete" BY <1>3, RemoveFileKept
<1>4. CASE client[c].op = "delete_dir" BY <1>4, RemoveDirKept DEF Doing
<1>5. CASE client[c].op = "truncate" BY <1>5, RemoveAllKept DEF Doing
<1> QED BY <1>2, <1>3, <1>4, <1>5

\* A file takes over what another one had.
TakenOver(z, y, f, g, b) ==
  /\ All(y) = All(z)
  /\ \A q \in Places : q # f[1] => Within(y, q) <= Within(z, q)
  /\ Within(y, f[1]) <= Within(z, f[1]) + b
  /\ f[1] = g[1] => Within(y, f[1]) <= Within(z, f[1])

\* The sums after one file has taken over the bytes of another, as a rename moves them.
LEMMA TwoChange ==
  ASSUME NEW z \in [Files -> Int], NEW y \in [Files -> Int], NEW f \in Files, NEW g \in Files, f # g,
         \A h \in Files : h # f /\ h # g => y[h] = z[h],
         NEW b \in Nat, y[f] = z[f] + b, y[g] = z[g] - b
  PROVE  TakenOver(z, y, f, g, b)
<1>1. PICK mid : mid = [z EXCEPT ![g] = y[g]] OBVIOUS
<1>2. mid \in [Files -> Int] /\ mid[g] = y[g] /\ \A h \in Files : h # g => mid[h] = z[h] BY <1>1
<1>3. /\ All(mid) = All(z) - z[g] + mid[g]
      /\ Within(mid, g[1]) = Within(z, g[1]) - z[g] + mid[g]
      /\ \A q \in Places : q # g[1] => Within(mid, q) = Within(z, q)
  BY <1>2, AllChange
<1>4. /\ All(y) = All(mid) - mid[f] + y[f]
      /\ Within(y, f[1]) = Within(mid, f[1]) - mid[f] + y[f]
      /\ \A q \in Places : q # f[1] => Within(y, q) = Within(mid, q)
  <2>1. \A h \in Files : h # f => mid[h] = y[h] BY <1>2
  <2> QED BY <1>2, <2>1, AllChange
<1>5. f[1] \in Places /\ g[1] \in Places /\ z[f] \in Int /\ z[g] \in Int BY FileParts
<1>6. All(z) \in Int /\ \A q \in Places : Within(z, q) \in Int BY AllInt, WithinInt
<1>7. All(y) = All(z) BY <1>2, <1>3, <1>4, <1>5, <1>6
<1>8. CASE f[1] = g[1]
  <2>1. Within(y, f[1]) = Within(z, f[1]) BY <1>2, <1>3, <1>4, <1>5, <1>6, <1>8
  <2>2. \A q \in Places : q # f[1] => Within(y, q) = Within(z, q) BY <1>3, <1>4, <1>8
  <2> QED BY <1>5, <1>6, <1>7, <1>8, <2>1, <2>2 DEF TakenOver
<1>9. CASE f[1] # g[1]
  <2>1. Within(y, f[1]) = Within(z, f[1]) + b BY <1>2, <1>3, <1>4, <1>5, <1>6, <1>9
  <2>2. ASSUME NEW q \in Places, q # f[1] PROVE Within(y, q) <= Within(z, q)
    <3>1. CASE q = g[1]
      <4>1. Within(y, q) = Within(z, q) - b BY <1>2, <1>3, <1>4, <1>5, <1>6, <2>2, <3>1
      <4> QED BY <1>6, <4>1
    <3>2. CASE q # g[1] BY <1>3, <1>4, <1>6, <2>2, <3>2
    <3> QED BY <3>1, <3>2
  <2> QED BY <1>5, <1>6, <1>7, <1>9, <2>1, <2>2 DEF TakenOver
<1> QED BY <1>8, <1>9

\* The move of a file on the disk, which may fail, keeps the books.
LEMMA RenameFileDiskKept ==
  ASSUME Base, Base', Kept, NEW c \in Clients, RenameDisk(c), client[c].op = "rename"
  PROVE  Kept'
<1>1. PICK due, gap, worth : KeptBy(due, gap, worth) BY KeptHas
<1>2. Moves(c, Idle) /\ client[c].at = "rename" /\ ops' = ops BY EndFacts DEF RenameDisk
<1>3. PICK r, f, g : r = client[c] /\ f = r.from /\ g = r.to OBVIOUS
<1>4. r \in Records /\ Shape(r) /\ Book(size, tree, r, due, gap[c]) /\ leak \in Int
  BY <1>1, <1>3, StateTypes, BookOf
<1>5. f \in Files /\ g \in Files /\ f # g /\ r.files = {f, g} /\ r.then = "rename" /\ f[1] \in Places
  <2>1. f \in Files /\ g \in Files /\ f # g /\ r.files = {f, g} /\ r.then = "rename"
    BY <1>2, <1>3, <1>4 DEF Shape, RenameShape
  <2> QED BY <2>1, FileParts
<1>6. PICK b \in Nat : b = r.bytes BY <1>4, FieldTypes
<1>7. size[f] = b /\ size[g] = 0 /\ due[f] = 0 /\ due[g] = b /\ gap[c] = 0
  <2>1. RenameBook(size, r, due, gap[c]) BY <1>3, <1>4 DEF Book
  <2>2. size[f] = b /\ size[g] = 0 /\ due[f] = 0 /\ due[g] = b /\ gap[c] = b - 0 - b
    BY <1>2, <1>3, <1>5, <1>6, <2>1 DEF RenameBook
  <2> QED BY <2>2
<1>8. due \in [Files -> Int] /\ size \in [Files -> Int]
  <2>1. due \in [Files -> Int] BY <1>1 DEF KeptBy
  <2> QED BY <2>1, StateTypes
<1>9. \/ leak' = leak + (IF f[1] = g[1] THEN 0 ELSE b) /\ size' = size
      \/ leak' = leak /\ size' = [size EXCEPT ![f] = 0, ![g] = size[f]]
  BY <1>3, <1>6 DEF RenameDisk, Leak, history
<1>10. tree' = tree /\ cached' = cached /\ client[c].at \notin {"tree", "load", "sub"}
  BY <1>2 DEF RenameDisk
<1>11. All(size) \in Int /\ All(due) \in Int /\ \A q \in Places : Within(due, q) \in Int
  BY <1>8, AllInt, WithinInt
<1>12. CASE leak' = leak + (IF f[1] = g[1] THEN 0 ELSE b) /\ size' = size
  <2>1. PICK own : own = [due EXCEPT ![f] = b, ![g] = 0] OBVIOUS
  <2>2. own \in [Files -> Int] /\ own[f] = due[f] + b /\ own[g] = due[g] - b /\ \A h \in Files : h # f /\ h # g => own[h] = due[h]
    BY <1>5, <1>7, <1>8, <2>1
  <2>3. /\ All(own) = All(due)
        /\ \A q \in Places : q # f[1] => Within(own, q) <= Within(due, q)
        /\ Within(own, f[1]) <= Within(due, f[1]) + b
        /\ f[1] = g[1] => Within(own, f[1]) <= Within(due, f[1])
    <3>1. TakenOver(due, own, f, g, b) BY <1>5, <1>8, <2>2, TwoChange
    <3> QED BY <3>1 DEF TakenOver
  <2>4. PICK a \in Nat : a = IF f[1] = g[1] THEN 0 ELSE b OBVIOUS
  <2>5. leak' = leak + a /\ Within(own, f[1]) <= Within(due, f[1]) + a
    BY <1>5, <1>11, <1>12, <2>3, <2>4
  <2>6. All(size') - All(size) = All(own) - All(due) - gap[c] BY <1>7, <1>11, <1>12, <2>3
  <2>7. client[c].files = {f, g} /\ own[f] = size'[f] /\ own[g] = size'[g]
    BY <1>3, <1>5, <1>7, <1>12, <2>2
  <2>8. \A h \in client[c].files : own[h] = size'[h] BY <2>7
  <2>9. \A h \in Files : h \notin client[c].files => size'[h] = size[h] /\ own[h] = due[h]
    BY <1>12, <2>2, <2>7
  <2> QED BY <1>1, <1>2, <1>5, <1>10, <2>2, <2>3, <2>5, <2>6, <2>8, <2>9, KeptIdle
<1>13. CASE leak' = leak /\ size' = [size EXCEPT ![f] = 0, ![g] = size[f]]
  <2>1. PICK y : y = size' OBVIOUS
  <2>2. y \in [Files -> Int] /\ y[g] = size[g] + b /\ y[f] = size[f] - b /\ \A h \in Files : h # g /\ h # f => y[h] = size[h]
    BY <1>5, <1>7, <1>8, <1>13, <2>1
  <2>3. All(y) = All(size)
    <3>1. PICK z : z = size OBVIOUS
    <3>2. z \in [Files -> Int] /\ y[g] = z[g] + b /\ y[f] = z[f] - b /\ \A h \in Files : h # g /\ h # f => y[h] = z[h]
      BY <1>8, <2>2, <3>1
    <3>3. TakenOver(z, y, g, f, b) BY <1>5, <2>2, <3>2, TwoChange
    <3> QED BY <3>1, <3>3 DEF TakenOver
  <2>4. PICK a \in Nat : a = 0 OBVIOUS
  <2>5. leak' = leak + a /\ Within(due, f[1]) <= Within(due, f[1]) + a
    BY <1>4, <1>5, <1>11, <1>13, <2>4
  <2>6. All(size') - All(size) = All(due) - All(due) - gap[c] BY <1>7, <1>11, <2>1, <2>3
  <2>7. client[c].files = {f, g} /\ due[f] = size'[f] /\ due[g] = size'[g]
    BY <1>3, <1>5, <1>7, <2>1, <2>2
  <2>8. \A h \in client[c].files : due[h] = size'[h] BY <2>7
  <2>9. \A h \in Files : h \notin client[c].files => size'[h] = size[h] /\ due[h] = due[h]
    BY <2>1, <2>2, <2>7
  <2>10. \A q \in Places : q # f[1] => Within(due, q) <= Within(due, q) BY <1>11
  <2> QED BY <1>1, <1>2, <1>5, <1>8, <1>10, <2>5, <2>6, <2>8, <2>9, <2>10, KeptIdle
<1> QED BY <1>9, <1>12, <1>13

\* The move of a directory on the disk, which may fail, keeps the books.
LEMMA RenameDirDiskKept ==
  ASSUME Base, Base', Kept, NEW c \in Clients, RenameDisk(c), client[c].op = "rename_dir"
  PROVE  Kept'
<1>1. PICK due, gap, worth : KeptBy(due, gap, worth) BY KeptHas
<1>2. Moves(c, Idle) /\ client[c].at = "rename" /\ ops' = ops BY EndFacts DEF RenameDisk
<1>3. PICK r : r = client[c] OBVIOUS
<1>4. r \in Records /\ Shape(r) /\ Book(size, tree, r, due, gap[c]) /\ leak \in Int
  BY <1>1, <1>3, StateTypes, BookOf
<1>5. PICK d \in Dirs, e \in Dirs : d # e /\ r.from = <<d>> /\ r.to = <<e>> /\ r.files = In(d) \cup In(e)
  BY <1>3, RenameDirParts DEF Base
<1>6. r.from[1] = d /\ r.to[1] = e /\ d \in Places /\ e \in Places /\ d # e
  BY <1>5, OneTuple, DirParts
<1>7. client[c].files = In(d) \cup In(e) BY <1>3, <1>5
<1>8. /\ \A n \in Names : due[<<d, n>>] = 0 /\ due[<<e, n>>] = size[<<d, n>>]
      /\ \A n \in Names : size[<<e, n>>] = 0
      /\ gap[c] = 0
  <2>1. RenameDirBook(size, r, due, gap[c]) BY <1>3, <1>4 DEF Book
  <2> QED BY <1>6, <2>1 DEF RenameDirBook
<1>9. due \in [Files -> Int] /\ size \in [Files -> Int] /\ size \in [Files -> 0..Largest]
  <2>1. due \in [Files -> Int] BY <1>1 DEF KeptBy
  <2> QED BY <2>1, StateTypes
<1>10. \/ leak' = leak + Within(size, d) /\ size' = size
       \/ /\ leak' = leak
          /\ size' = [f \in Files |-> CASE f[1] = d -> 0 [] f[1] = e -> size[<<d, f[2]>>] [] OTHER -> size[f]]
  BY <1>3, <1>6 DEF RenameDisk, Leak, history, Sum
<1>11. tree' = tree /\ cached' = cached /\ client[c].at \notin {"tree", "load", "sub"}
  BY <1>2 DEF RenameDisk
<1>12. /\ All(size) \in Int /\ All(due) \in Int /\ \A q \in Places : Within(due, q) \in Int
       /\ Within(size, d) \in Nat
  <2>1. Within(size, d) \in Nat BY <1>6, <1>9, AllBound
  <2> QED BY <1>9, <2>1, AllInt, WithinInt
<1>13. Within(size, e) = 0 BY <1>6, <1>8, <1>9, WithinZero
<1>14. ASSUME NEW f \in Files, f[1] = d \/ f[1] = e
       PROVE  /\ f = <<f[1], f[2]>> /\ f[2] \in Names /\ <<d, f[2]>> \in Files
              /\ f[1] = d => due[f] = 0
              /\ f[1] = e => due[f] = size[<<d, f[2]>>] /\ size[f] = 0
  <2>1. f = <<f[1], f[2]>> /\ f[2] \in Names BY FileParts
  <2>2. <<d, f[2]>> \in Files BY <1>6, <2>1, InDir
  <2>3. ASSUME f[1] = d PROVE due[f] = 0
    <3>1. f = <<d, f[2]>> BY <2>1, <2>3
    <3> QED BY <1>8, <2>1, <3>1
  <2>4. ASSUME f[1] = e PROVE due[f] = size[<<d, f[2]>>] /\ size[f] = 0
    <3>1. f = <<e, f[2]>> BY <2>1, <2>4
    <3> QED BY <1>8, <2>1, <3>1
  <2> QED BY <2>1, <2>2, <2>3, <2>4
<1>15. CASE leak' = leak + Within(size, d) /\ size' = size
  <2>1. PICK own : own = [f \in Files |-> IF f[1] = d \/ f[1] = e THEN size[f] ELSE due[f]]
    OBVIOUS
  <2>2. own \in [Files -> Int] /\ \A f \in Files : own[f] = IF f[1] = d \/ f[1] = e THEN size[f] ELSE due[f]
    BY <1>9, <2>1
  <2>3. MovedTo(own, due, d, e)
    <3>1. ASSUME NEW f \in Files
          PROVE  due[f] = IF f[1] = d THEN 0 ELSE IF f[1] = e THEN own[<<d, f[2]>>] ELSE own[f]
      <4>1. CASE f[1] = d BY <1>14, <4>1
      <4>2. CASE f[1] = e
        <5>1. f[2] \in Names /\ due[f] = size[<<d, f[2]>>] /\ <<d, f[2]>> \in Files
          BY <1>14, <4>2
        <5>2. <<d, f[2]>>[1] = d OBVIOUS
        <5>3. own[<<d, f[2]>>] = size[<<d, f[2]>>] BY <2>2, <5>1, <5>2
        <5> QED BY <1>6, <4>2, <5>1, <5>3
      <4>3. CASE f[1] # d /\ f[1] # e BY <2>2, <4>3
      <4> QED BY <4>1, <4>2, <4>3
    <3> QED BY <3>1 DEF MovedTo
  <2>4. Within(own, e) = 0 /\ Within(own, d) = Within(size, d)
    <3>1. \A n \in Names : own[<<e, n>>] = size[<<e, n>>] /\ own[<<d, n>>] = size[<<d, n>>]
      BY <1>6, <2>2, InDir
    <3>2. Within(own, e) = Within(size, e) /\ Within(own, d) = Within(size, d)
      BY <1>6, <1>9, <2>2, <3>1, WithinSame
    <3> QED BY <1>13, <3>2
  <2>5. /\ All(due) = All(own) /\ Within(due, d) = 0 /\ Within(due, e) = Within(own, d)
        /\ \A q \in Places : q # d /\ q # e => Within(due, q) = Within(own, q)
    BY <1>6, <1>9, <2>2, <2>3, <2>4, MovedSums
  <2>6. PICK a \in Nat : a = Within(size, d) BY <1>12
  <2>7. leak' = leak + a /\ Within(own, d) <= a BY <1>15, <2>4, <2>6
  <2>8. All(size') - All(size) = All(own) - All(due) - gap[c] BY <1>8, <1>12, <1>15, <2>5
  <2>9. ASSUME NEW q \in Places, q # d PROVE Within(own, q) <= Within(due, q)
    <3>1. CASE q = e BY <1>12, <2>4, <2>5, <3>1
    <3>2. CASE q # e BY <1>12, <2>5, <2>9, <3>2
    <3> QED BY <3>1, <3>2
  <2>10. \A f \in client[c].files : own[f] = size'[f] BY <1>7, <1>15, <2>2 DEF In
  <2>11. \A f \in Files : f \notin client[c].files => size'[f] = size[f] /\ own[f] = due[f]
    BY <1>7, <1>15, <2>2 DEF In
  <2> QED BY <1>1, <1>2, <1>6, <1>11, <2>2, <2>7, <2>8, <2>9, <2>10, <2>11, KeptIdle
<1>16. CASE /\ leak' = leak
            /\ size' = [f \in Files |-> CASE f[1] = d -> 0 [] f[1] = e -> size[<<d, f[2]>>] [] OTHER -> size[f]]
  <2>1. PICK y, z : y = size' /\ z = size OBVIOUS
  <2>2. y \in [Files -> Int]
    <3>1. y \in [Files -> 0..Largest] BY <2>1 DEF Base, Typed
    <3> QED BY <3>1, SizesInt
  <2>3. \A f \in Files : y[f] = CASE f[1] = d -> 0 [] f[1] = e -> z[<<d, f[2]>>] [] OTHER -> z[f]
    BY <1>16, <2>1
  <2>4. MovedTo(z, y, d, e) BY <1>6, <2>3 DEF MovedTo
  <2>5. All(y) = All(z) BY <1>6, <1>9, <1>13, <2>1, <2>2, <2>4, MovedSums
  <2>6. PICK a \in Nat : a = 0 OBVIOUS
  <2>7. leak' = leak + a /\ Within(due, d) <= Within(due, d) + a
    BY <1>4, <1>6, <1>12, <1>16, <2>6
  <2>8. All(size') - All(size) = All(due) - All(due) - gap[c] BY <1>8, <1>12, <2>1, <2>5
  <2>9. ASSUME NEW f \in client[c].files PROVE due[f] = size'[f]
    <3>1. f \in Files /\ (f[1] = d \/ f[1] = e) BY <1>7, <2>9 DEF In
    <3>2. CASE f[1] = d
      <4>1. y[f] = 0 /\ due[f] = 0 BY <1>6, <1>14, <2>3, <3>1, <3>2
      <4> QED BY <2>1, <4>1
    <3>3. CASE f[1] = e
      <4>1. y[f] = z[<<d, f[2]>>] /\ due[f] = size[<<d, f[2]>>] BY <1>6, <1>14, <2>3, <3>1, <3>3
      <4> QED BY <2>1, <4>1
    <3> QED BY <3>1, <3>2, <3>3
  <2>10. \A f \in Files : f \notin client[c].files => size'[f] = size[f] /\ due[f] = due[f]
    <3>1. \A f \in Files : f \notin client[c].files => f[1] # d /\ f[1] # e BY <1>7 DEF In
    <3>2. \A f \in Files : f[1] # d /\ f[1] # e => y[f] = z[f] BY <2>3
    <3> QED BY <2>1, <3>1, <3>2
  <2>11. \A q \in Places : q # d => Within(due, q) <= Within(due, q) BY <1>12
  <2> QED BY <1>1, <1>2, <1>6, <1>9, <1>11, <2>7, <2>8, <2>9, <2>10, <2>11, KeptIdle
<1> QED BY <1>10, <1>15, <1>16

\* The move on the disk at the end of a rename, which may fail, keeps the books.
LEMMA RenameDiskKept ==
  ASSUME Base, Base', Kept, NEW c \in Clients, RenameDisk(c)
  PROVE  Kept'
<1>1. client[c].op \in {"rename", "rename_dir"} BY AtOp DEF Base, RenameDisk, Goes
<1>2. CASE client[c].op = "rename" BY <1>2, RenameFileDiskKept
<1>3. CASE client[c].op = "rename_dir" BY <1>3, RenameDirDiskKept
<1> QED BY <1>1, <1>2, <1>3

------------------------------------------------------------------------------
(* Steps that change the account. *)

\* The 64-bit total moves as the signed one does, which stays within the word.
LEMMA SignedMove ==
  ASSUME Base, Base', NEW n \in Int, NEW w \in Int, w = AsI64 + n, cached' = (cached + n) % Word,
         KeptIn(size', tree', client', w, leak', ops')
  PROVE  Kept' /\ AsI64' = w
<1>1. PICK z, t, cl, o : z = size' /\ t = tree' /\ cl = client' /\ o = ops' OBVIOUS
<1>2. /\ z \in [Files -> 0..Largest] /\ t \in [Dirs -> Nat] /\ cl \in [Clients -> Records] /\ o \in 0..MaxOps
      /\ \A b \in Clients : Shape(cl[b])
  BY <1>1 DEF Base, Typed, Shapes
<1>3. Bounded(z, t, cl, w, o) BY <1>1 DEF KeptIn
<1>4. w <= Cap /\ w >= -(Cap * MaxOps) BY <1>2, <1>3, BoundsOf
<1>5. PICK m \in 0..(Word - 1) : m = cached BY StateTypes
<1>6. w = Signed(m) + n BY <1>5 DEF Signed, AsI64
<1>7. Signed((m + n) % Word) = w BY <1>4, <1>6, SignedSum
<1>8. AsI64' = w BY <1>5, <1>7 DEF Signed, AsI64
<1> QED BY <1>8 DEF Kept

\* A client that holds files in a place that it does not delete holds all there is to know about it.
LEMMA InPlaceNat ==
  ASSUME Base, NEW due, NEW gap, NEW worth, KeptBy(due, gap, worth), NEW c \in Clients, client[c].op # "delete_dir",
         NEW f \in client[c].files
  PROVE  f \in Files /\ due[f] <= Within(due, f[1])
<1>1. f \in Files /\ due \in [Files -> Int] BY StateTypes, FieldTypes DEF KeptBy
<1>2. ASSUME NEW g \in Files, g[1] = f[1] PROVE due[g] >= 0
  <2>1. ASSUME NEW b \in Clients, client[b].op = "delete_dir", g \in client[b].files PROVE FALSE
    <3>1. PICK d \in Dirs : client[b].files = In(d)
      BY <2>1, StateTypes DEF Shape, DeleteDirShape
    <3>2. g[1] = d BY <2>1, <3>1 DEF In
    <3>3. f \in client[b].files BY <1>1, <1>2, <3>1, <3>2 DEF In
    <3>4. b = c BY <3>3 DEF KeptBy, Disjoint
    <3> QED BY <2>1, <3>4
  <2>2. due[g] >= 0 \/ \E b \in Clients : client[b].op = "delete_dir" /\ g \in client[b].files
    BY DEF KeptBy, Linked
  <2> QED BY <2>1, <2>2
<1> QED BY <1>1, <1>2, WithinMember

\* What the fields of a client that adds to the account have to do with each other.
LEMMA AddShape ==
  ASSUME NEW r \in Records, Shape(r), r.at = "add"
  PROVE  /\ r.to \in Files /\ r.to \in r.files /\ r.dir = r.to[1] /\ r.delta > 0 /\ r.delta \in Nat /\ r.dir \in Places
         /\ r.op \in {"write", "async", "sync", "copy", "rename"} /\ r.op # "delete_dir"
<1>1. r.op \in {"write", "async", "sync", "copy", "rename"} BY KindLabels
<1>2. r.to \in Files /\ r.to \in r.files /\ r.dir = r.to[1] /\ r.delta > 0
  <2>1. CASE r.op = "write" BY <2>1 DEF Shape, WriteShape
  <2>2. CASE r.op \in {"async", "sync"} BY <2>2 DEF Shape, WriterShape
  <2>3. CASE r.op = "copy" BY <2>3 DEF Shape, CopyShape
  <2>4. CASE r.op = "rename"
    <3>1. RenameShape(r) BY <2>4 DEF Shape
    <3>2. r.to \in Files /\ r.to \in r.files /\ r.dir = r.to[1] /\ r.delta = r.bytes /\ r.bytes > 0
      BY <3>1 DEF RenameShape
    <3> QED BY <3>2
  <2> QED BY <1>1, <2>1, <2>2, <2>3, <2>4
<1>3. r.delta \in Int /\ r.dir \in Places BY FieldTypes
<1> QED BY <1>1, <1>2, <1>3

\* The record after a step of an allocation.
Allocates(R, r, label, owed) ==
  /\ R.op = r.op /\ R.files = r.files /\ R.from = r.from /\ R.to = r.to /\ R.bytes = r.bytes
  /\ R.delta = r.delta /\ R.dir = r.dir /\ R.then = r.then
  /\ R.at = label /\ R.owed = owed

\* The book of a client after the fetch_add: the account holds its bytes.
LEMMA AddBook ==
  ASSUME NEW r \in Records, Shape(r), r.at = "add", NEW R \in Records, Allocates(R, r, "tree", 0),
         NEW z \in [Files -> 0..Largest], NEW t, NEW due \in [Files -> Int], NEW own \in [Files -> Int],
         own[r.to] = due[r.to] + r.delta, \A f \in Files : f # r.to => own[f] = due[f],
         NEW g \in Int, Book(z, t, r, due, g)
  PROVE  /\ Book(z, t, R, own, g - r.delta)
         /\ Room(z, R) <= Room(z, r) /\ r.delta <= Room(z, r) - Room(z, R)
<1>1. /\ R.op = r.op /\ R.from = r.from /\ R.to = r.to /\ R.bytes = r.bytes
      /\ R.delta = r.delta /\ R.then = r.then /\ R.at = "tree" /\ R.owed = 0
  BY DEF Allocates
<1>2. r.to \in Files /\ r.op \in {"write", "async", "sync", "copy", "rename"} BY AddShape
<1>3. z[r.to] \in Int /\ r.delta \in Int /\ r.bytes \in Nat /\ r.owed \in Nat /\ due[r.to] \in Int /\ Largest \in Nat /\ z[r.to] \in Nat
  BY <1>2, SizesInt, FieldTypes, Constants
<1>4. CASE r.op = "write"
  <2>1. WriteBook(z, r, due, g) BY <1>4 DEF Book
  <2>2. due[r.to] = z[r.to] /\ z[r.to] + r.delta = r.bytes /\ g = z[r.to] - due[r.to]
    BY <2>1 DEF WriteBook
  <2>3. own[R.to] = R.bytes /\ g - r.delta = z[R.to] - own[R.to] /\ z[R.to] + R.delta = R.bytes
    BY <1>1, <1>3, <2>2
  <2>4. WriteBook(z, R, own, g - r.delta) BY <1>1, <2>3 DEF WriteBook
  <2>5. Room(z, r) = Largest /\ Room(z, R) = 0 BY <1>1, <1>4 DEF Room
  <2>6. r.bytes <= Largest BY FieldTypes, Constants
  <2>7. r.delta <= Room(z, r) - Room(z, R) BY <1>3, <2>2, <2>5, <2>6
  <2> QED BY <1>1, <1>3, <1>4, <2>4, <2>5, <2>7 DEF Book
<1>5. CASE r.op \in {"async", "sync"}
  <2>1. WriterBook(z, r, due, g) BY <1>5 DEF Book
  <2>2. r.delta = r.owed BY <1>5 DEF Shape, WriterShape
  <2>3. due[r.to] = z[r.to] - r.owed /\ g = r.owed BY <2>1 DEF WriterBook
  <2>4. own[R.to] = z[R.to] - 0 /\ g - r.delta = 0 /\ 0 <= z[R.to] BY <1>1, <1>3, <2>2, <2>3
  <2>5. WriterBook(z, R, own, g - r.delta) BY <1>1, <2>4 DEF WriterBook
  <2>6. Room(z, r) = Largest - z[r.to] + r.owed /\ Room(z, R) = Largest - z[r.to] + 0
    BY <1>1, <1>5 DEF Room
  <2>7. r.delta <= Room(z, r) - Room(z, R) /\ Room(z, R) <= Room(z, r) BY <1>3, <2>2, <2>6
  <2> QED BY <1>1, <1>5, <2>5, <2>7 DEF Book
<1>6. CASE r.op = "copy"
  <2>0. r.from \in Files /\ r.from # r.to BY <1>6 DEF Shape, CopyShape
  <2>1. CopyBook(z, r, due, g) BY <1>6 DEF Book
  <2>2. due[r.from] = z[r.from] /\ due[r.to] = z[r.to] + 0 /\ r.delta = z[r.from] /\ g = z[r.to] - due[r.to]
    BY <2>1 DEF CopyBook
  <2>3. /\ own[R.from] = z[R.from] /\ own[R.to] = z[R.to] + z[R.from] /\ g - r.delta = z[R.to] - own[R.to]
        /\ R.delta = z[R.from]
    BY <1>1, <1>3, <2>0, <2>2
  <2>4. CopyBook(z, R, own, g - r.delta) BY <1>1, <2>3 DEF CopyBook
  <2>5. Room(z, r) = Largest /\ Room(z, R) = 0 BY <1>1, <1>6 DEF Room
  <2>6. z[r.from] <= Largest BY <2>0, SizesInt
  <2>7. r.delta <= Room(z, r) - Room(z, R) BY <1>3, <2>2, <2>5, <2>6
  <2> QED BY <1>1, <1>3, <1>6, <2>4, <2>5, <2>7 DEF Book
<1>7. CASE r.op = "rename"
  <2>0. r.from \in Files /\ r.from # r.to /\ r.then = "rename" /\ r.delta = r.bytes
    BY <1>7 DEF Shape, RenameShape
  <2>1. RenameBook(z, r, due, g) BY <1>7 DEF Book
  <2>2. z[r.from] = r.bytes /\ z[r.to] = 0 /\ due[r.from] = 0 /\ due[r.to] = 0 /\ g = r.bytes - 0 - 0
    BY <2>0, <2>1 DEF RenameBook
  <2>3. /\ own[R.from] = 0 /\ own[R.to] = R.bytes /\ g - r.delta = R.bytes - own[R.from] - own[R.to]
        /\ z[R.from] = R.bytes /\ z[R.to] = 0
    BY <1>1, <1>3, <2>0, <2>2
  <2>4. RenameBook(z, R, own, g - r.delta) BY <1>1, <2>0, <2>3 DEF RenameBook
  <2>5. Room(z, r) = Largest /\ Room(z, R) = 0 BY <1>1, <1>7, <2>0 DEF Room
  <2>6. r.bytes <= Largest BY FieldTypes, Constants
  <2>7. r.delta <= Room(z, r) - Room(z, R) BY <1>3, <2>0, <2>5, <2>6
  <2> QED BY <1>1, <1>3, <1>7, <2>4, <2>5, <2>7 DEF Book
<1> QED BY <1>2, <1>4, <1>5, <1>6, <1>7

\* The fetch_add of async_allocate_in_path keeps the books.
LEMMA AllocAddKept ==
  ASSUME Base, Base', Kept, NEW c \in Clients, AllocAdd(c)
  PROVE  Kept' /\ AsI64' = AsI64 + client[c].delta
<1>1. PICK due, gap, worth : KeptBy(due, gap, worth) BY KeptHas
<1>2. PICK r, z, t : r = client[c] /\ z = size /\ t = tree OBVIOUS
<1>3. PICK R : Moves(c, R) /\ Keeps(R, client[c]) /\ R.at = "tree" /\ R.delta = client[c].delta /\ R.dir = client[c].dir /\ R.then = client[c].then /\ R.acc = 0 /\ R.owed = 0
  BY AddMoves DEF Base, AllocAdd
<1>4. Allocates(R, r, "tree", 0) /\ R \in Records BY <1>2, <1>3 DEF Allocates, Keeps, Moves
<1>5. r.at = "add" /\ ops' = ops /\ size' = z /\ tree' = t /\ cached' = (cached + r.delta) % Word /\ leak' = leak
  BY <1>2 DEF AllocAdd, Goes, bounds, history
<1>6. /\ r \in Records /\ Shape(r) /\ Book(z, t, r, due, gap[c]) /\ gap[c] \in Int
      /\ due \in [Files -> Int] /\ worth \in [Places -> Int]
      /\ z \in [Files -> 0..Largest] /\ t \in [Dirs -> Nat] /\ z \in [Files -> Int]
  BY <1>1, <1>2, StateTypes, BookOf
<1>7. PICK f, p, n : f = r.to /\ p = r.dir /\ n = r.delta OBVIOUS
<1>8. f \in Files /\ f \in r.files /\ p = f[1] /\ n > 0 /\ n \in Nat /\ p \in Places /\ r.op # "delete_dir"
  BY <1>5, <1>6, <1>7, AddShape
<1>9. PICK own : own = [due EXCEPT ![f] = due[f] + n] OBVIOUS
<1>10. own \in [Files -> Int] /\ own[f] = due[f] + n /\ due[f] \in Int /\ \A g \in Files : g # f => own[g] = due[g]
  BY <1>6, <1>8, <1>9
<1>11. PICK h : h = gap[c] - n OBVIOUS
<1>12. h \in Int BY <1>6, <1>8, <1>11
<1>13. /\ Book(z, t, R, own, h) /\ Room(z, R) <= Room(z, r) /\ n <= Room(z, r) - Room(z, R)
  BY <1>4, <1>5, <1>6, <1>7, <1>10, <1>11, AddBook
<1>14. /\ All(own) = All(due) - due[f] + own[f] /\ Within(own, f[1]) = Within(due, f[1]) - due[f] + own[f]
       /\ \A q \in Places : q # f[1] => Within(own, q) = Within(due, q)
  BY <1>6, <1>8, <1>10, AllChange
<1>15. All(due) \in Int /\ All(z) \in Int /\ \A q \in Places : Within(due, q) \in Int
  BY <1>6, AllInt, WithinInt
<1>16. R.files = r.files /\ R.op = r.op /\ R.at = "tree" /\ R.dir = p /\ R.delta = n
  BY <1>4, <1>7 DEF Allocates
<1>17. Books(z, z, t, t, r, R, due, own, gap[c], h)
  <2>0. r.files \cup R.files = r.files BY <1>16
  <2>1. Local(z, z, t, t, due, own, r.files \cup R.files) BY <1>8, <1>10, <2>0 DEF Local
  <2>2. ASSUME NEW g \in r.files PROVE own[g] >= 0
    <3>1. g \in Files /\ due[g] >= 0 BY <1>1, <1>2, <1>8, <2>2, DueNat
    <3>2. CASE g = f BY <1>8, <1>10, <3>1, <3>2
    <3>3. CASE g # f BY <1>10, <3>1, <3>3
    <3> QED BY <3>2, <3>3
  <2>3. Settled(z, R, own, r.files \cup R.files) BY <1>16, <2>0, <2>2 DEF Settled
  <2>4. All(z) - All(z) = All(own) - All(due) + h - gap[c]
    BY <1>6, <1>8, <1>10, <1>11, <1>14, <1>15
  <2> QED BY <1>13, <2>1, <2>3, <2>4 DEF Books
<1>18. Worths(t, t, r, R, due, own, worth, p, n)
  <2>1. worth[p] \in Int /\ worth[p] >= 0 /\ worth[p] >= Within(due, p)
    BY <1>1, <1>6, <1>8 DEF KeptBy, Worthy
  <2>2. Within(own, p) = Within(due, p) + n /\ Within(due, p) \in Int
    BY <1>8, <1>10, <1>14, <1>15
  <2>3. worth[p] + n >= 0 /\ worth[p] + n >= Within(own, p) BY <1>8, <2>1, <2>2
  <2>4. \A q \in Places : q # p => Within(own, q) <= Within(due, q) BY <1>8, <1>14, <1>15
  <2>5. \A d \in Dirs : d # p => t[d] + Awaits(R, d) <= t[d] + Awaits(r, d)
    <3>1. \A d \in Dirs : t[d] \in Int BY <1>6
    <3>2. \A d \in Dirs : d # p => Awaits(R, d) = 0 /\ Awaits(r, d) = 0
      BY <1>5, <1>16 DEF Awaits
    <3> QED BY <3>1, <3>2
  <2>6. p \in Dirs => t[p] + Awaits(R, p) <= t[p] + Awaits(r, p) + n
    <3>1. p \in Dirs => t[p] \in Int BY <1>6
    <3>2. Awaits(R, p) = n /\ Awaits(r, p) = 0 BY <1>5, <1>16 DEF Awaits
    <3> QED BY <1>8, <3>1, <3>2
  <2> QED BY <2>3, <2>4, <2>5, <2>6 DEF Worths
<1>19. PICK x \in Int, w \in Int : x = AsI64 /\ w = AsI64 + n
  <2>1. AsI64 \in Int /\ AsI64 + n \in Int BY <1>8, StateTypes
  <2> QED BY <2>1
<1>20. Bounds(z, z, t, t, r, R, x, w)
  <2>1. Late(R) = n /\ Late(r) = 0 /\ Fall(R) = 0 /\ Fall(r) = 0
    BY <1>5, <1>8, <1>16 DEF Late, Fall
  <2>2. Room(z, r) \in Int /\ Room(z, R) \in Int
    <3>1. Shape(R) BY <1>3 DEF Moves
    <3> QED BY <1>4, <1>6, <3>1, RoomNat
  <2>3. w = x + n BY <1>19
  <2>4. w <= x + Room(z, r) - Room(z, R) BY <1>8, <1>13, <2>2, <2>3
  <2>5. \A d \in Dirs : t[d] + Late(R) <= t[d] + Late(r) + Room(z, r) - Room(z, R)
    <3>1. \A d \in Dirs : t[d] \in Int BY <1>6
    <3> QED BY <1>8, <1>13, <2>1, <2>2, <3>1
  <2>6. w >= x - Fall(r) + Fall(R) BY <1>8, <2>1, <2>3
  <2> QED BY <1>13, <2>1, <2>4, <2>5, <2>6 DEF Bounds
<1>21. w + leak' >= x + leak + n
  <2>1. leak \in Int BY StateTypes
  <2> QED BY <1>5, <1>8, <1>19, <2>1
<1>22. KeptIn(size', tree', client', w, leak', ops')
  <2>1. R.files \subseteq client[c].files /\ n \in Int BY <1>2, <1>8, <1>16
  <2>2. Books(size, size', tree, tree', client[c], R, due, own, gap[c], h) BY <1>2, <1>5, <1>17
  <2>3. Worths(tree, tree', client[c], R, due, own, worth, p, n) BY <1>2, <1>5, <1>18
  <2>4. Bounds(size, size', tree, tree', client[c], R, AsI64, w) BY <1>2, <1>5, <1>19, <1>20
  <2>5. w + leak' >= AsI64 + leak + n BY <1>19, <1>21
  <2> QED BY <1>1, <1>3, <1>5, <1>8, <1>10, <1>12, <1>19, <2>1, <2>2, <2>3, <2>4, <2>5, KeptGo
<1>23. cached' = (cached + n) % Word /\ w = AsI64 + n /\ n \in Int BY <1>5, <1>7, <1>8, <1>19
<1>24. Kept' /\ AsI64' = w BY <1>19, <1>22, <1>23, SignedMove
<1> QED BY <1>2, <1>7, <1>19, <1>24

\* The file whose due goes down, of a client that takes from the account.
Taken(r, f) ==
  /\ f \in Files /\ f \in r.files /\ f[1] = r.dir
  /\ r.op = "write" => f = r.to
  /\ r.op \in {"delete", "rename"} => f = r.from

\* What is subtracted belongs to the source of the operation, in its directory.
LEMMA SubShape ==
  ASSUME NEW r \in Records, Shape(r), r.at = "sub"
  PROVE  /\ r.op \in {"write", "delete", "delete_dir", "rename"} /\ r.delta < 0 /\ r.delta \in Int /\ r.dir \in Places
         /\ \E f : Taken(r, f)
<1>1. r.op \in {"write", "delete", "delete_dir", "rename"} BY KindLabels
<1>2. r.delta < 0 /\ r.delta \in Int /\ r.dir \in Places BY Negative, FieldTypes
<1>3. CASE r.op = "write"
  <2>1. r.to \in Files /\ r.to \in r.files /\ r.dir = r.to[1] BY <1>3 DEF Shape, WriteShape
  <2> QED BY <1>1, <1>2, <1>3, <2>1 DEF Taken
<1>4. CASE r.op = "delete"
  <2>1. r.from \in Files /\ r.from \in r.files /\ r.dir = r.from[1]
    BY <1>4 DEF Shape, DeleteShape
  <2> QED BY <1>1, <1>2, <1>4, <2>1 DEF Taken
<1>5. CASE r.op = "delete_dir"
  <2>1. PICK d \in Dirs : r.files = In(d) /\ r.dir = d BY <1>5 DEF Shape, DeleteDirShape
  <2>2. PICK n \in Names : TRUE BY FilesAssumption
  <2>3. <<d, n>> \in In(d) /\ <<d, n>> \in Files /\ <<d, n>>[1] = d BY DirParts, InDir
  <2>4. Taken(r, <<d, n>>) BY <1>5, <2>1, <2>3 DEF Taken
  <2> QED BY <1>1, <1>2, <2>4
<1>6. CASE r.op = "rename"
  <2>1. RenameShape(r) BY <1>6 DEF Shape
  <2>2. r.from \in Files /\ r.from \in r.files /\ r.dir = r.from[1] BY <2>1 DEF RenameShape
  <2> QED BY <1>1, <1>2, <1>6, <2>2 DEF Taken
<1> QED BY <1>1, <1>3, <1>4, <1>5, <1>6

\* The book of a client after the fetch_sub: the account no longer holds its bytes.
LEMMA SubBook ==
  ASSUME NEW r \in Records, Shape(r), r.at = "sub", NEW R \in Records, Allocates(R, r, "tree", -r.delta),
         NEW z \in [Files -> 0..Largest], NEW t \in [Dirs -> Nat], NEW due \in [Files -> Int], NEW own \in [Files -> Int],
         NEW f0, Taken(r, f0), own[f0] = due[f0] + r.delta, \A f \in Files : f # f0 => own[f] = due[f],
         NEW g \in Int, Book(z, t, r, due, g)
  PROVE  /\ Book(z, t, R, own, g - r.delta)
         /\ Room(z, R) = Room(z, r)
         /\ \/ r.op # "delete_dir" /\ own[f0] >= 0 /\ -r.delta <= Largest
            \/ r.op = "delete_dir" /\ r.dir \in Dirs /\ r.files = In(r.dir) /\ -r.delta = t[r.dir]
<1>1. /\ R.op = r.op /\ R.from = r.from /\ R.to = r.to /\ R.bytes = r.bytes
      /\ R.delta = r.delta /\ R.then = r.then /\ R.at = "tree" /\ R.owed = -r.delta
  BY DEF Allocates
<1>2. f0 \in Files /\ r.op \in {"write", "delete", "delete_dir", "rename"} /\ r.delta \in Int
  BY SubShape DEF Taken
<1>3. /\ z[f0] \in Nat /\ z[f0] <= Largest /\ r.bytes \in Nat /\ r.bytes <= Largest /\ due[f0] \in Int /\ Largest \in Nat
      /\ z \in [Files -> Int]
  BY <1>2, SizesInt, FieldTypes, Constants
<1>4. CASE r.op = "write"
  <2>0. f0 = r.to BY <1>4 DEF Taken
  <2>1. WriteBook(z, r, due, g) BY <1>4 DEF Book
  <2>2. due[f0] = z[f0] /\ z[f0] + r.delta = r.bytes /\ g = z[f0] - due[f0]
    BY <2>0, <2>1 DEF WriteBook
  <2>3. own[f0] = r.bytes /\ g - r.delta = z[f0] - own[f0] /\ own[f0] >= 0 /\ -r.delta <= Largest
    BY <1>2, <1>3, <2>2
  <2>4. own[R.to] = R.bytes /\ g - r.delta = z[R.to] - own[R.to] /\ z[R.to] + R.delta = R.bytes
    BY <1>1, <2>0, <2>2, <2>3
  <2>5. WriteBook(z, R, own, g - r.delta) BY <1>1, <2>4 DEF WriteBook
  <2>6. Room(z, R) = Room(z, r) BY <1>1, <1>4 DEF Room
  <2> QED BY <1>1, <1>4, <2>3, <2>5, <2>6 DEF Book
<1>5. CASE r.op = "delete"
  <2>0. f0 = r.from BY <1>5 DEF Taken
  <2>1. DeleteBook(z, r, due, g) BY <1>5 DEF Book
  <2>2. due[f0] = z[f0] /\ r.delta = -z[f0] /\ g = z[f0] - due[f0] BY <2>0, <2>1 DEF DeleteBook
  <2>3. own[f0] = 0 /\ g - r.delta = z[f0] - own[f0] /\ -r.delta = z[f0] /\ -r.delta <= Largest
    BY <1>2, <1>3, <2>2
  <2>4. own[R.from] = 0 /\ g - r.delta = z[R.from] - own[R.from] /\ R.owed = z[R.from]
    BY <1>1, <2>0, <2>3
  <2>5. DeleteBook(z, R, own, g - r.delta) BY <1>1, <2>4 DEF DeleteBook
  <2>6. Room(z, R) = Room(z, r) BY <1>1, <1>5 DEF Room
  <2> QED BY <1>1, <1>5, <2>3, <2>5, <2>6 DEF Book
<1>6. CASE r.op = "delete_dir"
  <2>0. PICK d \in Dirs : r.from = <<d>> /\ r.files = In(d) /\ r.dir = d /\ r.owed = 0
    BY <1>6 DEF Shape, DeleteDirShape
  <2>1. r.from[1] = d /\ R.from[1] = d /\ f0[1] = d BY <1>1, <2>0, OneTuple DEF Taken
  <2>2. DeleteDirBook(z, t, r, due, g) BY <1>6 DEF Book
  <2>3. Within(due, d) = Within(z, d) - 0 /\ r.delta = -t[d] /\ g = 0
    BY <2>0, <2>1, <2>2 DEF DeleteDirBook
  <2>4. Within(own, d) = Within(due, d) - due[f0] + own[f0] /\ Within(z, d) \in Int
    <3>1. Within(own, f0[1]) = Within(due, f0[1]) - due[f0] + own[f0] BY <1>2, AllChange
    <3>2. d \in Places BY DEF Places
    <3>3. Within(z, d) \in Int BY <1>3, <3>2, WithinInt
    <3> QED BY <2>1, <3>1, <3>3
  <2>5. Within(own, d) = Within(z, d) - (-r.delta) BY <1>2, <1>3, <2>3, <2>4
  <2>6. g - r.delta = -r.delta /\ t[d] \in Int BY <1>2, <2>0, <2>3
  <2>7. DeleteDirBook(z, t, R, own, g - r.delta)
    BY <1>1, <2>1, <2>3, <2>5, <2>6 DEF DeleteDirBook
  <2>8. Room(z, R) = Room(z, r) BY <1>1, <1>6 DEF Room
  <2>9. -r.delta = t[d] BY <2>3, <2>6
  <2> QED BY <1>1, <1>6, <2>0, <2>7, <2>8, <2>9 DEF Book
<1>7. CASE r.op = "rename"
  <2>0. r.from \in Files /\ r.to \in Files /\ r.from # r.to /\ r.then = "move" /\ r.delta = -r.bytes /\ f0 = r.from
    BY <1>7 DEF Shape, RenameShape, Taken
  <2>1. RenameBook(z, r, due, g) BY <1>7 DEF Book
  <2>2. z[r.from] = r.bytes /\ z[r.to] = 0 /\ due[r.from] = r.bytes /\ due[r.to] = 0 /\ g = r.bytes - r.bytes - 0
    BY <2>0, <2>1 DEF RenameBook
  <2>3. own[r.from] = 0 /\ own[r.to] = 0 /\ g - r.delta = r.bytes - 0 - 0 /\ -r.delta <= Largest
    BY <1>2, <1>3, <2>0, <2>2
  <2>4. /\ own[R.from] = 0 /\ own[R.to] = 0 /\ g - r.delta = R.bytes - own[R.from] - own[R.to]
        /\ z[R.from] = R.bytes /\ z[R.to] = 0 /\ R.then # "rename"
    BY <1>1, <2>0, <2>2, <2>3
  <2>5. RenameBook(z, R, own, g - r.delta) BY <1>1, <2>4 DEF RenameBook
  <2>6. Room(z, R) = Room(z, r) BY <1>1, <1>7, <2>0 DEF Room
  <2> QED BY <1>1, <1>7, <2>0, <2>3, <2>5, <2>6 DEF Book
<1> QED BY <1>2, <1>4, <1>5, <1>6, <1>7

\* An account that has been set to zero, or from which the bytes have been taken.
LEMMA SubEffect ==
  ASSUME Base, NEW c \in Clients, AllocSub(c), NEW n \in Int, n = client[c].delta
  PROVE  /\ size' = size /\ tree' = tree /\ ops' = ops /\ client[c].at = "sub"
         /\ \/ cached' = (cached + n) % Word /\ leak' = leak
            \/ /\ cached' = 0 /\ AsI64' = 0 /\ ~(client[c].seen >= -n)
               /\ leak' >= leak /\ leak' >= leak + AsI64 + n
<1>1. size' = size /\ tree' = tree /\ ops' = ops /\ client[c].at = "sub"
  BY DEF AllocSub, Goes, bounds
<1>2. PICK k \in Int, x \in Int : k = -n /\ x = AsI64 - k
  <2>1. -n \in Int /\ AsI64 - (-n) \in Int BY StateTypes
  <2> QED BY <2>1
<1>3. \/ cached' = (cached - k) % Word /\ leak' = leak
      \/ cached' = 0 /\ leak' = leak + Max({0, x}) /\ ~(client[c].seen >= k)
  BY <1>2 DEF AllocSub, Leak, history
<1>4. Max({0, x}) = IF x > 0 THEN x ELSE 0 BY AtLeastZero
<1>5. CASE cached' = (cached - k) % Word /\ leak' = leak
  <2>1. cached - k = cached + n BY <1>2, StateTypes
  <2> QED BY <1>1, <1>5, <2>1
<1>6. CASE cached' = 0 /\ leak' = leak + Max({0, x}) /\ ~(client[c].seen >= k)
  <2>1. ~(0 >= Word \div 2) BY WordHolds
  <2>2. AsI64' = 0 BY <1>6, <2>1 DEF AsI64
  <2>3. leak' >= leak /\ leak' >= leak + AsI64 + n BY <1>2, <1>4, <1>6, StateTypes
  <2>4. ~(client[c].seen >= -n) BY <1>2, <1>6
  <2> QED BY <1>1, <1>6, <2>2, <2>3, <2>4
<1> QED BY <1>3, <1>5, <1>6

\* The account holds for the directory what a client takes from it.
LEMMA Affords ==
  ASSUME Base, NEW due, NEW gap, NEW worth, KeptBy(due, gap, worth), NEW c \in Clients,
         NEW r \in Records, Shape(r), r.at = "sub", r.files = client[c].files, r.op = client[c].op,
         client[c].at \in {"load", "sub"}, Book(size, tree, r, due, gap[c])
  PROVE  worth[r.dir] >= -r.delta
<1>1. PICK z, t, cl, g : z = size /\ t = tree /\ cl = client /\ g = gap[c] OBVIOUS
<1>2. /\ Book(z, t, r, due, g) /\ g \in Int /\ due \in [Files -> Int] /\ worth \in [Places -> Int]
      /\ z \in [Files -> 0..Largest] /\ t \in [Dirs -> Nat]
      /\ cl \in [Clients -> Records] /\ \A b \in Clients : Shape(cl[b])
  BY <1>1, StateTypes, BookOf
<1>3. PICK f, p, n : Taken(r, f) /\ p = r.dir /\ n = r.delta BY SubShape
<1>4. f \in Files /\ f \in r.files /\ p = f[1] /\ n < 0 /\ n \in Int /\ p \in Places
  BY <1>3, SubShape DEF Taken
<1>5. PICK own : own = [due EXCEPT ![f] = due[f] + n] OBVIOUS
<1>6. own \in [Files -> Int] /\ own[f] = due[f] + n /\ due[f] \in Int /\ \A e \in Files : e # f => own[e] = due[e]
  BY <1>2, <1>4, <1>5
<1>7. PICK k \in Nat : k = -n BY <1>4
<1>8. PICK R : R = [r EXCEPT !.at = "tree", !.owed = k] OBVIOUS
<1>9. R \in Records BY <1>8 DEF Records, Labels
<1>10. Allocates(R, r, "tree", -r.delta) BY <1>3, <1>7, <1>8 DEF Records, Allocates
<1>11. \/ r.op # "delete_dir" /\ own[f] >= 0
       \/ r.op = "delete_dir" /\ r.dir \in Dirs /\ r.files = In(r.dir) /\ -r.delta = t[r.dir]
  <2>1. own[f] = due[f] + r.delta BY <1>3, <1>6
  <2> QED BY <1>2, <1>3, <1>6, <1>9, <1>10, <2>1, SubBook
<1>12. worth[p] \in Int /\ worth[p] >= Within(due, p) /\ Within(due, p) \in Int
  BY <1>2, <1>4, WithinInt DEF KeptBy, Worthy
<1>13. CASE r.op # "delete_dir" /\ own[f] >= 0
  <2>1. due[f] <= Within(due, f[1]) BY <1>4, <1>13, InPlaceNat
  <2> QED BY <1>3, <1>4, <1>6, <1>12, <1>13, <2>1
<1>14. CASE r.op = "delete_dir" /\ p \in Dirs /\ r.files = In(p) /\ -n = t[p]
  <2>1. \A b \in Clients : cl[b].at = "tree" => cl[b].files \cap In(p) = {}
    BY <1>1, <1>14 DEF KeptBy, Disjoint
  <2>2. Pend(cl, p) = 0 BY <1>2, <1>14, <2>1, NonePending
  <2>3. worth[p] >= t[p] + Pend(cl, p) BY <1>1, <1>14 DEF KeptBy, Worthy
  <2> QED BY <1>2, <1>3, <1>4, <1>12, <1>14, <2>2, <2>3
<1> QED BY <1>3, <1>11, <1>13, <1>14

\* The fetch_sub, or the store of zero when the total seen is too small, keeps the books.
LEMMA AllocSubKept ==
  ASSUME Base, Base', Kept, NEW c \in Clients, AllocSub(c)
  PROVE  Kept' /\ (client[c].seen >= -client[c].delta => AsI64' = AsI64 + client[c].delta)
<1>1. PICK due, gap, worth : KeptBy(due, gap, worth) BY KeptHas
<1>2. PICK r, z, t : r = client[c] /\ z = size /\ t = tree OBVIOUS
<1>3. PICK R : Moves(c, R) /\ Keeps(R, client[c]) /\ R.at = "tree" /\ R.delta = client[c].delta /\ R.dir = client[c].dir /\ R.then = client[c].then /\ R.acc = client[c].acc /\ R.owed = -client[c].delta
  BY SubMoves DEF Base, AllocSub
<1>4. Allocates(R, r, "tree", -r.delta) /\ R \in Records
  BY <1>2, <1>3 DEF Allocates, Keeps, Moves
<1>5. r.at = "sub" /\ ops' = ops /\ size' = z /\ tree' = t BY <1>2 DEF AllocSub, Goes, bounds
<1>6. /\ r \in Records /\ Shape(r) /\ Book(z, t, r, due, gap[c]) /\ gap[c] \in Int
      /\ due \in [Files -> Int] /\ worth \in [Places -> Int]
      /\ z \in [Files -> 0..Largest] /\ t \in [Dirs -> Nat] /\ z \in [Files -> Int]
  BY <1>1, <1>2, StateTypes, BookOf
<1>7. PICK f, p, n : Taken(r, f) /\ p = r.dir /\ n = r.delta BY <1>5, <1>6, SubShape
<1>8. f \in Files /\ f \in r.files /\ p = f[1] /\ n < 0 /\ n \in Int /\ p \in Places
  BY <1>5, <1>6, <1>7, SubShape DEF Taken
<1>9. PICK own : own = [due EXCEPT ![f] = due[f] + n] OBVIOUS
<1>10. own \in [Files -> Int] /\ own[f] = due[f] + n /\ due[f] \in Int /\ \A g \in Files : g # f => own[g] = due[g]
  BY <1>6, <1>8, <1>9
<1>11. PICK h : h = gap[c] - n OBVIOUS
<1>12. h \in Int BY <1>6, <1>8, <1>11
<1>13. /\ Book(z, t, R, own, h) /\ Room(z, R) = Room(z, r)
       /\ \/ r.op # "delete_dir" /\ own[f] >= 0 /\ -n <= Largest
          \/ r.op = "delete_dir" /\ p \in Dirs /\ r.files = In(p) /\ -n = t[p]
  <2>1. PICK g \in Int : g = gap[c] BY <1>6
  <2>2. own[f] = due[f] + r.delta BY <1>7, <1>10
  <2>3. Book(z, t, r, due, g) BY <1>6, <2>1
  <2>4. /\ Book(z, t, R, own, g - r.delta) /\ Room(z, R) = Room(z, r)
        /\ \/ r.op # "delete_dir" /\ own[f] >= 0 /\ -r.delta <= Largest
           \/ r.op = "delete_dir" /\ r.dir \in Dirs /\ r.files = In(r.dir) /\ -r.delta = t[r.dir]
    BY <1>4, <1>5, <1>6, <1>7, <1>10, <2>1, <2>2, <2>3, SubBook
  <2> QED BY <1>7, <1>11, <2>1, <2>4
<1>14. /\ All(own) = All(due) - due[f] + own[f] /\ Within(own, f[1]) = Within(due, f[1]) - due[f] + own[f]
       /\ \A q \in Places : q # f[1] => Within(own, q) = Within(due, q)
  BY <1>6, <1>8, <1>10, AllChange
<1>15. All(due) \in Int /\ All(z) \in Int /\ \A q \in Places : Within(due, q) \in Int
  BY <1>6, AllInt, WithinInt
<1>16. R.files = r.files /\ R.op = r.op /\ R.at = "tree" /\ R.dir = p /\ R.delta = n
  BY <1>4, <1>7 DEF Allocates
<1>17. Books(z, z, t, t, r, R, due, own, gap[c], h)
  <2>0. r.files \cup R.files = r.files BY <1>16
  <2>1. Local(z, z, t, t, due, own, r.files \cup R.files) BY <1>8, <1>10, <2>0 DEF Local
  <2>2. ASSUME NEW g \in r.files, r.op # "delete_dir" PROVE own[g] >= 0
    <3>1. g \in Files /\ due[g] >= 0 BY <1>1, <1>2, <2>2, DueNat
    <3>2. CASE g = f BY <1>13, <2>2, <3>2
    <3>3. CASE g # f BY <1>10, <3>1, <3>3
    <3> QED BY <3>2, <3>3
  <2>3. Settled(z, R, own, r.files \cup R.files) BY <1>16, <2>0, <2>2 DEF Settled
  <2>4. All(z) - All(z) = All(own) - All(due) + h - gap[c]
    BY <1>6, <1>8, <1>10, <1>11, <1>14, <1>15
  <2> QED BY <1>13, <2>1, <2>3, <2>4 DEF Books
<1>18. worth[p] \in Int /\ worth[p] >= Within(due, p) /\ worth[p] + n >= 0
  <2>1. worth[p] \in Int /\ worth[p] >= Within(due, p) BY <1>1, <1>6, <1>8 DEF KeptBy, Worthy
  <2>2. worth[r.dir] >= -r.delta
    <3>1. r.files = client[c].files /\ r.op = client[c].op /\ client[c].at \in {"load", "sub"}
      BY <1>2, <1>5
    <3>2. Book(size, tree, r, due, gap[c]) BY <1>2, <1>6
    <3> QED BY <1>1, <1>5, <1>6, <3>1, <3>2, Affords
  <2> QED BY <1>7, <1>8, <2>1, <2>2
<1>19. Worths(t, t, r, R, due, own, worth, p, n)
  <2>2. Within(own, p) = Within(due, p) + n /\ Within(due, p) \in Int
    BY <1>8, <1>10, <1>14, <1>15
  <2>3. worth[p] + n >= 0 /\ worth[p] + n >= Within(own, p) BY <1>8, <1>18, <2>2
  <2>4. \A q \in Places : q # p => Within(own, q) <= Within(due, q) BY <1>8, <1>14, <1>15
  <2>5. \A d \in Dirs : d # p => t[d] + Awaits(R, d) <= t[d] + Awaits(r, d)
    <3>1. \A d \in Dirs : t[d] \in Int BY <1>6
    <3>2. \A d \in Dirs : d # p => Awaits(R, d) = 0 /\ Awaits(r, d) = 0
      BY <1>5, <1>16 DEF Awaits
    <3> QED BY <3>1, <3>2
  <2>6. p \in Dirs => t[p] + Awaits(R, p) <= t[p] + Awaits(r, p) + n
    <3>1. p \in Dirs => t[p] \in Int BY <1>6
    <3>2. Awaits(R, p) = n /\ Awaits(r, p) = 0 BY <1>5, <1>16 DEF Awaits
    <3> QED BY <1>8, <3>1, <3>2
  <2> QED BY <2>3, <2>4, <2>5, <2>6 DEF Worths
<1>20. PICK x \in Int : x = AsI64 BY StateTypes
<1>21. -n <= Cap
  <2>1. CASE -n <= Largest
    <3>1. Largest <= Largest * Cardinality(Files)
      <4>1. PICK m \in Nat : m = Cardinality(Files) BY Finite
      <4>2. m # 0 BY <1>8, <4>1, Finite, FS_EmptySet
      <4>3. \A j \in Nat, k \in Nat : k # 0 => j <= j * k BY SMT
      <4> QED BY <4>1, <4>2, <4>3, Constants
    <3> QED BY <1>8, <2>1, <3>1, WordHolds, Constants
  <2>2. CASE p \in Dirs /\ -n = t[p]
    <3>1. PICK cl, o : cl = client /\ o = ops OBVIOUS
    <3>2. cl \in [Clients -> Records] /\ o \in 0..MaxOps /\ \A b \in Clients : Shape(cl[b])
      BY <3>1, StateTypes
    <3>3. Bounded(z, t, cl, x, o) BY <1>1, <1>2, <1>20, <3>1 DEF KeptBy
    <3>4. \A d \in Dirs : t[d] <= Cap BY <1>6, <3>2, <3>3, BoundsOf
    <3> QED BY <2>2, <3>4
  <2> QED BY <1>13, <2>1, <2>2
<1>22. ASSUME NEW w \in Int, w = x + n \/ w = 0 PROVE Bounds(z, z, t, t, r, R, x, w)
  <2>1. Late(R) = 0 /\ Late(r) = 0 /\ Fall(R) = 0 /\ Fall(r) = Cap
    BY <1>5, <1>8, <1>16 DEF Late, Fall
  <2>2. Room(z, r) \in Int BY <1>6, RoomNat
  <2>4. w <= x + Room(z, r) - Room(z, R) \/ w = 0 BY <1>8, <1>13, <1>22, <2>2
  <2>5. \A d \in Dirs : t[d] + Late(R) <= t[d] + Late(r) + Room(z, r) - Room(z, R)
    <3>1. \A d \in Dirs : t[d] \in Int BY <1>6
    <3> QED BY <1>13, <2>1, <2>2, <3>1
  <2>6. w >= x - Fall(r) + Fall(R) \/ w = 0 BY <1>8, <1>21, <1>22, <2>1, WordHolds
  <2>7. Fall(R) <= Fall(r) /\ Room(z, R) <= Room(z, r) BY <1>13, <2>1, <2>2, WordHolds
  <2> QED BY <2>4, <2>5, <2>6, <2>7 DEF Bounds
<1>23. ASSUME NEW w \in Int, w = x + n \/ w = 0, w + leak' >= x + leak + n
       PROVE  KeptIn(size', tree', client', w, leak', ops')
  <2>1. R.files \subseteq client[c].files /\ n \in Int BY <1>2, <1>8, <1>16
  <2>2. Books(size, size', tree, tree', client[c], R, due, own, gap[c], h) BY <1>2, <1>5, <1>17
  <2>3. Worths(tree, tree', client[c], R, due, own, worth, p, n) BY <1>2, <1>5, <1>19
  <2>4. Bounds(size, size', tree, tree', client[c], R, AsI64, w)
    BY <1>2, <1>5, <1>20, <1>22, <1>23
  <2>5. w + leak' >= AsI64 + leak + n BY <1>20, <1>23
  <2> QED BY <1>1, <1>3, <1>5, <1>8, <1>10, <1>12, <2>1, <2>2, <2>3, <2>4, <2>5, KeptGo
<1>24. PICK k \in Int, m \in Int : k = leak /\ m = leak' BY StateTypes DEF Base, Typed
<1>25. \/ cached' = (cached + n) % Word /\ m = k
       \/ cached' = 0 /\ AsI64' = 0 /\ m >= k /\ m >= k + x + n /\ ~(r.seen >= -n)
  BY <1>2, <1>7, <1>8, <1>20, <1>24, SubEffect
<1>26. CASE cached' = (cached + n) % Word /\ m = k
  <2>1. PICK w \in Int : w = x + n BY <1>8
  <2>2. w + leak' >= x + leak + n BY <1>8, <1>24, <1>26, <2>1
  <2>3. KeptIn(size', tree', client', w, leak', ops') BY <1>23, <2>1, <2>2
  <2>4. w = AsI64 + n BY <1>20, <2>1
  <2>5. Kept' /\ AsI64' = w BY <1>8, <1>26, <2>3, <2>4, SignedMove
  <2> QED BY <1>2, <1>7, <2>4, <2>5
<1>27. CASE cached' = 0 /\ AsI64' = 0 /\ m >= k /\ m >= k + x + n /\ ~(r.seen >= -n)
  <2>1. 0 + leak' >= x + leak + n
    <3>1. PICK i \in Int : i = n BY <1>8
    <3>2. m >= k + x + i BY <1>27, <3>1, Zenon
    <3>3. 0 + m >= x + k + i BY <3>1, <3>2
    <3>4. leak = k /\ leak' = m BY <1>24
    <3> QED BY <3>1, <3>3, <3>4, Zenon
  <2>2. KeptIn(size', tree', client', 0, leak', ops') BY <1>23, <2>1
  <2>3. Kept' BY <1>27, <2>2 DEF Kept
  <2> QED BY <1>2, <1>7, <1>27, <2>3
<1> QED BY <1>25, <1>26, <1>27

\* The record after update_size.
TreeGoes(R, r) ==
  /\ R.op = r.op /\ R.files = r.files /\ R.from = r.from /\ R.to = r.to /\ R.bytes = r.bytes
  /\ R.then = r.then /\ R.owed = r.owed /\ R.at = r.then

\* Where an allocation goes on after update_size.
LEMMA TreeThen ==
  ASSUME NEW r \in Records, Shape(r), r.at = "tree"
  PROVE  /\ r.then \in {"create", "open", "done", "copy", "remove", "prune", "move", "rename"}
         /\ r.op \in {"write", "async", "sync", "copy", "delete", "delete_dir", "rename"}
<1>1. r.op \in {"write", "async", "sync", "copy", "delete", "delete_dir", "rename"}
  BY KindLabels
<1>2. CASE r.op = "write" BY <1>1, <1>2 DEF Shape, WriteShape
<1>3. CASE r.op \in {"async", "sync"} BY <1>1, <1>3 DEF Shape, WriterShape
<1>4. CASE r.op = "copy" BY <1>1, <1>4 DEF Shape, CopyShape
<1>5. CASE r.op = "delete" BY <1>1, <1>5 DEF Shape, DeleteShape
<1>6. CASE r.op = "delete_dir" BY <1>1, <1>6 DEF Shape, DeleteDirShape
<1>7. CASE r.op = "rename" BY <1>1, <1>7 DEF Shape, RenameShape
<1> QED BY <1>1, <1>2, <1>3, <1>4, <1>5, <1>6, <1>7

\* The book of a client is the same after update_size.
LEMMA TreeBook ==
  ASSUME NEW r \in Records, Shape(r), r.at = "tree", NEW R \in Records, TreeGoes(R, r),
         NEW z \in [Files -> 0..Largest], NEW t \in [Dirs -> Nat], NEW u \in [Dirs -> Nat], NEW due \in [Files -> Int],
         NEW g \in Int, Book(z, t, r, due, g),
         r.op = "delete_dir" => u[r.from[1]] = 0
  PROVE  Book(z, u, R, due, g)
<1>1. /\ R.op = r.op /\ R.from = r.from /\ R.to = r.to /\ R.bytes = r.bytes
      /\ R.then = r.then /\ R.owed = r.owed /\ R.at = r.then
  BY DEF TreeGoes
<1>2. r.op \in {"write", "async", "sync", "copy", "delete", "delete_dir", "rename"} BY TreeThen
<1>4. CASE r.op = "write"
  <2>0. r.to \in Files /\ r.then = "create" /\ ((r.delta > 0 /\ r.owed = 0) \/ (r.delta < 0 /\ r.owed = -r.delta))
    BY <1>4 DEF Shape, WriteShape
  <2>1. WriteBook(z, r, due, g) BY <1>4 DEF Book
  <2>2. due[r.to] = r.bytes /\ z[r.to] + r.delta = r.bytes /\ g = z[r.to] - due[r.to]
    BY <2>1 DEF WriteBook
  <2>3. z[r.to] \in Int /\ r.delta \in Int /\ r.bytes \in Int BY <2>0, SizesInt, FieldTypes
  <2>4. r.owed = z[r.to] - r.bytes \/ (r.owed = 0 /\ z[r.to] <= r.bytes) BY <2>0, <2>2, <2>3
  <2>5. WriteBook(z, R, due, g) BY <1>1, <2>0, <2>2, <2>4 DEF WriteBook
  <2> QED BY <1>1, <1>4, <2>5 DEF Book
<1>5. CASE r.op \in {"async", "sync"}
  <2>1. WriterBook(z, r, due, g) BY <1>5 DEF Book
  <2>2. WriterBook(z, R, due, g) BY <1>1, <2>1 DEF WriterBook
  <2> QED BY <1>1, <1>5, <2>2 DEF Book
<1>6. CASE r.op = "copy"
  <2>0. r.then = "copy" BY <1>6 DEF Shape, CopyShape
  <2>1. CopyBook(z, r, due, g) BY <1>6 DEF Book
  <2>2. CopyBook(z, R, due, g) BY <1>1, <2>0, <2>1 DEF CopyBook
  <2> QED BY <1>1, <1>6, <2>2 DEF Book
<1>7. CASE r.op = "delete"
  <2>0. r.then = "remove" BY <1>7 DEF Shape, DeleteShape
  <2>1. DeleteBook(z, r, due, g) BY <1>7 DEF Book
  <2>2. DeleteBook(z, R, due, g) BY <1>1, <2>0, <2>1 DEF DeleteBook
  <2> QED BY <1>1, <1>7, <2>2 DEF Book
<1>8. CASE r.op = "delete_dir"
  <2>0. r.then = "prune" BY <1>8 DEF Shape, DeleteDirShape
  <2>1. DeleteDirBook(z, t, r, due, g) BY <1>8 DEF Book
  <2>2. DeleteDirBook(z, u, R, due, g) BY <1>1, <1>8, <2>0, <2>1 DEF DeleteDirBook
  <2> QED BY <1>1, <1>8, <2>2 DEF Book
<1>9. CASE r.op = "rename"
  <2>0. r.then = "move" \/ r.then = "rename" BY <1>9 DEF Shape, RenameShape
  <2>1. RenameBook(z, r, due, g) BY <1>9 DEF Book
  <2>2. RenameBook(z, R, due, g) BY <1>1, <2>0, <2>1 DEF RenameBook
  <2> QED BY <1>1, <1>9, <2>2 DEF Book
<1> QED BY <1>2, <1>4, <1>5, <1>6, <1>7, <1>8, <1>9

\* What a client puts on the tree of its directory, and what is lost for it.
Grown(r, t, u, n, a) ==
  /\ a = IF n < 0 THEN -n ELSE 0
  /\ r.dir \in Dirs => n = t[r.dir] + r.delta /\ u[r.dir] = n + a
  /\ r.dir \notin Dirs => n = 0
  /\ \A d \in Dirs : d # r.dir => u[d] = t[d]

\* What update_size changes: one directory, and what saturation swallows is lost from the
\* account.
LEMMA TreeGrown ==
  ASSUME Base, Base', NEW c \in Clients, AllocTree(c)
  PROVE  \E n \in Int, a \in Nat : Grown(client[c], tree, tree', n, a) /\ leak' = leak + a
<1>1. PICK n \in Int :
           /\ n = IF client[c].dir = Root THEN 0 ELSE tree[client[c].dir] + client[c].delta
           /\ Leak(IF n < 0 THEN -n ELSE 0)
           /\ client[c].dir = Root => tree' = tree
           /\ client[c].dir # Root =>
                client[c].dir \in Dirs /\ tree' = [tree EXCEPT ![client[c].dir] = IF n > 0 THEN n ELSE 0]
  BY TreeEffect DEF Base
<1>2. PICK a \in Nat : a = IF n < 0 THEN -n ELSE 0 OBVIOUS
<1>3. leak' = leak + a BY <1>1, <1>2 DEF Leak
<1>4. PICK r, t, u : r = client[c] /\ t = tree /\ u = tree' OBVIOUS
<1>5. t \in [Dirs -> Nat] BY <1>4, StateTypes
<1>6. Grown(r, t, u, n, a)
  <2>1. CASE r.dir = Root BY <1>1, <1>2, <1>4, <2>1, Constants DEF Grown
  <2>2. CASE r.dir # Root
    <3>1. r.dir \in Dirs /\ n = t[r.dir] + r.delta /\ u = [t EXCEPT ![r.dir] = IF n > 0 THEN n ELSE 0]
      BY <1>1, <1>4, <2>2
    <3>2. u[r.dir] = IF n > 0 THEN n ELSE 0 BY <1>5, <3>1
    <3>3. u[r.dir] = n + a BY <1>2, <3>2
    <3>4. \A d \in Dirs : d # r.dir => u[d] = t[d] BY <1>5, <3>1
    <3> QED BY <1>2, <3>1, <3>3, <3>4 DEF Grown
  <2> QED BY <2>1, <2>2
<1> QED BY <1>3, <1>4, <1>6

\* `update_size' of the tree, which saturates at zero, keeps the books.
LEMMA AllocTreeKept ==
  ASSUME Base, Base', Kept, NEW c \in Clients, AllocTree(c)
  PROVE  Kept'
<1>1. PICK due, gap, worth : KeptBy(due, gap, worth) BY KeptHas
<1>2. PICK r, z, t, u, p : r = client[c] /\ z = size /\ t = tree /\ u = tree' /\ p = r.dir
  OBVIOUS
<1>3. PICK R : Moves(c, R) /\ Keeps(R, client[c]) /\ R.at = client[c].then /\ R.then = client[c].then /\ R.acc = client[c].acc /\ R.owed = client[c].owed
  BY TreeMoves DEF Base, AllocTree
<1>4. TreeGoes(R, r) /\ R \in Records BY <1>2, <1>3 DEF TreeGoes, Keeps, Moves
<1>5. r.at = "tree" /\ ops' = ops /\ size' = z /\ cached' = cached
  BY <1>2 DEF AllocTree, Goes, bounds
<1>6. /\ r \in Records /\ Shape(r) /\ Book(z, t, r, due, gap[c]) /\ gap[c] \in Int
      /\ due \in [Files -> Int] /\ worth \in [Places -> Int]
      /\ z \in [Files -> 0..Largest] /\ t \in [Dirs -> Nat] /\ z \in [Files -> Int]
  BY <1>1, <1>2, StateTypes, BookOf
<1>7. u \in [Dirs -> Nat] BY <1>2 DEF Base, Typed
<1>8. PICK n \in Int, a \in Nat : Grown(r, t, u, n, a) /\ leak' = leak + a BY <1>2, TreeGrown
<1>9. p \in Places /\ r.delta \in Int BY <1>2, <1>6, FieldTypes
<1>10. /\ r.then \in {"create", "open", "done", "copy", "remove", "prune", "move", "rename"}
       /\ R.op = r.op /\ R.files = r.files /\ R.to = r.to /\ R.then = r.then /\ R.owed = r.owed /\ R.at = r.then
  BY <1>4, <1>5, <1>6, TreeThen DEF TreeGoes
<1>11. Book(z, u, R, due, gap[c])
  <2>1. ASSUME r.op = "delete_dir" PROVE u[r.from[1]] = 0
    <3>1. PICK d \in Dirs : r.from = <<d>> /\ r.dir = d
      BY <1>5, <1>6, <2>1 DEF Shape, DeleteDirShape
    <3>2. r.from[1] = d BY <3>1, OneTuple
    <3>3. DeleteDirBook(z, t, r, due, gap[c]) BY <1>6, <2>1 DEF Book
    <3>4. r.delta = -t[d] /\ t[d] \in Int BY <1>5, <1>6, <3>2, <3>3 DEF DeleteDirBook
    <3>5. n = t[d] + r.delta /\ u[d] = n + a /\ a = IF n < 0 THEN -n ELSE 0
      BY <1>8, <3>1 DEF Grown
    <3> QED BY <3>2, <3>4, <3>5
  <2>2. PICK g \in Int : g = gap[c] BY <1>6
  <2>3. Book(z, t, r, due, g) BY <1>6, <2>2
  <2>4. Book(z, u, R, due, g) BY <1>4, <1>5, <1>6, <1>7, <2>1, <2>3, TreeBook
  <2> QED BY <2>2, <2>4
<1>12. Books(z, z, t, u, r, R, due, due, gap[c], gap[c])
  <2>0. r.files \cup R.files = r.files BY <1>10
  <2>1. Local(z, z, t, u, due, due, r.files \cup R.files)
    <3>1. PICK f \in r.files : f \in In(r.dir) BY <1>5, <1>6, TreeFile
    <3>2. f[1] = r.dir BY <3>1 DEF In
    <3>3. \A d \in Dirs : d # r.dir => u[d] = t[d] BY <1>8 DEF Grown
    <3> QED BY <2>0, <3>1, <3>2, <3>3 DEF Local
  <2>2. ASSUME NEW g \in r.files, r.op # "delete_dir" PROVE due[g] >= 0
    BY <1>1, <1>2, <2>2, DueNat
  <2>3. Settled(z, R, due, r.files \cup R.files) BY <1>10, <2>0, <2>2 DEF Settled
  <2>4. All(z) - All(z) = All(due) - All(due) + gap[c] - gap[c]
    <3>1. All(due) \in Int /\ All(z) \in Int BY <1>6, AllInt
    <3> QED BY <1>6, <3>1
  <2> QED BY <1>11, <2>1, <2>3, <2>4 DEF Books
<1>13. \A d \in Dirs : t[d] \in Int /\ u[d] \in Int BY <1>6, <1>7
<1>14. Worths(t, u, r, R, due, due, worth, p, a)
  <2>1. worth[p] \in Int /\ worth[p] >= 0 /\ worth[p] >= Within(due, p) /\ Within(due, p) \in Int
    BY <1>1, <1>6, <1>9, WithinInt DEF KeptBy, Worthy
  <2>3. worth[p] + a >= 0 /\ worth[p] + a >= Within(due, p) BY <2>1
  <2>4. \A q \in Places : q # p => Within(due, q) <= Within(due, q) BY <1>6, WithinInt
  <2>5. \A d \in Dirs : d # p => u[d] + Awaits(R, d) <= t[d] + Awaits(r, d)
    <3>2. \A d \in Dirs : d # p => Awaits(R, d) = 0 /\ Awaits(r, d) = 0
      BY <1>2, <1>10 DEF Awaits
    <3>3. \A d \in Dirs : d # p => u[d] = t[d] BY <1>2, <1>8 DEF Grown
    <3> QED BY <1>13, <3>2, <3>3
  <2>6. ASSUME p \in Dirs PROVE u[p] + Awaits(R, p) <= t[p] + Awaits(r, p) + a
    <3>1. n = t[p] + r.delta /\ u[p] = n + a BY <1>2, <1>8, <2>6 DEF Grown
    <3>2. Awaits(R, p) = 0 /\ Awaits(r, p) = r.delta BY <1>2, <1>5, <1>10 DEF Awaits
    <3> QED BY <1>9, <1>13, <2>6, <3>1, <3>2
  <2> QED BY <2>3, <2>4, <2>5, <2>6 DEF Worths
<1>15. PICK x \in Int : x = AsI64 BY StateTypes
<1>16. Bounds(z, z, t, u, r, R, x, x)
  <2>1. Late(R) = 0 /\ Fall(R) = 0 /\ Fall(r) = 0 BY <1>5, <1>10 DEF Late, Fall
  <2>2. Late(r) = IF r.delta > 0 THEN r.delta ELSE 0 BY <1>5 DEF Late
  <2>3. Room(z, R) = Room(z, r) BY <1>5, <1>10 DEF Room
  <2>4. Room(z, r) \in Int BY <1>6, RoomNat
  <2>5. ASSUME NEW d \in Dirs PROVE u[d] <= t[d] + Late(r)
    <3>1. CASE d = r.dir
      <4>1. n = t[d] + r.delta /\ u[d] = n + a /\ a = IF n < 0 THEN -n ELSE 0
        BY <1>8, <3>1 DEF Grown
      <4>2. t[d] \in Nat BY <1>6
      <4> QED BY <1>9, <2>2, <4>1, <4>2
    <3>2. CASE d # r.dir
      <4>1. u[d] = t[d] BY <1>8, <3>2 DEF Grown
      <4> QED BY <1>9, <1>13, <2>2, <4>1
    <3> QED BY <3>1, <3>2
  <2>6. Late(r) \in Int BY <1>6, OfRecord
  <2>7. \A d \in Dirs : u[d] + Late(R) <= t[d] + Late(r) + Room(z, r) - Room(z, R)
    BY <1>13, <2>1, <2>3, <2>4, <2>5, <2>6
  <2>8. x <= x + Room(z, r) - Room(z, R) /\ x >= x - Fall(r) + Fall(R) /\ Room(z, R) <= Room(z, r) /\ Fall(R) <= Fall(r)
    BY <1>15, <2>1, <2>3, <2>4
  <2> QED BY <2>7, <2>8 DEF Bounds
<1>17. x + leak' >= x + leak + a BY <1>8, <1>15, StateTypes
<1>18. KeptIn(size', tree', client', AsI64, leak', ops')
  <2>1. R.files \subseteq client[c].files BY <1>2, <1>10
  <2>2. Books(size, size', tree, tree', client[c], R, due, due, gap[c], gap[c])
    BY <1>2, <1>5, <1>12
  <2>3. Worths(tree, tree', client[c], R, due, due, worth, p, a) BY <1>2, <1>14
  <2>4. Bounds(size, size', tree, tree', client[c], R, AsI64, AsI64) BY <1>2, <1>5, <1>15, <1>16
  <2>5. AsI64 + leak' >= AsI64 + leak + a /\ AsI64 \in Int /\ a \in Int BY <1>15, <1>17
  <2> QED BY <1>1, <1>3, <1>5, <1>6, <1>9, <2>1, <2>2, <2>3, <2>4, <2>5, KeptGo
<1>19. AsI64' = AsI64 BY <1>5, SignedSame
<1> QED BY <1>18, <1>19 DEF Kept

------------------------------------------------------------------------------
(* Steps that change one file, and the end of a directory. *)

\* A step that changes the size of one file of its own and nothing of the account keeps the
\* books.
LEMMA TouchKept ==
  ASSUME Base, Base', NEW c \in Clients, NEW R, Moves(c, R), R.files = client[c].files, R.op = client[c].op,
         client[c].op # "delete_dir", ops' = ops, tree' = tree, cached' = cached, leak' = leak,
         NEW due, NEW gap, NEW worth, KeptBy(due, gap, worth),
         NEW f \in client[c].files, NEW s \in Int,
         size'[f] = size[f] + s, \A g \in Files : g # f => size'[g] = size[g],
         Book(size', tree, R, due, gap[c] + s),
         client[c].at \notin {"tree", "load", "sub"}, R.at \notin {"tree", "load", "sub"},
         Room(size', R) <= Room(size, client[c])
  PROVE  Kept'
<1>1. PICK r, z, y, t, h : r = client[c] /\ z = size /\ y = size' /\ t = tree /\ h = gap[c] + s
  OBVIOUS
<1>2. /\ r \in Records /\ Shape(r) /\ gap[c] \in Int /\ h \in Int
      /\ due \in [Files -> Int] /\ worth \in [Places -> Int]
      /\ z \in [Files -> 0..Largest] /\ t \in [Dirs -> Nat] /\ z \in [Files -> Int]
  BY <1>1, StateTypes, BookOf
<1>3. y \in [Files -> 0..Largest] BY <1>1 DEF Base, Typed
<1>4. y \in [Files -> Int] BY <1>3, SizesInt
<1>5. f \in Files /\ f[1] \in Places BY <1>1, <1>2, FieldTypes DEF Files
<1>6. PICK p : p = f[1] OBVIOUS
<1>7. All(y) = All(z) - z[f] + y[f] BY <1>1, <1>2, <1>4, <1>5, AllChange
<1>8. All(y) - All(z) = All(due) - All(due) + h - gap[c]
  <2>1. All(due) \in Int /\ All(z) \in Int /\ z[f] \in Int BY <1>2, <1>5, AllInt
  <2>2. y[f] = z[f] + s BY <1>1
  <2> QED BY <1>1, <1>2, <1>7, <2>1, <2>2
<1>9. Books(z, y, t, t, r, R, due, due, gap[c], h)
  <2>0. r.files \cup R.files = r.files BY <1>1
  <2>1. Local(z, y, t, t, due, due, r.files \cup R.files) BY <1>1, <2>0 DEF Local
  <2>2. ASSUME NEW g \in r.files PROVE due[g] >= 0
    BY <1>1, <2>2, DueNat
  <2>3. Settled(y, R, due, r.files \cup R.files) BY <1>1, <2>0, <2>2 DEF Settled
  <2>4. Book(y, t, R, due, h) BY <1>1
  <2> QED BY <1>8, <2>1, <2>3, <2>4 DEF Books
<1>10. Worths(t, t, r, R, due, due, worth, p, 0)
  <2>1. worth[p] \in Int /\ worth[p] >= 0 /\ worth[p] >= Within(due, p)
    BY <1>2, <1>5, <1>6 DEF KeptBy, Worthy
  <2>2. worth[p] + 0 >= 0 /\ worth[p] + 0 >= Within(due, p) BY <2>1
  <2>3. \A q \in Places : q # p => Within(due, q) <= Within(due, q) BY <1>2, WithinInt
  <2>4. \A d : Awaits(R, d) = 0 /\ Awaits(r, d) = 0 BY <1>1 DEF Awaits
  <2>5. \A d \in Dirs : t[d] \in Int BY <1>2
  <2>6. \A d \in Dirs : t[d] + Awaits(R, d) <= t[d] + Awaits(r, d) /\ t[d] + Awaits(R, d) <= t[d] + Awaits(r, d) + 0
    BY <2>4, <2>5
  <2> QED BY <2>2, <2>3, <2>6 DEF Worths
<1>11. PICK x \in Int : x = AsI64 BY StateTypes
<1>12. Bounds(z, y, t, t, r, R, x, x)
  <2>1. Late(R) = 0 /\ Late(r) = 0 /\ Fall(R) = 0 /\ Fall(r) = 0 BY <1>1 DEF Late, Fall
  <2>2. R \in Records /\ Shape(R) BY DEF Moves
  <2>3. Room(z, r) \in Int /\ Room(y, R) \in Int /\ Room(y, R) <= Room(z, r)
    BY <1>1, <1>2, <1>3, <2>2, RoomNat
  <2>4. \A d \in Dirs : t[d] \in Int BY <1>2
  <2>5. \A d \in Dirs : t[d] + Late(R) <= t[d] + Late(r) + Room(z, r) - Room(y, R)
    BY <2>1, <2>3, <2>4
  <2>6. x <= x + Room(z, r) - Room(y, R) /\ Fall(R) <= Fall(r) /\ x >= x - Fall(r) + Fall(R)
    BY <1>11, <2>1, <2>3
  <2> QED BY <2>3, <2>5, <2>6 DEF Bounds
<1>13. KeptIn(size', tree', client', AsI64, leak', ops')
  <2>1. Books(size, size', tree, tree', client[c], R, due, due, gap[c], h) BY <1>1, <1>9
  <2>2. Worths(tree, tree', client[c], R, due, due, worth, p, 0) BY <1>1, <1>10
  <2>3. Bounds(size, size', tree, tree', client[c], R, AsI64, AsI64) BY <1>1, <1>11, <1>12
  <2>4. AsI64 + leak' >= AsI64 + leak + 0 /\ AsI64 \in Int /\ 0 \in Int BY StateTypes
  <2> QED BY <1>2, <1>5, <1>6, <2>1, <2>2, <2>3, <2>4, KeptGo
<1>14. AsI64' = AsI64 BY SignedSame
<1> QED BY <1>13, <1>14 DEF Kept

\* A File::create of a write request that succeeds keeps the books.
LEMMA WriteEmptiedKept ==
  ASSUME Base, Base', Kept, NEW c \in Clients, Goes(c, "create", [client[c] EXCEPT !.at = "body", !.owed = 0]),
         size' = [size EXCEPT ![client[c].to] = 0], UNCHANGED history, UNCHANGED <<cached, tree>>
  PROVE  Kept'
<1>1. PICK R : Moves(c, R) /\ Keeps(R, client[c]) /\ R.at = "body" /\ R.owed = 0 /\ R.acc = client[c].acc /\ R.then = client[c].then
  BY CreateMoves DEF Base
<1>2. PICK due, gap, worth : KeptBy(due, gap, worth) BY KeptHas
<1>3. PICK r, z, y : r = client[c] /\ z = size /\ y = size' OBVIOUS
<1>4. /\ r \in Records /\ Shape(r) /\ r.at = "create" /\ r.op = "write" /\ z \in [Files -> 0..Largest]
      /\ gap[c] \in Int /\ due \in [Files -> Int]
  BY <1>2, <1>3, StateTypes, KindLabels, BookOf DEF Goes
<1>5. R.op = "write" /\ R.files = r.files /\ R.to = r.to /\ R.bytes = r.bytes
  BY <1>1, <1>3, <1>4 DEF Keeps
<1>6. r.to \in Files /\ r.to \in r.files BY <1>4 DEF Shape, WriteShape
<1>7. ops' = ops /\ tree' = tree /\ cached' = cached /\ leak' = leak /\ y = [z EXCEPT ![r.to] = 0]
  BY <1>3 DEF Goes, bounds, history
<1>8. y[r.to] = 0 /\ \A g \in Files : g # r.to => y[g] = z[g] BY <1>4, <1>6, <1>7
<1>9. PICK s : s = -z[r.to] OBVIOUS
<1>10. s \in Int /\ y[r.to] = z[r.to] + s /\ z[r.to] \in Int BY <1>4, <1>6, <1>8, <1>9, SizesInt
<1>11. Book(y, tree, R, due, gap[c] + s)
  <2>1. Book(z, tree, r, due, gap[c]) BY <1>2, <1>3, BookOf
  <2>2. WriteBook(z, r, due, gap[c]) BY <1>4, <2>1 DEF Book
  <2>3. due[r.to] = r.bytes /\ gap[c] = z[r.to] - due[r.to] /\ due[r.to] \in Int
    BY <1>4, <1>6, <2>2 DEF WriteBook
  <2>4. gap[c] + s = y[R.to] - due[R.to] /\ due[R.to] = R.bytes /\ y[R.to] = 0
    BY <1>5, <1>8, <1>9, <1>10, <2>3
  <2>5. WriteBook(y, R, due, gap[c] + s) BY <1>1, <2>4 DEF WriteBook
  <2> QED BY <1>5, <2>5 DEF Book
<1>12. Room(y, R) = 0 /\ Room(z, r) = 0 BY <1>1, <1>4, <1>5 DEF Room
<1>13. Room(size', R) <= Room(size, client[c]) BY <1>3, <1>12
<1>14. Book(size', tree, R, due, gap[c] + s) /\ size'[r.to] = size[r.to] + s /\ \A g \in Files : g # r.to => size'[g] = size[g]
  BY <1>3, <1>8, <1>10, <1>11
<1>15. /\ Moves(c, R) /\ R.files = client[c].files /\ R.op = client[c].op /\ client[c].op # "delete_dir"
       /\ client[c].at \notin {"tree", "load", "sub"} /\ R.at \notin {"tree", "load", "sub"} /\ r.to \in client[c].files
  BY <1>1, <1>3, <1>4, <1>5, <1>6
<1>16. ops' = ops /\ tree' = tree /\ cached' = cached /\ leak' = leak /\ s \in Int
  BY <1>7, <1>10
<1> QED BY <1>2, <1>13, <1>14, <1>15, <1>16, TouchKept

\* What an operation that ends where it is has in the books.
Owing(r, z, f, due, g) ==
  /\ f \in r.files /\ \A e \in r.files : e # f => due[e] = z[e]
  /\ g = z[f] - due[f] /\ z[f] <= due[f] + r.owed
  /\ r.at = "tree" => r.dir = f[1] /\ r.delta + r.owed >= 0

\* What a client that is dropped before update_size has in the books becomes what is lost.
LEMMA LeftBook ==
  ASSUME NEW r \in Records, Shape(r), r.at \in {"create", "tree"}, r.op # "delete_dir", r.op = "rename" => r.then # "rename",
         NEW z \in [Files -> 0..Largest], NEW t, NEW due \in [Files -> Int], NEW g \in Int, Book(z, t, r, due, g)
  PROVE  \E f \in Files : Owing(r, z, f, due, g)
<1>1. r.op \in {"write", "async", "sync", "copy", "delete", "rename"} BY KindLabels
<1>2. r.delta \in Int /\ r.owed \in Nat /\ r.bytes \in Int BY FieldTypes
<1>3. CASE r.op = "write"
  <2>1. r.to \in Files /\ r.files = {r.to} BY <1>3 DEF Shape, WriteShape
  <2>2. WriteBook(z, r, due, g) BY <1>3 DEF Book
  <2>3. due[r.to] = r.bytes /\ g = z[r.to] - due[r.to] /\ z[r.to] \in Int
    BY <2>1, <2>2, SizesInt DEF WriteBook
  <2>4. CASE r.at = "create"
    <3>1. z[r.to] <= due[r.to] + r.owed BY <1>2, <2>2, <2>3, <2>4 DEF WriteBook
    <3> QED BY <2>1, <2>3, <2>4, <3>1 DEF Owing
  <2>5. CASE r.at = "tree"
    <3>1. z[r.to] + r.delta = r.bytes BY <2>2, <2>5 DEF WriteBook
    <3>2. r.dir = r.to[1] /\ ((r.delta > 0 /\ r.owed = 0) \/ (r.delta < 0 /\ r.owed = -r.delta))
      BY <1>3, <2>5 DEF Shape, WriteShape
    <3>3. z[r.to] <= due[r.to] + r.owed /\ r.delta + r.owed >= 0 BY <1>2, <2>3, <3>1, <3>2
    <3> QED BY <2>1, <2>3, <3>2, <3>3 DEF Owing
  <2> QED BY <2>4, <2>5
<1>4. CASE r.op \in {"async", "sync"}
  <2>1. r.to \in Files /\ r.files = {r.to} /\ r.at = "tree" /\ r.dir = r.to[1] /\ r.delta > 0 /\ r.owed = 0
    BY <1>4 DEF Shape, WriterShape
  <2>2. WriterBook(z, r, due, g) BY <1>4 DEF Book
  <2>3. z[r.to] \in Int BY <2>1, SizesInt
  <2>4. due[r.to] = z[r.to] /\ g = z[r.to] - due[r.to] BY <2>1, <2>2, <2>3 DEF WriterBook
  <2> QED BY <1>2, <2>1, <2>3, <2>4 DEF Owing
<1>5. CASE r.op = "copy"
  <2>1. r.to \in Files /\ r.from \in Files /\ r.files = {r.from, r.to} /\ r.at = "tree" /\ r.dir = r.to[1] /\ r.delta > 0 /\ r.owed = 0
    BY <1>5 DEF Shape, CopyShape
  <2>2. CopyBook(z, r, due, g) BY <1>5 DEF Book
  <2>3. z[r.to] \in Nat /\ z[r.from] \in Nat BY <2>1, SizesInt
  <2>4. due[r.from] = z[r.from] /\ due[r.to] = z[r.to] + z[r.from] /\ g = z[r.to] - due[r.to]
    BY <2>1, <2>2 DEF CopyBook
  <2> QED BY <1>2, <2>1, <2>3, <2>4 DEF Owing
<1>6. CASE r.op = "delete"
  <2>1. r.from \in Files /\ r.files = {r.from} /\ r.at = "tree" /\ r.dir = r.from[1] /\ r.owed = -r.delta
    BY <1>6 DEF Shape, DeleteShape
  <2>2. DeleteBook(z, r, due, g) BY <1>6 DEF Book
  <2>3. z[r.from] \in Nat BY <2>1, SizesInt
  <2>4. due[r.from] = 0 /\ r.owed = z[r.from] /\ g = z[r.from] - due[r.from]
    BY <2>1, <2>2 DEF DeleteBook
  <2> QED BY <1>2, <2>1, <2>3, <2>4 DEF Owing
<1>7. CASE r.op = "rename"
  <2>1. /\ r.to \in Files /\ r.from \in Files /\ r.from # r.to /\ r.files = {r.from, r.to} /\ r.at = "tree" /\ r.then = "move"
        /\ r.dir = r.from[1] /\ r.delta = -r.bytes /\ r.owed = r.bytes
    BY <1>7 DEF Shape, RenameShape
  <2>2. RenameBook(z, r, due, g) BY <1>7 DEF Book
  <2>3. z[r.from] = r.bytes /\ z[r.to] = 0 /\ due[r.from] = 0 /\ due[r.to] = 0 /\ g = r.bytes - 0 - 0
    BY <2>1, <2>2 DEF RenameBook
  <2> QED BY <1>2, <2>1, <2>3 DEF Owing
<1> QED BY <1>1, <1>3, <1>4, <1>5, <1>6, <1>7

\* An operation ends where it is, and what it owes is lost.
LEMMA LeftKept ==
  ASSUME Base, Base', Kept, NEW c \in Clients, Moves(c, Idle), client[c].at \in {"create", "tree"},
         client[c].op # "delete_dir", client[c].op = "rename" => client[c].then # "rename",
         size' = size, tree' = tree, cached' = cached, ops' = ops, leak' = leak + client[c].owed
  PROVE  Kept'
<1>1. PICK due, gap, worth : KeptBy(due, gap, worth) BY KeptHas
<1>2. PICK r : r = client[c] OBVIOUS
<1>3. /\ r \in Records /\ Shape(r) /\ Book(size, tree, r, due, gap[c]) /\ gap[c] \in Int /\ due \in [Files -> Int]
      /\ size \in [Files -> 0..Largest]
  BY <1>1, <1>2, StateTypes, BookOf
<1>4. PICK f \in Files : Owing(r, size, f, due, gap[c])
  <2>1. r.at \in {"create", "tree"} /\ r.op # "delete_dir" /\ (r.op = "rename" => r.then # "rename")
    BY <1>2
  <2> QED BY <1>3, <2>1, LeftBook
<1>5. PICK a \in Nat : a = r.owed BY <1>3, FieldTypes
<1>6. /\ f \in client[c].files /\ \A e \in client[c].files : e # f => due[e] = size[e]
      /\ gap[c] = size[f] - due[f] /\ size'[f] <= due[f] + a
      /\ client[c].at = "tree" => client[c].dir = f[1] /\ client[c].delta + a >= 0
  BY <1>2, <1>4, <1>5 DEF Owing
<1>7. leak' = leak + a /\ client[c].at \notin {"load", "sub"} /\ \A g \in Files : g # f => size'[g] = size[g]
  BY <1>2, <1>5
<1> QED BY <1>1, <1>6, <1>7, KeptIdleFile

\* The File::create of a write request, which empties the file, keeps the books.
LEMMA WriteCreateKept ==
  ASSUME Base, Base', Kept, NEW c \in Clients, WriteCreate(c)
  PROVE  Kept'
<1>1. CASE /\ Goes(c, "create", [client[c] EXCEPT !.at = "body", !.owed = 0])
           /\ size' = [size EXCEPT ![client[c].to] = 0] /\ UNCHANGED history
  BY <1>1, WriteEmptiedKept DEF WriteCreate
<1>2. CASE Goes(c, "create", Idle) /\ Leak(client[c].owed) /\ UNCHANGED size
  <2>1. Moves(c, Idle) /\ client[c].at = "create" /\ ops' = ops BY <1>2, EndFacts
  <2>2. client[c].op = "write" BY <2>1, AtOp DEF Base
  <2>3. size' = size /\ tree' = tree /\ cached' = cached /\ leak' = leak + client[c].owed
    BY <1>2 DEF WriteCreate, Leak
  <2> QED BY <2>1, <2>2, <2>3, LeftKept
<1> QED BY <1>1, <1>2 DEF WriteCreate

\* A chunk that a writer appends, allocated from ALLOCATION_THRESHOLD on, keeps the books.
LEMMA WriterWriteKept ==
  ASSUME Base, Base', Kept, NEW c \in Clients, WriterWrite(c)
  PROVE  Kept'
<1>1. PICK R : /\ Moves(c, R) /\ Keeps(R, client[c]) /\ R.owed = client[c].owed + 1
               /\ R.op \in {"async", "sync"} /\ R.at \in {"open", "check"}
  BY WriterWriteMoves DEF Base
<1>2. PICK due, gap, worth : KeptBy(due, gap, worth) BY KeptHas
<1>3. PICK r, z, y : r = client[c] /\ z = size /\ y = size' OBVIOUS
<1>4. /\ r \in Records /\ Shape(r) /\ r.at = "open" /\ r.op \in {"async", "sync"} /\ z \in [Files -> 0..Largest]
      /\ gap[c] \in Int /\ due \in [Files -> Int]
  <2>1. client[c].at = "open" BY DEF WriterWrite
  <2> QED BY <1>2, <1>3, <2>1, StateTypes, KindLabels, BookOf
<1>5. R.op = r.op /\ R.files = r.files /\ R.to = r.to /\ R.owed = r.owed + 1
  BY <1>1, <1>3, <1>4 DEF Keeps
<1>6. r.to \in Files /\ r.to \in r.files BY <1>4, WriterTo
<1>7. ops' = ops /\ tree' = tree /\ cached' = cached /\ leak' = leak /\ y = [z EXCEPT ![r.to] = z[r.to] + 1]
  BY <1>3 DEF WriterWrite, Goes, bounds, history
<1>8. y[r.to] = z[r.to] + 1 /\ \A g \in Files : g # r.to => y[g] = z[g] BY <1>4, <1>6, <1>7
<1>9. z[r.to] \in Int /\ r.owed \in Int /\ due[r.to] \in Int /\ Largest \in Int
  BY <1>4, <1>6, SizesInt, FieldTypes, Constants
<1>10. Book(y, tree, R, due, gap[c] + 1)
  <2>1. Book(z, tree, r, due, gap[c]) BY <1>2, <1>3, BookOf
  <2>2. WriterBook(z, r, due, gap[c]) BY <1>4, <2>1 DEF Book
  <2>3. r.owed <= z[r.to] /\ due[r.to] = z[r.to] - r.owed /\ gap[c] = r.owed
    BY <2>2 DEF WriterBook
  <2>4. R.owed <= y[R.to] /\ due[R.to] = y[R.to] - R.owed /\ gap[c] + 1 = R.owed
    BY <1>5, <1>8, <1>9, <2>3
  <2>5. WriterBook(y, R, due, gap[c] + 1) BY <2>4 DEF WriterBook
  <2> QED BY <1>1, <2>5 DEF Book
<1>11. Room(y, R) = Largest - (z[r.to] + 1) + (r.owed + 1) /\ Room(z, r) = Largest - z[r.to] + r.owed
  BY <1>4, <1>5, <1>8 DEF Room
<1>12. Room(y, R) <= Room(z, r) BY <1>9, <1>11
<1>13. Room(size', R) <= Room(size, client[c]) BY <1>3, <1>12
<1>14. Book(size', tree, R, due, gap[c] + 1) /\ size'[r.to] = size[r.to] + 1 /\ \A g \in Files : g # r.to => size'[g] = size[g]
  BY <1>3, <1>8, <1>10
<1>15. /\ Moves(c, R) /\ R.files = client[c].files /\ R.op = client[c].op /\ client[c].op # "delete_dir"
       /\ client[c].at \notin {"tree", "load", "sub"} /\ R.at \notin {"tree", "load", "sub"} /\ r.to \in client[c].files
  BY <1>1, <1>3, <1>4, <1>5, <1>6
<1>16. ops' = ops /\ tree' = tree /\ cached' = cached /\ leak' = leak BY <1>7
<1> QED BY <1>2, <1>13, <1>14, <1>15, <1>16, TouchKept

\* The removal of a directory from the tree keeps the books.
LEMMA DeletePruneKept ==
  ASSUME Base, Base', Kept, NEW c \in Clients, DeletePrune(c)
  PROVE  Kept'
<1>1. PICK R : Moves(c, R) /\ Keeps(R, client[c]) /\ R.at = "remove" /\ R.owed = client[c].owed /\ R.acc = client[c].acc /\ R.then = client[c].then
  BY PruneMoves DEF Base, DeletePrune
<1>2. PICK due, gap, worth : KeptBy(due, gap, worth) BY KeptHas
<1>3. PICK r, t : r = client[c] /\ t = tree OBVIOUS
<1>4. r \in Records /\ Shape(r) /\ r.at = "prune" /\ r.op = "delete_dir" /\ t \in [Dirs -> Nat]
  BY <1>3, StateTypes, KindLabels DEF DeletePrune, Goes
<1>5. R.op = r.op /\ R.files = r.files /\ R.from = r.from /\ R.owed = r.owed
  BY <1>1, <1>3 DEF Keeps
<1>6. ops' = ops /\ size' = size /\ cached' = cached /\ leak' = leak /\ tree' = [t EXCEPT ![r.from[1]] = 0]
  BY <1>3 DEF DeletePrune, Goes, bounds, history
<1>7. DeleteDirBook(size, tree, r, due, gap[c]) BY <1>2, <1>3, <1>4, BookOf DEF Book
<1>8. t[r.from[1]] = 0 BY <1>3, <1>4, <1>7 DEF DeleteDirBook
<1>9. tree' = tree
  <2>1. [t EXCEPT ![r.from[1]] = 0] = t BY <1>4, <1>8
  <2> QED BY <1>3, <1>6, <2>1
<1>10. Book(size, tree, R, due, gap[c])
  <2>1. DeleteDirBook(size, tree, R, due, gap[c])
    BY <1>1, <1>3, <1>4, <1>5, <1>7 DEF DeleteDirBook
  <2> QED BY <1>4, <1>5, <2>1 DEF Book
<1>11. Room(size, R) = 0 /\ Room(size, r) = 0 /\ Fall(R) = 0 /\ Fall(r) = 0
  BY <1>1, <1>4, <1>5 DEF Room, Fall
<1>12. Room(size, R) <= Room(size, client[c]) /\ Fall(R) <= Fall(client[c]) /\ Fall(client[c]) <= Fall(R)
  BY <1>3, <1>11
<1>13. R.at # "tree" /\ client[c].at # "tree" BY <1>1, <1>3, <1>4
<1> QED BY <1>1, <1>2, <1>3, <1>5, <1>6, <1>9, <1>10, <1>12, <1>13, KeptSame

\* A directory that is to be deleted stays.
LEMMA LeftDirKept ==
  ASSUME Base, Base', Kept, NEW c \in Clients, Moves(c, Idle), client[c].at \in {"tree", "prune"},
         Doing(c, "delete_dir"),
         size' = size, tree' = tree, cached' = cached, ops' = ops, leak' = leak + client[c].owed
  PROVE  Kept'
<1>1. PICK due, gap, worth : KeptBy(due, gap, worth) BY KeptHas
<1>2. PICK r, z : r = client[c] /\ z = size OBVIOUS
<1>3. r.op = "delete_dir" BY <1>2 DEF Doing
<1>4. /\ r \in Records /\ Shape(r) /\ Book(z, tree, r, due, gap[c]) /\ gap[c] \in Int /\ due \in [Files -> Int]
      /\ z \in [Files -> Int]
  BY <1>1, <1>2, StateTypes, BookOf
<1>5. PICK d \in Dirs : /\ r.from = <<d>> /\ r.files = In(d)
                        /\ r.at = "tree" => r.dir = d /\ r.delta < 0
  BY <1>3, <1>4 DEF Shape, DeleteDirShape
<1>51. r.files = In(d) /\ (r.at = "tree" => r.dir = d /\ r.owed = -r.delta)
  BY <1>3, <1>4, <1>5 DEF Shape, DeleteDirShape
<1>6. r.from[1] = d /\ d \in Places
  <2>1. r.from = <<d>> BY <1>5, Zenon
  <2>2. r.from[1] = d BY <2>1, OneTuple, Zenon
  <2> QED BY <2>2, DirParts
<1>7. PICK a \in Nat : a = r.owed BY <1>4, FieldTypes
<1>8. Within(due, d) = Within(z, d) - a /\ gap[c] = a
  <2>1. DeleteDirBook(z, tree, r, due, gap[c]) BY <1>3, <1>4 DEF Book
  <2> QED BY <1>6, <1>7, <2>1 DEF DeleteDirBook
<1>9. PICK own \in [Files -> Int] : Righted(own, z, z, due, d) BY <1>4, <1>6, PlaceRight
<1>10. /\ \A f \in Files : own[f] = IF f \in In(d) THEN z[f] ELSE due[f]
       /\ All(z) - All(z) = All(own) - All(due) - (Within(z, d) - Within(due, d))
       /\ Within(own, d) = Within(z, d)
       /\ \A q \in Places : q # d => Within(own, q) <= Within(due, q)
  BY <1>9 DEF Righted
<1>11. Within(due, d) \in Int /\ Within(z, d) \in Int BY <1>4, <1>6, WithinInt
<1>12. All(size') - All(size) = All(own) - All(due) - gap[c] BY <1>2, <1>8, <1>10, <1>11
<1>13. Within(own, d) <= Within(due, d) + a BY <1>8, <1>10, <1>11
<1>14. client[c].files = In(d) /\ \A f \in In(d) : f \in Files BY <1>2, <1>51 DEF In
<1>15. \A f \in Files : f \notin client[c].files => size'[f] = size[f] /\ own[f] = due[f]
  BY <1>10, <1>14
<1>16. \A f \in client[c].files : own[f] = size'[f] BY <1>2, <1>10, <1>14
<1>17. leak' = leak + a /\ client[c].at \notin {"load", "sub"} BY <1>2, <1>7
<1>18. client[c].at = "tree" => client[c].dir = d /\ client[c].delta + a >= 0
  <2>1. r.delta \in Int BY <1>4, FieldTypes
  <2> QED BY <1>2, <1>7, <1>51, <2>1
<1> QED BY <1>1, <1>6, <1>10, <1>12, <1>13, <1>15, <1>16, <1>17, <1>18, KeptIdle

\* The account of a file that was to move goes back to the place it is in.
LEMMA WorthBack ==
  ASSUME NEW t \in [Dirs -> Nat], NEW cl \in [Clients -> Records], NEW c \in Clients, NEW b \in Nat,
         cl[c].at = "tree", cl[c].delta = b, NEW p \in Places, NEW q \in Places, p # q, cl[c].dir = q,
         NEW due \in [Files -> Int], NEW own \in [Files -> Int], NEW worth \in [Places -> Int], NEW x \in Int,
         Worthy(t, cl, x, due, worth),
         Within(own, p) <= Within(due, p) + b, Within(own, q) = Within(due, q) - b, Within(own, q) >= 0,
         \A s \in Places : s # p /\ s # q => Within(own, s) <= Within(due, s)
  PROVE  \E new \in [Places -> Int] : Worthy(t, [cl EXCEPT ![c] = Idle], x, own, new)
<1>1. PICK mid : mid = [worth EXCEPT ![q] = worth[q] - b] OBVIOUS
<1>2. PICK new : new = [mid EXCEPT ![p] = mid[p] + b] OBVIOUS
<1>3. mid \in [Places -> Int] /\ mid[q] = worth[q] - b /\ \A s \in Places : s # q => mid[s] = worth[s]
  BY <1>1
<1>4. new \in [Places -> Int] /\ new[p] = mid[p] + b /\ \A s \in Places : s # p => new[s] = mid[s]
  BY <1>2, <1>3
<1>5. Total(mid, Places) = Total(worth, Places) - worth[q] + mid[q] /\ Total(worth, Places) \in Int
  BY <1>3, Finite, TotalChange, TotalInt
<1>6. Total(new, Places) = Total(mid, Places) - mid[p] + new[p]
  BY <1>3, <1>4, Finite, TotalChange
<1>7. Total(new, Places) = Total(worth, Places) BY <1>3, <1>4, <1>5, <1>6
<1>8. PICK m : m = [cl EXCEPT ![c] = Idle] OBVIOUS
<1>9. ASSUME NEW d \in Dirs
      PROVE  /\ Pend(m, d) = Pend(cl, d) - (IF d = q THEN b ELSE 0) /\ Pend(cl, d) \in Int
  <2>1. Pend([cl EXCEPT ![c] = Idle], d) = Pend(cl, d) - Awaits(cl[c], d) + Awaits(Idle, d) /\ Pend(cl, d) \in Int
    BY IdleRecord, PendStep
  <2>2. Awaits(Idle, d) = 0 /\ Awaits(cl[c], d) = IF d = q THEN b ELSE 0 BY DEF Awaits, Idle
  <2> QED BY <1>8, <2>1, <2>2
<1>10. \A s \in Places : worth[s] >= 0 /\ worth[s] >= Within(due, s) /\ Within(due, s) \in Int /\ Within(own, s) \in Int
  BY WithinInt DEF Worthy
<1>11. \A s \in Places : new[s] >= 0 /\ new[s] >= Within(own, s)
  <2>1. ASSUME NEW s \in Places PROVE new[s] >= 0 /\ new[s] >= Within(own, s)
    <3>1. CASE s = p BY <1>3, <1>4, <1>10, <3>1
    <3>2. CASE s = q BY <1>3, <1>4, <1>10, <3>2
    <3>3. CASE s # p /\ s # q BY <1>3, <1>4, <1>10, <3>3
    <3> QED BY <3>1, <3>2, <3>3
  <2> QED BY <2>1
<1>12. ASSUME NEW d \in Dirs PROVE new[d] >= t[d] + Pend(m, d)
  <2>0. d \in Places BY DirParts
  <2>00. t[d] \in Nat OBVIOUS
  <2>1. d \in Places /\ worth[d] >= t[d] + Pend(cl, d) /\ t[d] \in Int BY <2>0, <2>00 DEF Worthy
  <2>2. CASE d = p BY <1>3, <1>4, <1>9, <2>1, <2>2
  <2>3. CASE d = q BY <1>3, <1>4, <1>9, <2>1, <2>3
  <2>4. CASE d # p /\ d # q BY <1>3, <1>4, <1>9, <2>1, <2>4
  <2> QED BY <2>2, <2>3, <2>4
<1>13. x >= Total(new, Places) BY <1>7 DEF Worthy
<1>14. Worthy(t, m, x, own, new) BY <1>11, <1>12, <1>13 DEF Worthy
<1> QED BY <1>4, <1>8, <1>14

\* A file that was counted in its new place already stays where it is.
LEMMA LeftRenameKept ==
  ASSUME Base, Base', Kept, NEW c \in Clients, Moves(c, Idle), client[c].at = "tree",
         client[c].op = "rename", client[c].then = "rename",
         size' = size, tree' = tree, cached' = cached, ops' = ops, leak' = leak + client[c].owed
  PROVE  Kept'
<1>1. PICK due, gap, worth : KeptBy(due, gap, worth) BY KeptHas
<1>2. PICK r, f, g : r = client[c] /\ f = r.from /\ g = r.to OBVIOUS
<1>3. /\ r \in Records /\ Shape(r) /\ Book(size, tree, r, due, gap[c])
      /\ due \in [Files -> Int] /\ worth \in [Places -> Int] /\ size \in [Files -> Int] /\ leak \in Nat /\ AsI64 \in Int
  BY <1>1, <1>2, StateTypes, BookOf
<1>4. PICK b \in Nat : b = r.bytes BY <1>3, FieldTypes
<1>5. /\ f \in Files /\ g \in Files /\ f # g /\ r.files = {f, g}
      /\ r.dir = g[1] /\ r.delta = b /\ r.owed = 0 /\ f[1] \in Places /\ g[1] \in Places
  <2>1. /\ f \in Files /\ g \in Files /\ f # g /\ r.files = {f, g}
        /\ r.dir = g[1] /\ r.delta = b /\ r.owed = 0
    BY <1>2, <1>3, <1>4 DEF Shape, RenameShape
  <2> QED BY <2>1, FileParts
<1>6. size[f] = b /\ size[g] = 0 /\ due[f] = 0 /\ due[g] = b /\ gap[c] = 0
  <2>1. RenameBook(size, r, due, gap[c]) BY <1>2, <1>3 DEF Book
  <2>2. size[f] = b /\ size[g] = 0 /\ due[f] = 0 /\ due[g] = b /\ gap[c] = b - 0 - b
    BY <1>2, <1>4, <2>1 DEF RenameBook
  <2> QED BY <2>2
<1>7. PICK own : own = [due EXCEPT ![f] = b, ![g] = 0] OBVIOUS
<1>8. own \in [Files -> Int] /\ own[f] = due[f] + b /\ own[g] = due[g] - b /\ \A h \in Files : h # f /\ h # g => own[h] = due[h]
  BY <1>3, <1>5, <1>6, <1>7
<1>9. TakenOver(due, own, f, g, b) BY <1>3, <1>5, <1>8, TwoChange
<1>10. /\ All(own) = All(due) /\ Within(own, f[1]) <= Within(due, f[1]) + b
       /\ \A q \in Places : q # f[1] => Within(own, q) <= Within(due, q)
       /\ f[1] = g[1] => Within(own, f[1]) <= Within(due, f[1])
  BY <1>9 DEF TakenOver
<1>11. All(size) \in Int /\ All(due) \in Int /\ \A q \in Places : Within(due, q) \in Int /\ Within(own, q) \in Int
  BY <1>3, <1>8, AllInt, WithinInt
<1>12. leak' = leak BY <1>2, <1>3, <1>5
<1>13. client[c].files = {f, g} /\ own[f] = size[f] /\ own[g] = size[g]
  BY <1>2, <1>5, <1>6, <1>8
<1>14. \A h \in client[c].files : own[h] = size'[h] BY <1>13
<1>15. \A h \in Files : h \notin client[c].files => size'[h] = size[h] /\ own[h] = due[h]
  BY <1>8, <1>13
<1>16. CASE f[1] = g[1]
  <2>1. PICK a \in Nat : a = 0 OBVIOUS
  <2>2. leak' = leak + a /\ Within(own, f[1]) <= Within(due, f[1]) + a
    BY <1>3, <1>5, <1>10, <1>11, <1>12, <1>16, <2>1
  <2>3. client[c].dir = f[1] /\ client[c].delta + a >= 0 BY <1>2, <1>5, <1>16, <2>1
  <2>4. All(size') - All(size) = All(own) - All(due) - gap[c] BY <1>6, <1>10, <1>11
  <2> QED BY <1>1, <1>5, <1>8, <1>10, <1>14, <1>15, <2>2, <2>3, <2>4, KeptIdle
<1>17. CASE f[1] # g[1]
  <2>1. PICK cl \in [Clients -> Records], t \in [Dirs -> Nat], x \in Int : cl = client /\ t = tree /\ x = AsI64 + leak
    BY StateTypes
  <2>2. Worthy(t, cl, x, due, worth) BY <1>1, <2>1 DEF KeptBy
  <2>3. Within(own, g[1]) = Within(due, g[1]) - b
    <3>1. PICK mid : mid = [due EXCEPT ![f] = b] OBVIOUS
    <3>2. mid \in [Files -> Int] /\ mid[g] = due[g] /\ \A h \in Files : h # f => mid[h] = due[h]
      BY <1>3, <1>5, <3>1
    <3>3. Within(mid, g[1]) = Within(due, g[1])
      <4>1. \A h \in Files : h # f => due[h] = mid[h] BY <3>2
      <4>2. \A q \in Places : q # f[1] => Within(mid, q) = Within(due, q)
        BY <1>3, <1>5, <3>2, <4>1, AllChange
      <4> QED BY <1>5, <1>17, <4>2
    <3>4. \A h \in Files : h # g => mid[h] = own[h] BY <1>5, <1>6, <1>8, <3>1, <3>2
    <3>5. Within(own, g[1]) = Within(mid, g[1]) - mid[g] + own[g]
      BY <1>5, <1>8, <3>2, <3>4, AllChange
    <3> QED BY <1>5, <1>6, <1>8, <1>11, <3>2, <3>3, <3>5
  <2>4. Within(own, g[1]) >= 0
    <3>1. due[g] <= Within(due, g[1])
      <4>1. g \in client[c].files BY <1>13
      <4> QED BY <1>1, <4>1, InPlaceNat
    <3> QED BY <1>5, <1>6, <1>11, <2>3, <3>1
  <2>5. cl[c].at = "tree" /\ cl[c].delta = b /\ cl[c].dir = g[1] BY <1>2, <1>5, <2>1
  <2>6. \E new \in [Places -> Int] : Worthy(t, [cl EXCEPT ![c] = Idle], x, own, new)
    BY <1>3, <1>5, <1>8, <1>10, <1>17, <2>2, <2>3, <2>4, <2>5, WorthBack
  <2>7. client' = [cl EXCEPT ![c] = Idle] BY <2>1 DEF Moves
  <2>8. \E new \in [Places -> Int] : Worthy(tree', client', AsI64 + leak', own, new)
    BY <1>12, <2>1, <2>6, <2>7
  <2>9. Idle \in Records /\ Shape(Idle) /\ Idle.files = {} /\ Idle.op = "none" /\ Idle.at = "idle"
    BY IdleRecord DEF Idle
  <2>10. Books(size, size', tree, tree', r, Idle, due, own, gap[c], 0)
    <3>0. r.files \cup Idle.files = r.files BY <2>9
    <3>1. Local(size, size', tree, tree', due, own, r.files \cup Idle.files)
      BY <1>2, <1>15, <3>0 DEF Local
    <3>2. \A h \in r.files : own[h] = size'[h] /\ own[h] >= 0 BY <1>2, <1>4, <1>5, <1>6, <1>13
    <3>3. Settled(size', Idle, own, r.files \cup Idle.files) BY <2>9, <3>0, <3>2 DEF Settled
    <3>4. Book(size', tree', Idle, own, 0) BY <2>9 DEF Book
    <3>5. All(size') - All(size) = All(own) - All(due) + 0 - gap[c] BY <1>6, <1>10, <1>11
    <3> QED BY <3>1, <3>3, <3>4, <3>5 DEF Books
  <2>11. Bounds(size, size', tree, tree', r, Idle, AsI64, AsI64)
    <3>1. Room(size, r) \in Nat /\ Room(size', Idle) = 0
      <4>1. size \in [Files -> 0..Largest] BY StateTypes
      <4> QED BY <1>3, <2>9, <4>1, RoomNat DEF Room
    <3>2. Late(r) \in Nat /\ Late(Idle) = 0 /\ Fall(r) = 0 /\ Fall(Idle) = 0
      BY <1>2, <1>3, <2>9, OfRecord DEF Late, Fall
    <3>3. \A d \in Dirs : tree[d] \in Int BY StateTypes
    <3> QED BY <1>3, <3>1, <3>2, <3>3 DEF Bounds
  <2>12. KeptIn(size', tree', client', AsI64, leak', ops')
    <3>1. Idle.files \subseteq client[c].files /\ 0 \in Int BY <2>9
    <3>2. PICK R : R = Idle OBVIOUS
    <3> QED BY <1>1, <1>2, <1>3, <1>8, <2>8, <2>10, <2>11, <3>1, <3>2, KeptGone
  <2> QED BY <2>12, SignedSame DEF Kept
<1> QED BY <1>16, <1>17

\* The end of a request whose future is dropped as it waits for the lock of the tree keeps
\* the books.
LEMMA DroppedKept ==
  ASSUME Base, Base', Kept, NEW c \in Clients, Dropped(c)
  PROVE  Kept'
<1>1. PICK label \in {"tree", "prune"} : Goes(c, label, Idle) BY DEF Dropped
<1>2. Moves(c, Idle) /\ client[c].at = label /\ ops' = ops BY <1>1, EndFacts
<1>3. size' = size /\ tree' = tree /\ cached' = cached /\ leak' = leak + client[c].owed
  BY DEF Dropped, disk, Leak
<1>4. CASE client[c].op = "delete_dir" BY <1>2, <1>3, <1>4, LeftDirKept DEF Doing
<1>5. CASE client[c].op # "delete_dir"
  <2>1. client[c].at = "tree"
    <3>1. client[c].at = "prune" => client[c].op = "delete_dir" BY AtOp DEF Base
    <3> QED BY <1>2, <1>5, <3>1
  <2>2. CASE client[c].op = "rename" /\ client[c].then = "rename"
    BY <1>2, <1>3, <2>1, <2>2, LeftRenameKept
  <2>3. CASE ~(client[c].op = "rename" /\ client[c].then = "rename")
    BY <1>2, <1>3, <1>5, <2>1, <2>3, LeftKept
  <2> QED BY <2>2, <2>3
<1> QED BY <1>4, <1>5

------------------------------------------------------------------------------
(* The account never undercounts. *)

\* What a client has on the disk beyond the account is owed by it.
LEMMA GapOwed ==
  ASSUME NEW r \in Records, Shape(r), NEW z \in [Files -> 0..Largest], NEW t, NEW due \in [Files -> Int], NEW g \in Int,
         Book(z, t, r, due, g)
  PROVE  g <= r.owed
<1>1. r.op \in {"none", "write", "async", "sync", "copy", "delete", "delete_dir", "rename", "rename_dir", "truncate"}
  BY DEF Records, Kinds
<1>2. r.owed \in Nat /\ r.bytes \in Nat /\ r.delta \in Int BY FieldTypes
<1>3. CASE r.op = "none" BY <1>2, <1>3 DEF Book
<1>4. CASE r.op = "write"
  <2>1. WriteShape(r) /\ WriteBook(z, r, due, g) BY <1>4 DEF Shape, Book
  <2>2. r.to \in Files /\ r.at \in {"check", "add", "load", "sub", "tree", "create", "body"}
    BY <2>1 DEF WriteShape
  <2>3. z[r.to] \in Nat /\ due[r.to] \in Int BY <2>2, SizesInt
  <2>4. CASE r.at \in {"check", "add", "load", "sub"}
    <3>1. due[r.to] = z[r.to] /\ g = z[r.to] - due[r.to] BY <2>1, <2>4 DEF WriteBook
    <3> QED BY <1>2, <2>3, <3>1
  <2>5. CASE r.at = "tree"
    <3>1. due[r.to] = r.bytes /\ z[r.to] + r.delta = r.bytes /\ g = z[r.to] - due[r.to]
      BY <2>1, <2>5 DEF WriteBook
    <3>2. (r.delta > 0 /\ r.owed = 0) \/ (r.delta < 0 /\ r.owed = -r.delta)
      BY <2>1, <2>5 DEF WriteShape
    <3> QED BY <1>2, <2>3, <3>1, <3>2
  <2>6. CASE r.at = "create"
    <3>1. /\ due[r.to] = r.bytes /\ (r.owed = z[r.to] - r.bytes \/ (r.owed = 0 /\ z[r.to] <= r.bytes))
          /\ g = z[r.to] - due[r.to]
      BY <2>1, <2>6 DEF WriteBook
    <3> QED BY <1>2, <2>3, <3>1
  <2>7. CASE r.at = "body"
    <3>1. due[r.to] = r.bytes /\ z[r.to] = 0 /\ g = z[r.to] - due[r.to]
      BY <2>1, <2>7 DEF WriteBook
    <3> QED BY <1>2, <2>3, <3>1
  <2> QED BY <2>2, <2>4, <2>5, <2>6, <2>7
<1>5. CASE r.op \in {"async", "sync"}
  <2>1. g = r.owed BY <1>5 DEF Book, WriterBook
  <2> QED BY <1>2, <2>1
<1>6. CASE r.op = "copy"
  <2>1. CopyShape(r) /\ CopyBook(z, r, due, g) BY <1>6 DEF Shape, Book
  <2>2. r.to \in Files /\ r.from \in Files BY <2>1 DEF CopyShape
  <2>3. z[r.to] \in Nat /\ due[r.to] \in Int /\ z[r.from] \in Nat BY <2>2, SizesInt
  <2>4. due[r.to] = z[r.to] + (IF r.at \in {"tree", "copy"} THEN z[r.from] ELSE 0) /\ g = z[r.to] - due[r.to]
    BY <2>1 DEF CopyBook
  <2> QED BY <1>2, <2>3, <2>4
<1>7. CASE r.op = "delete"
  <2>1. DeleteShape(r) /\ DeleteBook(z, r, due, g) BY <1>7 DEF Shape, Book
  <2>2. r.from \in Files /\ r.at \in {"load", "sub", "tree", "remove"} BY <2>1 DEF DeleteShape
  <2>3. z[r.from] \in Nat BY <2>2, SizesInt
  <2>4. CASE r.at \in {"load", "sub"}
    <3>1. due[r.from] = z[r.from] /\ g = z[r.from] - due[r.from] BY <2>1, <2>4 DEF DeleteBook
    <3> QED BY <1>2, <2>3, <3>1
  <2>5. CASE r.at \in {"tree", "remove"}
    <3>1. due[r.from] = 0 /\ r.owed = z[r.from] /\ g = z[r.from] - due[r.from]
      BY <2>1, <2>5 DEF DeleteBook
    <3> QED BY <1>2, <2>3, <3>1
  <2> QED BY <2>2, <2>4, <2>5
<1>8. CASE r.op = "delete_dir"
  <2>1. g = r.owed BY <1>8 DEF Book, DeleteDirBook
  <2> QED BY <1>2, <2>1
<1>9. CASE r.op = "rename"
  <2>1. RenameShape(r) /\ RenameBook(z, r, due, g) BY <1>9 DEF Shape, Book
  <2>2. r.at \in {"load", "sub", "tree", "move", "add", "rename"} /\ r.then \in {"move", "rename"}
    BY <2>1 DEF RenameShape
  <2>3. r.owed = IF r.at \in {"move", "add"} \/ (r.at = "tree" /\ r.then = "move") THEN r.bytes ELSE 0
    BY <2>1 DEF RenameShape
  <2>4. PICK a, b : /\ a = (IF r.at \in {"load", "sub"} THEN r.bytes ELSE 0)
                    /\ b = (IF r.at = "rename" \/ (r.at = "tree" /\ r.then = "rename") THEN r.bytes ELSE 0)
    OBVIOUS
  <2>5. g = r.bytes - a - b BY <2>1, <2>4 DEF RenameBook
  <2> QED BY <1>2, <2>2, <2>3, <2>4, <2>5
<1>10. CASE r.op = "rename_dir"
  <2>1. g = 0 BY <1>10 DEF Book, RenameDirBook
  <2> QED BY <1>2, <2>1
<1>11. CASE r.op = "truncate"
  <2>1. TruncateBook(z, t, r, due, g) /\ TruncateShape(r) BY <1>11 DEF Book, Shape
  <2>2. g = r.owed BY <2>1 DEF TruncateBook, TruncateShape
  <2> QED BY <1>2, <2>2
<1> QED BY <1>1, <1>3, <1>4, <1>5, <1>6, <1>7, <1>8, <1>9, <1>10, <1>11

\* The books give the bound: the total, with what is lost and what is under way, covers the
\* disk.
LEMMA Covers ==
  ASSUME Base, Kept
  PROVE  Owed \in Int /\ Real \in Int /\ AsI64 + leak + Owed >= Real
<1>1. PICK due, gap, worth : KeptBy(due, gap, worth) BY KeptHas
<1>2. PICK cl, z, x : cl = client /\ z = size /\ x = AsI64 + leak OBVIOUS
<1>3. /\ due \in [Files -> Int] /\ gap \in [Clients -> Int] /\ worth \in [Places -> Int]
      /\ cl \in [Clients -> Records] /\ z \in [Files -> 0..Largest] /\ z \in [Files -> Int] /\ x \in Int
  BY <1>1, <1>2, StateTypes DEF KeptBy
<1>4. PICK owes : owes = [c \in Clients |-> cl[c].owed] OBVIOUS
<1>5. owes \in [Clients -> Int] BY <1>3, <1>4, FieldTypes
<1>6. \A c \in Clients : gap[c] <= owes[c]
  <2>1. ASSUME NEW c \in Clients PROVE gap[c] <= owes[c]
    <3>1. PICK r, g, t : r = cl[c] /\ g = gap[c] /\ t = tree OBVIOUS
    <3>2. r \in Records /\ Shape(r) /\ g \in Int /\ Book(z, t, r, due, g)
      BY <1>1, <1>2, <3>1, StateTypes, BookOf
    <3>3. g <= r.owed BY <1>3, <3>2, GapOwed
    <3> QED BY <1>4, <3>1, <3>3
  <2> QED BY <2>1
<1>7. Total(gap, Clients) <= Total(owes, Clients) /\ Total(gap, Clients) \in Int /\ Total(owes, Clients) \in Int
  BY <1>3, <1>5, <1>6, Finite, TotalMono, TotalInt
<1>8. PICK have : have = [p \in Places |-> Within(due, p)] OBVIOUS
<1>9. have \in [Places -> Int] /\ \A p \in Places : have[p] <= worth[p]
  <2>1. \A p \in Places : Within(due, p) \in Int BY <1>3, WithinInt
  <2>2. \A p \in Places : worth[p] >= Within(due, p) /\ worth[p] \in Int
    BY <1>1, <1>3 DEF KeptBy, Worthy
  <2> QED BY <1>8, <2>1, <2>2
<1>10. Total(have, Places) <= Total(worth, Places) /\ Total(have, Places) \in Int /\ Total(worth, Places) \in Int
  BY <1>3, <1>9, Finite, TotalMono, TotalInt
<1>11. Total(have, Places) = All(due) BY <1>8 DEF All
<1>12. x >= Total(worth, Places) /\ All(z) = All(due) + Total(gap, Clients)
  BY <1>1, <1>2 DEF KeptBy, Worthy, Linked
<1>13. x + Total(owes, Clients) >= All(z) /\ All(z) \in Int
  BY <1>3, <1>7, <1>10, <1>11, <1>12, AllInt
<1>14. Owed = Total(owes, Clients) /\ Real = All(z) BY <1>2, <1>4 DEF Owed, Real
<1> QED BY <1>2, <1>7, <1>13, <1>14

------------------------------------------------------------------------------
(* The account when no client is in an operation. *)

\* When no client is in an operation, nothing is under way, and no files are held.
LEMMA AllIdle ==
  ASSUME NEW z \in [Files -> 0..Largest], NEW cl \in [Clients -> Records], \A b \in Clients : cl[b] = Idle
  PROVE  /\ Rooms(z, cl) = 0 /\ Lates(cl) = 0 /\ Falls(cl) = 0 /\ Disjoint(cl)
         /\ \A d \in Dirs : Pend(cl, d) = 0
<1>1. Room(z, Idle) = 0 /\ Late(Idle) = 0 /\ Fall(Idle) = 0 /\ Idle.files = {} /\ \A d \in Dirs : Awaits(Idle, d) = 0
  BY DEF Room, Late, Fall, Awaits, Idle
<1>2. Rooms(z, cl) = 0
  <2>1. [c \in Clients |-> Room(z, cl[c])] = [c \in Clients |-> 0] BY <1>1
  <2> QED BY <2>1, Finite, TotalZero DEF Rooms
<1>3. Lates(cl) = 0
  <2>1. [c \in Clients |-> Late(cl[c])] = [c \in Clients |-> 0] BY <1>1
  <2> QED BY <2>1, Finite, TotalZero DEF Lates
<1>4. Falls(cl) = 0
  <2>1. [c \in Clients |-> Fall(cl[c])] = [c \in Clients |-> 0] BY <1>1
  <2> QED BY <2>1, Finite, TotalZero DEF Falls
<1>5. ASSUME NEW d \in Dirs PROVE Pend(cl, d) = 0
  <2>1. [c \in Clients |-> Awaits(cl[c], d)] = [c \in Clients |-> 0] BY <1>1
  <2> QED BY <2>1, Finite, TotalZero DEF Pend
<1>6. Disjoint(cl) BY <1>1 DEF Disjoint
<1> QED BY <1>2, <1>3, <1>4, <1>5, <1>6

\* When every client is idle, the tree as a recount leaves it and the total large enough,
\* the books can be opened.
LEMMA Fresh ==
  ASSUME NEW z \in [Files -> 0..Largest], NEW t \in [Dirs -> Nat], NEW S \in SUBSET Dirs,
         \A d \in Dirs : t[d] = Within(z, d) + Owns(S)[d],
         NEW cl \in [Clients -> Records], \A b \in Clients : cl[b] = Idle,
         NEW x \in Int, NEW k \in Int, NEW o \in 0..MaxOps,
         x + k >= All(z) + Lengths(S), x <= Largest * (Entries + o), x >= -(Cap * o)
  PROVE  KeptIn(z, t, cl, x, k, o)
<1>1. z \in [Files -> Int] BY SizesInt
<1>2. /\ Rooms(z, cl) = 0 /\ Lates(cl) = 0 /\ Falls(cl) = 0 /\ Disjoint(cl)
      /\ \A d \in Dirs : Pend(cl, d) = 0
  BY AllIdle
<1>3. o \in Nat BY Constants
<1>4. PICK m, n, l \in Int : m = Largest * o /\ n = Largest * (Entries + o) /\ l = Cap * o
  BY <1>3, Grow
<1>5. m >= 0 /\ l >= 0 /\ n = Largest * Entries + m BY <1>3, <1>4, Grow
<1>6. Bounded(z, t, cl, x, o)
  <2>1. 0 <= m /\ x <= n - 0 /\ x >= 0 - l /\ 0 <= l BY <1>4, <1>5
  <2>2. ASSUME NEW d \in Dirs PROVE t[d] + 0 <= n - 0
    <3>1. t[d] <= Largest * Entries /\ t[d] \in Int
      <4>1. d \in Places BY DirParts
      <4>2. All(z) \in Nat /\ All(z) <= Largest * Cardinality(Files) BY AllBound
      <4>3. Within(z, d) <= All(z) BY <4>1, AllBound
      <4>4. t[d] = Within(z, d) + Owns(S)[d] /\ Within(z, d) \in Nat BY <4>1, AllBound
      <4>5. t[d] \in Nat OBVIOUS
      <4>6. Owns(S)[d] \in Nat /\ Owns(S)[d] <= Lengths(S) /\ Lengths(S) \in Nat /\ Lengths(S) <= Largest * Cardinality(Places)
        BY <4>1, Lengthy
      <4>7. PICK a, b \in Nat : a = Largest * Cardinality(Files) /\ b = Largest * Cardinality(Places) /\ a + b = Largest * Entries
        BY WordHolds
      <4> QED BY <4>2, <4>3, <4>4, <4>5, <4>6, <4>7
    <3> QED BY <1>4, <1>5, <3>1, WordHolds
  <2> QED BY <1>2, <1>4, <2>1, <2>2 DEF Bounded
<1>7. PICK gap : gap = [c \in Clients |-> 0] OBVIOUS
<1>8. gap \in [Clients -> Int] /\ Total(gap, Clients) = 0 BY <1>7, Finite, TotalZero
<1>9. Linked(z, t, cl, z, gap)
  <2>1. \A c \in Clients : Book(z, t, cl[c], z, gap[c])
    <3>1. Book(z, t, Idle, z, 0) BY DEF Book, Idle
    <3> QED BY <1>7, <3>1
  <2>2. All(z) = All(z) + Total(gap, Clients) BY <1>1, <1>8, AllInt
  <2>3. \A f \in Files : z[f] >= 0 BY SizesInt
  <2> QED BY <2>1, <2>2, <2>3 DEF Linked
<1>10. PICK worth : worth = [p \in Places |-> Within(z, p) + Owns(S)[p]] OBVIOUS
<1>101. \A p \in Places : Within(z, p) \in Nat /\ Owns(S)[p] \in Nat BY AllBound, Lengthy
<1>11. worth \in [Places -> Int] BY <1>10, <1>101
<1>12. Worthy(t, cl, x + k, z, worth)
  <2>1. \A p \in Places : worth[p] >= 0 /\ worth[p] >= Within(z, p) BY <1>10, <1>101
  <2>2. ASSUME NEW d \in Dirs PROVE worth[d] >= t[d] + Pend(cl, d)
    <3>1. d \in Places BY DirParts
    <3>2. worth[d] = Within(z, d) + Owns(S)[d] /\ Pend(cl, d) = 0 BY <1>2, <1>10, <3>1
    <3>3. t[d] = Within(z, d) + Owns(S)[d] OBVIOUS
    <3>4. t[d] \in Nat OBVIOUS
    <3> QED BY <3>2, <3>3, <3>4
  <2>3. x + k >= Total(worth, Places)
    <3>1. PICK held, own : held = [p \in Places |-> Within(z, p)] /\ own = Owns(S) OBVIOUS
    <3>2. held \in [Places -> Int] /\ own \in [Places -> Int] /\ \A p \in Places : worth[p] = held[p] + own[p]
      BY <1>10, <1>101, <3>1, Lengthy
    <3>3. Total(worth, Places) = Total(held, Places) + Total(own, Places)
      BY <1>11, <3>2, Finite, TotalAdd
    <3> QED BY <3>1, <3>3 DEF All, Lengths
  <2> QED BY <2>1, <2>2, <2>3 DEF Worthy
<1> QED BY <1>1, <1>2, <1>6, <1>8, <1>9, <1>11, <1>12 DEF KeptIn

\* What is on the disk, as a number that the account can hold.
LEMMA RealFits ==
  ASSUME Base, NEW S \in SUBSET Dirs
  PROVE  /\ Real = All(size) /\ Real \in Nat /\ Lengths(S) \in Nat /\ Real + Lengths(S) <= Largest * Entries
         /\ ~(Real + Lengths(S) >= Word \div 2) /\ Real + Lengths(S) < Word
<1>1. Real = All(size) /\ Real \in Nat /\ Real <= Largest * Cardinality(Files)
  BY StateTypes, AllBound DEF Real
<1>2. Lengths(S) \in Nat /\ Lengths(S) <= Largest * Cardinality(Places) BY Lengthy
<1>3. PICK r \in Nat, s \in Nat : r = Real /\ s = Lengths(S) BY <1>1, <1>2
<1>4. PICK a \in Nat, b \in Nat, m \in Nat, h \in Nat :
        /\ a = Largest * Cardinality(Files) /\ b = Largest * Cardinality(Places) /\ m = Largest * Entries /\ h = Word \div 2
  BY WordHolds
<1>5. a + b = m /\ Word \in Nat /\ Word >= 2 * h BY <1>4, WordHolds, Constants
<1>6. m < h
  <2>1. m <= Cap /\ h > Cap + Cap * MaxOps /\ Cap \in Nat /\ Cap * MaxOps \in Nat
    BY <1>4, WordHolds
  <2> QED BY <2>1
<1>7. r <= a /\ s <= b BY <1>1, <1>2, <1>3, <1>4
<1>8. r + s <= m /\ ~(r + s >= h) /\ r + s < Word BY <1>5, <1>6, <1>7
<1> QED BY <1>1, <1>2, <1>3, <1>4, <1>8

\* The books can be opened when the server starts.
LEMMA InitKept ==
  ASSUME Init
  PROVE  Kept
<1>1. Base BY InitBase
<1>2. /\ size \in [Files -> 0..Largest] /\ tree \in [Dirs -> Nat] /\ client \in [Clients -> Records]
  BY <1>1, StateTypes
<1>3. PICK S \in SUBSET Dirs : cached = Real + Lengths(S) /\ \A d \in Dirs : tree[d] = Within(size, d) + Owns(S)[d]
  <2>1. PICK S \in SUBSET Dirs : cached = Real + Lengths(S) /\ tree = [d \in Dirs |-> Sum(d) + Owns(S)[d]]
    BY DEF Init
  <2> QED BY <2>1 DEF Sum
<1>4. \A b \in Clients : client[b] = Idle BY DEF Init
<1>5. AsI64 = Real + Lengths(S) /\ leak = 0 /\ ops = 0 BY <1>1, <1>3, RealFits DEF Init, AsI64
<1>6. Largest * (Entries + 0) = Largest * Entries + Largest * 0 /\ Largest * 0 = 0 /\ Cap * 0 = 0
  BY Grow, Finite, Constants, WordHolds
<1>7. AsI64 \in Int /\ AsI64 + 0 >= All(size) + Lengths(S) /\ AsI64 <= Largest * (Entries + 0) /\ AsI64 >= -(Cap * 0)
  BY <1>1, <1>5, <1>6, RealFits, WordHolds
<1>8. KeptIn(size, tree, client, AsI64, 0, 0) BY <1>2, <1>3, <1>4, <1>7, Fresh, Constants
<1> QED BY <1>5, <1>8 DEF Kept

------------------------------------------------------------------------------
(* The other steps. *)

\* A step that leaves the disk, the account and the clients alone keeps the books.
LEMMA SameKept ==
  ASSUME Kept, size' = size, tree' = tree, client' = client, cached' = cached, leak' = leak, ops' = ops
  PROVE  Kept'
<1>1. AsI64' = AsI64 BY SignedSame
<1> QED BY <1>1 DEF Kept

\* `update_disk_limit' keeps the books.
LEMMA SetLimitKept ==
  ASSUME Base, Base', Kept, SetLimit
  PROVE  Kept'
<1>1. PICK z, t, cl, x, k, o : z = size /\ t = tree /\ cl = client /\ x = AsI64 /\ k = leak /\ o = ops
  OBVIOUS
<1>2. /\ z \in [Files -> 0..Largest] /\ t \in [Dirs -> Nat] /\ cl \in [Clients -> Records] /\ x \in Int /\ o \in Nat
      /\ \A b \in Clients : Shape(cl[b])
  BY <1>1, StateTypes
<1>3. z = size' /\ t = tree' /\ cl = client' /\ k = leak' /\ o + 1 = ops' /\ cached' = cached
  BY <1>1 DEF SetLimit, disk, history
<1>4. x = AsI64' BY <1>1, <1>3, SignedSame
<1>5. KeptIn(z, t, cl, x, k, o) BY <1>1 DEF Kept
<1>6. Bounded(z, t, cl, x, o + 1)
  <2>1. Bounded(z, t, cl, x, o) BY <1>5 DEF KeptIn
  <2>2. PICK m, n, l, a, b, d \in Int : /\ m = Largest * o /\ n = Largest * (Entries + o) /\ l = Cap * o
                                        /\ a = Rooms(z, cl) /\ b = Falls(cl) /\ d = Lates(cl)
    <3>1. Rooms(z, cl) \in Int /\ Falls(cl) \in Int /\ Lates(cl) \in Int BY <1>2, SumsNat
    <3>2. Largest * o \in Int /\ Largest * (Entries + o) \in Int /\ Cap * o \in Int
      BY <1>2, Grow
    <3> QED BY <3>1, <3>2
  <2>3. Largest * (o + 1) = m + Largest /\ Largest * (Entries + (o + 1)) = n + Largest /\ Cap * (o + 1) = l + Cap
    BY <1>2, <2>2, Grow
  <2>4. a <= m /\ x <= n - a /\ b <= l /\ x >= b - l /\ \A e \in Dirs : t[e] + d <= n - a
    BY <2>1, <2>2 DEF Bounded
  <2>5. Largest \in Nat /\ Cap \in Nat BY Constants, WordHolds
  <2>6. a <= m + Largest /\ x <= n + Largest - a /\ b <= l + Cap /\ x >= b - (l + Cap)
    BY <1>2, <2>2, <2>4, <2>5
  <2>7. \A e \in Dirs : t[e] + d <= n + Largest - a
    <3>1. \A e \in Dirs : t[e] \in Int BY <1>2
    <3> QED BY <2>2, <2>4, <2>5, <3>1
  <2>8. PICK m1, n1, l1 : /\ m1 = Largest * (o + 1) /\ n1 = Largest * (Entries + (o + 1)) /\ l1 = Cap * (o + 1)
    OBVIOUS
  <2>9. m1 = m + Largest /\ n1 = n + Largest /\ l1 = l + Cap BY <2>3, <2>8
  <2>10. a <= m1 /\ x <= n1 - a /\ b <= l1 /\ x >= b - l1 BY <1>2, <2>2, <2>5, <2>6, <2>9
  <2>11. \A e \in Dirs : t[e] + d <= n1 - a BY <1>2, <2>2, <2>5, <2>7, <2>9
  <2>12. Rooms(z, cl) <= Largest * (o + 1) /\ x <= Largest * (Entries + (o + 1)) - Rooms(z, cl)
    BY <2>2, <2>8, <2>10
  <2>13. Falls(cl) <= Cap * (o + 1) /\ x >= Falls(cl) - Cap * (o + 1) BY <2>2, <2>8, <2>10
  <2>14. \A e \in Dirs : t[e] + Lates(cl) <= Largest * (Entries + (o + 1)) - Rooms(z, cl)
    BY <2>2, <2>8, <2>11
  <2> QED BY <2>12, <2>13, <2>14 DEF Bounded
<1>7. KeptIn(z, t, cl, x, k, o + 1) BY <1>5, <1>6 DEF KeptIn
<1> QED BY <1>3, <1>4, <1>7 DEF Kept

\* A recount that nothing has disturbed runs beside idle clients only.
LEMMA IdleClients ==
  ASSUME Base, check.quiet
  PROVE  \A b \in Clients : client[b] = Idle
<1>1. ASSUME NEW b \in Clients PROVE client[b] = Idle
  <2>1. client[b].at = "idle" /\ client[b] \in Records /\ Shape(client[b])
    BY StateTypes DEF Base, Walk
  <2>2. client[b].op = "none" BY <2>1, KindLabels
  <2> QED BY <2>1, <2>2 DEF Shape
<1> QED BY <1>1

\* Between its two steps a recount that nothing has disturbed has the new tree
\* and the old total.
Midway == check.quiet /\ AsI64 + leak >= Real

Account == IF check.at = "store" THEN Midway ELSE Kept

\* Nothing is owed when no client is in an operation.
LEMMA NothingOwed ==
  ASSUME Base, check.quiet
  PROVE  Owed = 0
<1>1. PICK cl : cl = client OBVIOUS
<1>2. \A b \in Clients : cl[b] = Idle BY <1>1, IdleClients
<1>3. [c \in Clients |-> cl[c].owed] = [c \in Clients |-> 0] BY <1>2 DEF Idle
<1> QED BY <1>1, <1>3, Finite, TotalZero DEF Owed

\* The disk checker as it replaces the tree keeps the books.
LEMMA CheckTreeKept ==
  ASSUME Base, Kept, CheckTree, ~drift'
  PROVE  Account'
<1>1. check.quiet /\ size' = size /\ cached' = cached /\ leak' = leak BY DEF CheckTree
<1>2. check'.quiet /\ check'.at = "store"
  <2>1. check' = [check EXCEPT !.at = "store"] /\ check \in Checks BY DEF CheckTree, Base, Typed
  <2> QED BY <1>1, <2>1 DEF Checks
<1>3. AsI64 + leak >= Real
  <2>1. Owed \in Int /\ Real \in Int /\ AsI64 + leak + Owed >= Real BY Covers
  <2>2. Owed = 0 BY <1>1, NothingOwed
  <2>3. AsI64 \in Int /\ leak \in Nat BY StateTypes
  <2> QED BY <2>1, <2>2, <2>3
<1>4. AsI64' = AsI64 BY <1>1, SignedSame
<1>5. Real' = Real BY <1>1 DEF Real
<1> QED BY <1>1, <1>2, <1>3, <1>4, <1>5 DEF Account, Midway

\* An undisturbed recount opens new books, whatever the old ones said.
LEMMA CheckStoreKept ==
  ASSUME Base, Base', CheckStore, ~drift'
  PROVE  Account'
<1>1. check.quiet /\ size' = size /\ client' = client /\ ops' = ops /\ leak' = 0
  BY DEF CheckStore, bounds
<1>2. check'.exact /\ check'.at = "asleep" /\ check'.found = check.found
  <2>1. check' = [Asleep EXCEPT !.exact = check.quiet, !.found = check.found] BY DEF CheckStore
  <2> QED BY <1>1, <2>1 DEF Asleep
<1>3. PICK z, t, cl, x, o, S : z = size' /\ t = tree' /\ cl = client' /\ x = AsI64' /\ o = ops' /\ S = check'.found
  OBVIOUS
<1>4. /\ z \in [Files -> 0..Largest] /\ cl \in [Clients -> Records] /\ o \in 0..MaxOps /\ t \in [Dirs -> Nat]
      /\ S \in SUBSET Dirs
  BY <1>3 DEF Base, Typed, Checks
<1>5. \A b \in Clients : cl[b] = Idle BY <1>1, <1>3, IdleClients
<1>6. cached' = Real' + Lengths(S) /\ tree' = [d \in Dirs |-> Sum(d)' + Owns(S)[d]]
  BY <1>2, <1>3 DEF Base, Walk, RecountHeals
<1>7. Real' = Real BY <1>1 DEF Real
<1>8. /\ Real = All(size) /\ Real \in Nat /\ Lengths(S) \in Nat /\ Real + Lengths(S) <= Largest * Entries
      /\ ~(Real + Lengths(S) >= Word \div 2)
  BY <1>4, RealFits
<1>9. x = Real + Lengths(S) BY <1>3, <1>6, <1>7, <1>8 DEF AsI64
<1>10. \A d \in Dirs : t[d] = Within(z, d) + Owns(S)[d] BY <1>3, <1>6 DEF Sum
<1>11. x <= Largest * (Entries + o) /\ x >= -(Cap * o)
  <2>1. o \in Nat BY <1>4, Constants
  <2>2. PICK m \in Nat, n \in Nat, l \in Nat : m = Largest * o /\ n = Largest * (Entries + o) /\ l = Cap * o
    BY <2>1, Grow
  <2>20. PICK k \in Nat, r \in Nat : k = Largest * Entries /\ r = Real + Lengths(S)
    BY <1>8, WordHolds
  <2>3. n = k + m BY <2>1, <2>2, <2>20, Grow
  <2>4. x = r /\ r <= k BY <1>8, <1>9, <2>20
  <2>5. x <= n /\ x >= -l BY <2>2, <2>20, <2>3, <2>4
  <2> QED BY <2>2, <2>5
<1>12. x + 0 >= All(z) + Lengths(S) /\ x \in Int BY <1>1, <1>3, <1>8, <1>9
<1>13. KeptIn(z, t, cl, x, 0, o) BY <1>4, <1>5, <1>10, <1>11, <1>12, Fresh
<1> QED BY <1>1, <1>2, <1>3, <1>13 DEF Account, Kept

\* Every step of the disk checker keeps the books.
LEMMA CheckerKept ==
  ASSUME Base, Base', ~drift => Account, Checker, ~drift'
  PROVE  Account'
<1>1. CASE CheckStore BY <1>1, CheckStoreKept
<1>2. CASE CheckTree
  <2>1. ~drift /\ check.at # "store" BY <1>2 DEF CheckTree
  <2> QED BY <1>2, <2>1, CheckTreeKept DEF Account
<1>3. CASE CheckBegin
  <2>1. ~drift /\ check.at # "store" /\ check'.at # "store"
    BY <1>3 DEF CheckBegin, history, Asleep
  <2> QED BY <1>3, <2>1, SameKept DEF Account, CheckBegin, disk, history
<1>4. CASE \E f \in Files : CheckVisit(f)
  <2>0. PICK f \in Files : CheckVisit(f) BY <1>4
  <2>1. ~drift /\ check.at = "walk" BY <2>0 DEF CheckVisit, history
  <2>2. check'.at = "walk"
    <3>1. check \in Checks BY DEF Base, Typed
    <3> QED BY <2>0, <2>1, <3>1 DEF CheckVisit, Checks
  <2> QED BY <2>0, <2>1, <2>2, SameKept DEF Account, CheckVisit, disk, bounds, history
<1>6. CASE \E d \in Dirs : CheckVisitDir(d)
  <2>0. PICK d \in Dirs : CheckVisitDir(d) BY <1>6
  <2>1. ~drift /\ check.at = "walk" BY <2>0 DEF CheckVisitDir, history
  <2>2. check'.at = "walk"
    <3>1. check \in Checks BY DEF Base, Typed
    <3> QED BY <2>0, <2>1, <3>1 DEF CheckVisitDir, Checks
  <2> QED BY <2>0, <2>1, <2>2, SameKept DEF Account, CheckVisitDir, disk, bounds, history
<1>5. CASE CheckFails
  <2>1. ~drift /\ check.at # "store" /\ check'.at # "store"
    BY <1>5 DEF CheckFails, history, Asleep
  <2> QED BY <1>5, <2>1, SameKept DEF Account, CheckFails, disk, bounds, history
<1> QED BY <1>1, <1>2, <1>3, <1>4, <1>5, <1>6 DEF Checker

\* Every request as it starts keeps the books.
LEMMA StartsKept ==
  ASSUME Base, Base', ~drift /\ check.at # "store" => Kept, NEW c \in Clients, Starts(c), ~drift'
  PROVE  Kept'
<1>1. CASE TruncateRoot(c)
  <2>1. ~drift /\ check.at # "store" BY <1>1 DEF TruncateRoot, Begin
  <2> QED BY <1>1, <2>1, TruncateRootKept
<1>2. ASSUME NEW f \in Files,
             DeleteFile(c, f) \/ Upload(c, f) \/ Pull(c, f) \/ Compress(c, f) \/ Decompress(c, f)
      PROVE  Kept'
  <2>1. CASE DeleteFile(c, f)
    <3>1. ~drift /\ check.at # "store" BY <2>1 DEF DeleteFile, Begin
    <3> QED BY <2>1, <3>1, DeleteFileKept
  <2>2. CASE Upload(c, f) \/ Pull(c, f) \/ Compress(c, f) \/ Decompress(c, f)
    <3>1. PICK op \in {"async", "sync"} : Open(c, op, f)
      BY <2>2 DEF Upload, Pull, Compress, Decompress
    <3>2. ~drift /\ check.at # "store" BY <3>1 DEF Open, Begin
    <3> QED BY <3>1, <3>2, OpenKept
  <2> QED BY <1>2, <2>1, <2>2
<1>3. ASSUME NEW f \in Files, NEW n \in Sizes, NEW body \in Sizes, Write(c, f, n, body)
      PROVE  Kept'
  <2>1. ~drift /\ check.at # "store" BY <1>3 DEF Write, Begin
  <2> QED BY <1>3, <2>1, WriteKept
<1>4. ASSUME NEW f \in Files, NEW g \in Files, Copy(c, f, g) \/ RenameFile(c, f, g) PROVE Kept'
  <2>1. CASE Copy(c, f, g)
    <3>1. ~drift /\ check.at # "store" BY <2>1 DEF Copy, Begin
    <3> QED BY <2>1, <3>1, CopyKept
  <2>2. CASE RenameFile(c, f, g)
    <3>1. ~drift /\ check.at # "store" BY <2>2 DEF RenameFile, Begin
    <3> QED BY <2>2, <3>1, RenameFileKept
  <2> QED BY <1>4, <2>1, <2>2
<1>5. ASSUME NEW d \in Dirs, DeleteDir(c, d) PROVE Kept'
  <2>1. ~drift /\ check.at # "store" BY <1>5 DEF DeleteDir, Begin
  <2> QED BY <1>5, <2>1, DeleteDirKept
<1>6. ASSUME NEW d \in Dirs, NEW e \in Dirs, RenameDir(c, d, e) PROVE Kept'
  <2>1. ~drift /\ check.at # "store" BY <1>6 DEF RenameDir, Begin
  <2> QED BY <1>6, <2>1, RenameDirKept
<1> QED BY <1>1, <1>2, <1>3, <1>4, <1>5, <1>6 DEF Starts

\* Every step of a request, writer or task under way keeps the books.
LEMMA ContinuesKept ==
  ASSUME Base, Base', ~drift => Kept, NEW c \in Clients, Continues(c), ~drift'
  PROVE  Kept'
<1>1. CASE AllocCheck(c) \/ AllocAdd(c) \/ AllocLoad(c) \/ AllocSub(c) \/ AllocTree(c)
  <2>1. ~drift
    BY <1>1 DEF AllocCheck, AllocAdd, AllocLoad, AllocSub, AllocTree, Refused, Leak, history
  <2> QED BY <1>1, <2>1, AllocCheckKept, AllocAddKept, AllocLoadKept, AllocSubKept, AllocTreeKept
<1>2. CASE WriteCreate(c) \/ WriteBody(c) \/ WriterWrite(c) \/ WriterFlush(c) \/ WriterDrop(c) \/ Done(c)
  <2>1. ~drift
    BY <1>2 DEF WriteCreate, WriteBody, WriterWrite, WriterFlush, WriterDrop, Done, Leak, history
  <2> QED BY <1>2, <2>1, WriteCreateKept, WriteBodyKept, WriterWriteKept, WriterFlushKept, WriterDropKept, DoneKept
<1>3. CASE CopyBody(c) \/ DeletePrune(c) \/ Remove(c) \/ RenameMove(c) \/ RenameDisk(c)
  <2>1. ~drift BY <1>3 DEF CopyBody, DeletePrune, Remove, RenameMove, RenameDisk, Leak, history
  <2> QED BY <1>3, <2>1, CopyBodyKept, DeletePruneKept, RemoveKept, RenameMoveKept, RenameDiskKept
<1>4. CASE Dropped(c) \/ TruncateZero(c)
  <2>1. ~drift BY <1>4 DEF Dropped, TruncateZero, Leak, history
  <2> QED BY <1>4, <2>1, DroppedKept, TruncateZeroKept
<1> QED BY <1>1, <1>2, <1>3, <1>4 DEF Continues

\* A client that starts disturbs a recount, and does not move it.
LEMMA StartsAccount ==
  ASSUME Base, Base', ~drift => Account, NEW c \in Clients, Starts(c), ~drift'
  PROVE  Account'
<1>1. ~drift /\ check.at # "store" /\ Disturb
  BY DEF Starts, TruncateRoot, DeleteFile, Upload, Pull, Compress, Decompress, Open, Write, Copy, RenameFile,
         DeleteDir, RenameDir, Begin
<1>2. Kept' BY <1>1, StartsKept DEF Account
<1>3. check'.at = check.at
  <2>1. check \in Checks BY DEF Base, Typed
  <2> QED BY <1>1, <2>1 DEF Disturb, Checks
<1> QED BY <1>1, <1>2, <1>3 DEF Account

\* A client in an operation disturbs a recount: the one under way is not undisturbed.
LEMMA Active ==
  ASSUME Base, NEW c \in Clients, Continues(c)
  PROVE  Disturb /\ ~check.quiet
<1>1. Disturb /\ client[c].at # "idle"
  <2>1. CASE AllocCheck(c) \/ AllocAdd(c) \/ AllocLoad(c) \/ AllocSub(c) \/ AllocTree(c) \/ Dropped(c) \/ TruncateZero(c)
    BY <2>1 DEF AllocCheck, AllocAdd, AllocLoad, AllocSub, AllocTree, Dropped, TruncateZero, Goes
  <2>2. CASE WriteCreate(c) \/ WriteBody(c) \/ WriterWrite(c) \/ WriterFlush(c) \/ WriterDrop(c) \/ Done(c)
    BY <2>2 DEF WriteCreate, WriteBody, WriterWrite, WriterFlush, WriterDrop, Done, Goes
  <2>3. CASE CopyBody(c) \/ DeletePrune(c) \/ Remove(c) \/ RenameMove(c) \/ RenameDisk(c)
    BY <2>3 DEF CopyBody, DeletePrune, Remove, RenameMove, RenameDisk, Goes
  <2> QED BY <2>1, <2>2, <2>3 DEF Continues
<1> QED BY <1>1 DEF Base, Walk

\* A step of an operation keeps the account: no recount that promises anything is between
\* its two steps.
LEMMA ContinuesAccount ==
  ASSUME Base, Base', ~drift => Account, NEW c \in Clients, Continues(c), ~drift'
  PROVE  Account'
<1>1. Disturb /\ ~check.quiet BY Active
<1>2. ~drift
  BY DEF Continues, AllocCheck, AllocAdd, AllocLoad, AllocSub, AllocTree, Dropped, TruncateZero, WriteCreate, WriteBody,
         WriterWrite, WriterFlush, WriterDrop, Done, CopyBody, DeletePrune, Remove, RenameMove, RenameDisk, Refused,
         Leak, history
<1>4. check.at # "store" /\ Kept BY <1>1, <1>2 DEF Account, Midway
<1>5. Kept' BY <1>4, ContinuesKept
<1>6. check'.at = check.at
  <2>1. check \in Checks BY DEF Base, Typed
  <2> QED BY <1>1, <2>1 DEF Disturb, Checks
<1> QED BY <1>4, <1>5, <1>6 DEF Account

\* update_disk_limit keeps the account, between the two steps of a recount too.
LEMMA SetLimitAccount ==
  ASSUME Base, Base', Account, SetLimit
  PROVE  Account'
<1>1. check' = check /\ cached' = cached /\ leak' = leak /\ size' = size
  BY DEF SetLimit, disk, history
<1>2. CASE check.at = "store"
  <2>1. AsI64' = AsI64 /\ Real' = Real BY <1>1, SignedSame DEF Real
  <2> QED BY <1>1, <1>2, <2>1 DEF Account, Midway
<1>3. CASE check.at # "store" BY <1>1, <1>3, SetLimitKept DEF Account
<1> QED BY <1>2, <1>3

\* The inductive invariant.
Accounted == Base /\ (~drift => Account)

\* Every step keeps Base, and the books as long as no two operations overlap on a file.
LEMMA NextAccounted ==
  ASSUME Accounted, [Next]_vars
  PROVE  Accounted'
<1>1. Base /\ Base' /\ (~drift => Account) BY NextBase DEF Accounted
<1>2. ASSUME ~drift' PROVE Account'
  <2>1. CASE Checker BY <1>1, <1>2, <2>1, CheckerKept
  <2>2. CASE SetLimit
    <3>1. ~drift BY <1>2, <2>2 DEF SetLimit, history
    <3> QED BY <1>1, <2>2, <3>1, SetLimitAccount
  <2>3. ASSUME NEW c \in Clients, Starts(c) PROVE Account'
    BY <1>1, <1>2, <2>3, StartsAccount
  <2>4. ASSUME NEW c \in Clients, Continues(c) PROVE Account'
    BY <1>1, <1>2, <2>4, ContinuesAccount
  <2>5. CASE UNCHANGED vars
    <3>1. ~drift /\ check' = check /\ size' = size /\ cached' = cached /\ leak' = leak
      BY <1>2, <2>5 DEF vars, disk, history
    <3>2. Real' = Real /\ AsI64' = AsI64 BY <3>1, SignedSame DEF Real
    <3>3. Kept => Kept' BY <2>5, SameKept DEF vars, disk, bounds, history
    <3> QED BY <1>1, <3>1, <3>2, <3>3 DEF Account, Midway
  <2> QED BY <2>1, <2>2, <2>3, <2>4, <2>5 DEF Next
<1> QED BY <1>1, <1>2 DEF Accounted

\* In every reachable state, unless two operations overlapped on a file or a recount ran
\* beside a change, the account can be attributed to files, clients and places (see Kept).
THEOREM Spec_Accounted == Spec => []Accounted
<1>1. Init => Accounted
  <2>1. ASSUME Init PROVE Accounted
    <3>1. check.at # "store" BY <2>1 DEF Init, Asleep
    <3> QED BY <2>1, <3>1, InitBase, InitKept DEF Accounted, Account
  <2> QED BY <2>1
<1>2. Accounted /\ [Next]_vars => Accounted' BY NextAccounted
<1> QED BY <1>1, <1>2, PTL DEF Spec

\* Whether a recount is between its two steps or not, the total covers the disk.
LEMMA AccountCovers ==
  ASSUME Base, Account
  PROVE  AsI64 + leak + Owed >= Real
<1>1. CASE check.at = "store"
  <2>1. Owed = 0 /\ AsI64 + leak >= Real BY <1>1, NothingOwed DEF Account, Midway
  <2>2. AsI64 \in Int /\ leak \in Nat BY StateTypes
  <2> QED BY <2>1, <2>2
<1>2. CASE check.at # "store" BY <1>2, Covers DEF Account
<1> QED BY <1>1, <1>2

\* NeverUndercounts holds in every reachable state: however writers, removals, renames and
\* copies of different files mix, the cached total never lags behind the disk except by the
\* bytes under way and those known to be lost.
THEOREM NothingUndercounted == Spec => []NeverUndercounts
<1>1. Accounted => NeverUndercounts BY AccountCovers DEF Accounted, NeverUndercounts
<1> QED BY <1>1, Spec_Accounted, PTL

------------------------------------------------------------------------------
(* The limit is exceeded by a bounded amount. *)

\* The largest limit, or the largest file if that is larger.
LEMMA Highest ==
  /\ Max(Limits \cup {Largest + Lengths(Dirs)}) \in Nat /\ Lengths(Dirs) \in Nat
  /\ Largest + Lengths(Dirs) <= Max(Limits \cup {Largest + Lengths(Dirs)})
  /\ \A l \in Limits : l <= Max(Limits \cup {Largest + Lengths(Dirs)})
<1>0. Dirs \in SUBSET Dirs OBVIOUS
<1>00. Lengths(Dirs) \in Nat /\ Largest \in Nat BY <1>0, Lengthy, Constants
<1>01. PICK top \in Nat : top = Largest + Lengths(Dirs) BY <1>00
<1>1. PICK S : S = Limits \cup {top} OBVIOUS
<1>2. PICK most \in Limits : \A l \in Limits : l <= most BY FilesAssumption
<1>3. most \in Nat /\ top \in Nat /\ Limits \subseteq Nat BY <1>01, <1>2, Constants
<1>4. \E x \in S : \A y \in S : x >= y
  <2>1. CASE most >= top BY <1>1, <1>2, <1>3, <2>1
  <2>2. CASE most < top BY <1>1, <1>2, <1>3, <2>2
  <2> QED BY <1>3, <2>1, <2>2
<1>5. PICK m : m = Max(S) OBVIOUS
<1>6. m = CHOOSE x \in S : \A y \in S : x >= y BY <1>5 DEF Max
<1>7. m \in S /\ \A y \in S : m >= y BY <1>4, <1>6
<1>8. m \in Nat /\ \A y \in S : y \in Nat BY <1>1, <1>3, <1>7
<1>9. m \in Nat /\ top <= m /\ \A l \in Limits : l <= m BY <1>1, <1>7, <1>8
<1> QED BY <1>00, <1>01, <1>1, <1>5, <1>9

\* The ceiling of the total is a number.
LEMMA CeilingNat ==
  /\ Ceiling \in Nat /\ (Cardinality(Clients) - 1) * Largest \in Nat
  /\ (Cardinality(Clients) - 1) * Largest = Largest * Cardinality(Clients) - Largest
<1>1. PICK n \in Nat : n = Cardinality(Clients) /\ n >= 1 BY Finite
<1>2. PICK k \in Nat : k = n - 1 BY <1>1
<1>3. Largest \in Nat BY Constants
<1>4. k * Largest \in Nat /\ k * Largest = Largest * n - Largest BY <1>2, <1>3
<1> QED BY <1>1, <1>2, <1>4, Highest DEF Ceiling

\* A client that was compared with the limit is about to add one file at most.
LEMMA ComingLargest ==
  ASSUME NEW r \in Records, Shape(r), NEW z \in [Files -> 0..Largest], NEW t, NEW due, NEW g, Book(z, t, r, due, g)
  PROVE  Coming(r) <= Largest
<1>1. r.owed \in Nat /\ r.bytes \in Nat /\ r.bytes <= Largest /\ r.delta \in Int /\ Largest \in Nat
  BY FieldTypes, Constants
<1>2. CASE r.at = "add"
  <2>0. Coming(r) = r.delta BY <1>2 DEF Coming
  <2>1. r.to \in Files /\ r.op \in {"write", "async", "sync", "copy", "rename"}
    BY <1>2, AddShape
  <2>2. z[r.to] \in Nat /\ z[r.to] <= Largest BY <2>1, SizesInt
  <2>3. CASE r.op = "write"
    <3>1. z[r.to] + r.delta = r.bytes BY <1>2, <2>3 DEF Book, WriteBook
    <3> QED BY <1>1, <2>0, <2>2, <3>1
  <2>4. CASE r.op \in {"async", "sync"}
    <3>1. r.owed <= z[r.to] BY <2>4 DEF Book, WriterBook
    <3>2. r.delta = r.owed BY <1>2, <2>4 DEF Shape, WriterShape
    <3> QED BY <1>1, <2>0, <2>2, <3>1, <3>2
  <2>5. CASE r.op = "copy"
    <3>1. r.delta = z[r.from] BY <1>2, <2>5 DEF Book, CopyBook
    <3>2. r.from \in Files BY <2>5 DEF Shape, CopyShape
    <3> QED BY <2>0, <3>1, <3>2, SizesInt
  <2>6. CASE r.op = "rename"
    <3>1. r.delta = r.bytes BY <1>2, <2>6 DEF Shape, RenameShape
    <3> QED BY <1>1, <2>0, <3>1
  <2> QED BY <2>1, <2>3, <2>4, <2>5, <2>6
<1>3. CASE r.at # "add"
  <2>1. Coming(r) = r.bytes \/ Coming(r) = 0 BY <1>3 DEF Coming
  <2> QED BY <1>1, <2>1
<1> QED BY <1>2, <1>3

\* What a client is about to add is not negative.
LEMMA ComingNat ==
  ASSUME NEW r \in Records, Shape(r)
  PROVE  Coming(r) \in Nat
<1>1. r.at = "add" => r.delta > 0 BY AddShape
<1>2. r.bytes \in Nat /\ r.delta \in Int BY FieldTypes
<1> QED BY <1>1, <1>2 DEF Coming

\* The others are about to add one file each at most.
LEMMA ComingOthers ==
  ASSUME NEW cl \in [Clients -> Records], \A b \in Clients : Coming(cl[b]) <= Largest,
         NEW c \in Clients, Coming(cl[c]) = 0
  PROVE  Comings(cl) \in Int /\ Comings(cl) <= (Cardinality(Clients) - 1) * Largest
<1>1. PICK a, b : a = [e \in Clients |-> Coming(cl[e])] /\ b = [e \in Clients |-> IF e = c THEN Largest ELSE Coming(cl[e])]
  OBVIOUS
<1>2. a \in [Clients -> Int] /\ b \in [Clients -> Int] /\ Largest \in Nat
  BY <1>1, OfRecord, Constants
<1>3. a[c] = 0 /\ b[c] = Largest /\ (\A e \in Clients : e # c => a[e] = b[e]) /\ \A e \in Clients : b[e] <= Largest
  BY <1>1, <1>2
<1>4. Total(b, Clients) = Total(a, Clients) - a[c] + b[c] /\ Total(a, Clients) \in Int /\ Total(b, Clients) \in Int
  BY <1>2, <1>3, Finite, TotalChange, TotalInt
<1>5. Total(b, Clients) <= Largest * Cardinality(Clients) BY <1>2, <1>3, Finite, TotalBound
<1>6. PICK k, m \in Int : k = Largest * Cardinality(Clients) /\ m = (Cardinality(Clients) - 1) * Largest
  BY <1>2, CeilingNat, Finite
<1>7. m = k - Largest BY <1>6, CeilingNat
<1>8. Total(a, Clients) <= m BY <1>2, <1>3, <1>4, <1>5, <1>6, <1>7
<1> QED BY <1>1, <1>4, <1>6, <1>8 DEF Comings

\* A step that keeps the account and what is about to be added to it together as low as they are.
LEMMA CleanGo ==
  ASSUME Base, Base', Clean, pristine, ~drift', leak' = 0, NEW c \in Clients, NEW R, Moves(c, R), Sights(R),
         AsI64' + Coming(R) <= AsI64 + Coming(client[c])
  PROVE  Clean'
<1>1. PICK cl, x, y : cl = client /\ x = AsI64 /\ y = AsI64' OBVIOUS
<1>2. cl \in [Clients -> Records] /\ x \in Int BY <1>1, StateTypes
<1>3. y \in Int
  <2>1. cached' \in Int /\ Word \in Int BY Constants DEF Base, Typed
  <2> QED BY <1>1, <2>1 DEF AsI64
<1>4. R \in Records /\ client' = [cl EXCEPT ![c] = R] BY <1>1 DEF Moves
<1>5. Comings(cl) \in Int /\ Comings([cl EXCEPT ![c] = R]) = Comings(cl) - Coming(cl[c]) + Coming(R)
  BY <1>2, <1>4, ComingsStep
<1>6. Coming(R) \in Int /\ Coming(cl[c]) \in Int BY <1>2, <1>4, OfRecord
<1>7. y + Comings([cl EXCEPT ![c] = R]) <= x + Comings(cl) BY <1>1, <1>2, <1>3, <1>5, <1>6
<1>8. 0 \notin Limits => x + Comings(cl) <= Ceiling BY <1>1 DEF Clean
<1>9. Comings([cl EXCEPT ![c] = R]) \in Int BY <1>5, <1>6
<1>10. 0 \notin Limits => y + Comings([cl EXCEPT ![c] = R]) <= Ceiling
  BY <1>2, <1>3, <1>5, <1>7, <1>8, <1>9, CeilingNat
<1>11. \A b \in Clients : Sights(client'[b])
  <2>1. \A b \in Clients : Sights(cl[b]) BY <1>1 DEF Clean
  <2> QED BY <1>2, <1>4, <2>1
<1> QED BY <1>1, <1>4, <1>10, <1>11 DEF Clean

\* Whatever a step loses, or lets overlap, takes away `pristine'.
LEMMA StoryClean ==
  ASSUME Clean, (UNCHANGED history) \/ \E n : Leak(n), pristine'
  PROVE  pristine /\ ~drift' /\ leak' = 0
<1>1. CASE UNCHANGED history BY <1>1 DEF Clean, history
<1>2. ASSUME NEW n, Leak(n) PROVE pristine /\ ~drift' /\ leak' = 0
  <2>1. pristine /\ n = 0 BY <1>2 DEF Leak
  <2>2. ~drift /\ leak = 0 BY <2>1 DEF Clean
  <2> QED BY <1>2, <2>1, <2>2 DEF Leak
<1> QED BY <1>1, <1>2

\* An operation that begins, or goes on without the account.
LEMMA CleanQuiet ==
  ASSUME Base, Base', Clean, pristine, ~drift', leak' = 0, cached' = cached, NEW c \in Clients, NEW R, Moves(c, R), R.at # "sub",
         Coming(R) = Coming(client[c])
  PROVE  Clean'
<1>1. AsI64' = AsI64 /\ AsI64 \in Int BY SignedSame, StateTypes
<1>2. Coming(client[c]) \in Int BY StateTypes, OfRecord
<1>3. AsI64' + Coming(R) <= AsI64 + Coming(client[c]) BY <1>1, <1>2
<1> QED BY <1>3, CleanGo DEF Sights

\* The account of a state in which nothing is lost.
LEMMA AccountNat ==
  ASSUME Base, NEW due, NEW gap, NEW worth, KeptBy(due, gap, worth), leak = 0, NEW p \in Places
  PROVE  AsI64 >= 0 /\ AsI64 >= worth[p] /\ worth[p] \in Int /\ cached = AsI64
<1>1. worth \in [Places -> Int] /\ AsI64 \in Int BY StateTypes DEF KeptBy
<1>2. \A q \in Places : worth[q] >= 0 BY DEF KeptBy, Worthy
<1>3. worth[p] <= Total(worth, Places) /\ Total(worth, Places) \in Int
  BY <1>1, <1>2, Finite, TotalMember, TotalInt
<1>4. AsI64 + leak >= Total(worth, Places) BY DEF KeptBy, Worthy
<1>5. AsI64 >= 0 /\ AsI64 >= worth[p] /\ worth[p] \in Int BY <1>1, <1>2, <1>3, <1>4
<1>6. cached \in 0..(Word - 1) BY StateTypes
<1>7. cached = AsI64 BY <1>5, <1>6, Constants DEF AsI64
<1> QED BY <1>5, <1>7

\* A comparison that passes keeps the ceiling: the total is below the limit with its own
\* bytes, and each other client adds one file at most.
LEMMA AllocPassClean ==
  ASSUME Base, Base', Kept, Clean, pristine', NEW c \in Clients,
         Goes(c, "check", [client[c] EXCEPT !.at = "add"]), UNCHANGED disk, UNCHANGED history,
         0 \notin Limits => AsI64 + client[c].delta <= limit
  PROVE  Clean'
<1>1. pristine /\ ~drift' /\ leak' = 0 BY StoryClean
<1>2. PICK R : Moves(c, R) /\ Keeps(R, client[c]) /\ R.at = "add" /\ R.delta = client[c].delta
  BY CheckMoves DEF Base
<1>3. PICK cl, x : cl = client /\ x = AsI64 OBVIOUS
<1>4. cl \in [Clients -> Records] /\ x \in Int /\ R \in Records /\ client' = [cl EXCEPT ![c] = R] /\ cl[c].at = "check" /\ cl[c] \in Records /\ Shape(cl[c])
  BY <1>2, <1>3, StateTypes DEF Moves, Goes
<1>5. Coming(cl[c]) = 0 /\ Coming(R) = R.delta BY <1>2, <1>4 DEF Coming
<1>6. \A b \in Clients : Coming(cl[b]) <= Largest
  <2>1. PICK due, gap, worth : KeptBy(due, gap, worth) BY KeptHas
  <2>2. ASSUME NEW b \in Clients PROVE Coming(cl[b]) <= Largest
    <3>1. PICK r, z, t, g : r = cl[b] /\ z = size /\ t = tree /\ g = gap[b] OBVIOUS
    <3>2. r \in Records /\ Shape(r) /\ z \in [Files -> 0..Largest] /\ Book(z, t, r, due, g)
      BY <1>3, <2>1, <3>1, StateTypes, BookOf
    <3>3. Coming(r) <= Largest BY <3>2, ComingLargest
    <3> QED BY <3>1, <3>3
  <2> QED BY <2>2
<1>7. Comings(cl) \in Int /\ Comings(cl) <= (Cardinality(Clients) - 1) * Largest
  BY <1>4, <1>5, <1>6, ComingOthers
<1>8. Comings([cl EXCEPT ![c] = R]) = Comings(cl) - 0 + R.delta BY <1>4, <1>5, ComingsStep
<1>9. ASSUME 0 \notin Limits PROVE x + Comings([cl EXCEPT ![c] = R]) <= Ceiling
  <2>1. x + R.delta <= limit BY <1>2, <1>3, <1>9
  <2>2. PICK m, l, k \in Int : m = Max(Limits \cup {Largest + Lengths(Dirs)}) /\ l = limit /\ k = (Cardinality(Clients) - 1) * Largest
    BY Highest, CeilingNat, Constants DEF Base, Typed
  <2>3. l <= m BY <2>2, Highest DEF Base, Typed
  <2>4. R.delta \in Int BY <1>4, FieldTypes
  <2>5. x + (Comings(cl) - 0 + R.delta) <= m + k BY <1>4, <1>7, <2>1, <2>2, <2>3, <2>4
  <2> QED BY <1>8, <2>2, <2>5 DEF Ceiling
<1>10. AsI64' = x BY <1>3, SignedSame DEF disk
<1>11. \A b \in Clients : Sights(client'[b])
  <2>1. Sights(R) BY <1>2 DEF Sights
  <2>2. \A b \in Clients : Sights(cl[b]) BY <1>1, <1>3 DEF Clean
  <2> QED BY <1>4, <2>1, <2>2
<1> QED BY <1>1, <1>4, <1>9, <1>10, <1>11 DEF Clean

\* The load of the cached total before it is lowered keeps the ceiling.
LEMMA AllocLoadClean ==
  ASSUME Base, Base', Kept, Clean, pristine', NEW c \in Clients, AllocLoad(c)
  PROVE  Clean'
<1>1. pristine /\ ~drift' /\ leak' = 0 /\ leak = 0 /\ cached' = cached
  BY StoryClean DEF AllocLoad, disk, Clean
<1>2. PICK R : Moves(c, R) /\ Keeps(R, client[c]) /\ R.at = "sub" /\ R.delta = client[c].delta /\ R.dir = client[c].dir /\ R.then = client[c].then /\ R.acc = client[c].acc /\ R.owed = client[c].owed /\ R.seen = cached
  BY LoadMoves DEF Base, AllocLoad
<1>3. PICK due, gap, worth : KeptBy(due, gap, worth) BY KeptHas
<1>4. client[c].at = "load" /\ client[c] \in Records /\ Shape(client[c]) /\ R \in Records /\ Shape(R)
  BY <1>2, StateTypes DEF AllocLoad, Goes, Moves
<1>5. Book(size, tree, R, due, gap[c])
  <2>1. Book(size, tree, client[c], due, gap[c]) BY <1>3, BookOf
  <2>2. Alike(R, client[c]) BY <1>2 DEF Alike, Keeps
  <2> QED BY <1>2, <1>4, <2>1, <2>2, BookGoes
<1>6. R.files = client[c].files /\ R.op = client[c].op /\ client[c].at \in {"load", "sub"}
  BY <1>2, <1>4 DEF Keeps
<1>7. worth[R.dir] >= -R.delta BY <1>2, <1>3, <1>4, <1>5, <1>6, Affords
<1>8. AsI64 >= worth[R.dir] /\ worth[R.dir] \in Int /\ cached = AsI64
  BY <1>1, <1>3, <1>4, FieldTypes, AccountNat
<1>9. Sights(R)
  <2>1. AsI64 \in Int /\ R.delta \in Int BY <1>4, StateTypes, FieldTypes
  <2> QED BY <1>2, <1>7, <1>8, <2>1 DEF Sights
<1>10. AsI64' + Coming(R) <= AsI64 + Coming(client[c])
  <2>1. Coming(R) = 0 /\ Coming(client[c]) = 0 BY <1>2, <1>4 DEF Coming
  <2> QED BY <1>1, <2>1, SignedSame, StateTypes
<1> QED BY <1>1, <1>2, <1>9, <1>10, CleanGo

\* The comparison of async_allocate_in_path with disk_limit keeps the ceiling.
LEMMA AllocCheckClean ==
  ASSUME Base, Base', Kept, Clean, pristine', NEW c \in Clients, AllocCheck(c)
  PROVE  Clean'
<1>1. CASE limit # 0 /\ AsI64 + client[c].delta > limit
  <2>1. Goes(c, "check", Idle) /\ Leak(client[c].acc) /\ UNCHANGED disk
    BY <1>1 DEF AllocCheck, Refused
  <2>2. pristine /\ ~drift' /\ leak' = 0 /\ cached' = cached BY <2>1, StoryClean DEF disk
  <2>3. Moves(c, Idle) /\ client[c].at = "check" BY <2>1, EndFacts
  <2>4. Idle.at # "sub" /\ Coming(Idle) = 0 BY DEF Coming, Idle
  <2>5. Coming(client[c]) = 0 BY <2>3 DEF Coming
  <2> QED BY <2>2, <2>3, <2>4, <2>5, CleanQuiet
<1>2. CASE ~(limit # 0 /\ AsI64 + client[c].delta > limit)
  <2>1. Goes(c, "check", [client[c] EXCEPT !.at = "add"]) /\ UNCHANGED disk /\ UNCHANGED history
    BY <1>2 DEF AllocCheck
  <2>2. ASSUME 0 \notin Limits PROVE AsI64 + client[c].delta <= limit
    <3>1. limit # 0 /\ limit \in Int BY <2>2, Constants DEF Base, Typed
    <3>2. AsI64 \in Int /\ client[c].delta \in Int BY StateTypes, FieldTypes
    <3>3. AsI64 + client[c].delta \in Int BY <3>2
    <3> QED BY <1>2, <3>1, <3>3
  <2> QED BY <2>1, <2>2, AllocPassClean
<1> QED BY <1>1, <1>2

\* The fetch_add of async_allocate_in_path keeps the ceiling.
LEMMA AllocAddClean ==
  ASSUME Base, Base', Kept, Clean, pristine', NEW c \in Clients, AllocAdd(c)
  PROVE  Clean'
<1>1. pristine /\ ~drift' /\ leak' = 0 BY StoryClean DEF AllocAdd
<1>2. PICK R : Moves(c, R) /\ Keeps(R, client[c]) /\ R.at = "tree" /\ R.delta = client[c].delta /\ R.dir = client[c].dir /\ R.then = client[c].then /\ R.acc = 0 /\ R.owed = 0
  BY AddMoves DEF Base, AllocAdd
<1>3. client[c].at = "add" /\ client[c] \in Records /\ Shape(client[c])
  BY StateTypes DEF AllocAdd, Goes
<1>4. Coming(client[c]) = client[c].delta /\ Coming(R) = 0
  <2>1. client[c].op = "rename" => client[c].then = "rename" BY <1>3 DEF Shape, RenameShape
  <2>2. R.op = client[c].op BY <1>2 DEF Keeps
  <2> QED BY <1>2, <1>3, <2>1, <2>2 DEF Coming
<1>5. AsI64' = AsI64 + client[c].delta BY AllocAddKept
<1>6. AsI64 \in Int /\ client[c].delta \in Int BY <1>3, StateTypes, FieldTypes
<1>7. AsI64' + Coming(R) <= AsI64 + Coming(client[c]) BY <1>4, <1>5, <1>6
<1>8. Sights(R) BY <1>2 DEF Sights
<1> QED BY <1>1, <1>2, <1>7, <1>8, CleanGo

\* The fetch_sub, or the store of zero when the total seen is too small, keeps the ceiling.
LEMMA AllocSubClean ==
  ASSUME Base, Base', Kept, Clean, pristine', NEW c \in Clients, AllocSub(c)
  PROVE  Clean'
<1>1. pristine /\ ~drift' /\ leak' = 0
  <2>1. UNCHANGED history \/ \E n : Leak(n) BY DEF AllocSub
  <2> QED BY <2>1, StoryClean
<1>2. PICK R : Moves(c, R) /\ Keeps(R, client[c]) /\ R.at = "tree" /\ R.delta = client[c].delta /\ R.dir = client[c].dir /\ R.then = client[c].then /\ R.acc = client[c].acc /\ R.owed = -client[c].delta
  BY SubMoves DEF Base, AllocSub
<1>3. client[c].at = "sub" /\ client[c] \in Records /\ Shape(client[c])
  BY StateTypes DEF AllocSub, Goes
<1>4. client[c].seen >= -client[c].delta BY <1>1, <1>3 DEF Clean, Sights
<1>5. AsI64' = AsI64 + client[c].delta BY <1>4, AllocSubKept
<1>6. AsI64 \in Int /\ client[c].delta \in Int /\ client[c].delta < 0 /\ client[c].bytes \in Int
  BY <1>3, StateTypes, FieldTypes, Negative
<1>7. Coming(client[c]) = 0 BY <1>3 DEF Coming
<1>8. Coming(R) = 0 \/ Coming(R) = -client[c].delta
  <2>1. CASE client[c].op = "rename"
    <3>1. client[c].delta = -client[c].bytes BY <1>3, <2>1 DEF Shape, RenameShape
    <3>2. Coming(R) = 0 \/ Coming(R) = R.bytes BY <1>2 DEF Coming
    <3>3. R.bytes = client[c].bytes BY <1>2 DEF Keeps
    <3> QED BY <1>6, <3>1, <3>2, <3>3
  <2>2. CASE client[c].op # "rename" BY <1>2, <2>2 DEF Coming, Keeps
  <2> QED BY <2>1, <2>2
<1>9. AsI64' + Coming(R) <= AsI64 + Coming(client[c]) BY <1>5, <1>6, <1>7, <1>8
<1>10. Sights(R) BY <1>2 DEF Sights
<1> QED BY <1>1, <1>2, <1>9, <1>10, CleanGo

\* `update_size' of the tree, which saturates at zero, keeps the ceiling.
LEMMA AllocTreeClean ==
  ASSUME Base, Base', Clean, pristine', NEW c \in Clients, AllocTree(c)
  PROVE  Clean'
<1>1. pristine /\ ~drift' /\ leak' = 0 /\ cached' = cached
  <2>1. \E n : Leak(n) BY DEF AllocTree
  <2> QED BY <2>1, StoryClean DEF AllocTree
<1>2. PICK R : Moves(c, R) /\ Keeps(R, client[c]) /\ R.at = client[c].then /\ R.then = client[c].then /\ R.acc = client[c].acc /\ R.owed = client[c].owed
  BY TreeMoves DEF Base, AllocTree
<1>3. client[c].at = "tree" /\ client[c] \in Records /\ Shape(client[c])
  BY StateTypes DEF AllocTree, Goes
<1>4. client[c].then \in {"create", "open", "done", "copy", "remove", "prune", "move", "rename"}
  BY <1>3, TreeThen
<1>5. Coming(R) = Coming(client[c]) BY <1>2, <1>3, <1>4 DEF Coming, Keeps
<1>6. R.at # "sub" BY <1>2, <1>4
<1> QED BY <1>1, <1>2, <1>5, <1>6, CleanQuiet

\* A client that has nothing to add to the account.
LEMMA NotComing ==
  ASSUME NEW r, r.at \notin {"add", "tree", "move"}
  PROVE  Coming(r) = 0
BY DEF Coming

\* The end of an operation keeps the ceiling: nothing is added.
LEMMA EndClean ==
  ASSUME Base, Base', Clean, pristine', cached' = cached, UNCHANGED history \/ \E n : Leak(n), NEW c \in Clients,
         NEW from \in {"create", "body", "open", "done", "copy", "remove", "rename"}, Goes(c, from, Idle)
  PROVE  Clean'
<1>1. pristine /\ ~drift' /\ leak' = 0 BY StoryClean
<1>2. Moves(c, Idle) /\ client[c].at = from BY EndFacts
<1>3. Coming(client[c]) = 0 BY <1>2, NotComing
<1>4. Coming(Idle) = 0 /\ Idle.at # "sub" BY NotComing DEF Idle
<1> QED BY <1>1, <1>2, <1>3, <1>4, CleanQuiet

\* The allocation of what a writer has left keeps the ceiling until it is compared.
LEMMA FlushClean ==
  ASSUME Base, Base', Clean, pristine', cached' = cached, UNCHANGED history, NEW c \in Clients,
         Goes(c, "open", Allocate(client[c], client[c].to[1], client[c].acc, FALSE, "done"))
  PROVE  Clean'
<1>1. pristine /\ ~drift' /\ leak' = 0 BY StoryClean
<1>2. PICK R : /\ Moves(c, R) /\ Keeps(R, client[c]) /\ R.owed = client[c].owed
               /\ R.op \in {"async", "sync"} /\ R.at \in {"done", "check"}
  BY FlushMoves DEF Base
<1>3. Coming(client[c]) = 0 BY NotComing DEF Goes
<1>4. Coming(R) = 0 /\ R.at # "sub" BY <1>2, NotComing
<1> QED BY <1>1, <1>2, <1>3, <1>4, CleanQuiet

\* The steps of a writer keep the ceiling.
LEMMA WriterClean ==
  ASSUME Base, Base', Clean, pristine', NEW c \in Clients,
         WriterWrite(c) \/ WriterFlush(c) \/ WriterDrop(c) \/ Done(c)
  PROVE  Clean'
<1>1. CASE WriterWrite(c)
  <2>1. pristine /\ ~drift' /\ leak' = 0 /\ cached' = cached /\ client[c].at = "open"
    BY <1>1, StoryClean DEF WriterWrite
  <2>2. PICK R : /\ Moves(c, R) /\ Keeps(R, client[c]) /\ R.owed = client[c].owed + 1
                 /\ R.op \in {"async", "sync"} /\ R.at \in {"open", "check"}
    BY <1>1, WriterWriteMoves DEF Base
  <2>3. Coming(client[c]) = 0 BY <2>1, NotComing
  <2>4. Coming(R) = 0 /\ R.at # "sub" BY <2>2, NotComing
  <2> QED BY <2>1, <2>2, <2>3, <2>4, CleanQuiet
<1>2. CASE WriterFlush(c) BY <1>2, FlushClean DEF WriterFlush, disk
<1>3. CASE WriterDrop(c)
  <2>1. CASE client[c].op = "async" BY <1>3, <2>1, FlushClean DEF WriterDrop, disk
  <2>2. CASE client[c].op # "async"
    <3>1. Goes(c, "open", Idle) /\ Leak(client[c].acc) /\ cached' = cached
      BY <1>3, <2>2 DEF WriterDrop, disk
    <3> QED BY <3>1, EndClean
  <2> QED BY <2>1, <2>2
<1>4. CASE Done(c)
  <2>1. Goes(c, "done", Idle) /\ UNCHANGED history /\ cached' = cached BY <1>4 DEF Done, disk
  <2> QED BY <2>1, EndClean
<1> QED BY <1>1, <1>2, <1>3, <1>4

\* The steps that end an operation on the disk keep the ceiling.
LEMMA DiskClean ==
  ASSUME Base, Base', Clean, pristine', NEW c \in Clients,
         WriteBody(c) \/ CopyBody(c) \/ Remove(c) \/ RenameDisk(c)
  PROVE  Clean'
<1>1. CASE WriteBody(c)
  <2>1. Goes(c, "body", Idle) /\ cached' = cached /\ \E n : Leak(n) BY <1>1 DEF WriteBody
  <2> QED BY <2>1, EndClean
<1>2. CASE CopyBody(c)
  <2>1. Goes(c, "copy", Idle) /\ cached' = cached /\ UNCHANGED history BY <1>2 DEF CopyBody
  <2> QED BY <2>1, EndClean
<1>3. CASE Remove(c)
  <2>1. Goes(c, "remove", Idle) /\ cached' = cached /\ (UNCHANGED history \/ \E n : Leak(n))
    BY <1>3 DEF Remove
  <2> QED BY <2>1, EndClean
<1>4. CASE RenameDisk(c)
  <2>1. Goes(c, "rename", Idle) /\ cached' = cached /\ (UNCHANGED history \/ \E n : Leak(n))
    BY <1>4 DEF RenameDisk
  <2> QED BY <2>1, EndClean
<1> QED BY <1>1, <1>2, <1>3, <1>4

\* The File::create of a write request, which empties the file, keeps the ceiling.
LEMMA WriteCreateClean ==
  ASSUME Base, Base', Clean, pristine', NEW c \in Clients, WriteCreate(c)
  PROVE  Clean'
<1>0. cached' = cached BY DEF WriteCreate
<1>1. CASE Goes(c, "create", [client[c] EXCEPT !.at = "body", !.owed = 0]) /\ UNCHANGED history
  <2>1. PICK R : Moves(c, R) /\ R.at = "body" BY <1>1, CreateMoves DEF Base
  <2>2. client[c].at = "create" BY <1>1 DEF Goes
  <2>3. Coming(client[c]) = 0 /\ Coming(R) = 0 /\ R.at # "sub" BY <2>1, <2>2, NotComing
  <2>4. pristine /\ ~drift' /\ leak' = 0 BY <1>1, StoryClean
  <2> QED BY <1>0, <2>1, <2>3, <2>4, CleanQuiet
<1>2. CASE Goes(c, "create", Idle) /\ Leak(client[c].owed) BY <1>0, <1>2, EndClean
<1> QED BY <1>1, <1>2 DEF WriteCreate

\* What a client that is dropped was about to add is not added any more.
LEMMA DroppedClean ==
  ASSUME Base, Base', Clean, pristine', NEW c \in Clients, Dropped(c)
  PROVE  Clean'
<1>1. PICK label : Goes(c, label, Idle) BY DEF Dropped
<1>2. Leak(client[c].owed) /\ cached' = cached BY DEF Dropped, disk
<1>3. pristine /\ ~drift' /\ leak' = 0 BY <1>2, StoryClean
<1>4. Moves(c, Idle) BY <1>1, EndFacts
<1>5. Coming(Idle) = 0 /\ Sights(Idle) BY NotComing DEF Idle, Sights
<1>6. Coming(client[c]) \in Nat BY StateTypes, ComingNat
<1>7. AsI64' = AsI64 /\ AsI64 \in Int BY <1>2, SignedSame, StateTypes
<1>8. AsI64' + Coming(Idle) <= AsI64 + Coming(client[c]) BY <1>5, <1>6, <1>7
<1> QED BY <1>3, <1>4, <1>5, <1>8, CleanGo

\* The second step of truncate_root, which sets the total to zero, keeps the ceiling.
LEMMA TruncateZeroClean ==
  ASSUME Base, Base', Kept, Clean, pristine', NEW c \in Clients, TruncateZero(c)
  PROVE  Clean'
<1>1. PICK R : Moves(c, R) /\ R.at = "remove" BY ZeroMoves DEF Base, TruncateZero
<1>2. pristine /\ ~drift' /\ leak' = 0 /\ leak = 0 BY StoryClean DEF TruncateZero, Clean
<1>3. Coming(client[c]) = 0 BY NotComing DEF TruncateZero, Goes
<1>4. Coming(R) = 0 /\ Sights(R) BY <1>1, NotComing DEF Sights
<1>5. AsI64' = 0
  <2>1. ~(0 >= Word \div 2) /\ cached' = 0 BY WordHolds DEF TruncateZero
  <2> QED BY <2>1 DEF AsI64
<1>6. AsI64 >= 0 /\ AsI64 \in Int
  <2>1. PICK due, gap, worth : KeptBy(due, gap, worth) BY KeptHas
  <2>2. Root \in Places BY DEF Places
  <2> QED BY <1>2, <2>1, <2>2, AccountNat, StateTypes
<1>7. AsI64' + Coming(R) <= AsI64 + Coming(client[c]) BY <1>3, <1>4, <1>5, <1>6
<1> QED BY <1>1, <1>2, <1>4, <1>7, CleanGo

\* The steps before the end that change neither the total nor what is about to be added
\* keep the ceiling.
LEMMA StayClean ==
  ASSUME Base, Base', Clean, pristine', NEW c \in Clients, DeletePrune(c) \/ RenameMove(c)
  PROVE  Clean'
<1>1. pristine /\ ~drift' /\ leak' = 0 /\ cached' = cached
  BY StoryClean DEF DeletePrune, RenameMove, disk
<1>3. CASE DeletePrune(c)
  <2>1. PICK R : Moves(c, R) /\ R.at = "remove" BY <1>3, PruneMoves DEF Base, DeletePrune
  <2>2. client[c].at = "prune" BY <1>3 DEF DeletePrune, Goes
  <2>3. Coming(client[c]) = 0 /\ Coming(R) = 0 /\ R.at # "sub" BY <2>1, <2>2, NotComing
  <2> QED BY <1>1, <2>1, <2>3, CleanQuiet
<1>4. CASE RenameMove(c)
  <2>1. PICK R : /\ Moves(c, R) /\ R.op = "rename" /\ R.at = "add" /\ R.delta = client[c].bytes /\ R.op = client[c].op
    BY <1>4, RenameMoveMoves DEF Base, Keeps
  <2>2. client[c].at = "move" /\ client[c].op = "rename" /\ Shape(client[c])
    BY <1>4, <2>1, StateTypes DEF RenameMove, Goes
  <2>3. client[c].then = "move" BY <2>2 DEF Shape, RenameShape
  <2>4. Coming(client[c]) = client[c].bytes /\ Coming(R) = client[c].bytes /\ R.at # "sub"
    BY <2>1, <2>2, <2>3 DEF Coming
  <2> QED BY <1>1, <2>1, <2>4, CleanQuiet
<1> QED BY <1>3, <1>4

\* Every step of a request, writer or task under way keeps the ceiling.
LEMMA ContinuesClean ==
  ASSUME Base, Base', Kept, Clean, pristine', NEW c \in Clients, Continues(c)
  PROVE  Clean'
BY AllocCheckClean, AllocAddClean, AllocLoadClean, AllocSubClean, AllocTreeClean, WriterClean, DiskClean, StayClean,
   WriteCreateClean, DroppedClean, TruncateZeroClean
   DEF Continues

\* An operation that begins without overlap leaves the history clean.
LEMMA BeganClean ==
  ASSUME Clean, pristine', NEW c \in Clients, NEW R, Began(c, R)
  PROVE  pristine /\ ~drift' /\ leak' = 0 /\ leak = 0 /\ Coming(client[c]) = 0
<1>1. pristine /\ ~drift' /\ leak' = leak /\ client[c].at = "idle" BY DEF Began
<1>2. leak = 0 BY <1>1 DEF Clean
<1> QED BY <1>1, <1>2, NotComing

\* A start that does not change the total keeps the ceiling.
LEMMA StartClean ==
  ASSUME Base, Base', Clean, pristine', NEW c \in Clients, NEW R, Moves(c, R), Began(c, R), cached' = cached,
         R.at \notin {"sub", "add", "tree", "move"}
  PROVE  Clean'
<1>1. pristine /\ ~drift' /\ leak' = 0 /\ Coming(client[c]) = 0 BY BeganClean
<1>2. Coming(R) = 0 /\ R.at # "sub" BY NotComing
<1> QED BY <1>1, <1>2, CleanQuiet

\* POST files/write, which compares the announced size with the old one, keeps the ceiling.
LEMMA WriteClean ==
  ASSUME Base, Base', Clean, pristine', NEW c \in Clients, NEW f \in Files, NEW n \in Sizes, NEW body \in Sizes,
         Write(c, f, n, body)
  PROVE  Clean'
<1>1. PICK R : /\ Moves(c, R) /\ R.files = {f}
               /\ R.at = IF n > size[f] THEN "check" ELSE IF n < size[f] THEN "load" ELSE "create"
  BY WriteMoves DEF Base
<1>2. Began(c, R) BY <1>1, WriteBegins
<1>3. R.at \notin {"sub", "add", "tree", "move"} /\ cached' = cached BY <1>1 DEF Write, disk
<1> QED BY <1>1, <1>2, <1>3, StartClean

\* Opening a writer, which empties the file, keeps the ceiling.
LEMMA OpenClean ==
  ASSUME Base, Base', Clean, pristine', NEW c \in Clients, NEW op \in {"async", "sync"}, NEW f \in Files, Open(c, op, f)
  PROVE  Clean'
<1>1. PICK R : Moves(c, R) /\ R.at = "open" /\ R.files = {f} BY OpenMoves DEF Base
<1>2. Began(c, R) BY <1>1, OpenBegins
<1>3. R.at \notin {"sub", "add", "tree", "move"} /\ cached' = cached BY <1>1 DEF Open
<1> QED BY <1>1, <1>2, <1>3, StartClean

\* POST files/copy, which allocates the size of the source first, keeps the ceiling.
LEMMA CopyClean ==
  ASSUME Base, Base', Clean, pristine', NEW c \in Clients, NEW f \in Files, NEW g \in Files, Copy(c, f, g)
  PROVE  Clean'
<1>1. PICK R : Moves(c, R) /\ R.at = "check" /\ R.files = {f, g} BY CopyMoves DEF Base
<1>2. Began(c, R) BY <1>1, CopyBegins
<1>3. R.at \notin {"sub", "add", "tree", "move"} /\ cached' = cached BY <1>1 DEF Copy, disk
<1> QED BY <1>1, <1>2, <1>3, StartClean

\* `truncate_path', of a file or of a directory, keeps the ceiling.
LEMMA DeleteClean ==
  ASSUME Base, Base', Clean, pristine', NEW c \in Clients,
         (\E f \in Files : DeleteFile(c, f)) \/ (\E d \in Dirs : DeleteDir(c, d))
  PROVE  Clean'
<1>1. ASSUME NEW f \in Files, DeleteFile(c, f) PROVE Clean'
  <2>1. PICK R : Moves(c, R) /\ R.at = "load" /\ R.files = {f} BY <1>1, DeleteFileMoves DEF Base
  <2>2. Began(c, R) BY <1>1, <2>1, DeleteFileBegins
  <2>3. R.at \notin {"sub", "add", "tree", "move"} /\ cached' = cached
    BY <1>1, <2>1 DEF DeleteFile, disk
  <2> QED BY <2>1, <2>2, <2>3, StartClean
<1>2. ASSUME NEW d \in Dirs, DeleteDir(c, d) PROVE Clean'
  <2>1. PICK R : Moves(c, R) /\ R.at = (IF tree[d] = 0 THEN "prune" ELSE "load") /\ R.files = In(d)
    BY <1>2, DeleteDirMoves DEF Base
  <2>2. Began(c, R) BY <1>2, <2>1, DeleteDirBegins
  <2>3. R.at \notin {"sub", "add", "tree", "move"} /\ cached' = cached
    BY <1>2, <2>1 DEF DeleteDir, disk
  <2> QED BY <2>1, <2>2, <2>3, StartClean
<1> QED BY <1>1, <1>2

\* `rename_path', of a file or of a directory, keeps the ceiling.
LEMMA RenameClean ==
  ASSUME Base, Base', Clean, pristine', NEW c \in Clients,
         (\E f, g \in Files : RenameFile(c, f, g)) \/ (\E d, e \in Dirs : RenameDir(c, d, e))
  PROVE  Clean'
<1>1. ASSUME NEW f \in Files, NEW g \in Files, RenameFile(c, f, g) PROVE Clean'
  <2>1. PICK R : Moves(c, R) /\ R.at = "load" /\ R.files = {f, g}
    BY <1>1, RenameFileMoves DEF Base
  <2>2. Began(c, R) BY <1>1, <2>1, RenameFileBegins
  <2>3. R.at \notin {"sub", "add", "tree", "move"} /\ cached' = cached
    BY <1>1, <2>1 DEF RenameFile, disk
  <2> QED BY <2>1, <2>2, <2>3, StartClean
<1>2. ASSUME NEW d \in Dirs, NEW e \in Dirs, RenameDir(c, d, e) PROVE Clean'
  <2>1. PICK R : Moves(c, R) /\ RenamesDir(R, d, e) BY <1>2, RenameDirMoves DEF Base
  <2>2. R.files = In(d) \cup In(e) /\ R.at = "rename" BY <2>1 DEF RenamesDir
  <2>3. Began(c, R) BY <1>2, <2>2, RenameDirBegins
  <2>4. R.at \notin {"sub", "add", "tree", "move"} /\ cached' = cached
    BY <1>2, <2>2 DEF RenameDir
  <2> QED BY <2>1, <2>3, <2>4, StartClean
<1> QED BY <1>1, <1>2

\* The start of truncate_root, which clears the tree, keeps the ceiling.
LEMMA TruncateRootClean ==
  ASSUME Base, Base', Clean, pristine', NEW c \in Clients, TruncateRoot(c)
  PROVE  Clean'
<1>1. PICK R : Moves(c, R) /\ R.at = "zero" /\ R.files = Files BY TruncateMoves DEF Base
<1>2. Began(c, R) BY <1>1, TruncateRootBegins
<1>3. R.at \notin {"sub", "add", "tree", "move"} /\ cached' = cached BY <1>1 DEF TruncateRoot
<1> QED BY <1>1, <1>2, <1>3, StartClean

\* Every request as it starts keeps the ceiling.
LEMMA StartsClean ==
  ASSUME Base, Base', Clean, pristine', NEW c \in Clients, Starts(c)
  PROVE  Clean'
<1>1. ASSUME NEW f \in Files, Upload(c, f) \/ Pull(c, f) \/ Compress(c, f) \/ Decompress(c, f)
      PROVE  Clean'
  <2>1. PICK op \in {"async", "sync"} : Open(c, op, f)
    BY <1>1 DEF Upload, Pull, Compress, Decompress
  <2> QED BY <2>1, OpenClean
<1> QED BY <1>1, WriteClean, CopyClean, DeleteClean, RenameClean, TruncateRootClean DEF Starts

\* A step that leaves the total and the clients alone keeps the ceiling.
LEMMA SameClean ==
  ASSUME Clean, cached' = cached, client' = client, leak' = leak, pristine' => pristine, pristine' => ~drift'
  PROVE  Clean'
<1>1. AsI64' = AsI64 BY SignedSame
<1> QED BY <1>1 DEF Clean

\* The disk checker as it stores the total keeps the ceiling.
LEMMA CheckStoreClean ==
  ASSUME Base, Base', Clean, pristine', CheckStore
  PROVE  Clean'
<1>1. /\ pristine /\ check.quiet /\ check.at = "store" /\ ~drift' /\ leak' = 0 /\ client' = client
      /\ Counted <= AsI64 /\ cached' = Counted % Word
  BY DEF CheckStore
<1>2. PICK S : S = check.found OBVIOUS
<1>3. S \in SUBSET Dirs BY <1>2 DEF Base, Typed, Checks
<1>4. Counted = Real + Lengths(S) BY <1>1, <1>2 DEF Base, Walk, Counted
<1>5. PICK n \in Nat : n = Real + Lengths(S) /\ ~(n >= Word \div 2) /\ n < Word
  BY <1>3, RealFits
<1>6. cached' = n
  <2>1. Word \in Nat /\ Word > 0 BY Constants
  <2>2. n % Word = n BY <1>5, <2>1
  <2> QED BY <1>1, <1>4, <1>5, <2>2
<1>7. AsI64' = n BY <1>5, <1>6 DEF AsI64
<1>8. PICK cl, x : cl = client /\ x = AsI64 OBVIOUS
<1>9. x \in Int /\ n <= x BY <1>1, <1>4, <1>5, <1>8, StateTypes
<1>10. Comings(cl) \in Int
  <2>1. PICK c \in Clients : TRUE BY FilesAssumption
  <2>2. cl \in [Clients -> Records] BY <1>8, StateTypes
  <2> QED BY <2>2, ComingsStep, IdleRecord, <2>1
<1>11. 0 \notin Limits => n + Comings(cl) <= Ceiling
  <2>1. 0 \notin Limits => x + Comings(cl) <= Ceiling BY <1>1, <1>8 DEF Clean
  <2> QED BY <1>5, <1>9, <1>10, <2>1, CeilingNat
<1>12. \A c \in Clients : Sights(client'[c]) BY <1>1 DEF Clean
<1> QED BY <1>1, <1>7, <1>8, <1>11, <1>12 DEF Clean

\* Every step of the disk checker keeps the ceiling.
LEMMA CheckerClean ==
  ASSUME Base, Base', Clean, pristine', Checker
  PROVE  Clean'
<1>1. CASE CheckBegin BY <1>1, SameClean DEF CheckBegin, disk, history, Clean
<1>2. CASE \E f \in Files : CheckVisit(f)
  BY <1>2, SameClean DEF CheckVisit, disk, history, Clean
<1>3. CASE CheckTree BY <1>3, SameClean DEF CheckTree, Clean
<1>4. CASE CheckStore BY <1>4, CheckStoreClean
<1>5. CASE CheckFails BY <1>5, SameClean DEF CheckFails, disk, history, Clean
<1>6. CASE \E d \in Dirs : CheckVisitDir(d)
  BY <1>6, SameClean DEF CheckVisitDir, disk, history, Clean
<1> QED BY <1>1, <1>2, <1>3, <1>4, <1>5, <1>6 DEF Checker

\* A step that ends pristine began so.
LEMMA PristineBefore ==
  ASSUME Next, pristine'
  PROVE  pristine
<1>1. CASE Checker
  BY <1>1 DEF Checker, CheckBegin, CheckVisit, CheckVisitDir, CheckTree, CheckStore, CheckFails, history
<1>2. CASE SetLimit BY <1>2 DEF SetLimit, history
<1>3. ASSUME NEW c \in Clients, Starts(c) PROVE pristine
  <2>1. ASSUME NEW op, NEW files, NEW label, Begin(c, op, files, label) PROVE pristine
    BY <2>1 DEF Begin
  <2>2. ASSUME NEW f \in Files, Upload(c, f) \/ Pull(c, f) \/ Compress(c, f) \/ Decompress(c, f)
        PROVE  pristine
    BY <2>1, <2>2 DEF Upload, Pull, Compress, Decompress, Open
  <2>3. CASE TruncateRoot(c) BY <2>1, <2>3 DEF TruncateRoot
  <2>4. ASSUME NEW f \in Files, NEW n \in Sizes, NEW body \in Sizes, Write(c, f, n, body)
        PROVE  pristine
    BY <2>1, <2>4 DEF Write
  <2>5. ASSUME NEW f \in Files, NEW g \in Files, DeleteFile(c, f) \/ Copy(c, f, g) \/ RenameFile(c, f, g)
        PROVE  pristine
    BY <2>1, <2>5 DEF DeleteFile, Copy, RenameFile
  <2>6. ASSUME NEW d \in Dirs, NEW e \in Dirs, DeleteDir(c, d) \/ RenameDir(c, d, e)
        PROVE  pristine
    BY <2>1, <2>6 DEF DeleteDir, RenameDir
  <2> QED BY <1>3, <2>2, <2>3, <2>4, <2>5, <2>6 DEF Starts
<1>4. ASSUME NEW c \in Clients, Continues(c) PROVE pristine
  <2>1. ASSUME UNCHANGED history \/ \E n : Leak(n) PROVE pristine
    BY <2>1 DEF Leak, history
  <2>2. CASE AllocCheck(c) \/ AllocAdd(c) \/ AllocLoad(c) \/ AllocSub(c) \/ AllocTree(c)
    BY <2>1, <2>2 DEF AllocCheck, AllocAdd, AllocLoad, AllocSub, AllocTree, Refused
  <2>3. CASE WriteCreate(c) \/ WriteBody(c) \/ WriterWrite(c) \/ WriterFlush(c) \/ WriterDrop(c) \/ Done(c)
    BY <2>1, <2>3 DEF WriteCreate, WriteBody, WriterWrite, WriterFlush, WriterDrop, Done
  <2>4. CASE CopyBody(c) \/ DeletePrune(c) \/ Remove(c) \/ RenameMove(c) \/ RenameDisk(c)
    BY <2>1, <2>4 DEF CopyBody, DeletePrune, Remove, RenameMove, RenameDisk
  <2>5. CASE Dropped(c) \/ TruncateZero(c) BY <2>1, <2>5 DEF Dropped, TruncateZero
  <2> QED BY <1>4, <2>2, <2>3, <2>4, <2>5 DEF Continues
<1> QED BY <1>1, <1>2, <1>3, <1>4 DEF Next

\* Every step keeps the ceiling.
LEMMA NextClean ==
  ASSUME Accounted, Clean, [Next]_vars
  PROVE  Clean'
<1>1. Base /\ Base' /\ (~drift => Account) BY NextBase DEF Accounted
<1>2. CASE UNCHANGED vars BY <1>2, SameClean DEF vars, disk, history, Clean
<1>3. CASE Next /\ ~pristine' BY <1>3 DEF Clean
<1>4. CASE Next /\ pristine'
  <2>1. pristine BY <1>4, PristineBefore
  <2>2. Account BY <1>1, <2>1 DEF Clean
  <2>3. CASE Checker BY <1>1, <1>4, <2>3, CheckerClean
  <2>4. CASE SetLimit BY <2>4, SameClean DEF SetLimit, disk, history, Clean
  <2>5. ASSUME NEW c \in Clients, Starts(c) PROVE Clean'
    BY <1>1, <1>4, <2>5, StartsClean
  <2>6. ASSUME NEW c \in Clients, Continues(c) PROVE Clean'
    <3>1. ~check.quiet BY <1>1, <2>6, Active
    <3>2. Kept BY <2>2, <3>1 DEF Account, Midway
    <3> QED BY <1>1, <1>4, <2>6, <3>2, ContinuesClean
  <2> QED BY <1>4, <2>3, <2>4, <2>5, <2>6 DEF Next
<1> QED BY <1>2, <1>3, <1>4

\* The ceiling holds when the server starts.
LEMMA InitClean ==
  ASSUME Init
  PROVE  Clean
<1>1. Base BY InitBase
<1>2. PICK g \in Files : size = [f \in Files |-> IF f = g THEN Largest ELSE 0] BY DEF Init
<1>3. PICK z, y : z = [f \in Files |-> 0] /\ y = size OBVIOUS
<1>4. z \in [Files -> Int] /\ y \in [Files -> Int] /\ y[g] = Largest /\ z[g] = 0 /\ \A f \in Files : f # g => z[f] = y[f]
  BY <1>2, <1>3, Constants
<1>5. All(z) = 0 BY <1>3, Zeros
<1>6. All(y) = All(z) - z[g] + y[g] BY <1>4, AllChange
<1>7. Real = Largest BY <1>3, <1>4, <1>5, <1>6, Constants DEF Real
<1>70. PICK S \in SUBSET Dirs : cached = Real + Lengths(S) BY DEF Init
<1>71. PICK n \in Nat : n = Largest + Lengths(S) /\ ~(n >= Word \div 2)
  BY <1>1, <1>7, <1>70, RealFits
<1>8. AsI64 = n BY <1>7, <1>70, <1>71 DEF AsI64
<1>9. Coming(Idle) = 0 /\ Sights(Idle) BY NotComing DEF Idle, Sights
<1>10. Comings(client) = 0
  <2>1. [c \in Clients |-> Coming(client[c])] = [c \in Clients |-> 0] BY <1>9 DEF Init
  <2> QED BY <2>1, Finite, TotalZero DEF Comings
<1>11. n + 0 <= Ceiling
  <2>1. PICK l \in Nat, d \in Nat, m \in Nat, k \in Nat :
          l = Lengths(S) /\ d = Lengths(Dirs) /\ m = Max(Limits \cup {Largest + d}) /\ k = (Cardinality(Clients) - 1) * Largest
    BY <1>70, Lengthy, Highest, CeilingNat
  <2>2. l <= d /\ Largest + d <= m /\ n = Largest + l /\ Ceiling = m + k
    BY <1>70, <1>71, <2>1, Lengthy, Highest DEF Ceiling
  <2> QED BY <1>71, <2>1, <2>2, Constants
<1> QED BY <1>71, <1>8, <1>9, <1>10, <1>11 DEF Init, Clean

\* The ceiling gives the bound on the overshoot.
LEMMA CleanBounded ==
  ASSUME Accounted, Clean
  PROVE  OvershootIsBounded
<1> SUFFICES ASSUME pristine, 0 \notin Limits PROVE AsI64 <= Ceiling
  BY DEF OvershootIsBounded, Ceiling
<1>1. Base BY DEF Accounted
<1>2. AsI64 + Comings(client) <= Ceiling BY DEF Clean
<1>3. PICK cl, x : cl = client /\ x = AsI64 OBVIOUS
<1>4. cl \in [Clients -> Records] /\ x \in Int BY <1>1, <1>3, StateTypes
<1>5. Comings(cl) \in Nat
  <2>1. PICK a : a = [c \in Clients |-> Coming(cl[c])] OBVIOUS
  <2>2. PICK o : o = [c \in Clients |-> 0] OBVIOUS
  <2>3. ASSUME NEW c \in Clients PROVE 0 <= Coming(cl[c])
    <3>1. cl[c] \in Records /\ Shape(cl[c]) BY <1>1, <1>3, StateTypes
    <3> QED BY <3>1, ComingNat
  <2>4. a \in [Clients -> Int] /\ o \in [Clients -> Int] /\ \A c \in Clients : o[c] <= a[c]
    BY <1>4, <2>1, <2>2, <2>3, OfRecord
  <2>5. Total(o, Clients) <= Total(a, Clients) /\ Total(o, Clients) = 0 /\ Total(a, Clients) \in Int
    BY <2>2, <2>4, Finite, TotalMono, TotalZero, TotalInt
  <2> QED BY <2>1, <2>5 DEF Comings
<1> QED BY <1>2, <1>3, <1>4, <1>5, CeilingNat

\* OvershootIsBounded holds in every reachable state: requests that pass the comparison with
\* disk_limit side by side exceed it by one allocation of each of the others at most.
THEOREM OvershootBounded == Spec => []OvershootIsBounded
<1>1. Init => Clean BY InitClean
<1>2. Accounted /\ Clean /\ [Next]_vars => Clean' BY NextClean
<1>3. Accounted /\ Clean => OvershootIsBounded BY CleanBounded
<1> QED BY <1>1, <1>2, <1>3, Spec_Accounted, PTL DEF Spec
===============================================================================
