---------------------------- MODULE TransferProofs ----------------------------
(***************************************************************************)
(* Proofs about Transfer, for any number of transfers and parts.           *)
(***************************************************************************)
EXTENDS Transfer, TLAPS

(***************************************************************************)
(* The strengthening.  Parts are read after they are written, and written  *)
(* as long as the body has more (InOrder); a task has a connection only    *)
(* once the server is stopped (LineIsLater).  The slot holds a task that   *)
(* was spawned, never that of a POST yet to fill it (SlotIsPast).          *)
(* A task at work without the protection of the flag, or beside a start    *)
(* that has passed its guard, is one the history knows of (Guarded).  A    *)
(* transfer reported to the panel is over at the destination (ToldIsOver). *)
(***************************************************************************)
InOrder == \A t \in Transfers : got[t] <= sent[t] /\ sent[t] <= Total(t)

LineIsLater == \A t \in Transfers : job[t] \in {"none", "stop"} => line[t] = "none"

SlotIsPast ==
  /\ \A t \in posting : job[t] # "none"
  /\ slot \in Transfers => slot \notin posting /\ job[slot] # "none"

Guarded == \A t \in Transfers : job[t] \in Alive /\ (starting \/ ~transferring) => raced

ToldIsOver == \A t \in told : unpack[t] = "ok"

\* The variables of the source that the guards and the flag are about.
guards == <<transferring, slot, posting, running, starting, job, raced, unstopped, crossed>>

Types == TypeOK /\ InOrder /\ LineIsLater

Flags == SlotIsPast /\ FlagHasOwner /\ Guarded /\ StreamIsQuiet

Reports == ToldIsOver /\ SuccessIsWholeBody

IInv == Types /\ Flags /\ Reports

LEMMA InitIInv == Init => IInv
<1> SUFFICES ASSUME Init PROVE IInv
  OBVIOUS
<1>1. Types
  <2>1. {transferring, deleting, running, starting, present, incoming, raced, unstopped, crossed} \subseteq BOOLEAN
    BY DEF Init
  <2>2. /\ job \in [Transfers -> Jobs] /\ unpack \in [Transfers -> Handlers]
        /\ line \in [Transfers -> {"none", "open", "cut"}]
    BY DEF Init, Jobs, Handlers
  <2>3. /\ sent \in [Transfers -> 0..(Entries + Backups)] /\ got \in [Transfers -> 0..(Entries + Backups)]
        /\ whole \in [Transfers -> 0..Entries] /\ InOrder
    BY TransferAssumption DEF Init, InOrder, Total
  <2> QED
    BY <2>1, <2>2, <2>3 DEF Init, Types, TypeOK, LineIsLater
<1>2. SlotIsPast /\ FlagHasOwner
  BY TransferAssumption DEF Init, SlotIsPast, FlagHasOwner
<1>3. Guarded /\ StreamIsQuiet
  BY DEF Init, Guarded, StreamIsQuiet, Alive
<1>4. Reports
  BY DEF Init, Reports, ToldIsOver, SuccessIsWholeBody
<1> QED
  BY <1>1, <1>2, <1>3, <1>4 DEF IInv, Flags

\* What an abort does to the tasks: at most the one that was named is aborted.
LEMMA AbortFact ==
  ASSUME NEW u, NEW jobs \in [Transfers -> Jobs], Abort(u, jobs), TypeOK
  PROVE  /\ job' \in [Transfers -> Jobs]
         /\ \A t \in Transfers : job'[t] = jobs[t] \/ (t = u /\ jobs[t] \in Alive /\ job'[t] = "aborted")
         /\ line' \in [Transfers -> {"none", "open", "cut"}]
         /\ \A t \in Transfers : line'[t] = line[t] \/ (line[t] = "open" /\ line'[t] = "cut")
BY DEF Abort, Cut, TypeOK, Jobs, Alive

------------------------------------------------------------------------------
(* The types. *)

LEMMA TypesStep == Types /\ [Next]_vars => Types'
<1> SUFFICES ASSUME Types, [Next]_vars PROVE Types'
  OBVIOUS
<1> USE TransferAssumption DEF Types, TypeOK, InOrder, LineIsLater, Total, source, wire, dest, hist
<1>1. ASSUME Start \/ Run \/ Exit \/ Delete \/ Cancel \/ Remove PROVE Types'
  BY <1>1 DEF Start, Run, Exit, Delete, Cancel, Remove
<1>2. ASSUME Empty PROVE Types'
  <2>1. /\ job' \in [Transfers -> Jobs]
        /\ line' \in [Transfers -> {"none", "open", "cut"}]
        /\ LineIsLater'
    BY <1>2, AbortFact DEF Empty
  <2>2. /\ {transferring', deleting', running', starting', present', incoming', raced', unstopped', crossed'} \subseteq BOOLEAN
        /\ slot' \in Transfers \cup {NoTransfer}
        /\ UNCHANGED <<posting, stored, sent, whole, dest, told>>
    BY <1>2 DEF Empty
  <2> QED
    BY <2>1, <2>2
<1>3. ASSUME NEW t \in Transfers, Post(t) PROVE Types'
  BY <1>3 DEF Post, Go, Jobs, Alive
<1>4. ASSUME NEW t \in Transfers, Fill(t) PROVE Types'
  BY <1>4, AbortFact DEF Fill
<1>5. ASSUME NEW t \in Transfers, Stop(t) \/ StopFails(t) \/ Streamed(t) \/ Finish(t)
      PROVE  Types'
  BY <1>5 DEF Stop, StopFails, Streamed, Finish, Go, Jobs, Alive
<1>6. ASSUME NEW t \in Transfers, FailTransfer(t) PROVE Types'
  <2> DEFINE jobs == [job EXCEPT ![t] = "done"]
  <2>1. jobs \in [Transfers -> Jobs] /\ Abort(slot, jobs)
    BY <1>6 DEF FailTransfer, Jobs
  <2>2. \A u \in Transfers : jobs[u] \in {"none", "stop"} => line[u] = "none"
    OBVIOUS
  <2> HIDE DEF jobs
  <2>3. /\ job' \in [Transfers -> Jobs]
        /\ line' \in [Transfers -> {"none", "open", "cut"}]
        /\ LineIsLater'
    BY <2>1, <2>2, AbortFact
  <2>4. /\ {transferring', deleting', running', starting', present', incoming', raced', unstopped', crossed'} \subseteq BOOLEAN
        /\ slot' \in Transfers \cup {NoTransfer}
        /\ UNCHANGED <<posting, stored, sent, whole, dest, told>>
    BY <1>6 DEF FailTransfer
  <2> QED
    BY <2>3, <2>4
<1>7. ASSUME NEW t \in Transfers, Send(t) \/ ArchiveFails(t) \/ Break(t) PROVE Types'
  <2>1. CASE Send(t)
    BY <2>1 DEF Send
  <2>2. CASE ArchiveFails(t)
    BY <2>2 DEF ArchiveFails
  <2>3. CASE Break(t)
    BY <2>3 DEF Break, Cut
  <2> QED
    BY <1>7, <2>1, <2>2, <2>3
<1>8. ASSUME NEW t \in Transfers, Accept(t) \/ Create(t) \/ FetchFails(t) \/ UnpackFails(t) \/ Report(t)
      PROVE  Types'
  <2>1. unpack' \in [Transfers -> Handlers]
    BY <1>8 DEF Accept, Create, FetchFails, UnpackFails, Report, Answer, Handlers, Answered
  <2>2. /\ line' \in [Transfers -> {"none", "open", "cut"}]
        /\ \A u \in Transfers : line[u] = "none" => line'[u] = "none"
    BY <1>8 DEF Accept, Create, FetchFails, UnpackFails, Report, Cut
  <2>3. /\ told' \subseteq Transfers
        /\ {present', incoming'} \subseteq BOOLEAN
        /\ UNCHANGED <<source, sent, whole, got, received, hist>>
    BY <1>8 DEF Accept, Create, FetchFails, UnpackFails, Report
  <2> QED
    BY <2>1, <2>2, <2>3
<1>9. ASSUME NEW t \in Transfers, Unpack(t) PROVE Types'
  <2>1. got' \in [Transfers -> 0..(Entries + Backups)] /\ \A u \in Transfers : got'[u] <= sent[u]
    BY <1>9 DEF Unpack
  <2>2. received' \subseteq 1..Backups
    <3>1. got[t] < whole[t] + Backups /\ got[t] \in Nat /\ whole[t] \in Nat /\ Backups \in Nat
      BY <1>9 DEF Unpack
    <3>2. got[t] >= whole[t] => got[t] - whole[t] + 1 \in 1..Backups
      BY <3>1
    <3> QED
      BY <1>9, <3>2 DEF Unpack
  <2> QED
    BY <1>9, <2>1, <2>2 DEF Unpack
<1>10. CASE UNCHANGED vars
  BY <1>10 DEF vars
<1> QED
  BY <1>1, <1>2, <1>3, <1>4, <1>5, <1>6, <1>7, <1>8, <1>9, <1>10 DEF Next

------------------------------------------------------------------------------
(* The flag. *)

\* The steps that leave the flag's variables alone.
LEMMA GuardsUnchanged == Flags /\ UNCHANGED guards => Flags'
BY DEF Flags, SlotIsPast, FlagHasOwner, Guarded, StreamIsQuiet, guards

LEMMA FlagsStep == Types /\ Flags /\ [Next]_vars => Flags'
<1> SUFFICES ASSUME Types, Flags, [Next]_vars PROVE Flags'
  OBVIOUS
<1>0. /\ {transferring, running, starting, raced, unstopped, crossed} \subseteq BOOLEAN
      /\ job \in [Transfers -> Jobs] /\ posting \subseteq Transfers
      /\ slot \in Transfers \cup {NoTransfer}
  BY DEF Types, TypeOK
<1> USE TransferAssumption, <1>0 DEF Flags, SlotIsPast, FlagHasOwner, Guarded, StreamIsQuiet,
        Alive, Others
<1>1. CASE Start
  BY <1>1 DEF Start, hist
<1>2. CASE Run \/ Exit
  BY <1>2 DEF Run, Exit, hist
<1>3. CASE Delete
  BY <1>3 DEF Delete
<1>4. CASE Empty
  BY <1>4, AbortFact DEF Empty, Owned, Types
<1>5. ASSUME NEW t \in Transfers, Post(t) PROVE Flags'
  BY <1>5 DEF Post, Go
<1>6. ASSUME NEW t \in Transfers, Fill(t) PROVE Flags'
  BY <1>6, AbortFact DEF Fill, Owned, Types
<1>7. ASSUME NEW t \in Transfers, Stop(t) \/ StopFails(t) PROVE Flags'
  <2>1. CASE Stop(t)
    BY <2>1 DEF Stop, Go
  <2>2. CASE StopFails(t)
    BY <2>2 DEF StopFails, Go
  <2> QED
    BY <1>7, <2>1, <2>2
<1>8. ASSUME NEW t \in Transfers, Streamed(t) PROVE Flags'
  BY <1>8 DEF Streamed, Go, hist
<1>9. ASSUME NEW t \in Transfers, Finish(t) PROVE Flags'
  BY <1>9 DEF Finish, Go
<1>10. ASSUME NEW t \in Transfers, FailTransfer(t) PROVE Flags'
  <2> DEFINE jobs == [job EXCEPT ![t] = "done"]
  <2>1. jobs \in [Transfers -> Jobs]
    BY DEF Jobs
  <2>2. Abort(slot, jobs)
    BY <1>10 DEF FailTransfer
  <2>3. \A u \in Transfers : job'[u] = jobs[u] \/ (jobs[u] \in Alive /\ job'[u] = "aborted")
    <3> HIDE DEF jobs
    <3> QED
      BY <2>1, <2>2, AbortFact DEF Types
  <2> QED
    BY <1>10, <2>3 DEF FailTransfer
<1>11. ASSUME UNCHANGED guards PROVE Flags'
  BY <1>11, GuardsUnchanged
<1>12. ASSUME NEW t \in Transfers,
              \/ Send(t) \/ ArchiveFails(t) \/ Break(t) \/ Accept(t) \/ Create(t)
              \/ FetchFails(t) \/ Unpack(t) \/ Report(t) \/ UnpackFails(t)
       PROVE  UNCHANGED guards
  BY <1>12 DEF Send, ArchiveFails, Break, Accept, Create, FetchFails, Unpack, Report, UnpackFails,
     source, hist, guards
<1>13. ASSUME Cancel \/ Remove \/ UNCHANGED vars PROVE UNCHANGED guards
  BY <1>13 DEF Cancel, Remove, vars, source, hist, guards
<1> QED
  BY <1>1, <1>2, <1>3, <1>4, <1>5, <1>6, <1>7, <1>8, <1>9, <1>10, <1>11, <1>12, <1>13 DEF Next

------------------------------------------------------------------------------
(* The report. *)

LEMMA ReportsStep == Types /\ Reports /\ [Next]_vars => Reports'
<1> SUFFICES ASSUME Types, Reports, [Next]_vars PROVE Reports'
  OBVIOUS
<1> USE TransferAssumption DEF Reports, ToldIsOver, SuccessIsWholeBody
<1>0. told \subseteq Transfers /\ TypeOK /\ job \in [Transfers -> Jobs]
  BY DEF Types, TypeOK
\* A report that was made stands as long as the body it is about does.
<1>1. ASSUME /\ UNCHANGED <<told, unpack, got>>
             /\ \A t \in Transfers : line[t] = "cut" => line'[t] = "cut"
             /\ \A t \in Transfers : whole[t] < Entries => whole'[t] < Entries
      PROVE  Reports'
  BY <1>0, <1>1
<1>2. ASSUME NEW t \in Transfers, Fill(t) PROVE Reports'
  BY <1>0, <1>1, <1>2, AbortFact DEF Fill, dest
<1>3. ASSUME Empty PROVE Reports'
  BY <1>0, <1>1, <1>3, AbortFact DEF Empty, dest
<1>4. ASSUME NEW t \in Transfers, FailTransfer(t) PROVE Reports'
  <2>1. [job EXCEPT ![t] = "done"] \in [Transfers -> Jobs]
    BY <1>0 DEF TypeOK, Jobs
  <2> QED
    BY <1>0, <1>1, <1>4, <2>1, AbortFact DEF FailTransfer, dest
<1>5. ASSUME Start \/ Run \/ Exit \/ Delete \/ Cancel \/ Remove PROVE Reports'
  BY <1>0, <1>1, <1>5 DEF Start, Run, Exit, Delete, Cancel, Remove, wire, dest
<1>6. ASSUME NEW t \in Transfers, Post(t) \/ StopFails(t) \/ Streamed(t) \/ Finish(t) \/ Send(t)
      PROVE  Reports'
  BY <1>0, <1>1, <1>6 DEF Post, StopFails, Streamed, Finish, Send, wire, dest
<1>7. ASSUME NEW t \in Transfers, Break(t) PROVE Reports'
  BY <1>0, <1>1, <1>7 DEF Break, Cut, TypeOK, dest
<1>8. ASSUME NEW t \in Transfers, ArchiveFails(t) PROVE Reports'
  BY <1>0, <1>1, <1>8 DEF ArchiveFails, Types, TypeOK, InOrder, dest
<1>9. ASSUME NEW t \in Transfers, Stop(t) PROVE Reports'
  BY <1>0, <1>9 DEF Stop, Go, Types, LineIsLater, TypeOK, dest
<1>10. ASSUME NEW t \in Transfers, Accept(t) \/ Create(t) \/ FetchFails(t) \/ UnpackFails(t)
       PROVE  Reports'
  BY <1>0, <1>10 DEF Accept, Create, FetchFails, UnpackFails, Answer, Cut, TypeOK, wire
<1>11. ASSUME NEW t \in Transfers, Unpack(t) PROVE Reports'
  BY <1>0, <1>11 DEF Unpack, TypeOK, wire
<1>12. ASSUME NEW t \in Transfers, Report(t) PROVE Reports'
  BY <1>0, <1>12 DEF Report, EndOfBody, Total, Answer, TypeOK, wire
<1>13. CASE UNCHANGED vars
  BY <1>0, <1>1, <1>13 DEF vars, wire, dest
<1> QED
  BY <1>2, <1>3, <1>4, <1>5, <1>6, <1>7, <1>8, <1>9, <1>10, <1>11, <1>12, <1>13 DEF Next

------------------------------------------------------------------------------
LEMMA Inductive == Spec => []IInv
<1>1. IInv /\ [Next]_vars => IInv'
  BY TypesStep, FlagsStep, ReportsStep DEF IInv
<1> QED
  BY InitIInv, <1>1, PTL DEF Spec

\* Every variable of Transfer stays in its range: no part is sent or read beyond
\* the body, however the archive and the connection fail.
THEOREM TransferTypes == Spec => []TypeOK
<1>1. IInv => TypeOK
  BY DEF IInv, Types
<1> QED
  BY <1>1, Inductive, PTL

\* However POSTs, DELETEs and failures of several transfers cross, the flag
\* `transferring' is raised only while a task is alive that will lower it, but
\* for a handler that took the slot late.
THEOREM FlagIsNeverLeaked == Spec => []FlagHasOwner
<1>1. IInv => FlagHasOwner
  BY DEF IInv, Flags
<1> QED
  BY <1>1, Inductive, PTL

\* The server does not run while its files are streamed, unless the flag could
\* not keep the start out or the process is one that a stop left running.
THEOREM StreamsAreQuiet == Spec => []StreamIsQuiet
<1>1. IInv => StreamIsQuiet
  BY DEF IInv, Flags
<1> QED
  BY <1>1, Inductive, PTL

\* A transfer the destination reports as successful was read to the end of its
\* body, unless the connection broke or the archive was cut short.
THEOREM ReportsAreWhole == Spec => []SuccessIsWholeBody
<1>1. IInv => SuccessIsWholeBody
  BY DEF IInv, Reports
<1> QED
  BY <1>1, Inductive, PTL
===============================================================================
