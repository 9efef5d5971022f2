----------------------------- MODULE Jobs_proofs -----------------------------
(***************************************************************************)
(* Proofs about Jobs, for any jobs, checkpoints and limits: types, what    *)
(* the registry keeps of jobs on their way, and what the inbox says.       *)
(*                                                                         *)
(* Eviction takes jobs that have ended only, so a job on its way must be   *)
(* one without an ending; and a request to stop is accepted on the status  *)
(* alone, so the status must tell in which part of its run the worker is.  *)
(***************************************************************************)
EXTENDS Jobs, Counting

\* A job has no ending before its worker recorded one.
NotEnded == \A j \in Job : thread[j] = "none" \/ Unrecorded(j) => ended[j] = 0

\* The status of a listed job says whether its worker recorded an outcome.
StatusTells ==
  /\ \A j \in registry : thread[j] # "none" /\ (thread[j] = "over" => Terminal(j))
  /\ \A j \in Job : thread[j] = "announcing" => Terminal(j)

\* Only a worker that is through has put its job into the inbox.
ToldOnce == \A j \in Job : inbox[j] # NoRow => thread[j] = "over"

IInv ==
  /\ TypeOK
  /\ LiveJobsAreListed /\ NotEnded
  /\ NoStaleCancel /\ StatusTells
  /\ InboxAgrees /\ ToldOnce

-----------------------------------------------------------------------------
(* Eviction takes jobs of the list that have ended.                        *)
LEMMA EvictsEnded ==
  ASSUME NEW R \in SUBSET Job
  PROVE  Evicted(R) \subseteq {j \in R : ended[j] # 0}
BY DEF Evicted, First

(* Trimming leaves each row as it is or takes it, and takes no unseen one. *)
LEMMA TrimSpares ==
  ASSUME NEW box \in [Job -> Row \cup {NoRow}]
  PROVE  /\ Trimmed(box) \in [Job -> Row \cup {NoRow}]
         /\ \A j \in Job : Trimmed(box)[j] = box[j] \/ Trimmed(box)[j] = NoRow
         /\ \A j \in Job : box[j].seen = "unread" => Trimmed(box)[j] = box[j]
BY DEF Trimmed, First, Seen

(* What the registry counts is a number.                                   *)
LEMMA Counts == ASSUME NEW S \in SUBSET Job PROVE Cardinality(S) \in Nat
<1>1. IsFiniteSet(S)
  BY JobsAssumption, FS_Subset
<1>2. QED
  BY <1>1, FS_CardinalityType

(* Trimming takes as many seen rows as are over the cap: either the rest   *)
(* is within the cap or no seen row is left.  Rows that arrived together   *)
(* come together, so it may take more.                                     *)
LEMMA TrimMakesRoom ==
  ASSUME NEW box \in [Job -> Row \cup {NoRow}]
  PROVE  Cardinality(Stored(Trimmed(box))) <= Items \/ Seen(Trimmed(box)) = {}
<1> DEFINE Sooner(k, j) == IF box[k].seen = box[j].seen THEN box[k].arrived < box[j].arrived
                           ELSE box[k].seen = "dismissed"
           over == Cardinality(Stored(box)) - Items
           gone == First(over, Seen(box), Sooner)
           R == {p \in Seen(box) \X Seen(box) : Sooner(p[1], p[2])}
<1>1. /\ Stored(box) \in SUBSET Job /\ Cardinality(Stored(box)) \in Nat /\ IsFiniteSet(Stored(box))
      /\ Seen(box) \in SUBSET Stored(box) /\ Cardinality(Seen(box)) \in Nat /\ IsFiniteSet(Seen(box))
      /\ Items \in Nat
  <2>1. Seen(box) \subseteq Stored(box) /\ Stored(box) \subseteq Job
    BY DEF Seen, Stored, NoRow
  <2> QED BY <2>1, Counts, JobsAssumption, FS_Subset
<1>2. CASE Cardinality(Stored(box)) <= Items
  <2>1. Trimmed(box) = box
    BY <1>2 DEF Trimmed
  <2> QED BY <1>2, <2>1
<1>3. CASE ~(Cardinality(Stored(box)) <= Items)
  <2>1. over \in Nat
    BY <1>1, <1>3
  <2>2. gone \subseteq Seen(box)
    BY DEF First
  <2>3. Trimmed(box) = [j \in Job |-> IF j \in gone THEN NoRow ELSE box[j]]
    BY <1>3 DEF Trimmed
  <2>4. Stored(Trimmed(box)) = Stored(box) \ gone /\ Seen(Trimmed(box)) = Seen(box) \ gone
    <3> HIDE DEF gone
    <3> QED BY <2>3 DEF Stored, Seen, NoRow
  <2>5. gone = {j \in Seen(box) : Cardinality({k \in Seen(box) : <<k, j>> \in R}) < over}
    <3>1. \A j \in Seen(box) : {k \in Seen(box) : Sooner(k, j)} = {k \in Seen(box) : <<k, j>> \in R}
      OBVIOUS
    <3> HIDE DEF R, over
    <3> QED BY <3>1 DEF First
  <2>6. \A j \in Seen(box) : box[j].arrived \in Nat /\ box[j].seen \in {"read", "dismissed"}
    BY DEF Seen, Row, NoRow
  <2>7. /\ \A j \in Seen(box) : <<j, j>> \notin R
        /\ \A j, k, l \in Seen(box) : <<j, k>> \in R /\ <<k, l>> \in R => <<j, l>> \in R
    BY <2>6
  <2> HIDE DEF R, gone
  <2>8. CASE over <= Cardinality(Seen(box))
    <3>1. over <= Cardinality(gone)
      <4> HIDE DEF over
      <4>1. \A j \in Seen(box) : Cardinality({k \in Seen(box) : <<k, j>> \in R}) < over => j \in gone
        BY <2>5
      <4> QED BY <1>1, <2>1, <2>2, <2>7, <2>8, <4>1, EnoughComeFirst
    <3>2. gone \in SUBSET Stored(box)
      BY <1>1, <2>2
    <3>3. Stored(box) \cap gone = gone /\ IsFiniteSet(gone)
      BY <1>1, <3>2, FS_Subset
    <3>4. Cardinality(Stored(box) \ gone) = Cardinality(Stored(box)) - Cardinality(gone)
      BY <1>1, <3>3, FS_Difference
    <3>5. Cardinality(gone) \in Nat
      BY <3>3, FS_CardinalityType
    <3> QED BY <1>1, <3>1, <3>4, <3>5, <2>4
  <2>9. CASE ~(over <= Cardinality(Seen(box)))
    <3>1. ASSUME NEW j \in Seen(box)
          PROVE  Cardinality({k \in Seen(box) : <<k, j>> \in R}) < over
      <4> DEFINE B == {k \in Seen(box) : <<k, j>> \in R}
      <4>1. B \in SUBSET Seen(box)
        OBVIOUS
      <4> HIDE DEF B
      <4>2. Cardinality(B) \in Nat /\ Cardinality(B) <= Cardinality(Seen(box))
        BY <1>1, <4>1, FS_Subset, FS_CardinalityType
      <4>3. Cardinality(B) < over
        BY <1>1, <2>9, <4>2
      <4> QED BY <4>3 DEF B
    <3> QED BY <2>4, <2>5, <3>1
  <2> QED BY <2>8, <2>9
<1> QED BY <1>2, <1>3

(* The inbox after an arrival.                                             *)
LEMMA Arrives ==
  ASSUME TypeOK, NEW j \in Job, Terminal(j)
  PROVE  /\ Arrived(j) \in [Job -> Row \cup {NoRow}]
         /\ \A k \in Job : k # j => Arrived(j)[k] \in {inbox[k], NoRow}
         /\ Arrived(j)[j] # NoRow /\ inbox[j] = NoRow => Arrived(j)[j].outcome = status[j]
         /\ inbox[j] # NoRow => Arrived(j) = inbox
         /\ \A k \in Job : inbox[k].seen = "unread" => Arrived(j)[k] # NoRow
<1> DEFINE row == [outcome |-> status[j], arrived |-> Told + 1, seen |-> "unread"]
           box == [inbox EXCEPT ![j] = row]
<1>1. Told \in Nat
  BY Counts DEF Told
<1>2. row \in Row
  BY <1>1 DEF Row, Terminal
<1>3. box \in [Job -> Row \cup {NoRow}]
  BY <1>2 DEF TypeOK
<1>4. CASE inbox[j] # NoRow
  BY <1>4 DEF Arrived, TypeOK, NoRow
<1>5. CASE inbox[j] = NoRow
  <2>1. Arrived(j) = Trimmed(box)
    BY <1>5 DEF Arrived
  <2>2. box[j] = row /\ \A k \in Job : k # j => box[k] = inbox[k]
    BY DEF TypeOK
  <2>3. inbox[j].seen # "unread"
    BY <1>5 DEF NoRow
  <2>4. \A k \in Job : inbox[k].seen = "unread" => inbox[k] # NoRow
    BY DEF NoRow
  <2> HIDE DEF box
  <2>5. \A k \in Job : Trimmed(box)[k] = box[k] \/ Trimmed(box)[k] = NoRow
    BY <1>3, TrimSpares
  <2>6. \A k \in Job : inbox[k].seen = "unread" => Trimmed(box)[k] = inbox[k]
    BY <1>3, <2>2, <2>3, TrimSpares
  <2>7. Trimmed(box) \in [Job -> Row \cup {NoRow}]
    BY <1>3, TrimSpares
  <2>8. Trimmed(box)[j] # NoRow => Trimmed(box)[j].outcome = status[j]
    BY <2>2, <2>5
  <2>9. QED
    BY <1>5, <2>1, <2>2, <2>4, <2>5, <2>6, <2>7, <2>8
<1>6. QED
  BY <1>4, <1>5

-----------------------------------------------------------------------------
(* Type correctness.                                                       *)

LEMMA InitIInv == Init => IInv
<1> SUFFICES ASSUME Init
             PROVE  IInv
  OBVIOUS
<1>1. TypeOK
  BY JobsAssumption DEF Init, TypeOK, Status, Position
<1>2. LiveJobsAreListed /\ NotEnded /\ NoStaleCancel /\ StatusTells
  BY DEF Init, LiveJobsAreListed, NotEnded, NoStaleCancel, StatusTells, Unrecorded, Outcome
<1>3. InboxAgrees /\ ToldOnce
  BY DEF Init, InboxAgrees, ToldOnce
<1>4. QED
  BY <1>1, <1>2, <1>3 DEF IInv

(* Each step of a worker or a request keeps the invariant.                 *)
LEMMA SubmitKeeps == ASSUME IInv, NEW j \in Job, Submit(j) PROVE IInv'
<1> USE DEF IInv, Submit
<1>1. Evicted(registry \cup {j}) \subseteq {k \in registry \cup {j} : ended[k] # 0}
  BY EvictsEnded DEF TypeOK
<1>2. j \notin registry /\ ended[j] = 0
  BY DEF StatusTells, NotEnded
<1>3. \A k \in Job : k # j => status'[k] = status[k] /\ thread'[k] = thread[k]
  BY DEF TypeOK
<1>4. status'[j] = "QUEUED" /\ thread'[j] = "starting" /\ thread[j] = "none"
  BY DEF TypeOK
<1>5. TypeOK'
  BY DEF TypeOK, Status, Position
<1>6. LiveJobsAreListed' /\ NotEnded'
  BY <1>1, <1>2, <1>3, <1>4 DEF LiveJobsAreListed, NotEnded, Unrecorded
<1>7. NoStaleCancel'
  BY <1>1, <1>3, <1>4, <1>6 DEF NoStaleCancel, NotEnded, Unrecorded, TypeOK
<1>8. StatusTells'
  BY <1>3, <1>4 DEF StatusTells, Terminal, TypeOK
<1>9. InboxAgrees' /\ ToldOnce'
  BY <1>3, <1>4 DEF InboxAgrees, ToldOnce, Terminal
<1>10. QED
  BY <1>5, <1>6, <1>7, <1>8, <1>9

\* A step of the worker of j that leaves the registry, the inbox and what
\* ended alone, and takes j from one part of its run to another.
LEMMA WorkerKeeps ==
  ASSUME IInv, NEW j \in Job, Begin(j) \/ Checkpoint(j) \/ Return(j) \/ Raise(j)
  PROVE  IInv'
<1> USE DEF IInv
<1>1. /\ \A k \in Job : k # j => status'[k] = status[k] /\ thread'[k] = thread[k]
      /\ thread[j] \in {"starting", "working"}
      /\ thread'[j] \in {"working"} \cup Outcome
      /\ UNCHANGED <<registry, ended, cancelling, inbox, lost>>
  BY DEF TypeOK, Begin, Checkpoint, Return, Raise, Leave, Outcome
<1>2. TypeOK'
  <2>1. status' \in [Job -> Status] /\ thread' \in [Job -> Position]
    BY DEF TypeOK, Begin, Checkpoint, Return, Raise, Leave, Status, Position, Outcome
  <2>2. left' \in [Job -> Nat]
    BY DEF TypeOK, Begin, Checkpoint, Return, Raise, Leave
  <2>3. QED
    BY <1>1, <2>1, <2>2 DEF TypeOK
<1>3. Unrecorded(j) /\ Unrecorded(j)' /\ thread[j] # "none" /\ thread'[j] \notin {"none", "announcing", "over"}
  BY <1>1 DEF Unrecorded, Outcome
<1>4. LiveJobsAreListed' /\ NotEnded' /\ NoStaleCancel'
  BY <1>1, <1>3 DEF LiveJobsAreListed, NotEnded, NoStaleCancel, Unrecorded, TypeOK
<1>5. StatusTells'
  BY <1>1, <1>3 DEF StatusTells, Terminal, TypeOK
<1>6. inbox[j] = NoRow
  BY <1>1 DEF ToldOnce
<1>7. InboxAgrees' /\ ToldOnce'
  BY <1>1, <1>6 DEF InboxAgrees, ToldOnce, Terminal
<1>8. QED
  BY <1>2, <1>4, <1>5, <1>7

LEMMA RecordKeepsIInv == ASSUME IInv, NEW j \in Job, Record(j) PROVE IInv'
<1> USE DEF IInv, Record
<1> DEFINE n == 1 + Cardinality({k \in Job : ended[k] # 0})
<1>1. n \in Nat /\ n # 0
  BY Counts
<1>2. ended' = [ended EXCEPT ![j] = n]
  OBVIOUS
<1> HIDE DEF n
<1>3. /\ \A k \in Job : k # j => /\ status'[k] = status[k] /\ thread'[k] = thread[k]
                                 /\ ended'[k] = ended[k]
      /\ thread[j] \in Outcome /\ status'[j] \in Outcome /\ thread'[j] = "announcing"
  BY <1>2 DEF TypeOK
<1>4. TypeOK'
  BY <1>1, <1>2 DEF TypeOK, Status, Position, Outcome
<1>5. LiveJobsAreListed' /\ NotEnded' /\ NoStaleCancel'
  BY <1>3 DEF LiveJobsAreListed, NotEnded, NoStaleCancel, Unrecorded, Outcome, TypeOK
<1>6. StatusTells'
  BY <1>3 DEF StatusTells, Terminal, TypeOK
<1>7. inbox[j] = NoRow
  BY <1>3 DEF ToldOnce, Outcome
<1>8. InboxAgrees' /\ ToldOnce'
  BY <1>3, <1>7 DEF InboxAgrees, ToldOnce, Terminal
<1>9. QED
  BY <1>4, <1>5, <1>6, <1>8

LEMMA AnnounceKeeps ==
  ASSUME IInv, NEW j \in Job, Announce(j) \/ AnnounceFails(j)
  PROVE  IInv'
<1> USE DEF IInv
<1>1. /\ thread[j] = "announcing" /\ thread'[j] = "over"
      /\ \A k \in Job : k # j => thread'[k] = thread[k]
      /\ UNCHANGED <<registry, status, ended, cancelling, left>>
  BY DEF Announce, AnnounceFails, TypeOK
<1>2. Terminal(j) /\ inbox[j] = NoRow
  BY <1>1 DEF StatusTells, ToldOnce
<1>3. /\ inbox' \in [Job -> Row \cup {NoRow}]
      /\ \A k \in Job : k # j => inbox'[k] \in {inbox[k], NoRow}
      /\ inbox'[j] # NoRow => inbox'[j].outcome = status[j]
  BY <1>2, Arrives DEF Announce, AnnounceFails, TypeOK
<1>4. TypeOK'
  BY <1>1, <1>3 DEF TypeOK, Announce, AnnounceFails, Position
<1>5. LiveJobsAreListed' /\ NotEnded' /\ NoStaleCancel'
  BY <1>1 DEF LiveJobsAreListed, NotEnded, NoStaleCancel, Unrecorded, Outcome, TypeOK
<1>6. StatusTells'
  BY <1>1, <1>2 DEF StatusTells, Terminal, TypeOK
<1>7. InboxAgrees' /\ ToldOnce'
  BY <1>1, <1>2, <1>3 DEF InboxAgrees, ToldOnce, Terminal
<1>8. QED
  BY <1>4, <1>5, <1>6, <1>7

LEMMA ReaderKeeps ==
  ASSUME IInv, (\E j \in Job : MarkRead(j) \/ Dismiss(j)) \/ MarkAllRead
  PROVE  IInv'
<1> USE DEF IInv
<1>1. UNCHANGED <<registryVars, lost>>
  BY DEF MarkRead, Dismiss, MarkAllRead
<1> DEFINE OnlySeen ==
             /\ inbox' \in [Job -> Row \cup {NoRow}]
             /\ \A k \in Job : /\ inbox'[k] # NoRow => inbox[k] # NoRow
                               /\ inbox'[k].outcome = inbox[k].outcome
<1>2. OnlySeen
  <2>1. ASSUME NEW j \in Job, MarkRead(j) \/ Dismiss(j)
        PROVE  OnlySeen
    BY <2>1 DEF MarkRead, Dismiss, TypeOK, Row, NoRow
  <2>2. CASE MarkAllRead
    BY <2>2 DEF MarkAllRead, TypeOK, Row, NoRow
  <2>3. QED
    BY <2>1, <2>2
<1>3. TypeOK'
  BY <1>1, <1>2 DEF TypeOK, registryVars
<1>4. LiveJobsAreListed' /\ NotEnded' /\ NoStaleCancel' /\ StatusTells'
  BY <1>1 DEF LiveJobsAreListed, NotEnded, NoStaleCancel, StatusTells, Unrecorded, Terminal, registryVars
<1>5. InboxAgrees' /\ ToldOnce'
  BY <1>1, <1>2 DEF InboxAgrees, ToldOnce, Terminal, registryVars
<1>6. QED
  BY <1>3, <1>4, <1>5

LEMMA CancelKeeps == ASSUME IInv, NEW j \in Job, Cancel(j) PROVE IInv'
<1> USE DEF IInv, Cancel
<1>1. Unrecorded(j)
  BY DEF StatusTells, Unrecorded, TypeOK, Position
<1>2. TypeOK'
  BY DEF TypeOK
<1>3. NoStaleCancel'
  BY <1>1 DEF NoStaleCancel, Unrecorded
<1>4. LiveJobsAreListed' /\ NotEnded' /\ StatusTells' /\ InboxAgrees' /\ ToldOnce'
  BY DEF LiveJobsAreListed, NotEnded, StatusTells, InboxAgrees, ToldOnce, Unrecorded, Terminal
<1>5. QED
  BY <1>2, <1>3, <1>4

LEMMA CrashKeeps == ASSUME IInv, Crash PROVE IInv'
<1> USE DEF IInv, Crash
<1>1. TypeOK'
  BY DEF TypeOK, Position
<1>2. LiveJobsAreListed' /\ NotEnded' /\ NoStaleCancel' /\ StatusTells'
  BY DEF LiveJobsAreListed, NotEnded, NoStaleCancel, StatusTells, Unrecorded, Outcome
<1>3. InboxAgrees' /\ ToldOnce'
  BY DEF InboxAgrees, ToldOnce, Terminal
<1>4. QED
  BY <1>1, <1>2, <1>3

LEMMA NextIInv == IInv /\ [Next]_vars => IInv'
<1> SUFFICES ASSUME IInv, [Next]_vars
             PROVE  IInv'
  OBVIOUS
<1>1. ASSUME NEW j \in Job, Worker(j)
      PROVE  IInv'
  BY <1>1, WorkerKeeps, RecordKeepsIInv, AnnounceKeeps DEF Worker, Finishes
<1>2. ASSUME NEW j \in Job, Request(j)
      PROVE  IInv'
  BY <1>2, SubmitKeeps, CancelKeeps, ReaderKeeps DEF Request
<1>3. CASE MarkAllRead
  BY <1>3, ReaderKeeps
<1>4. CASE Crash
  BY <1>4, CrashKeeps
<1>5. CASE UNCHANGED vars
  <2>1. TypeOK' /\ LiveJobsAreListed' /\ NotEnded' /\ NoStaleCancel' /\ StatusTells'
    BY <1>5 DEF IInv, vars, registryVars, TypeOK, LiveJobsAreListed, NotEnded,
                NoStaleCancel, StatusTells, Unrecorded, Terminal
  <2>2. InboxAgrees' /\ ToldOnce'
    BY <1>5 DEF IInv, vars, registryVars, InboxAgrees, ToldOnce, Terminal
  <2>3. QED
    BY <2>1, <2>2 DEF IInv
<1>6. QED
  BY <1>1, <1>2, <1>3, <1>4, <1>5 DEF Next, Rest

LEMMA Invariance == Spec => []IInv
BY InitIInv, NextIInv, PTL DEF Spec

(* Every reachable state is well typed, whatever the work, the requests    *)
(* and the limits of the registry and the inbox.                           *)
THEOREM TypeCorrect == Spec => []TypeOK
BY Invariance, PTL DEF IInv

(* _evict never takes a job whose worker has not recorded an outcome, for  *)
(* any limit, so that a poll finds every job that is on its way.           *)
THEOREM LiveAreListed == Spec => []LiveJobsAreListed
BY Invariance, PTL DEF IInv

(* An id in _cancelling is that of a listed job on its way.                *)
THEOREM NoCancelIsStale == Spec => []NoStaleCancel
BY Invariance, PTL DEF IInv

(* The inbox and the registry say the same of a job.                       *)
THEOREM InboxTells == Spec => []InboxAgrees
BY Invariance, PTL DEF IInv

-----------------------------------------------------------------------------
(* The two halves of CapYieldsToUnseen: no step takes an item nobody has   *)
(* seen, and one that adds an item makes room for it among the seen ones.  *)
UnseenStays == \A j \in Job : inbox[j].seen = "unread" => inbox'[j] # NoRow
RoomIsMade ==
  \A j \in Job : inbox[j] = NoRow /\ inbox'[j] # NoRow =>
                 Cardinality(Stored(inbox')) <= Items \/ Seen(inbox') = {}

LEMMA NextCap == IInv /\ [Next]_vars => UnseenStays /\ RoomIsMade
<1> SUFFICES ASSUME IInv, [Next]_vars
             PROVE  UnseenStays /\ RoomIsMade
  OBVIOUS
<1> USE DEF IInv
<1>1. ASSUME NEW j \in Job, Announce(j)
      PROVE  UnseenStays /\ RoomIsMade
  <2>1. UnseenStays
    BY <1>1, Arrives DEF Announce, StatusTells, UnseenStays
  <2>2. CASE inbox[j] # NoRow
    BY <1>1, <2>1, <2>2 DEF Announce, Arrived, RoomIsMade
  <2>3. CASE inbox[j] = NoRow
    <3> DEFINE row == [outcome |-> status[j], arrived |-> Told + 1, seen |-> "unread"]
    <3>1. inbox' = Trimmed([inbox EXCEPT ![j] = row])
      BY <1>1, <2>3 DEF Announce, Arrived
    <3>2. row \in Row
      <4>1. Told \in Nat
        BY Counts DEF Told
      <4> QED BY <1>1, <4>1 DEF Row, Terminal, StatusTells, Announce
    <3>3. [inbox EXCEPT ![j] = row] \in [Job -> Row \cup {NoRow}]
      BY <3>2 DEF TypeOK
    <3> QED BY <2>1, <3>1, <3>3, TrimMakesRoom DEF RoomIsMade
  <2> QED BY <2>2, <2>3
<1>2. ASSUME NEW j \in Job, MarkRead(j) \/ Dismiss(j)
      PROVE  UnseenStays /\ RoomIsMade
  BY <1>2 DEF MarkRead, Dismiss, UnseenStays, RoomIsMade, TypeOK, Row, NoRow
<1>3. CASE MarkAllRead
  BY <1>3 DEF MarkAllRead, UnseenStays, RoomIsMade, TypeOK, Row, NoRow
<1>4. CASE UNCHANGED inbox
  BY <1>4 DEF UnseenStays, RoomIsMade, NoRow
<1>5. QED
  BY <1>1, <1>2, <1>3, <1>4 DEF Next, Worker, Finishes, Request, Begin, Checkpoint,
     Return, Raise, Leave, Record, AnnounceFails, Submit, Cancel, Crash, Rest, vars

(* The inbox never loses an item nobody has seen, however full it is, and  *)
(* is over its cap only when it has no other item to drop.                 *)
THEOREM CapYields == Spec => CapYieldsToUnseen
<1>1. IInv /\ [Next]_vars =>
        [\A j \in Job :
           /\ inbox[j].seen = "unread" => inbox'[j] # NoRow
           /\ inbox[j] = NoRow /\ inbox'[j] # NoRow =>
                Cardinality(Stored(inbox')) <= Items \/ Seen(inbox') = {}]_vars
  BY NextCap DEF UnseenStays, RoomIsMade
<1> QED BY <1>1, Invariance, PTL DEF Spec, CapYieldsToUnseen
=============================================================================
