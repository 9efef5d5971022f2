-------------------------------- MODULE Jobs --------------------------------
(* Background work of the API process: the job registry, one worker thread  *)
(* per job, and the inbox that keeps the fact that a job ended.              *)
(* Source: api/jobs.py, api/inbox.py; they are joined in api/main.py.        *)
(*                                                                           *)
(* Each action is one critical section of the registry's lock or of the      *)
(* inbox's, so that requests, workers and a crash fall between any two.      *)
(* Labels, results, progress counts and durations are left out.              *)
EXTENDS Naturals, FiniteSets

CONSTANTS
  Job,          \* job ids; each is used for one submission
  Checkpoints,  \* Checkpoints[j]: calls of handle.progress in the work of j
  Kept,         \* MAX_RETAINED_JOBS
  Items         \* MAX_ITEMS

ASSUME JobsAssumption ==
  /\ IsFiniteSet(Job)
  /\ Checkpoints \in [Job -> Nat]
  /\ Kept \in Nat /\ Items \in Nat

VARIABLES
  registry,    \* the jobs in JobRegistry._jobs
  status,      \* Job.status; "none" before the submission
  ended,       \* Job.finished_at, as the place among all endings; 0 while None
  cancelling,  \* JobRegistry._cancelling
  thread,      \* where the worker of a job is
  left,        \* checkpoints the work has still to reach
  inbox,       \* the rows of the inbox, NoRow where there is none
  lost         \* history: jobs cut off by a crash or not stored by the inbox

registryVars == <<registry, status, ended, cancelling, thread, left>>
vars == <<registryVars, inbox, lost>>

Outcome == {"DONE", "FAILED", "CANCELLED"}
Status == {"none", "QUEUED", "RUNNING"} \cup Outcome
(* A worker that left its work holds the outcome it is about to record. *)
Position == {"none", "starting", "working", "announcing", "over"} \cup Outcome
NoRow == [outcome |-> "none", arrived |-> 0, seen |-> "none"]
Row == [outcome : Outcome, arrived : Nat, seen : {"unread", "read", "dismissed"}]

Init ==
  /\ registry = {} /\ cancelling = {} /\ lost = {}
  /\ status = [j \in Job |-> "none"]
  /\ ended = [j \in Job |-> 0]
  /\ thread = [j \in Job |-> "none"]
  /\ left = Checkpoints
  /\ inbox = [j \in Job |-> NoRow]

Terminal(j) == status[j] \in Outcome
Unrecorded(j) == thread[j] \in {"starting", "working"} \cup Outcome

(* The n members of S that come first. *)
First(n, S, Before(_, _)) ==
  {j \in S : Cardinality({k \in S : Before(k, j)}) < n}

-----------------------------------------------------------------------------
\* Mutant: the oldest goes whether or not it has ended.
EvictedAny(R) ==
  LET Earlier(k, j) == ended[k] < ended[j]
  IN  IF Cardinality(R) <= Kept THEN {} ELSE First(Cardinality(R) - Kept, R, Earlier)

(* _evict, inside submit's critical section: what is over the limit goes,  *)
(* oldest ending first, and only jobs that have ended.                     *)
Evicted(R) ==
  LET Earlier(k, j) == ended[k] < ended[j]
  IN  IF Cardinality(R) <= Kept THEN {}
      ELSE First(Cardinality(R) - Kept, {j \in R : ended[j] # 0}, Earlier)

Submit(j) ==
  /\ thread[j] = "none"
  /\ registry' = (registry \cup {j}) \ Evicted(registry \cup {j})
  /\ status' = [status EXCEPT ![j] = "QUEUED"]
  /\ thread' = [thread EXCEPT ![j] = "starting"]
  /\ UNCHANGED <<ended, cancelling, left, inbox, lost>>

Begin(j) ==
  /\ thread[j] = "starting"
  /\ status' = [status EXCEPT ![j] = "RUNNING"]
  /\ thread' = [thread EXCEPT ![j] = "working"]
  /\ UNCHANGED <<registry, ended, cancelling, left, inbox, lost>>

\* Mutant: progress is published and the request to stop is not looked at.
CheckpointDeaf(j) ==
  /\ thread[j] = "working"
  /\ left[j] > 0
  /\ left' = [left EXCEPT ![j] = @ - 1]
  /\ UNCHANGED <<registry, status, ended, cancelling, thread, inbox, lost>>

(* JobHandle.progress: raises Cancelled when the job is to stop. *)
Checkpoint(j) ==
  /\ thread[j] = "working"
  /\ left[j] > 0
  /\ left' = [left EXCEPT ![j] = @ - 1]
  /\ thread' = IF j \in cancelling THEN [thread EXCEPT ![j] = "CANCELLED"] ELSE thread
  /\ UNCHANGED <<registry, status, ended, cancelling, inbox, lost>>

(* The work returns past its last checkpoint, or raises anywhere. *)
Leave(j, outcome) ==
  /\ thread[j] = "working"
  /\ thread' = [thread EXCEPT ![j] = outcome]
  /\ UNCHANGED <<registry, status, ended, cancelling, left, inbox, lost>>
Return(j) == left[j] = 0 /\ Leave(j, "DONE")
Raise(j) == Leave(j, "FAILED")

\* Mutant: the observer is told before the outcome is recorded.
RecordNothing(j) ==
  /\ thread[j] \in Outcome
  /\ thread' = [thread EXCEPT ![j] = "announcing"]
  /\ UNCHANGED <<registry, status, ended, cancelling, left, inbox, lost>>

\* Mutant: the branch of a failure keeps the request to stop.
RecordKeeps(j) ==
  /\ thread[j] \in Outcome
  /\ status' = [status EXCEPT ![j] = thread[j]]
  /\ ended' = [ended EXCEPT ![j] = 1 + Cardinality({k \in Job : ended[k] # 0})]
  /\ cancelling' = IF thread[j] = "FAILED" THEN cancelling ELSE cancelling \ {j}
  /\ thread' = [thread EXCEPT ![j] = "announcing"]
  /\ UNCHANGED <<registry, left, inbox, lost>>

\* Mutant: the branch of a cancellation returns without announcing.
RecordSilent(j) ==
  /\ thread[j] \in Outcome
  /\ status' = [status EXCEPT ![j] = thread[j]]
  /\ ended' = [ended EXCEPT ![j] = 1 + Cardinality({k \in Job : ended[k] # 0})]
  /\ cancelling' = cancelling \ {j}
  /\ thread' = [thread EXCEPT ![j] = IF thread[j] = "CANCELLED" THEN "over" ELSE "announcing"]
  /\ UNCHANGED <<registry, left, inbox, lost>>

Record(j) ==
  /\ thread[j] \in Outcome
  /\ status' = [status EXCEPT ![j] = thread[j]]
  /\ ended' = [ended EXCEPT ![j] = 1 + Cardinality({k \in Job : ended[k] # 0})]
  /\ cancelling' = cancelling \ {j}
  /\ thread' = [thread EXCEPT ![j] = "announcing"]
  /\ UNCHANGED <<registry, left, inbox, lost>>

\* Mutant: the request itself declares the job cancelled.
CancelNow(j) ==
  /\ j \in registry
  /\ status' = [status EXCEPT ![j] = "CANCELLED"]
  /\ UNCHANGED <<registry, ended, cancelling, thread, left, inbox, lost>>

Cancel(j) ==
  /\ j \in registry
  /\ ~Terminal(j)
  /\ cancelling' = cancelling \cup {j}
  /\ UNCHANGED <<registry, status, ended, thread, left, inbox, lost>>

-----------------------------------------------------------------------------
(* The inbox. Inserting and trimming are one transaction.                  *)
Seen(box) == {j \in Job : box[j].seen \in {"read", "dismissed"}}
Stored(box) == {j \in Job : box[j] # NoRow}

\* Mutant: one row makes room for one row.
TrimmedOne(box) ==
  LET Sooner(k, j) == box[k].arrived < box[j].arrived
      gone == IF Cardinality(Stored(box)) <= Items THEN {}
              ELSE First(1, Seen(box), Sooner)
  IN  [j \in Job |-> IF j \in gone THEN NoRow ELSE box[j]]

Trimmed(box) ==
  LET Sooner(k, j) ==
        IF box[k].seen = box[j].seen THEN box[k].arrived < box[j].arrived
        ELSE box[k].seen = "dismissed"
      over == Cardinality(Stored(box)) - Items
      gone == IF Cardinality(Stored(box)) <= Items THEN {}
              ELSE First(over, Seen(box), Sooner)
  IN  [j \in Job |-> IF j \in gone THEN NoRow ELSE box[j]]

(* arrived_at, as the place among the jobs announced so far. *)
Told == Cardinality({j \in Job : thread[j] = "over"})

Arrived(j) ==
  LET row == [outcome |-> status[j], arrived |-> Told + 1, seen |-> "unread"]
  IN  IF inbox[j] # NoRow THEN inbox ELSE Trimmed([inbox EXCEPT ![j] = row])

Announce(j) ==
  /\ thread[j] = "announcing"
  /\ thread' = [thread EXCEPT ![j] = "over"]
  /\ inbox' = Arrived(j)
  /\ UNCHANGED <<registry, status, ended, cancelling, left, lost>>

(* The observer raises (a database that stays locked): swallowed. *)
AnnounceFails(j) ==
  /\ thread[j] = "announcing"
  /\ thread' = [thread EXCEPT ![j] = "over"]
  /\ lost' = lost \cup {j}
  /\ UNCHANGED <<registry, status, ended, cancelling, left, inbox>>

MarkRead(j) ==
  /\ inbox[j].seen = "unread"
  /\ inbox' = [inbox EXCEPT ![j].seen = "read"]
  /\ UNCHANGED <<registryVars, lost>>

Dismiss(j) ==
  /\ inbox[j].seen \in {"unread", "read"}
  /\ inbox' = [inbox EXCEPT ![j].seen = "dismissed"]
  /\ UNCHANGED <<registryVars, lost>>

MarkAllRead ==
  /\ \E j \in Job : inbox[j].seen = "unread"
  /\ inbox' = [j \in Job |-> IF inbox[j].seen = "unread"
                             THEN [inbox[j] EXCEPT !.seen = "read"] ELSE inbox[j]]
  /\ UNCHANGED <<registryVars, lost>>

(* The registry and its daemon threads are the process's; the inbox is a   *)
(* file.                                                                   *)
Crash ==
  /\ registry # {}
  /\ lost' = lost \cup {j \in Job : thread[j] \notin {"none", "over"}}
  /\ registry' = {} /\ cancelling' = {}
  /\ thread' = [j \in Job |-> IF thread[j] = "none" THEN "none" ELSE "over"]
  /\ UNCHANGED <<status, ended, left, inbox>>

-----------------------------------------------------------------------------
Finishes(j) == Record(j) \/ Announce(j) \/ AnnounceFails(j)
Worker(j) == Begin(j) \/ Checkpoint(j) \/ Return(j) \/ Raise(j) \/ Finishes(j)
Request(j) == Submit(j) \/ Cancel(j) \/ MarkRead(j) \/ Dismiss(j)

(* Every job submitted and ended, every row as it may stay. *)
Rest == (\A j \in Job : thread[j] = "over") /\ UNCHANGED vars

Next ==
  \/ \E j \in Job : Worker(j) \/ Request(j)
  \/ MarkAllRead
  \/ Crash
  \/ Rest

(* A started thread runs; what requests do, and whether work raises, is    *)
(* left open.                                                              *)
Fairness == \A j \in Job : WF_vars(Worker(j))
Spec == Init /\ [][Next]_vars /\ Fairness

-----------------------------------------------------------------------------
TypeOK ==
  /\ registry \subseteq Job
  /\ status \in [Job -> Status]
  /\ ended \in [Job -> Nat]
  /\ cancelling \subseteq Job
  /\ thread \in [Job -> Position]
  /\ left \in [Job -> Nat]
  /\ inbox \in [Job -> Row \cup {NoRow}]
  /\ lost \subseteq Job

(* A job whose worker has not recorded an outcome can be asked about:      *)
(* however many jobs are submitted meanwhile, _evict does not take it.     *)
LiveJobsAreListed == \A j \in Job : Unrecorded(j) => j \in registry

(* No request to stop outlives its job: an id in _cancelling is that of a  *)
(* job still on its way, whichever way the jobs before it ended.           *)
NoStaleCancel == \A j \in cancelling : j \in registry /\ Unrecorded(j)

(* What the inbox says of a job is what the registry says while it still   *)
(* has it, whatever was asked of the job in between.                       *)
InboxAgrees ==
  \A j \in Job : inbox[j] # NoRow => Terminal(j) /\ inbox[j].outcome = status[j]

(* An inbox over its cap drops seen items until it is within it, and never *)
(* one that nobody has seen: then "the cap yields".                        *)
CapYieldsToUnseen ==
  [][\A j \in Job :
       /\ inbox[j].seen = "unread" => inbox'[j] # NoRow
       /\ inbox[j] = NoRow /\ inbox'[j] # NoRow =>
            Cardinality(Stored(inbox')) <= Items \/ Seen(inbox') = {}]_vars

(* Work that was accepted ends and says so in the inbox, unless the        *)
(* process dies or the inbox cannot store it.                              *)
EveryJobLands ==
  \A j \in Job : thread[j] = "starting" ~> inbox[j] # NoRow \/ j \in lost

(* A job asked to stop before its last checkpoint does not complete.       *)
CancelStops ==
  \A j \in Job : (j \in cancelling /\ thread[j] = "working" /\ left[j] > 0) ~>
                 (status[j] \in {"CANCELLED", "FAILED"} \/ j \in lost)
=============================================================================
