------------------------------ MODULE Missions ------------------------------
(* A mission: a plan run step by step as a background job, whose steps may  *)
(* be jobs of the same registry; one mission at a time.                      *)
(* Source: api/orchestrator.py, on the registry of api/jobs.py (Jobs).       *)
(*                                                                           *)
(* The slot is taken and freed under a lock. The dict of a mission is shared *)
(* by the thread that launched it and the one that runs it; a save writes    *)
(* the dict as it is then, in one step (a lock spans dump and commit). Plans,*)
(* arguments and results are left out: a step completes or fails.            *)
EXTENDS Naturals, FiniteSets, Sequences

CONSTANTS
  Mission,  \* requests to launch a mission
  Plan,     \* Plan[m]: the kinds of the steps of m
  Kept,     \* MAX_RETAINED_JOBS
  Items,    \* MAX_ITEMS
  NoMission

(* A step is done in the call, or by a job: a long action's or an agent's. *)
Kind == {"act", "job"}

ASSUME MissionsAssumption ==
  /\ Plan \in [Mission -> Seq(Kind)]
  /\ \A m \in Mission : Plan[m] # <<>>
  /\ NoMission \notin Mission

Steps(m) == DOMAIN Plan[m]
JobOf(m) == <<m, 0>>
Child(m, i) == <<m, i>>
Children == UNION {{Child(m, i) : i \in {k \in Steps(m) : Plan[m][k] = "job"}} : m \in Mission}
Work == {JobOf(m) : m \in Mission} \cup Children

(* _run reports before each step and at its end; what a step hands over    *)
(* reports once.                                                           *)
WorkCheckpoints == [w \in Work |-> IF w \in Children THEN 1 ELSE Len(Plan[w[1]]) + 1]

VARIABLES registry, status, ended, cancelling, thread, left, inbox, lost
jobs == <<registry, status, ended, cancelling, thread, left, inbox, lost>>
J == INSTANCE Jobs WITH Job <- Work, Checkpoints <- WorkCheckpoints

VARIABLES
  current,  \* Orchestrator._current
  mission,  \* the dict of a mission
  row,      \* its row in the missions table
  phase,    \* where the launch and then the run of a mission is
  naming    \* missions whose launch has yet to store the id of their job

missions == <<current, mission, row, phase, naming>>
vars == <<jobs, missions>>

MissionStatus == {"none", "planned", "running", "completed", "partial", "failed"}
Phase == {"none", "claimed", "dry", "saved", "between", "step", "waiting", "ended",
          "closing", "concluded", "finishing", "releasing", "reporting", "over", "raised"}
Pending(m) == [i \in Steps(m) |-> "pending"]
NoRow(m) == [status |-> "none", finished |-> FALSE, stop |-> FALSE, steps |-> Pending(m)]

Init ==
  /\ J!Init
  /\ current = NoMission
  /\ mission = [m \in Mission |-> NoRow(m)]
  /\ row = mission
  /\ phase = [m \in Mission |-> "none"]
  /\ naming = {}

Goes(m, next) == phase' = [phase EXCEPT ![m] = next]
Becomes(m, dict) == mission' = [mission EXCEPT ![m] = dict]

\* _save.
Saves(m) == row' = [row EXCEPT ![m] = mission'[m]]

Completed(r) == {i \in DOMAIN r.steps : r.steps[i] = "completed"}
Failed(r) == {i \in DOMAIN r.steps : r.steps[i] = "failed"}
Ended(r) == Completed(r) \cup Failed(r)

-----------------------------------------------------------------------------
(* launch. *)
Refuse(m) ==
  /\ phase[m] = "none"
  /\ current # NoMission
  /\ UNCHANGED vars

Claim(m) ==
  /\ phase[m] = "none"
  /\ current = NoMission
  /\ current' = m
  /\ Goes(m, "claimed")
  /\ UNCHANGED <<jobs, mission, row, naming>>

(* The planner raises, or plans no steps. *)
PlanFails(m) ==
  /\ phase[m] = "claimed"
  /\ current' = NoMission
  /\ Goes(m, "over")
  /\ UNCHANGED <<jobs, mission, row, naming>>

(* _normalise raises on a step that names neither an action nor a          *)
(* specialist, or the row cannot be saved: nothing frees the slot.         *)
LaunchRaises(m) ==
  /\ phase[m] = "claimed"
  /\ Goes(m, "raised")
  /\ UNCHANGED <<jobs, current, mission, row, naming>>

DryRun(m) ==
  /\ phase[m] = "claimed"
  /\ current' = NoMission
  /\ Goes(m, "dry")
  /\ UNCHANGED <<jobs, mission, row, naming>>

SaveDry(m) ==
  /\ phase[m] = "dry"
  /\ Becomes(m, [NoRow(m) EXCEPT !.status = "planned"]) /\ Saves(m)
  /\ Goes(m, "over")
  /\ UNCHANGED <<jobs, current, naming>>

SaveRunning(m, stop) ==
  /\ phase[m] = "claimed"
  /\ Becomes(m, [NoRow(m) EXCEPT !.status = "running", !.stop = stop]) /\ Saves(m)
  /\ Goes(m, "saved")
  /\ UNCHANGED <<jobs, current, naming>>

HandOver(m) ==
  /\ phase[m] = "saved"
  /\ J!Submit(JobOf(m))
  /\ Goes(m, "between")
  /\ naming' = naming \cup {m}
  /\ UNCHANGED <<current, mission, row>>

\* Mutant: what is stored is a copy made before the job was submitted.
SaveJobIdOfCopy(m) ==
  /\ m \in naming
  /\ naming' = naming \ {m}
  /\ row' = [row EXCEPT ![m] = [NoRow(m) EXCEPT !.status = "running", !.stop = mission[m].stop]]
  /\ UNCHANGED <<jobs, current, mission, phase>>

(* Beside the run, which may have come to any point meanwhile. *)
SaveJobId(m) ==
  /\ m \in naming
  /\ naming' = naming \ {m}
  /\ UNCHANGED <<jobs, current, mission, phase>>
  /\ Saves(m)

-----------------------------------------------------------------------------
(* _run, on the thread of the mission's job. *)
Running(m, at) == phase[m] = at /\ thread[JobOf(m)] = "working"
Step(m) == CHOOSE i \in Steps(m) : i \notin Ended(mission[m]) /\ 1..i - 1 \subseteq Ended(mission[m])

(* The checkpoint before a step raises when the job is to stop. *)
StartStep(m) ==
  /\ Running(m, "between")
  /\ J!Checkpoint(JobOf(m))
  /\ IF JobOf(m) \in cancelling
     THEN Goes(m, "closing") /\ UNCHANGED <<mission, row>>
     ELSE /\ Goes(m, "step")
          /\ Becomes(m, [mission[m] EXCEPT !.steps[Step(m)] = "running"]) /\ Saves(m)
  /\ UNCHANGED <<current, naming>>

(* A step that ends says so in the dict first. *)
StepEnds(m, outcome) ==
  /\ Becomes(m, [mission[m] EXCEPT !.steps[Step(m)] = outcome])
  /\ Goes(m, "ended")
  /\ UNCHANGED <<jobs, current, row, naming>>

Act(m) == Running(m, "step") /\ Plan[m][Step(m)] = "act" /\ StepEnds(m, "completed")
StepFails(m) == Running(m, "step") /\ StepEnds(m, "failed")

SubmitChild(m) ==
  /\ Running(m, "step")
  /\ Plan[m][Step(m)] = "job"
  /\ J!Submit(Child(m, Step(m)))
  /\ Goes(m, "waiting")
  /\ UNCHANGED <<current, mission, row, naming>>

\* Mutant: the step takes over the status of its job, a word of another table.
AwaitStatus(m) ==
  LET child == Child(m, Step(m))
  IN  /\ Running(m, "waiting")
      /\ child \in registry /\ status[child] = "DONE"
      /\ StepEnds(m, status[child])

(* A poll of the registry that finds the job it waits for done. *)
Await(m) ==
  LET child == Child(m, Step(m))
  IN  /\ Running(m, "waiting")
      /\ child \in registry /\ status[child] = "DONE"
      /\ StepEnds(m, "completed")

(* One that finds it failed or cancelled, or evicted (an agent's is then   *)
(* waited for until the deadline), or the deadline passed: the job goes on. *)
AwaitFails(m) == Running(m, "waiting") /\ StepEnds(m, "failed")

(* A step that failed ends the mission when it is to stop on a failure;    *)
(* the checkpoints of the steps behind it are not reached.                 *)
SaveStep(m) ==
  LET stops == mission[m].stop /\ Failed(mission[m]) # {}
  IN  /\ Running(m, "ended")
      /\ Becomes(m, [mission[m] EXCEPT !.status = IF stops THEN "failed" ELSE @]) /\ Saves(m)
      /\ Goes(m, IF stops \/ Ended(mission[m]) = Steps(m) THEN "closing" ELSE "between")
      /\ left' = IF stops THEN [left EXCEPT ![JobOf(m)] = 1] ELSE left
      /\ UNCHANGED <<registry, status, ended, cancelling, thread, inbox, lost, current, naming>>

(* The end of the loop, which a cancelled run does not reach. *)
Conclude(m) ==
  /\ phase[m] = "closing"
  /\ Becomes(m, [mission[m] EXCEPT
                   !.status = IF thread[JobOf(m)] = "working" /\ @ = "running" THEN "completed" ELSE @])
  /\ Goes(m, "concluded")
  /\ UNCHANGED <<jobs, current, row, naming>>

(* The finally block. *)
Finish(m) ==
  /\ phase[m] = "concluded"
  /\ Becomes(m, [mission[m] EXCEPT !.finished = TRUE])
  /\ Goes(m, "finishing")
  /\ UNCHANGED <<jobs, current, row, naming>>

SaveLast(m) ==
  /\ phase[m] = "finishing"
  /\ Becomes(m, [mission[m] EXCEPT
                   !.status = IF @ = "completed" /\ Failed(mission[m]) # {} THEN "partial" ELSE @])
  /\ Saves(m)
  /\ Goes(m, "releasing")
  /\ UNCHANGED <<jobs, current, naming>>

\* Mutant: the slot is freed after the block, not in it.
ReleaseUnlessRaised(m) ==
  /\ phase[m] = "releasing"
  /\ current' = IF thread[JobOf(m)] = "CANCELLED" THEN current ELSE NoMission
  /\ Goes(m, IF thread[JobOf(m)] = "CANCELLED" THEN "over" ELSE "reporting")
  /\ UNCHANGED <<jobs, mission, row, naming>>

Release(m) ==
  /\ phase[m] = "releasing"
  /\ current' = NoMission
  /\ Goes(m, IF thread[JobOf(m)] = "CANCELLED" THEN "over" ELSE "reporting")
  /\ UNCHANGED <<jobs, mission, row, naming>>

(* The mirror or the activity log raises inside the finally block. *)
CloseRaises(m) ==
  /\ phase[m] = "releasing"
  /\ thread' = [thread EXCEPT ![JobOf(m)] = "FAILED"]
  /\ Goes(m, "raised")
  /\ UNCHANGED <<registry, status, ended, cancelling, left, inbox, lost, current, mission, row, naming>>

(* The last checkpoint, and the return of the mission as the job's result. *)
Report(m) ==
  /\ Running(m, "reporting") /\ left[JobOf(m)] > 0
  /\ J!Checkpoint(JobOf(m))
  /\ Goes(m, IF JobOf(m) \in cancelling THEN "over" ELSE "reporting")
  /\ UNCHANGED <<current, mission, row, naming>>

Return(m) ==
  /\ Running(m, "reporting")
  /\ J!Return(JobOf(m))
  /\ Goes(m, "over")
  /\ UNCHANGED <<current, mission, row, naming>>

-----------------------------------------------------------------------------
(* The registry's own steps; a mission's job ends when its run is over. A  *)
(* job announces its end to the inbox only, which no mission reads.        *)
RegistryWorks(w) ==
  /\ \/ J!Begin(w)
     \/ w \in Children /\ (J!Checkpoint(w) \/ J!Return(w) \/ J!Raise(w))
     \/ (w \in Children \/ phase[w[1]] \in {"over", "raised"}) /\ J!Record(w)
  /\ UNCHANGED missions

Cancel == (\E w \in Work : J!Cancel(w)) /\ UNCHANGED missions

Crash ==
  /\ J!Crash
  /\ current' = NoMission /\ naming' = {}
  /\ phase' = [m \in Mission |-> IF phase[m] = "none" THEN "none" ELSE "over"]
  /\ mission' = [m \in Mission |-> NoRow(m)]
  /\ UNCHANGED row

Launch(m) ==
  \/ PlanFails(m) \/ LaunchRaises(m) \/ DryRun(m) \/ SaveDry(m)
  \/ \E stop \in BOOLEAN : SaveRunning(m, stop)
  \/ HandOver(m) \/ SaveJobId(m)

Run(m) ==
  \/ StartStep(m) \/ Act(m) \/ StepFails(m) \/ SubmitChild(m) \/ Await(m) \/ AwaitFails(m)
  \/ SaveStep(m) \/ Conclude(m) \/ Finish(m) \/ SaveLast(m) \/ Release(m) \/ CloseRaises(m)
  \/ Report(m) \/ Return(m)

Rest == (\A m \in Mission : phase[m] # "none") /\ (\A w \in Work : ~J!Unrecorded(w)) /\ UNCHANGED vars

Next ==
  \/ \E m \in Mission : Claim(m) \/ Refuse(m) \/ Launch(m) \/ Run(m)
  \/ \E w \in Work : RegistryWorks(w)
  \/ Cancel
  \/ Crash
  \/ Rest

(* A request being served and the started thread of a mission go on, and a *)
(* wait has a deadline. Nobody has to launch, cancel or submit, and a job  *)
(* that a step waits for may hang.                                         *)
Fairness ==
  \A m \in Mission : WF_vars(Launch(m)) /\ WF_vars(Run(m)) /\ WF_vars(RegistryWorks(JobOf(m)))
Spec == Init /\ [][Next]_vars /\ Fairness

-----------------------------------------------------------------------------
TypeOK ==
  /\ registry \subseteq Work
  /\ status \in [Work -> J!Status] /\ thread \in [Work -> J!Position]
  /\ current \in Mission \cup {NoMission}
  /\ \A m \in Mission : \A r \in {mission[m], row[m]} :
       /\ r.status \in MissionStatus
       /\ r.steps \in [Steps(m) -> {"pending", "running", "completed", "failed"}]
  /\ phase \in [Mission -> Phase]
  /\ naming \subseteq Mission

(* The last word of a run on a mission. *)
Verdict(r) ==
  IF Failed(r) = {} THEN "completed" ELSE IF r.stop THEN "failed" ELSE "partial"

(* What a mission's row says agrees with its steps, with the job that runs *)
(* it and with the jobs its steps waited for, whoever saved it last and    *)
(* wherever the process died: once the job is DONE, the row is finished    *)
(* and its status is what the steps came to; before that, the thread that  *)
(* launched it may have stored it as completed with a step that failed,    *)
(* but with no step left. A step reads completed only if its job is DONE.  *)
RecordTells ==
  \A m \in Mission :
    /\ status[JobOf(m)] = "DONE" => row[m].finished /\ row[m].status = Verdict(row[m])
    /\ row[m].status \in {"completed", "partial"} => Ended(row[m]) = Steps(m)
    /\ row[m].status \in {"partial", "failed"} => row[m].status = Verdict(row[m])
    /\ row[m].status = "failed" => Cardinality(Failed(row[m])) = 1
    /\ \A i \in Completed(row[m]) : Plan[m][i] = "job" => status[Child(m, i)] = "DONE"

(* The slot a mission took is free again in the end, whether it is         *)
(* cancelled, fails or waits for a job that never answers, unless its      *)
(* launch or its closing raised.                                           *)
SlotIsFreed ==
  current # NoMission ~> (current = NoMission \/ phase[current] = "raised")

(* "A finished mission must never read as still running."                  *)
FinishedIsNotRunning ==
  \A m \in Mission : row[m].finished => row[m].status # "running"
=============================================================================
