--------------------------- MODULE Missions_proofs ---------------------------
(***************************************************************************)
(* Proofs about Missions, for any missions and plans: types, and that the  *)
(* row of a mission agrees with its steps and with the jobs behind them.   *)
(*                                                                         *)
(* Two threads save one dict. What either stores is sound because the dict *)
(* is, at every point of the run; and what is stored in the end is the     *)
(* last word because a save that comes after the run's own finds the dict  *)
(* as that save left it. The invariant says where the worker of a          *)
(* mission's job may be at each phase, which step the run has come to, and *)
(* what the dict reads until the run is closed.                            *)
(***************************************************************************)
EXTENDS Missions, FiniteSetTheorems, TLAPS

StepStatus == {"pending", "running", "completed", "failed"}
RowOf(m) == [status : MissionStatus, finished : BOOLEAN, stop : BOOLEAN,
             steps : [Steps(m) -> StepStatus]]

Types ==
  /\ TypeOK
  /\ DOMAIN row = Mission /\ DOMAIN mission = Mission
  /\ \A m \in Mission : row[m] \in RowOf(m) /\ mission[m] \in RowOf(m)

(* An outcome is recorded once: the worker that recorded it is past it. *)
DoneIsFinal == \A w \in Work : status[w] = "DONE" => thread[w] \in {"announcing", "over"}

(* Where the worker of a mission's job is while the run is at a phase. *)
Worker(m) ==
  IF phase[m] \in {"none", "claimed", "dry", "saved"} THEN {"none"}
  ELSE IF phase[m] = "between" THEN {"starting", "working"}
  ELSE IF phase[m] \in {"step", "waiting", "ended", "reporting"} THEN {"working"}
  ELSE IF phase[m] \in {"closing", "concluded", "finishing", "releasing"} THEN {"working", "CANCELLED"}
  ELSE {"none", "DONE", "FAILED", "CANCELLED", "announcing", "over"}

(* The step the run has come to: what is before it ended, what is behind   *)
(* it was not begun, and no step failed if that is to stop the mission.    *)
Front(m, i) ==
  /\ 1..i - 1 \subseteq Ended(mission[m])
  /\ \A k \in Steps(m) : k > i => mission[m].steps[k] = "pending"
  /\ mission[m].steps[i] = IF phase[m] = "between" THEN "pending" ELSE "running"
  /\ mission[m].stop => Failed(mission[m]) = {}

(* The same once the step has ended. *)
Behind(m, i) ==
  /\ 1..i \subseteq Ended(mission[m])
  /\ \A k \in Steps(m) : k > i => mission[m].steps[k] = "pending"
  /\ mission[m].stop => Failed(mission[m]) \subseteq {i}

LastWord(r) == r.finished /\ r.status = Verdict(r)

Place(m) ==
  /\ thread[JobOf(m)] \in Worker(m)
  /\ phase[m] \in {"saved", "between", "step", "waiting", "ended"} => mission[m].status = "running"
  /\ phase[m] = "saved" => mission[m].steps = Pending(m)
  /\ phase[m] \in {"between", "step", "waiting"} => \E i \in Steps(m) : Front(m, i)
  /\ phase[m] = "ended" => \E i \in Steps(m) : Behind(m, i)
  /\ phase[m] \in {"closing", "concluded", "finishing"} /\ mission[m].stop /\ mission[m].status # "failed" =>
       Failed(mission[m]) = {}
  /\ phase[m] = "closing" =>
       /\ mission[m].status \in {"running", "failed"}
       /\ mission[m].status = "running" /\ thread[JobOf(m)] = "working" =>
            Ended(mission[m]) = Steps(m)
  /\ phase[m] \in {"concluded", "finishing"} /\ thread[JobOf(m)] = "working" =>
       mission[m].status \in {"completed", "failed"}
  /\ phase[m] = "finishing" => mission[m].finished
  /\ phase[m] \in {"releasing", "reporting"} =>
       row[m] = mission[m] /\ (thread[JobOf(m)] = "working" => LastWord(row[m]))
  /\ m \in naming =>
       /\ phase[m] \notin {"none", "claimed", "dry", "saved"}
       /\ phase[m] \in {"over", "raised"} => row[m] = mission[m]

(* What the dict says, and what is stored of it, at any time. *)
Sound(m, r) ==
  /\ r.status \in {"completed", "partial"} => Ended(r) = Steps(m)
  /\ r.status \in {"partial", "failed"} => r.status = Verdict(r)
  /\ r.status = "failed" => \E i \in Steps(m) : Failed(r) = {i}
  /\ \A i \in Completed(r) : Plan[m][i] = "job" => status[Child(m, i)] = "DONE"

(* A job that is DONE was handed its result by a run past its last save. *)
Result(m) == thread[JobOf(m)] = "DONE" \/ status[JobOf(m)] = "DONE" => LastWord(row[m])

Told(m) == Place(m) /\ Result(m) /\ Sound(m, mission[m]) /\ Sound(m, row[m])

Inv == Types /\ DoneIsFinal /\ \A m \in Mission : Told(m)

-----------------------------------------------------------------------------
LEMMA StepsOfPlan ==
  ASSUME NEW m \in Mission
  PROVE  Steps(m) = 1..Len(Plan[m]) /\ Len(Plan[m]) \in Nat \ {0}
BY MissionsAssumption DEF Steps

LEMMA WorkOf ==
  /\ \A m \in Mission : JobOf(m) \in Work
  /\ \A m \in Mission : \A i \in Steps(m) : Plan[m][i] = "job" => Child(m, i) \in Children
  /\ Children \subseteq Work
<1>1. \A m \in Mission : JobOf(m) \in Work
  BY DEF Work
<1>2. ASSUME NEW m \in Mission, NEW i \in Steps(m), Plan[m][i] = "job"
      PROVE  Child(m, i) \in Children
  <2>1. Child(m, i) \in {Child(m, k) : k \in {j \in Steps(m) : Plan[m][j] = "job"}}
    BY <1>2
  <2> QED BY <2>1 DEF Children
<1> QED BY <1>1, <1>2 DEF Work

\* The job of a mission is no other mission's and no step's.
LEMMA JobIsOwn ==
  ASSUME NEW m \in Mission
  PROVE  /\ \A n \in Mission : JobOf(m) = JobOf(n) => m = n
         /\ \A w \in Children : w # JobOf(m)
<1>1. ASSUME NEW w \in Children
      PROVE  w # JobOf(m)
  <2>1. PICK n \in Mission : w \in {Child(n, i) : i \in {k \in Steps(n) : Plan[n][k] = "job"}}
    BY DEF Children
  <2>2. PICK i \in Steps(n) : w = Child(n, i)
    BY <2>1
  <2>3. i # 0
    BY StepsOfPlan
  <2> QED BY <2>2, <2>3 DEF Child, JobOf
<1> QED BY <1>1 DEF JobOf

LEMMA SetsOf ==
  ASSUME NEW m \in Mission, NEW r \in RowOf(m)
  PROVE  /\ Completed(r) \subseteq Steps(m) /\ Failed(r) \subseteq Steps(m) /\ Ended(r) \subseteq Steps(m)
         /\ \A i \in Steps(m) : (i \in Completed(r)) <=> (r.steps[i] = "completed")
         /\ \A i \in Steps(m) : (i \in Failed(r)) <=> (r.steps[i] = "failed")
         /\ \A i \in Steps(m) : (i \in Ended(r)) <=> (r.steps[i] \in {"completed", "failed"})
<1>1. DOMAIN r.steps = Steps(m)
  BY DEF RowOf
<1> QED BY <1>1 DEF Completed, Failed, Ended

\* The sets are those of the steps, whatever else the record says.
LEMMA SameSteps ==
  ASSUME NEW r, NEW q, r.steps = q.steps
  PROVE  Completed(r) = Completed(q) /\ Failed(r) = Failed(q) /\ Ended(r) = Ended(q)
BY DEF Completed, Failed, Ended

\* What no action touches keeps its place and its outcome.
LEMMA Frame ==
  ASSUME NEW m \in Mission, Told(m),
         row'[m] = row[m], mission'[m] = mission[m], phase'[m] = phase[m],
         m \in naming' => m \in naming,
         thread'[JobOf(m)] = thread[JobOf(m)],
         status'[JobOf(m)] = "DONE" => status[JobOf(m)] = "DONE",
         \A i \in Steps(m) : Plan[m][i] = "job" /\ status[Child(m, i)] = "DONE" => status'[Child(m, i)] = "DONE",
         mission[m] \in RowOf(m), row[m] \in RowOf(m)
  PROVE  Told(m)'
<1>1. Place(m)'
  BY DEF Told, Place, Worker, Front, Behind, LastWord, Verdict, Failed, Completed, Ended
<1>2. Sound(m, mission[m])' /\ Sound(m, row[m])'
  <2>1. Completed(mission[m]) \subseteq Steps(m) /\ Completed(row[m]) \subseteq Steps(m)
    BY SetsOf
  <2> QED BY <2>1 DEF Told, Sound, Failed, Completed, Ended, Verdict
<1>3. Result(m)'
  BY DEF Told, Result, LastWord, Verdict, Failed
<1> QED BY <1>1, <1>2, <1>3 DEF Told

LEMMA InitInv == Init => Inv
<1> SUFFICES ASSUME Init
             PROVE  Inv
  OBVIOUS
<1>1. Types
  <2>1. \A m \in Mission : NoRow(m) \in RowOf(m)
    BY DEF RowOf, NoRow, Pending, MissionStatus, StepStatus
  <2>2. row = mission /\ mission = [m \in Mission |-> NoRow(m)]
    BY DEF Init
  <2>3. TypeOK
    <3>1. \A m \in Mission : row[m] = mission[m] /\ mission[m].status \in MissionStatus
                            /\ mission[m].steps \in [Steps(m) -> {"pending", "running", "completed", "failed"}]
      BY <2>1, <2>2 DEF RowOf, StepStatus
    <3> QED BY <3>1, WorkOf DEF Init, J!Init, TypeOK, Phase, J!Status, J!Position, J!Outcome
  <2> QED BY <2>1, <2>2, <2>3 DEF Types
<1>2. DoneIsFinal
  BY DEF Init, J!Init, DoneIsFinal
<1>3. ASSUME NEW m \in Mission
      PROVE  Told(m)
  <2>1. /\ phase[m] = "none" /\ mission[m] = NoRow(m) /\ row[m] = NoRow(m) /\ naming = {}
        /\ thread[JobOf(m)] = "none" /\ status[JobOf(m)] = "none"
    BY WorkOf DEF Init, J!Init
  <2>2. Completed(NoRow(m)) = {} /\ NoRow(m).status = "none"
    BY DEF NoRow, Pending, Completed
  <2> QED BY <2>1, <2>2 DEF Told, Place, Worker, Result, Sound
<1> QED BY <1>1, <1>2, <1>3 DEF Inv

\* A step of one mission leaves the others as they are.
LEMMA OneMission ==
  ASSUME Inv, NEW m \in Mission, Types', DoneIsFinal', Told(m)',
         \A n \in Mission \ {m} :
           /\ row'[n] = row[n] /\ mission'[n] = mission[n] /\ phase'[n] = phase[n]
           /\ n \in naming' => n \in naming
           /\ thread'[JobOf(n)] = thread[JobOf(n)]
           /\ status'[JobOf(n)] = "DONE" => status[JobOf(n)] = "DONE"
           /\ \A i \in Steps(n) : Plan[n][i] = "job" /\ status[Child(n, i)] = "DONE" => status'[Child(n, i)] = "DONE"
  PROVE  Inv'
<1>1. ASSUME NEW n \in Mission, n # m
      PROVE  Told(n)'
  BY <1>1, Frame DEF Inv, Types
<1> QED BY <1>1 DEF Inv

\* A dict that changes, and a row that is stored or kept, keep their types.
LEMMA TypesKept ==
  ASSUME Types, NEW m \in Mission, NEW dict \in RowOf(m), NEW next \in Phase,
         mission' = [mission EXCEPT ![m] = dict] \/ (mission' = mission /\ dict = mission[m]),
         row' \in {row, [row EXCEPT ![m] = dict]},
         phase' = [phase EXCEPT ![m] = next], registry' \subseteq Work,
         status' \in [Work -> J!Status], thread' \in [Work -> J!Position],
         current' \in Mission \cup {NoMission}, naming' \subseteq Mission
  PROVE  /\ Types'
         /\ mission'[m] = dict /\ phase'[m] = next
         /\ \A n \in Mission \ {m} : /\ mission'[n] = mission[n] /\ row'[n] = row[n]
                                     /\ phase'[n] = phase[n]
<1>1. /\ mission'[m] = dict /\ phase'[m] = next /\ row'[m] \in {row[m], dict}
      /\ \A n \in Mission \ {m} : /\ mission'[n] = mission[n] /\ row'[n] = row[n]
                                  /\ phase'[n] = phase[n]
      /\ DOMAIN mission' = Mission /\ DOMAIN row' = Mission /\ phase' \in [Mission -> Phase]
  BY DEF Types, TypeOK
<1>2. \A n \in Mission : row'[n] \in RowOf(n) /\ mission'[n] \in RowOf(n)
  BY <1>1 DEF Types
<1>3. TypeOK'
  <2>1. ASSUME NEW n \in Mission, NEW r \in RowOf(n)
        PROVE  r.status \in MissionStatus /\ r.steps \in [Steps(n) -> {"pending", "running", "completed", "failed"}]
    BY DEF RowOf, StepStatus
  <2> QED BY <1>1, <1>2, <2>1 DEF TypeOK
<1> QED BY <1>1, <1>2, <1>3 DEF Types

-----------------------------------------------------------------------------
LEMMA LaunchStep ==
  ASSUME Inv, NEW m \in Mission, Claim(m) \/ Launch(m)
  PROVE  Inv'
<1> USE DEF Inv
<1>0. /\ Types /\ mission[m] \in RowOf(m) /\ row[m] \in RowOf(m)
      /\ registry \subseteq Work /\ status \in [Work -> J!Status] /\ thread \in [Work -> J!Position]
      /\ current \in Mission \cup {NoMission} /\ naming \subseteq Mission /\ phase \in [Mission -> Phase]
  BY DEF Types, TypeOK
<1>1. CASE Claim(m) \/ PlanFails(m) \/ LaunchRaises(m) \/ DryRun(m)
  <2>1. /\ row' = row /\ mission' = mission /\ thread' = thread /\ status' = status /\ registry' = registry
        /\ phase' = [phase EXCEPT ![m] = phase'[m]] /\ phase'[m] \in {"claimed", "over", "raised", "dry"}
        /\ phase[m] \in {"none", "claimed"} /\ naming' = naming /\ current' \in {m, NoMission, current}
    BY <1>0, <1>1 DEF Claim, PlanFails, LaunchRaises, DryRun, Goes, jobs
  <2>2. /\ Types' /\ \A n \in Mission \ {m} : phase'[n] = phase[n]
    BY <1>0, <2>1, TypesKept DEF Phase
  <2>3. DoneIsFinal'
    BY <2>1 DEF DoneIsFinal
  <2>4. thread[JobOf(m)] = "none" /\ m \notin naming
    BY <2>1 DEF Told, Place, Worker
  <2>5. Place(m)'
    BY <2>1, <2>4 DEF Place, Worker
  <2>6. Told(m)'
    BY <2>1, <2>5 DEF Told, Sound, Result, LastWord, Verdict, Completed, Failed, Ended
  <2> QED BY <2>1, <2>2, <2>3, <2>6, OneMission
<1>2. CASE SaveDry(m) \/ \E stop \in BOOLEAN : SaveRunning(m, stop)
  <2>1. PICK dict \in {[NoRow(m) EXCEPT !.status = "planned"]}
                    \cup {[NoRow(m) EXCEPT !.status = "running", !.stop = s] : s \in BOOLEAN} :
        /\ mission' = [mission EXCEPT ![m] = dict]
        /\ row' = [row EXCEPT ![m] = mission'[m]]
        /\ \/ phase[m] = "dry" /\ phase' = [phase EXCEPT ![m] = "over"]
           \/ /\ phase[m] = "claimed" /\ phase' = [phase EXCEPT ![m] = "saved"] /\ dict.status = "running"
    <3>1. CASE SaveDry(m)
      BY <3>1 DEF SaveDry, Goes, Becomes, Saves
    <3>2. ASSUME NEW stop \in BOOLEAN, SaveRunning(m, stop)
          PROVE  LET dict == [NoRow(m) EXCEPT !.status = "running", !.stop = stop]
                 IN  /\ mission' = [mission EXCEPT ![m] = dict]
                     /\ row' = [row EXCEPT ![m] = mission'[m]]
                     /\ phase[m] = "claimed" /\ phase' = [phase EXCEPT ![m] = "saved"]
                     /\ dict.status = "running"
      BY <3>2 DEF SaveRunning, Goes, Becomes, Saves, NoRow
    <3> QED BY <1>2, <3>1, <3>2
  <2>2. thread' = thread /\ status' = status /\ registry' = registry /\ naming' = naming /\ current' = current
    BY <1>2 DEF SaveDry, SaveRunning, jobs
  <2>3. dict \in RowOf(m) /\ dict.status \in {"planned", "running"} /\ dict.steps = Pending(m)
    BY DEF NoRow, RowOf, Pending, MissionStatus, StepStatus
  <2>4. mission'[m] = dict
    BY <2>1 DEF Types
  <2>5. row' = [row EXCEPT ![m] = dict] /\ row'[m] = dict
    BY <2>1, <2>4 DEF Types
  <2>6. PICK next \in {"over", "saved"} :
          /\ phase' = [phase EXCEPT ![m] = next]
          /\ next = "saved" => dict.status = "running"
    BY <2>1
  <2>7. /\ Types' /\ phase'[m] = next
        /\ \A n \in Mission \ {m} : /\ mission'[n] = mission[n] /\ row'[n] = row[n]
                                    /\ phase'[n] = phase[n]
    <3>1. next \in Phase /\ registry' \subseteq Work
      BY <1>0, <2>2 DEF Phase
    <3>2. mission' = [mission EXCEPT ![m] = dict] /\ row' \in {row, [row EXCEPT ![m] = dict]}
      BY <2>1, <2>5
    <3>3. /\ status' \in [Work -> J!Status] /\ thread' \in [Work -> J!Position]
          /\ current' \in Mission \cup {NoMission} /\ naming' \subseteq Mission
      BY <1>0, <2>2
    <3>4. Types /\ dict \in RowOf(m) /\ phase' = [phase EXCEPT ![m] = next]
      BY <1>0, <2>3, <2>6
    <3> QED BY <3>1, <3>2, <3>3, <3>4, TypesKept
  <2>8. DoneIsFinal'
    BY <2>2 DEF DoneIsFinal
  <2>9. thread[JobOf(m)] = "none" /\ status[JobOf(m)] # "DONE" /\ m \notin naming
    BY <2>1, WorkOf DEF Told, Place, Worker, DoneIsFinal
  <2>10. Completed(dict) = {}
    BY <2>3 DEF Pending, Completed
  <2>11. Place(m)'
    BY <2>2, <2>3, <2>4, <2>6, <2>7, <2>9 DEF Place, Worker
  <2>12. Sound(m, mission[m])' /\ Sound(m, row[m])' /\ Result(m)'
    BY <2>2, <2>3, <2>4, <2>5, <2>9, <2>10 DEF Sound, Result
  <2> QED BY <2>2, <2>7, <2>8, <2>11, <2>12, OneMission DEF Told
<1>3. CASE HandOver(m)
  <2>1. /\ phase[m] = "saved" /\ phase' = [phase EXCEPT ![m] = "between"] /\ row' = row /\ mission' = mission
        /\ thread[JobOf(m)] = "none" /\ status' = [status EXCEPT ![JobOf(m)] = "QUEUED"]
        /\ thread' = [thread EXCEPT ![JobOf(m)] = "starting"]
        /\ registry' \subseteq registry \cup {JobOf(m)}
        /\ naming' = naming \cup {m} /\ current' = current
    BY <1>3 DEF HandOver, J!Submit, Goes
  <2>2. /\ Types' /\ \A n \in Mission \ {m} : phase'[n] = phase[n]
    <3>1. /\ registry' \subseteq Work /\ status' \in [Work -> J!Status] /\ thread' \in [Work -> J!Position]
          /\ naming' \subseteq Mission /\ "between" \in Phase
      BY <1>0, <2>1, WorkOf DEF Phase, J!Status, J!Position
    <3> QED BY <1>0, <2>1, <3>1, TypesKept
  <2>3. DoneIsFinal'
    BY <2>1 DEF DoneIsFinal
  <2>4. status[JobOf(m)] # "DONE"
    BY <2>1, WorkOf DEF DoneIsFinal
  <2>5. /\ thread'[JobOf(m)] = "starting" /\ status'[JobOf(m)] = "QUEUED" /\ phase'[m] = "between"
        /\ \A n \in Mission : \A i \in Steps(n) :
             Plan[n][i] = "job" /\ status[Child(n, i)] = "DONE" => status'[Child(n, i)] = "DONE"
    BY <1>0, <2>1, <2>4, WorkOf
  <2>6. 1 \in Steps(m) /\ \A k \in Steps(m) : mission[m].steps[k] = "pending"
    <3>1. 1 \in Steps(m)
      BY StepsOfPlan
    <3>2. mission[m].steps = Pending(m)
      BY <2>1 DEF Told, Place
    <3> QED BY <3>1, <3>2 DEF Pending
  <2>7. Failed(mission[m]) = {} /\ Completed(mission[m]) = {}
    BY <1>0, <2>6, SetsOf
  <2>8. Front(m, 1)'
    <3>1. 1..1 - 1 = {}
      OBVIOUS
    <3> QED BY <2>1, <2>5, <2>6, <2>7, <3>1 DEF Front
  <2>9. mission[m].status = "running"
    BY <2>1 DEF Told, Place
  <2>10. Place(m)'
    BY <2>1, <2>5, <2>6, <2>8, <2>9 DEF Place, Worker
  <2>11. Sound(m, mission[m])' /\ Sound(m, row[m])' /\ Result(m)'
    <3>1. Sound(m, mission[m])'
      BY <2>1, <2>7, <2>9 DEF Sound
    <3>2. Completed(row[m]) \subseteq Steps(m) /\ row'[m] = row[m]
      BY <1>0, <2>1, SetsOf
    <3>3. Sound(m, row[m])'
      BY <3>2, <2>5 DEF Told, Sound, Ended, Completed, Failed, Verdict
    <3> QED BY <2>5, <3>1, <3>3 DEF Result
  <2>12. ASSUME NEW n \in Mission \ {m}
        PROVE  /\ thread'[JobOf(n)] = thread[JobOf(n)] /\ status'[JobOf(n)] = status[JobOf(n)]
               /\ n \in naming' => n \in naming
    BY <2>1, WorkOf, JobIsOwn
  <2> QED BY <2>1, <2>2, <2>3, <2>5, <2>10, <2>11, <2>12, OneMission DEF Told
<1>4. CASE SaveJobId(m)
  <2>1. /\ mission' = mission /\ row' = [row EXCEPT ![m] = mission[m]]
        /\ phase' = phase /\ thread' = thread /\ status' = status
        /\ registry' = registry /\ naming' = naming \ {m} /\ current' = current /\ m \in naming
    BY <1>4 DEF SaveJobId, Saves, jobs
  <2>2. row'[m] = mission[m]
    BY <2>1 DEF Types
  <2>3. /\ Types' /\ \A n \in Mission \ {m} : row'[n] = row[n]
    <3>1. phase' = [phase EXCEPT ![m] = phase[m]] /\ phase[m] \in Phase
      BY <1>0, <2>1
    <3> QED BY <1>0, <2>1, <3>1, TypesKept
  <2>4. DoneIsFinal'
    BY <2>1 DEF DoneIsFinal
  <2>5. Place(m)'
    BY <2>1, <2>2 DEF Told, Place, Worker, Front, Behind, LastWord, Verdict, Failed, Completed, Ended
  <2>6. Result(m)'
    <3>1. thread[JobOf(m)] = "DONE" \/ status[JobOf(m)] = "DONE" => phase[m] \in {"over", "raised"}
      BY <2>1, WorkOf, <1>0 DEF DoneIsFinal, Told, Place, Worker, Phase
    <3>2. thread[JobOf(m)] = "DONE" \/ status[JobOf(m)] = "DONE" => row'[m] = row[m]
      BY <2>1, <2>2, <3>1 DEF Told, Place
    <3> QED BY <2>1, <3>2 DEF Told, Result, LastWord, Verdict, Failed
  <2>7. Sound(m, mission[m])' /\ Sound(m, row[m])'
    BY <2>1, <2>2 DEF Told, Sound, Ended, Completed, Failed, Verdict
  <2> QED BY <2>1, <2>3, <2>4, <2>5, <2>6, <2>7, OneMission DEF Told
<1> QED BY <1>1, <1>2, <1>3, <1>4 DEF Launch

-----------------------------------------------------------------------------
\* The step a run has come to is the one the code takes up next.
LEMMA StepIsFront ==
  ASSUME NEW m \in Mission, NEW i \in Steps(m), Front(m, i), mission[m] \in RowOf(m)
  PROVE  Step(m) = i
<1>1. i \notin Ended(mission[m]) /\ 1..i - 1 \subseteq Ended(mission[m])
  BY SetsOf DEF Front
<1>2. ASSUME NEW j \in Steps(m), j \notin Ended(mission[m]), 1..j - 1 \subseteq Ended(mission[m])
      PROVE  j = i
  <2>1. i \in Nat /\ j \in Nat /\ i > 0 /\ j > 0
    BY StepsOfPlan
  <2>2. j < i => j \in 1..i - 1
    BY <2>1
  <2>3. i < j => i \in 1..j - 1
    BY <2>1
  <2> QED BY <2>1, <2>2, <2>3, <1>1, <1>2
<1> QED BY <1>1, <1>2 DEF Step

\* A dict in which one step's status is set.
LEMMA OneStep ==
  ASSUME NEW m \in Mission, mission[m] \in RowOf(m), NEW i \in Steps(m), NEW s \in StepStatus,
         NEW dict, dict = [mission[m] EXCEPT !.steps[i] = s]
  PROVE  /\ dict \in RowOf(m)
         /\ dict.status = mission[m].status /\ dict.stop = mission[m].stop /\ dict.finished = mission[m].finished
         /\ dict.steps[i] = s /\ \A k \in Steps(m) \ {i} : dict.steps[k] = mission[m].steps[k]
BY DEF RowOf

\* A dict in which the mission's status is set.
LEMMA OneStatus ==
  ASSUME NEW m \in Mission, mission[m] \in RowOf(m), NEW s \in MissionStatus,
         NEW dict, dict = [mission[m] EXCEPT !.status = s]
  PROVE  /\ dict \in RowOf(m) /\ dict.status = s
         /\ dict.stop = mission[m].stop /\ dict.finished = mission[m].finished
         /\ Completed(dict) = Completed(mission[m]) /\ Failed(dict) = Failed(mission[m])
         /\ Ended(dict) = Ended(mission[m]) /\ dict.steps = mission[m].steps
<1>1. /\ dict \in RowOf(m) /\ dict.status = s
      /\ dict.stop = mission[m].stop /\ dict.finished = mission[m].finished
      /\ dict.steps = mission[m].steps
  BY DEF RowOf
<1> QED BY <1>1, SameSteps

\* What every step of a run starts from.
LEMMA RunKnows ==
  ASSUME Inv, NEW m \in Mission
  PROVE  /\ Types /\ Told(m) /\ mission[m] \in RowOf(m) /\ row[m] \in RowOf(m)
         /\ registry \subseteq Work /\ status \in [Work -> J!Status] /\ thread \in [Work -> J!Position]
         /\ current \in Mission \cup {NoMission} /\ naming \subseteq Mission /\ phase \in [Mission -> Phase]
         /\ thread[JobOf(m)] \in {"starting", "working", "CANCELLED"} => status[JobOf(m)] # "DONE"
BY WorkOf DEF Inv, Types, TypeOK, DoneIsFinal

LEMMA StartStepKeeps ==
  ASSUME Inv, NEW m \in Mission, StartStep(m)
  PROVE  Inv'
<1>0. /\ Types /\ Told(m) /\ mission[m] \in RowOf(m) /\ row[m] \in RowOf(m)
      /\ registry \subseteq Work /\ status \in [Work -> J!Status] /\ thread \in [Work -> J!Position]
      /\ current \in Mission \cup {NoMission} /\ naming \subseteq Mission
  BY RunKnows
<1>1. /\ phase[m] = "between" /\ thread[JobOf(m)] = "working"
      /\ registry' = registry /\ status' = status /\ current' = current /\ naming' = naming
  BY DEF StartStep, Running, J!Checkpoint
<1>2. PICK i \in Steps(m) : Front(m, i)
  BY <1>0, <1>1 DEF Told, Place
<1>3. Step(m) = i
  BY <1>0, <1>2, StepIsFront
<1>4. status[JobOf(m)] # "DONE" /\ mission[m].status = "running"
  BY <1>0, <1>1, RunKnows DEF Told, Place
<1>5. DoneIsFinal'
  <2>1. thread' \in {thread, [thread EXCEPT ![JobOf(m)] = "CANCELLED"]}
    BY DEF StartStep, J!Checkpoint
  <2>2. ASSUME NEW w \in Work, status[w] = "DONE"
        PROVE  thread'[w] = thread[w]
    BY <1>0, <1>4, <2>1, <2>2
  <2> QED BY <1>1, <2>2 DEF DoneIsFinal, Inv
<1>6. CASE JobOf(m) \in cancelling
  <2>1. /\ thread' = [thread EXCEPT ![JobOf(m)] = "CANCELLED"]
        /\ phase' = [phase EXCEPT ![m] = "closing"] /\ row' = row /\ mission' = mission
    BY <1>6 DEF StartStep, J!Checkpoint, Goes
  <2>2. Types' /\ phase'[m] = "closing" /\ \A n \in Mission \ {m} : phase'[n] = phase[n]
    <3>1. thread' \in [Work -> J!Position] /\ "closing" \in Phase
      BY <1>0, <2>1 DEF Phase, J!Position, J!Outcome
    <3> QED BY <1>0, <1>1, <2>1, <3>1, TypesKept
  <2>3. thread'[JobOf(m)] = "CANCELLED" /\ \A n \in Mission \ {m} : thread'[JobOf(n)] = thread[JobOf(n)]
    BY <1>0, <2>1, JobIsOwn, WorkOf
  <2>4. Place(m)'
    BY <1>0, <1>1, <1>2, <1>4, <2>1, <2>2, <2>3 DEF Told, Place, Worker, Front
  <2>5. Sound(m, mission[m])' /\ Sound(m, row[m])' /\ Result(m)'
    BY <1>0, <1>1, <1>4, <2>1, <2>3 DEF Told, Sound, Result, Ended, Completed, Failed, Verdict
  <2> QED BY <1>1, <1>5, <2>1, <2>2, <2>3, <2>4, <2>5, OneMission DEF Told
<1>7. CASE JobOf(m) \notin cancelling
  <2>0. PICK dict : dict = [mission[m] EXCEPT !.steps[i] = "running"]
    OBVIOUS
  <2>1. /\ thread' = thread /\ phase' = [phase EXCEPT ![m] = "step"]
        /\ mission' = [mission EXCEPT ![m] = dict] /\ row' = [row EXCEPT ![m] = mission'[m]]
    BY <1>3, <1>7, <2>0 DEF StartStep, J!Checkpoint, Goes, Becomes, Saves
  <2>2. /\ dict \in RowOf(m) /\ dict.status = "running" /\ dict.stop = mission[m].stop
        /\ dict.steps[i] = "running" /\ \A k \in Steps(m) \ {i} : dict.steps[k] = mission[m].steps[k]
    BY <1>0, <1>4, <2>0, OneStep DEF StepStatus
  <2>3. mission'[m] = dict
    BY <1>0, <2>1 DEF Types
  <2>4. row' = [row EXCEPT ![m] = dict] /\ row'[m] = dict
    BY <1>0, <2>1, <2>3 DEF Types
  <2>5. Types' /\ phase'[m] = "step" /\ \A n \in Mission \ {m} :
          mission'[n] = mission[n] /\ row'[n] = row[n] /\ phase'[n] = phase[n]
    <3>1. "step" \in Phase
      BY DEF Phase
    <3>2. /\ registry' \subseteq Work /\ status' \in [Work -> J!Status] /\ thread' \in [Work -> J!Position]
          /\ current' \in Mission \cup {NoMission} /\ naming' \subseteq Mission
      BY <1>0, <1>1, <2>1
    <3>3. /\ mission' = [mission EXCEPT ![m] = dict] /\ row' \in {row, [row EXCEPT ![m] = dict]}
          /\ phase' = [phase EXCEPT ![m] = "step"]
      BY <2>1, <2>4
    <3>4. Types /\ dict \in RowOf(m)
      BY <1>0, <2>2
    <3> QED BY <3>1, <3>2, <3>3, <3>4, TypesKept
  <2>6. Completed(dict) = Completed(mission[m]) /\ Failed(dict) = Failed(mission[m]) /\ Ended(dict) = Ended(mission[m])
    <3>1. mission[m].steps[i] = "pending"
      BY <1>1, <1>2 DEF Front
    <3>2. \A k \in Steps(m) : (k \in Completed(dict) <=> k \in Completed(mission[m]))
                              /\ (k \in Failed(dict) <=> k \in Failed(mission[m]))
      BY <1>0, <2>2, <3>1, SetsOf
    <3>3. Completed(dict) = Completed(mission[m]) /\ Failed(dict) = Failed(mission[m])
      BY <1>0, <2>2, <3>2, SetsOf
    <3> QED BY <3>3 DEF Ended
  <2>7. Front(m, i)'
    <3>1. i \in Nat /\ \A k \in Steps(m) : k > i => k \in Steps(m) \ {i}
      BY StepsOfPlan
    <3> QED BY <1>2, <2>2, <2>3, <2>5, <2>6, <3>1 DEF Front
  <2>8. Place(m)'
    BY <1>0, <1>1, <2>1, <2>2, <2>3, <2>5, <2>7 DEF Told, Place, Worker
  <2>9. Sound(m, dict)'
    BY <1>0, <1>1, <2>2, <2>6 DEF Told, Sound
  <2>10. Sound(m, mission[m])' /\ Sound(m, row[m])' /\ Result(m)'
    BY <1>1, <1>4, <2>1, <2>3, <2>4, <2>9 DEF Sound, Result
  <2> QED BY <1>1, <1>5, <2>1, <2>5, <2>8, <2>10, OneMission DEF Told
<1> QED BY <1>6, <1>7

\* A step that ends is first known to the dict alone.
LEMMA StepEndsKeeps ==
  ASSUME Inv, NEW m \in Mission, NEW outcome \in {"completed", "failed"}, StepEnds(m, outcome),
         phase[m] \in {"step", "waiting"},
         outcome = "completed" /\ Plan[m][Step(m)] = "job" => status[Child(m, Step(m))] = "DONE"
  PROVE  Inv'
<1>0. /\ Types /\ Told(m) /\ mission[m] \in RowOf(m) /\ row[m] \in RowOf(m)
      /\ registry \subseteq Work /\ status \in [Work -> J!Status] /\ thread \in [Work -> J!Position]
      /\ current \in Mission \cup {NoMission} /\ naming \subseteq Mission
  BY RunKnows
<1>1. PICK i \in Steps(m) : Front(m, i)
  BY <1>0 DEF Told, Place
<1>2. Step(m) = i
  BY <1>0, <1>1, StepIsFront
<1>3. thread[JobOf(m)] = "working" /\ mission[m].status = "running" /\ status[JobOf(m)] # "DONE"
  BY <1>0, RunKnows DEF Told, Place, Worker
<1>a. PICK dict : dict = [mission[m] EXCEPT !.steps[i] = outcome]
  OBVIOUS
<1>4. /\ mission' = [mission EXCEPT ![m] = dict] /\ phase' = [phase EXCEPT ![m] = "ended"]
      /\ registry' = registry /\ status' = status /\ thread' = thread /\ row' = row
      /\ current' = current /\ naming' = naming
  BY <1>2, <1>a DEF StepEnds, Becomes, Goes, jobs
<1>5. /\ dict \in RowOf(m) /\ dict.status = "running" /\ dict.stop = mission[m].stop
      /\ dict.steps[i] = outcome /\ \A k \in Steps(m) \ {i} : dict.steps[k] = mission[m].steps[k]
  BY <1>0, <1>3, <1>a, OneStep DEF StepStatus
<1>6. /\ Types'
      /\ mission'[m] = dict /\ phase'[m] = "ended"
      /\ \A n \in Mission \ {m} : /\ mission'[n] = mission[n] /\ row'[n] = row[n]
                                  /\ phase'[n] = phase[n]
  <2>1. "ended" \in Phase
    BY DEF Phase
  <2>2. /\ registry' \subseteq Work /\ status' \in [Work -> J!Status] /\ thread' \in [Work -> J!Position]
        /\ current' \in Mission \cup {NoMission} /\ naming' \subseteq Mission
    BY <1>0, <1>4
  <2>3. /\ mission' = [mission EXCEPT ![m] = dict] /\ row' \in {row, [row EXCEPT ![m] = dict]}
        /\ phase' = [phase EXCEPT ![m] = "ended"]
    BY <1>4
  <2>4. Types /\ dict \in RowOf(m)
    BY <1>0, <1>5
  <2> QED BY <2>1, <2>2, <2>3, <2>4, TypesKept
<1>7. DoneIsFinal'
  BY <1>4 DEF DoneIsFinal, Inv
<1>8. /\ \A k \in Steps(m) \ {i} : /\ k \in Completed(dict) <=> k \in Completed(mission[m])
                                   /\ k \in Failed(dict) <=> k \in Failed(mission[m])
                                   /\ k \in Ended(dict) <=> k \in Ended(mission[m])
      /\ Completed(dict) \subseteq Steps(m) /\ Failed(dict) \subseteq Steps(m)
      /\ i \in Ended(dict) /\ (i \in Completed(dict) <=> outcome = "completed")
  BY <1>0, <1>5, SetsOf
<1>9. Behind(m, i)'
  <2>1. i \in Nat /\ i > 0 /\ (\A k \in Steps(m) : k > i => k \in Steps(m) \ {i})
    BY StepsOfPlan
  <2>2. ASSUME NEW k \in 1..i
        PROVE  k \in Ended(dict)
    <3>1. k = i \/ (k \in 1..i - 1 /\ k \in Steps(m) \ {i})
      BY <2>1, StepsOfPlan
    <3> QED BY <1>1, <1>8, <3>1 DEF Front
  <2>3. dict.stop => Failed(dict) \subseteq {i}
    BY <1>1, <1>5, <1>8 DEF Front
  <2>4. \A k \in Steps(m) : k > i => dict.steps[k] = "pending"
    BY <1>1, <1>5, <2>1 DEF Front
  <2> QED BY <1>6, <2>2, <2>3, <2>4 DEF Behind
<1>10. Place(m)'
  BY <1>0, <1>3, <1>4, <1>5, <1>6, <1>9 DEF Told, Place, Worker
<1>11. Sound(m, mission[m])' /\ Sound(m, row[m])' /\ Result(m)'
  <2>1. \A k \in Completed(dict) : Plan[m][k] = "job" => status[Child(m, k)] = "DONE"
    BY <1>0, <1>2, <1>8 DEF Told, Sound
  <2>2. Sound(m, mission[m])'
    BY <1>4, <1>5, <1>6, <2>1 DEF Sound
  <2> QED BY <1>0, <1>3, <1>4, <2>2 DEF Told, Sound, Result, Ended, Completed, Failed, Verdict
<1> QED BY <1>4, <1>6, <1>7, <1>10, <1>11, OneMission DEF Told

\* Then it is stored, and the mission goes on or comes to its end.
LEMMA SaveStepKeeps ==
  ASSUME Inv, NEW m \in Mission, SaveStep(m)
  PROVE  Inv'
<1>0. /\ Types /\ Told(m) /\ mission[m] \in RowOf(m) /\ row[m] \in RowOf(m)
      /\ registry \subseteq Work /\ status \in [Work -> J!Status] /\ thread \in [Work -> J!Position]
      /\ current \in Mission \cup {NoMission} /\ naming \subseteq Mission
  BY RunKnows
<1>1. phase[m] = "ended" /\ thread[JobOf(m)] = "working" /\ mission[m].status = "running" /\ status[JobOf(m)] # "DONE"
  BY <1>0, RunKnows DEF SaveStep, Running, Told, Place
<1>2. PICK i \in Steps(m) : Behind(m, i)
  BY <1>0, <1>1 DEF Told, Place
<1> DEFINE stops == mission[m].stop /\ Failed(mission[m]) # {}
<1>a. PICK to \in {"failed", "running"} : to = IF stops THEN "failed" ELSE "running"
  OBVIOUS
<1>b. PICK next \in {"closing", "between"} :
        next = IF stops \/ Ended(mission[m]) = Steps(m) THEN "closing" ELSE "between"
  OBVIOUS
<1>c. PICK dict : dict = [mission[m] EXCEPT !.status = to]
  OBVIOUS
<1>3. /\ mission' = [mission EXCEPT ![m] = dict] /\ row' = [row EXCEPT ![m] = mission'[m]]
      /\ phase' = [phase EXCEPT ![m] = next]
      /\ registry' = registry /\ status' = status /\ thread' = thread
      /\ current' = current /\ naming' = naming
  <2>1. dict = [mission[m] EXCEPT !.status = IF stops THEN "failed" ELSE @]
    BY <1>1, <1>a, <1>c
  <2> QED BY <1>b, <2>1 DEF SaveStep, Becomes, Saves, Goes
<1>4. /\ dict \in RowOf(m) /\ dict.status = to /\ dict.stop = mission[m].stop
      /\ dict.steps = mission[m].steps
      /\ Completed(dict) = Completed(mission[m]) /\ Failed(dict) = Failed(mission[m])
      /\ Ended(dict) = Ended(mission[m])
  <2>1. to \in MissionStatus
    BY DEF MissionStatus
  <2> QED BY <1>0, <1>c, <2>1, OneStatus
<1>5. mission'[m] = dict
  BY <1>0, <1>3 DEF Types
<1>6. row' = [row EXCEPT ![m] = dict] /\ row'[m] = dict
  BY <1>0, <1>3, <1>5 DEF Types
<1>7. Types' /\ phase'[m] = next /\ \A n \in Mission \ {m} :
        mission'[n] = mission[n] /\ row'[n] = row[n] /\ phase'[n] = phase[n]
  <2>1. next \in Phase
    BY DEF Phase
  <2>2. /\ registry' \subseteq Work /\ status' \in [Work -> J!Status] /\ thread' \in [Work -> J!Position]
        /\ current' \in Mission \cup {NoMission} /\ naming' \subseteq Mission
    BY <1>0, <1>3
  <2>3. /\ mission' = [mission EXCEPT ![m] = dict] /\ row' \in {row, [row EXCEPT ![m] = dict]}
        /\ phase' = [phase EXCEPT ![m] = next]
    BY <1>3, <1>6
  <2>4. Types /\ dict \in RowOf(m)
    BY <1>0, <1>4
  <2> QED BY <2>1, <2>2, <2>3, <2>4, TypesKept
<1>8. DoneIsFinal'
  BY <1>3 DEF DoneIsFinal, Inv
<1>9. Sound(m, dict)'
  <2>1. \A k \in Completed(dict) : Plan[m][k] = "job" => status[Child(m, k)] = "DONE"
    BY <1>0, <1>4 DEF Told, Sound
  <2>2. CASE stops
    <3>1. Failed(dict) = {i} /\ dict.stop
      BY <1>2, <1>4, <2>2 DEF Behind
    <3>2. Verdict(dict) = "failed"
      BY <3>1 DEF Verdict
    <3> QED BY <1>3, <1>4, <1>a, <2>1, <2>2, <3>1, <3>2 DEF Sound
  <2>3. CASE ~stops
    BY <1>3, <1>4, <1>a, <2>1, <2>3 DEF Sound
  <2> QED BY <2>2, <2>3
<1>10. Place(m)'
  <2>1. CASE stops
    BY <1>0, <1>1, <1>3, <1>4, <1>5, <1>7, <1>a, <1>b, <2>1 DEF Told, Place, Worker
  <2>2. CASE ~stops /\ Ended(mission[m]) = Steps(m)
    BY <1>0, <1>1, <1>3, <1>4, <1>5, <1>7, <1>a, <1>b, <2>2 DEF Told, Place, Worker
  <2>3. CASE ~stops /\ Ended(mission[m]) # Steps(m)
    <3>1. i \in Nat /\ i > 0 /\ i + 1 \in Steps(m)
      <4>1. \A k \in Steps(m) : k <= i => k \in Ended(mission[m])
        BY <1>2, StepsOfPlan DEF Behind
      <4>2. \E k \in Steps(m) : k > i
        <5>1. Ended(mission[m]) \subseteq Steps(m)
          BY <1>0, SetsOf
        <5>2. PICK k \in Steps(m) : k \notin Ended(mission[m])
          BY <2>3, <5>1
        <5> QED BY <4>1, <5>2, StepsOfPlan
      <4> QED BY <4>2, StepsOfPlan
    <3>2. Front(m, i + 1)'
      <4>1. 1..(i + 1) - 1 = 1..i
        BY <3>1
      <4>2. \A k \in Steps(m) : k > i + 1 => k > i
        BY <3>1, StepsOfPlan
      <4>3. i + 1 > i
        BY <3>1
      <4>4. dict.stop => Failed(dict) = {}
        BY <1>4, <2>3
      <4>5. phase'[m] = "between"
        BY <1>7, <1>b, <2>3
      <4> QED BY <1>2, <1>4, <1>5, <3>1, <4>1, <4>2, <4>3, <4>4, <4>5 DEF Front, Behind
    <3> QED BY <1>0, <1>1, <1>3, <1>4, <1>5, <1>7, <1>a, <1>b, <2>3, <3>1, <3>2 DEF Told, Place, Worker
  <2> QED BY <2>1, <2>2, <2>3
<1>11. Sound(m, mission[m])' /\ Sound(m, row[m])' /\ Result(m)'
  BY <1>1, <1>3, <1>5, <1>6, <1>9 DEF Sound, Result
<1> QED BY <1>3, <1>7, <1>8, <1>10, <1>11, OneMission DEF Told

\* The end of a run: the status, the end, and the last save.
LEMMA CloseKeeps ==
  ASSUME Inv, NEW m \in Mission, Conclude(m) \/ Finish(m) \/ SaveLast(m)
  PROVE  Inv'
<1>0. /\ Types /\ Told(m) /\ mission[m] \in RowOf(m) /\ row[m] \in RowOf(m)
      /\ registry \subseteq Work /\ status \in [Work -> J!Status] /\ thread \in [Work -> J!Position]
      /\ current \in Mission \cup {NoMission} /\ naming \subseteq Mission
  BY RunKnows
<1>1. /\ thread' = thread /\ status' = status /\ registry' = registry
      /\ current' = current /\ naming' = naming
  BY DEF Conclude, Finish, SaveLast, jobs
<1>2. /\ phase[m] \in {"closing", "concluded", "finishing"}
      /\ thread[JobOf(m)] \in {"working", "CANCELLED"} /\ status[JobOf(m)] # "DONE"
  BY <1>0, RunKnows DEF Conclude, Finish, SaveLast, Told, Place, Worker
<1>3. /\ registry' \subseteq Work /\ status' \in [Work -> J!Status] /\ thread' \in [Work -> J!Position]
      /\ current' \in Mission \cup {NoMission} /\ naming' \subseteq Mission
  BY <1>0, <1>1
<1>4. DoneIsFinal'
  BY <1>1 DEF DoneIsFinal, Inv
\* What is left to show of each step: the place it comes to, and a sound dict.
<1>5. ASSUME NEW dict \in RowOf(m), NEW next \in Phase,
             mission' = [mission EXCEPT ![m] = dict],
             row' \in {row, [row EXCEPT ![m] = dict]},
             phase' = [phase EXCEPT ![m] = next],
             mission'[m] = dict /\ phase'[m] = next => Place(m)',
             Sound(m, dict)
      PROVE  Inv'
  <2>1. Types
    BY <1>0
  <2>2. /\ Types' /\ mission'[m] = dict /\ phase'[m] = next
        /\ \A n \in Mission \ {m} : /\ mission'[n] = mission[n] /\ row'[n] = row[n]
                                    /\ phase'[n] = phase[n]
    BY <1>3, <1>5, <2>1, TypesKept
  <2>3. row'[m] \in {row[m], dict}
    BY <1>5, <2>1 DEF Types
  <2>4. Sound(m, mission[m])' /\ Sound(m, row[m])' /\ Result(m)'
    BY <1>0, <1>1, <1>2, <1>5, <2>2, <2>3 DEF Told, Sound, Result, Ended, Completed, Failed, Verdict
  <2> QED BY <1>1, <1>4, <1>5, <2>2, <2>4, OneMission DEF Told
<1>6. CASE Conclude(m)
  <2>1. phase[m] = "closing"
    BY <1>6 DEF Conclude
  <2>2. PICK to \in {"running", "failed", "completed"} :
          to = IF thread[JobOf(m)] = "working" /\ mission[m].status = "running"
               THEN "completed" ELSE mission[m].status
    BY <1>0, <2>1 DEF Told, Place
  <2>3. PICK dict : dict = [mission[m] EXCEPT !.status = to]
    OBVIOUS
  <2>4. mission' = [mission EXCEPT ![m] = dict] /\ row' = row /\ phase' = [phase EXCEPT ![m] = "concluded"]
    BY <1>6, <2>2, <2>3 DEF Conclude, Becomes, Goes
  <2>5. /\ dict \in RowOf(m) /\ dict.status = to
        /\ dict.stop = mission[m].stop /\ dict.finished = mission[m].finished
        /\ Completed(dict) = Completed(mission[m]) /\ Failed(dict) = Failed(mission[m])
        /\ Ended(dict) = Ended(mission[m]) /\ dict.steps = mission[m].steps
    BY <1>0, <2>3, OneStatus DEF MissionStatus
  <2>6. Sound(m, dict)
    <3>1. to = "completed" => Ended(dict) = Steps(m)
      BY <1>0, <2>1, <2>2, <2>5 DEF Told, Place
    <3>2. to # "completed" => mission[m].status = to
      BY <2>2
    <3> QED BY <1>0, <2>5, <3>1, <3>2 DEF Told, Sound, Verdict
  <2>7. mission'[m] = dict /\ phase'[m] = "concluded" => Place(m)'
    BY <1>0, <1>1, <1>2, <2>1, <2>2, <2>5 DEF Told, Place, Worker
  <2> QED BY <1>5, <2>4, <2>5, <2>6, <2>7 DEF Phase
<1>7. CASE Finish(m)
  <2>1. phase[m] = "concluded"
    BY <1>7 DEF Finish
  <2>2. PICK dict : dict = [mission[m] EXCEPT !.finished = TRUE]
    OBVIOUS
  <2>3. mission' = [mission EXCEPT ![m] = dict] /\ row' = row /\ phase' = [phase EXCEPT ![m] = "finishing"]
    BY <1>7, <2>2 DEF Finish, Becomes, Goes
  <2>4. /\ dict \in RowOf(m) /\ dict.status = mission[m].status /\ dict.finished
        /\ dict.stop = mission[m].stop /\ dict.steps = mission[m].steps
    BY <1>0, <2>2 DEF RowOf
  <2>5. /\ Completed(dict) = Completed(mission[m]) /\ Failed(dict) = Failed(mission[m])
        /\ Ended(dict) = Ended(mission[m])
    BY <2>4, SameSteps
  <2>6. Sound(m, dict)
    BY <1>0, <2>4, <2>5 DEF Told, Sound, Verdict
  <2>7. mission'[m] = dict /\ phase'[m] = "finishing" => Place(m)'
    BY <1>0, <1>1, <1>2, <2>1, <2>4, <2>5 DEF Told, Place, Worker
  <2> QED BY <1>5, <2>3, <2>4, <2>6, <2>7 DEF Phase
<1>8. CASE SaveLast(m)
  <2>1. phase[m] = "finishing" /\ mission[m].finished
    BY <1>0, <1>8 DEF SaveLast, Told, Place
  <2>2. PICK to \in MissionStatus :
          to = IF mission[m].status = "completed" /\ Failed(mission[m]) # {}
               THEN "partial" ELSE mission[m].status
    BY <1>0 DEF RowOf, MissionStatus
  <2>3. PICK dict : dict = [mission[m] EXCEPT !.status = to]
    OBVIOUS
  <2>4. /\ mission' = [mission EXCEPT ![m] = dict] /\ row' = [row EXCEPT ![m] = mission'[m]]
        /\ phase' = [phase EXCEPT ![m] = "releasing"]
    BY <1>8, <2>2, <2>3 DEF SaveLast, Becomes, Saves, Goes
  <2>5. /\ dict \in RowOf(m) /\ dict.status = to
        /\ dict.stop = mission[m].stop /\ dict.finished = mission[m].finished
        /\ Completed(dict) = Completed(mission[m]) /\ Failed(dict) = Failed(mission[m])
        /\ Ended(dict) = Ended(mission[m])
    BY <1>0, <2>3, OneStatus
  <2>6. row' = [row EXCEPT ![m] = dict] /\ row'[m] = dict
    BY <1>0, <2>4 DEF Types
  <2>7. to = "partial" => (mission[m].status = "completed" /\ Verdict(dict) = "partial") \/ mission[m].status = "partial"
    BY <1>0, <2>1, <2>2, <2>5 DEF Told, Place, Verdict
  <2>8. to # "partial" => to = mission[m].status
    BY <2>2
  <2>9. Sound(m, dict)
    BY <1>0, <2>5, <2>7, <2>8 DEF Told, Sound, Verdict
  <2>10. thread[JobOf(m)] = "working" => LastWord(dict)
    <3>1. thread[JobOf(m)] = "working" => mission[m].status \in {"completed", "failed"}
      BY <1>0, <2>1 DEF Told, Place
    <3>2. mission[m].status = "completed" => to = Verdict(dict)
      BY <2>2, <2>5, <2>7 DEF Verdict
    <3>3. mission[m].status = "failed" => to = Verdict(dict)
      BY <2>2, <2>5, <2>9 DEF Sound
    <3> QED BY <2>1, <2>5, <3>1, <3>2, <3>3 DEF LastWord
  <2>11. mission'[m] = dict /\ phase'[m] = "releasing" => Place(m)'
    <3>1. LastWord(row[m])' <=> LastWord(dict)
      BY <2>6 DEF LastWord, Verdict, Failed
    <3> QED BY <1>0, <1>1, <1>2, <2>1, <2>6, <2>10, <3>1 DEF Told, Place, Worker
  <2> QED BY <1>5, <2>4, <2>5, <2>6, <2>9, <2>11 DEF Phase
<1> QED BY <1>6, <1>7, <1>8

\* Past the last save nothing changes the dict or the row.
LEMMA ClosedRunKeeps ==
  ASSUME Inv, NEW m \in Mission, Release(m) \/ CloseRaises(m) \/ Report(m) \/ Return(m)
  PROVE  Inv'
<1>0. /\ Types /\ Told(m) /\ mission[m] \in RowOf(m) /\ row[m] \in RowOf(m)
      /\ registry \subseteq Work /\ status \in [Work -> J!Status] /\ thread \in [Work -> J!Position]
      /\ current \in Mission \cup {NoMission} /\ naming \subseteq Mission /\ phase \in [Mission -> Phase]
  BY RunKnows
<1>1. /\ status' = status /\ registry' = registry /\ row' = row /\ mission' = mission /\ naming' = naming
      /\ current' \in {current, NoMission}
      /\ phase' = [phase EXCEPT ![m] = phase'[m]] /\ thread' = [thread EXCEPT ![JobOf(m)] = thread'[JobOf(m)]]
  BY <1>0, WorkOf DEF Release, CloseRaises, Report, Return, J!Checkpoint, J!Return, J!Leave, Goes, jobs
<1>2. /\ phase[m] \in {"releasing", "reporting"}
      /\ \/ phase'[m] = "reporting" /\ thread[JobOf(m)] # "CANCELLED" /\ thread'[JobOf(m)] = thread[JobOf(m)]
         \/ phase'[m] = "over" /\ thread[JobOf(m)] = "CANCELLED" /\ thread'[JobOf(m)] = thread[JobOf(m)]
         \/ phase'[m] = "raised" /\ thread'[JobOf(m)] = "FAILED"
         \/ phase'[m] = "over" /\ thread'[JobOf(m)] = "CANCELLED"
         \/ phase'[m] = "over" /\ thread'[JobOf(m)] = "DONE" /\ thread[JobOf(m)] = "working"
  BY <1>0, WorkOf DEF Release, CloseRaises, Report, Return, Running, J!Checkpoint, J!Return, J!Leave, Goes, jobs
<1>3. /\ row[m] = mission[m] /\ (thread[JobOf(m)] = "working" => LastWord(row[m]))
      /\ thread[JobOf(m)] \in {"working", "CANCELLED"} /\ status[JobOf(m)] # "DONE"
  BY <1>0, <1>2, RunKnows DEF Told, Place, Worker
<1>4. thread'[JobOf(m)] \in {"working", "CANCELLED", "FAILED", "DONE"} /\ phase'[m] \in {"reporting", "over", "raised"}
  BY <1>2, <1>3
<1>5. Types' /\ \A n \in Mission \ {m} : phase'[n] = phase[n]
  <2>1. thread' \in [Work -> J!Position] /\ phase'[m] \in Phase
    BY <1>0, <1>1, <1>4, WorkOf DEF Phase, J!Position, J!Outcome
  <2>2. PICK next \in Phase : phase' = [phase EXCEPT ![m] = next]
    BY <1>1, <2>1
  <2>3. row' \in {row, [row EXCEPT ![m] = mission[m]]} /\ mission' = mission
    BY <1>1
  <2>4. /\ registry' \subseteq Work /\ status' \in [Work -> J!Status]
        /\ current' \in Mission \cup {NoMission} /\ naming' \subseteq Mission
    BY <1>0, <1>1
  <2> QED BY <1>0, <2>1, <2>2, <2>3, <2>4, TypesKept
<1>6. DoneIsFinal'
  <2>1. ASSUME NEW w \in Work, status[w] = "DONE"
        PROVE  thread'[w] = thread[w]
    BY <1>0, <1>1, <1>3, <2>1
  <2> QED BY <1>1, <2>1 DEF DoneIsFinal, Inv
<1>7. Place(m)'
  BY <1>0, <1>1, <1>2, <1>3 DEF Told, Place, Worker, LastWord, Verdict, Failed
<1>8. Sound(m, mission[m])' /\ Sound(m, row[m])' /\ Result(m)'
  <2>1. Sound(m, mission[m])' /\ Sound(m, row[m])'
    BY <1>0, <1>1 DEF Told, Sound, Ended, Completed, Failed, Verdict
  <2>2. thread'[JobOf(m)] = "DONE" => LastWord(row[m])
    BY <1>2, <1>3
  <2>3. Result(m)'
    BY <1>1, <1>3, <2>2 DEF Result, LastWord, Verdict, Failed
  <2> QED BY <2>1, <2>3
<1>9. \A n \in Mission \ {m} : thread'[JobOf(n)] = thread[JobOf(n)]
  BY <1>0, <1>1, JobIsOwn, WorkOf
<1> QED BY <1>1, <1>5, <1>6, <1>7, <1>8, <1>9, OneMission DEF Told

LEMMA SubmitChildKeeps ==
  ASSUME Inv, NEW m \in Mission, SubmitChild(m)
  PROVE  Inv'
<1>0. /\ Types /\ Told(m) /\ mission[m] \in RowOf(m) /\ row[m] \in RowOf(m)
      /\ registry \subseteq Work /\ status \in [Work -> J!Status] /\ thread \in [Work -> J!Position]
      /\ current \in Mission \cup {NoMission} /\ naming \subseteq Mission
  BY RunKnows
<1>1. phase[m] = "step" /\ thread[JobOf(m)] = "working" /\ Plan[m][Step(m)] = "job"
  BY DEF SubmitChild, Running
<1>2. PICK i \in Steps(m) : Front(m, i)
  BY <1>0, <1>1 DEF Told, Place
<1>3. Step(m) = i
  BY <1>0, <1>2, StepIsFront
<1>4. PICK c : c = Child(m, i)
  OBVIOUS
<1>5. c \in Children /\ c \in Work
  BY <1>1, <1>3, <1>4, WorkOf
<1>6. /\ thread[c] = "none" /\ status' = [status EXCEPT ![c] = "QUEUED"]
      /\ thread' = [thread EXCEPT ![c] = "starting"]
      /\ registry' \subseteq registry \cup {c}
      /\ phase' = [phase EXCEPT ![m] = "waiting"]
      /\ row' = row /\ mission' = mission /\ current' = current /\ naming' = naming
  BY <1>3, <1>4 DEF SubmitChild, J!Submit, Goes
<1>7. status[c] # "DONE"
  BY <1>5, <1>6 DEF DoneIsFinal, Inv
<1>8. /\ Types'
      /\ phase'[m] = "waiting" /\ \A n \in Mission \ {m} : phase'[n] = phase[n]
  <2>1. /\ registry' \subseteq Work /\ status' \in [Work -> J!Status] /\ thread' \in [Work -> J!Position]
        /\ current' \in Mission \cup {NoMission} /\ naming' \subseteq Mission /\ "waiting" \in Phase
    BY <1>0, <1>5, <1>6 DEF Phase, J!Status, J!Position
  <2>2. row' \in {row, [row EXCEPT ![m] = mission[m]]} /\ mission' = mission
    BY <1>6
  <2> QED BY <1>0, <1>6, <2>1, <2>2, TypesKept
<1>9. DoneIsFinal'
  BY <1>0, <1>5, <1>6, <1>7 DEF DoneIsFinal, Inv
<1>10. /\ \A n \in Mission : thread'[JobOf(n)] = thread[JobOf(n)] /\ status'[JobOf(n)] = status[JobOf(n)]
       /\ \A n \in Mission : \A k \in Steps(n) : Plan[n][k] = "job" /\ status[Child(n, k)] = "DONE" => status'[Child(n, k)] = "DONE"
  BY <1>0, <1>5, <1>6, <1>7, JobIsOwn, WorkOf
<1>11. Front(m, i)'
  BY <1>1, <1>2, <1>6, <1>8 DEF Front, Ended, Completed, Failed
<1>12. Place(m)'
  BY <1>0, <1>1, <1>6, <1>8, <1>10, <1>11 DEF Told, Place, Worker
<1>13. Sound(m, mission[m])' /\ Sound(m, row[m])' /\ Result(m)'
  <2>1. Completed(mission[m]) \subseteq Steps(m) /\ Completed(row[m]) \subseteq Steps(m)
    BY <1>0, SetsOf
  <2>2. Sound(m, mission[m])' /\ Sound(m, row[m])'
    BY <1>0, <1>6, <1>10, <2>1 DEF Told, Sound, Ended, Completed, Failed, Verdict
  <2>3. Result(m)'
    BY <1>0, <1>6, <1>10 DEF Told, Result, LastWord, Verdict, Failed
  <2> QED BY <2>2, <2>3
<1> QED BY <1>6, <1>8, <1>9, <1>10, <1>12, <1>13, OneMission DEF Told

LEMMA RunStep ==
  ASSUME Inv, NEW m \in Mission, Run(m)
  PROVE  Inv'
<1>1. CASE StartStep(m)
  BY <1>1, StartStepKeeps
<1>2. CASE Act(m)
  BY <1>2, StepEndsKeeps DEF Act, Running
<1>3. CASE StepFails(m) \/ AwaitFails(m)
  BY <1>3, StepEndsKeeps DEF StepFails, AwaitFails, Running
<1>4. CASE Await(m)
  BY <1>4, StepEndsKeeps DEF Await, Running
<1>5. CASE SubmitChild(m)
  BY <1>5, SubmitChildKeeps
<1>6. CASE SaveStep(m)
  BY <1>6, SaveStepKeeps
<1>7. CASE Conclude(m) \/ Finish(m) \/ SaveLast(m)
  BY <1>7, CloseKeeps
<1>8. CASE Release(m) \/ CloseRaises(m) \/ Report(m) \/ Return(m)
  BY <1>8, ClosedRunKeeps
<1> QED BY <1>1, <1>2, <1>3, <1>4, <1>5, <1>6, <1>7, <1>8 DEF Run

-----------------------------------------------------------------------------
\* The registry's steps: no mission's dict, row or phase moves, and what the
\* worker of a mission's job records is what the closed run left with it.
LEMMA RegistryStep ==
  ASSUME Inv, NEW w \in Work, RegistryWorks(w)
  PROVE  Inv'
<1> USE DEF Inv, Types, TypeOK
<1>1. row' = row /\ mission' = mission /\ phase' = phase /\ current' = current /\ naming' = naming /\ registry' = registry
  BY DEF RegistryWorks, missions, J!Begin, J!Checkpoint, J!Return, J!Raise, J!Leave, J!Record
<1>2. /\ status' = [status EXCEPT ![w] = status'[w]] /\ thread' = [thread EXCEPT ![w] = thread'[w]]
      /\ \/ thread[w] = "starting" /\ thread'[w] = "working" /\ status'[w] = "RUNNING"
         \/ /\ w \in Children /\ thread[w] = "working" /\ status'[w] = status[w]
            /\ thread'[w] \in {"working", "DONE", "FAILED", "CANCELLED"}
         \/ /\ w \in Children \/ phase[w[1]] \in {"over", "raised"}
            /\ thread[w] \in {"DONE", "FAILED", "CANCELLED"}
            /\ thread'[w] = "announcing" /\ status'[w] = thread[w]
  BY DEF RegistryWorks, J!Begin, J!Checkpoint, J!Return, J!Raise, J!Leave, J!Record, J!Outcome
<1>3. Types'
  BY <1>1, <1>2 DEF J!Status, J!Position, J!Outcome
<1>4. status[w] # "DONE"
  BY <1>2 DEF DoneIsFinal
<1>5. DoneIsFinal'
  BY <1>2, <1>4 DEF DoneIsFinal
<1>6. \A n \in Mission : \A i \in Steps(n) : Plan[n][i] = "job" /\ status[Child(n, i)] = "DONE" => status'[Child(n, i)] = "DONE"
  <2>1. ASSUME NEW n \in Mission, NEW i \in Steps(n), Plan[n][i] = "job"
        PROVE  Child(n, i) \in Work
    BY <2>1, WorkOf
  <2> QED BY <1>2, <1>4, <2>1
<1>7. ASSUME NEW m \in Mission
      PROVE  Told(m)'
  <2>1. CASE w = JobOf(m)
    <3>1. w \notin Children /\ w[1] = m
      BY <2>1, JobIsOwn DEF JobOf
    <3>2. thread'[w] # "DONE" /\ (status'[w] = "DONE" => thread[w] = "DONE")
      BY <1>2, <3>1
    <3>3. Result(m)'
      BY <1>1, <2>1, <3>2 DEF Told, Result, LastWord, Verdict, Failed
    <3>4. Sound(m, mission[m])' /\ Sound(m, row[m])'
      <4>1. Completed(mission[m]) \subseteq Steps(m) /\ Completed(row[m]) \subseteq Steps(m)
        BY SetsOf
      <4> QED BY <1>1, <1>6, <4>1 DEF Told, Sound, Ended, Completed, Failed, Verdict
    <3>5. /\ thread'[w] \in Worker(m)'
          /\ phase[m] \notin {"closing", "concluded", "finishing", "releasing", "reporting", "ended"}
      BY <1>1, <1>2, <2>1, <3>1 DEF Told, Place, Worker
    <3>6. Place(m)'
      BY <1>1, <2>1, <3>5 DEF Told, Place, Front, Behind, Ended, Completed, Failed
    <3> QED BY <3>3, <3>4, <3>6 DEF Told
  <2>2. CASE w # JobOf(m)
    <3>1. thread'[JobOf(m)] = thread[JobOf(m)] /\ status'[JobOf(m)] = status[JobOf(m)]
      BY <1>2, <2>2, WorkOf
    <3> QED BY <1>1, <1>6, <3>1, Frame
  <2> QED BY <2>1, <2>2
<1> QED BY <1>3, <1>5, <1>7

LEMMA CrashStep == Inv /\ Crash => Inv'
<1> SUFFICES ASSUME Inv, Crash
             PROVE  Inv'
  OBVIOUS
<1> USE DEF Inv
<1>1. /\ row' = row /\ status' = status /\ registry' = {} /\ current' = NoMission /\ naming' = {}
      /\ phase' = [m \in Mission |-> IF phase[m] = "none" THEN "none" ELSE "over"]
      /\ thread' = [j \in Work |-> IF thread[j] = "none" THEN "none" ELSE "over"]
      /\ mission' = [m \in Mission |-> NoRow(m)]
  BY DEF Crash, J!Crash
<1>2. \A m \in Mission : NoRow(m) \in RowOf(m)
  BY DEF RowOf, NoRow, Pending, MissionStatus, StepStatus
<1>3. Types'
  <2>1. ASSUME NEW m \in Mission
        PROVE  /\ mission'[m] \in RowOf(m) /\ row'[m] \in RowOf(m)
               /\ \A r \in RowOf(m) : r.status \in MissionStatus /\ r.steps \in [Steps(m) -> {"pending", "running", "completed", "failed"}]
    BY <1>1, <1>2 DEF Types, RowOf, StepStatus
  <2>2. thread' \in [Work -> J!Position] /\ phase' \in [Mission -> Phase]
    BY <1>1 DEF Types, TypeOK, J!Position, Phase
  <2> QED BY <1>1, <2>1, <2>2 DEF Types, TypeOK
<1>4. DoneIsFinal'
  BY <1>1 DEF DoneIsFinal
<1>5. ASSUME NEW m \in Mission
      PROVE  Told(m)'
  <2>1. /\ mission'[m] = NoRow(m) /\ Completed(NoRow(m)) = {} /\ NoRow(m).status = "none"
        /\ phase'[m] = IF phase[m] = "none" THEN "none" ELSE "over"
    BY <1>1 DEF NoRow, Pending, Completed
  <2>2. Place(m)'
    BY <1>1, <2>1, WorkOf DEF Told, Place, Worker
  <2>3. Sound(m, mission[m])'
    BY <2>1 DEF Sound
  <2>4. Sound(m, row[m])'
    BY <1>1 DEF Told, Sound, Ended, Completed, Failed, Verdict
  <2>5. Result(m)'
    BY <1>1, WorkOf DEF Told, Result, LastWord, Verdict, Failed
  <2> QED BY <2>2, <2>3, <2>4, <2>5 DEF Told
<1> QED BY <1>3, <1>4, <1>5

LEMMA NextInv == Inv /\ [Next]_vars => Inv'
<1> SUFFICES ASSUME Inv, [Next]_vars
             PROVE  Inv'
  OBVIOUS
<1>1. ASSUME /\ row' = row /\ mission' = mission /\ phase' = phase /\ thread' = thread
             /\ status' = status /\ registry' = registry /\ current' = current /\ naming' = naming
      PROVE  Inv'
  <2>1. Types' /\ DoneIsFinal'
    BY <1>1 DEF Inv, Types, TypeOK, DoneIsFinal
  <2> QED BY <1>1, <2>1, Frame DEF Inv, Types
<1>2. ASSUME NEW m \in Mission, Claim(m) \/ Refuse(m) \/ Launch(m) \/ Run(m)
      PROVE  Inv'
  BY <1>1, <1>2, LaunchStep, RunStep DEF Refuse, vars, missions, jobs
<1>3. ASSUME NEW w \in Work, RegistryWorks(w)
      PROVE  Inv'
  BY <1>3, RegistryStep
<1>4. CASE Cancel
  BY <1>1, <1>4 DEF Cancel, J!Cancel, missions
<1>5. CASE Crash
  BY <1>5, CrashStep
<1>6. CASE Rest \/ UNCHANGED vars
  BY <1>1, <1>6 DEF Rest, vars, missions, jobs
<1> QED BY <1>2, <1>3, <1>4, <1>5, <1>6 DEF Next

THEOREM InvariantHolds == Spec => []Inv
BY InitInv, NextInv, PTL DEF Spec

\* Type correctness of the missions and of the registry they run on.
THEOREM TypeCorrect == Spec => []TypeOK
<1>1. Inv => TypeOK
  BY DEF Inv, Types
<1> QED BY <1>1, InvariantHolds, PTL

\* The row of a mission agrees with its steps, its job and its steps' jobs,
\* whichever thread saved it last.
THEOREM RecordsTell == Spec => []RecordTells
<1>1. Inv => RecordTells
  <2> SUFFICES ASSUME Inv, NEW m \in Mission
               PROVE  row[m].status = "failed" => Cardinality(Failed(row[m])) = 1
    BY DEF RecordTells, Inv, Told, Result, Sound, LastWord
  <2>1. ASSUME NEW i \in Steps(m), Failed(row[m]) = {i}
        PROVE  Cardinality(Failed(row[m])) = 1
    BY <2>1, FS_Singleton
  <2> QED BY <2>1 DEF Inv, Told, Sound
<1> QED BY <1>1, InvariantHolds, PTL
=============================================================================
