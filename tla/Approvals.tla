----------------------------- MODULE Approvals ------------------------------
(* The permission policy an agent's calls are judged by, the queue that    *)
(* holds what needs a person, and the person's decision.                   *)
(* Source: modes/permissions.py, modes/store.py, hedgefund/approvals.py,   *)
(* Actions.call and _hold in api/actions.py.                               *)
(*                                                                         *)
(* Deciding is serialised by the queue's lock; reading the queue is not,   *)
(* and reading it expires requests.  The queue, the modes and the audit    *)
(* log are files; a crash loses the threads.                               *)
EXTENDS Naturals, FiniteSets

CONSTANTS
  Action,       \* the actions an agent may name
  Facts,        \* ActionFacts of each
  Plain,        \* the modes without a stance
  MaxRequests,  \* bound: requests held
  Viewer,       \* threads that list the queue
  MaxCut        \* bound: runs of one request whose answer is lost

Request == 1..MaxRequests
Risk == {"safe", "confirm", "high"}
List == {"preparatory", "automation", "consequential", "none"}

ASSUME ApprovalsAssumption ==
  /\ Facts \in [Action -> [mutating : BOOLEAN, risk : Risk, protected : BOOLEAN, list : List]]
  /\ Plain \cap {"none", "ai"} = {}
  /\ MaxRequests \in Nat /\ MaxCut \in Nat

VARIABLES
  mode, stance,  \* the open mode ("none" at home) and the stance stored for AI mode
  asked,         \* history: the person named the autonomous stance for the open mode
  cleared,       \* agent calls that were allowed and have not run yet
  row,           \* the stored requests
  late,          \* requests past expires_at
  deciding,      \* the decision that holds the lock
  stale,         \* stale[v]: what the list of v found pending and late, still to write
  runs,          \* how often the action of a request was run
  cut,           \* how many of those runs were never written to the request
  audit          \* audit[r]: outcomes of the audit rows of the runs of r

session == <<mode, stance, asked>>
queue == <<row, late, deciding, stale, runs, cut, audit>>
vars == <<session, cleared, queue>>

Status == {"pending", "approved", "rejected", "expired", "failed"}
Row == [status : Status, action : Action]
NoRow == [status |-> "none", action |-> "none"]
Free == [request |-> 0, step |-> "free", outcome |-> "none"]
Decision == [request : Request, step : {"run", "audit", "write"},
             outcome : {"none", "ok", "error", "rejected"}]

Init ==
  /\ mode = "none" /\ stance = "human_in_the_loop" /\ asked = FALSE
  /\ cleared = {}
  /\ row = [r \in Request |-> NoRow]
  /\ late = {}
  /\ deciding = Free
  /\ stale = [v \in Viewer |-> {}]
  /\ runs = [r \in Request |-> 0] /\ cut = [r \in Request |-> 0]
  /\ audit = [r \in Request |-> {}]

-----------------------------------------------------------------------------
\* Mutant: a stance that is not named is the one the mode had.
EnterRemembers(m, s) ==
  /\ mode' = m
  /\ IF m = "ai" /\ s # "unnamed" THEN stance' = s ELSE UNCHANGED stance
  /\ asked' = (m = "ai" /\ s = "autonomous")
  /\ UNCHANGED <<cleared, queue>>

(* ModeStore.enter: a stance that is not named is the cautious one. *)
Enter(m, s) ==
  /\ m = "ai" \/ s = "unnamed"
  /\ mode' = m
  /\ stance' = IF m # "ai" THEN stance
               ELSE IF s = "unnamed" THEN "human_in_the_loop" ELSE s
  /\ asked' = (m = "ai" /\ s = "autonomous")
  /\ UNCHANGED <<cleared, queue>>

Leave ==
  /\ mode' = "none" /\ asked' = FALSE
  /\ UNCHANGED <<stance, cleared, queue>>

SetStance(s) ==
  /\ mode = "ai"
  /\ stance' = s
  /\ asked' = (s = "autonomous")
  /\ UNCHANGED <<mode, cleared, queue>>

(* Actions.context: with no mode open, AI mode and no stance. *)
ContextMode == IF mode = "none" THEN "ai" ELSE mode
ContextStance == IF mode = "ai" THEN stance ELSE "none"

Granted(list) ==
  \/ list = "preparatory"
  \/ list = "automation" /\ ContextMode = "ai"
  \/ list = "consequential" /\ ContextMode = "ai" /\ ContextStance = "autonomous"

(* evaluate, for an agent: the first rule that matches. *)
Ruling(a) ==
  IF Facts[a].protected \/ Facts[a].risk = "high" THEN "deny"
  ELSE IF ~Facts[a].mutating THEN "allow"
  ELSE IF Facts[a].risk # "confirm" /\ Granted(Facts[a].list) THEN "allow"
  ELSE "hold"

(* An allowed call still needs the operator's confirmation above SAFE. *)
AgentAllowed(a) ==
  /\ Ruling(a) = "allow" /\ Facts[a].risk = "safe"
  /\ cleared' = cleared \cup {a}
  /\ UNCHANGED <<session, queue>>

AgentRuns(a) ==
  /\ a \in cleared
  /\ cleared' = cleared \ {a}
  /\ UNCHANGED <<session, queue>>

(* Actions._hold. Its audit row, and those of calls nobody held, are       *)
(* left out.                                                               *)
AgentHeld(a) ==
  /\ Ruling(a) = "hold"
  /\ \E r \in Request :
       /\ \A q \in Request : row[q] = NoRow <=> q >= r
       /\ row' = [row EXCEPT ![r] = [status |-> "pending", action |-> a]]
  /\ UNCHANGED <<session, cleared, late, deciding, stale, runs, cut, audit>>

Elapse(r) ==
  /\ row[r].status = "pending" /\ r \notin late
  /\ late' = late \cup {r}
  /\ UNCHANGED <<session, cleared, row, deciding, stale, runs, cut, audit>>

-----------------------------------------------------------------------------
(* approve, reject: a lock, the stored request, a check, and for approve   *)
(* the action run as the operator.                                         *)
\* Mutant: the status is not looked at under the lock.
ApproveAnything(r) ==
  /\ deciding = Free
  /\ row[r] # NoRow /\ r \notin late
  /\ deciding' = [request |-> r, step |-> "run", outcome |-> "none"]
  /\ UNCHANGED <<session, cleared, row, late, stale, runs, cut, audit>>

Approve(r) ==
  /\ deciding = Free
  /\ row[r].status = "pending" /\ r \notin late
  /\ deciding' = [request |-> r, step |-> "run", outcome |-> "none"]
  /\ UNCHANGED <<session, cleared, row, late, stale, runs, cut, audit>>

ApproveLate(r) ==
  /\ deciding = Free
  /\ row[r].status = "pending" /\ r \in late
  /\ row' = [row EXCEPT ![r].status = "expired"]
  /\ UNCHANGED <<session, cleared, late, deciding, stale, runs, cut, audit>>

Reject(r) ==
  /\ deciding = Free
  /\ row[r].status = "pending"
  /\ deciding' = [request |-> r, step |-> "write", outcome |-> "rejected"]
  /\ UNCHANGED <<session, cleared, row, late, stale, runs, cut, audit>>

Run(outcome) ==
  /\ deciding.step = "run"
  /\ runs' = [runs EXCEPT ![deciding.request] = @ + 1]
  /\ deciding' = [deciding EXCEPT !.step = "audit", !.outcome = outcome]
  /\ UNCHANGED <<session, cleared, row, late, stale, cut, audit>>

\* Mutant: the refusal is audited before it has an outcome.
RefuseArgumentsAudited ==
  /\ deciding.step = "run"
  /\ deciding' = [deciding EXCEPT !.step = "audit"]
  /\ UNCHANGED <<session, cleared, row, late, stale, runs, cut, audit>>

(* Arguments the action does not take: refused before it runs, unaudited. *)
RefuseArguments ==
  /\ deciding.step = "run"
  /\ deciding' = [deciding EXCEPT !.step = "write", !.outcome = "error"]
  /\ UNCHANGED <<session, cleared, row, late, stale, runs, cut, audit>>

\* Mutant: the answer is written whether or not the audit row is.
AuditFailsQuietly ==
  /\ deciding.step = "audit"
  /\ deciding' = [deciding EXCEPT !.step = "write"]
  /\ UNCHANGED <<session, cleared, row, late, stale, runs, cut, audit>>

Audit ==
  /\ deciding.step = "audit"
  /\ audit' = [audit EXCEPT ![deciding.request] = @ \cup {deciding.outcome}]
  /\ deciding' = [deciding EXCEPT !.step = "write"]
  /\ UNCHANGED <<session, cleared, row, late, stale, runs, cut>>

(* record raises inside run: the approval is FAILED. *)
AuditFails ==
  /\ deciding.step = "audit"
  /\ deciding' = [deciding EXCEPT !.step = "write", !.outcome = "error"]
  /\ UNCHANGED <<session, cleared, row, late, stale, runs, cut, audit>>

Written ==
  CASE deciding.outcome = "ok" -> "approved"
    [] deciding.outcome = "rejected" -> "rejected"
    [] OTHER -> "failed"

\* Mutant: a request whose action failed stays pending, to be tried again.
WriteRetries ==
  /\ deciding.step = "write"
  /\ row' = IF deciding.outcome = "error" THEN row
            ELSE [row EXCEPT ![deciding.request].status = Written]
  /\ deciding' = Free
  /\ UNCHANGED <<session, cleared, late, stale, runs, cut, audit>>

\* Mutant: the write waits until no list has rows left to expire.
WriteBehindLists ==
  /\ deciding.step = "write"
  /\ \A v \in Viewer : stale[v] = {}
  /\ row' = [row EXCEPT ![deciding.request].status = Written]
  /\ deciding' = Free
  /\ UNCHANGED <<session, cleared, late, stale, runs, cut, audit>>

(* The whole row as it was claimed, whatever is stored by now. *)
Write ==
  /\ deciding.step = "write"
  /\ row' = [row EXCEPT ![deciding.request].status = Written]
  /\ deciding' = Free
  /\ UNCHANGED <<session, cleared, late, stale, runs, cut, audit>>

MayLoseAnswer == \A r \in Request : deciding.request = r => runs[r] <= MaxCut
AnswerLost == [r \in Request |-> IF deciding.request = r THEN runs[r] ELSE cut[r]]

(* The row cannot be written (a locked database): the lock is released. *)
WriteFails ==
  /\ deciding.step = "write" /\ MayLoseAnswer
  /\ deciding' = Free
  /\ cut' = AnswerLost
  /\ UNCHANGED <<session, cleared, row, late, stale, runs, audit>>

-----------------------------------------------------------------------------
(* pending(): one query, then a write per request found late.              *)
Look(v) ==
  /\ stale[v] = {}
  /\ stale' = [stale EXCEPT ![v] = {r \in late : row[r].status = "pending"}]
  /\ UNCHANGED <<session, cleared, row, late, deciding, runs, cut, audit>>

Expire(v) ==
  \E r \in stale[v] :
    /\ \A q \in stale[v] : r <= q
    /\ row' = [row EXCEPT ![r].status = "expired"]
    /\ stale' = [stale EXCEPT ![v] = @ \ {r}]
    /\ UNCHANGED <<session, cleared, late, deciding, runs, cut, audit>>

Crash ==
  /\ MayLoseAnswer
  /\ cut' = AnswerLost
  /\ deciding' = Free
  /\ cleared' = {} /\ stale' = [v \in Viewer |-> {}]
  /\ UNCHANGED <<session, row, late, runs, audit>>

-----------------------------------------------------------------------------
Decides ==
  \/ \E outcome \in {"ok", "error"} : Run(outcome)
  \/ RefuseArguments \/ Audit \/ AuditFails \/ Write \/ WriteFails
Agent(a) == AgentAllowed(a) \/ AgentRuns(a) \/ AgentHeld(a)
Person ==
  \/ \E m \in Plain \cup {"ai"},
        s \in {"human_in_the_loop", "autonomous", "unnamed"} : Enter(m, s)
  \/ Leave
  \/ \E s \in {"human_in_the_loop", "autonomous"} : SetStance(s)
  \/ \E r \in Request : Approve(r) \/ ApproveLate(r) \/ Reject(r)

Next ==
  \/ \E a \in Action : Agent(a)
  \/ \E r \in Request : Elapse(r)
  \/ Person
  \/ Decides
  \/ \E v \in Viewer : Look(v) \/ Expire(v)
  \/ Crash

(* A decision that holds the lock goes on; a person may never decide. *)
Spec == Init /\ [][Next]_vars /\ WF_vars(Decides)

-----------------------------------------------------------------------------
TypeOK ==
  /\ mode \in Plain \cup {"none", "ai"}
  /\ stance \in {"human_in_the_loop", "autonomous"}
  /\ asked \in BOOLEAN
  /\ cleared \subseteq Action
  /\ row \in [Request -> Row \cup {NoRow}]
  /\ late \subseteq Request
  /\ deciding \in Decision \cup {Free}
  /\ stale \in [Viewer -> SUBSET Request]
  /\ runs \in [Request -> Nat] /\ cut \in [Request -> Nat]
  /\ audit \in [Request -> SUBSET {"ok", "error"}]

(* "An approval runs once": a request is run again only after a run whose  *)
(* answer was lost with the process or could not be written.               *)
RunsOnce == \A r \in Request : runs[r] <= cut[r] + 1

(* A status tells of every run whose answer was not lost, whoever lists    *)
(* the queue meanwhile: there is none behind a rejected request, or behind *)
(* a pending one that nobody is deciding, and one behind an approved one,  *)
(* with an audit row that says so. A rejection may stand over a run whose  *)
(* answer was lost with the process or could not be written.               *)
DecisionTells ==
  \A r \in Request :
    /\ row[r].status = "rejected" => runs[r] = cut[r]
    /\ row[r].status = "pending" /\ deciding.request # r => runs[r] = cut[r]
    /\ row[r].status = "approved" => runs[r] = cut[r] + 1 /\ "ok" \in audit[r]

(* An agent's call is cleared without a person only when it is neither     *)
(* protected nor destructive, and reaches the book only under a stance     *)
(* the person named for this entry of the mode.                            *)
NeedsAPerson ==
  [][\A a \in cleared' \ cleared :
       /\ ~Facts[a].protected
       /\ Facts[a].mutating => Facts[a].risk = "safe"
       /\ Facts[a].list = "consequential" /\ Facts[a].mutating => asked]_vars

(* No decision keeps the lock: the next one can be made. *)
LockIsReleased == deciding # Free ~> deciding = Free

(* An expired request was not run: "rejected rather than silently run      *)
(* late". Listing the queue while a decision runs breaks it.               *)
ExpiredNeverRan ==
  \A r \in Request :
    row[r].status = "expired" /\ deciding.request # r => runs[r] = cut[r]

(* The queue implements Consent: a request is open while it is pending, or *)
(* claimed, and has not been run.                                          *)
Open(r) ==
  /\ row[r].status = "pending" \/ (deciding.request = r /\ deciding.step = "run")
  /\ runs[r] = cut[r]

AbstractHeld ==
  [r \in Request |-> IF row[r] = NoRow THEN "unasked"
                     ELSE IF Open(r) THEN "open" ELSE "closed"]

Abstract == INSTANCE Consent WITH held <- AbstractHeld
ImplementsConsent == Abstract!Spec
=============================================================================
