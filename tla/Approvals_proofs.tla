-------------------------- MODULE Approvals_proofs --------------------------
(***************************************************************************)
(* Proofs about Approvals, for any actions, modes, requests, viewers and   *)
(* bounds: a request runs once unless an answer was lost, a decision tells *)
(* what was done, the queue implements Consent, and what an agent does     *)
(* without a person a person has named.                                    *)
(*                                                                         *)
(* Listing the queue may write EXPIRED over any status at any time, so the *)
(* invariant says of each step of the decision what the lock still knows:  *)
(* how often the action ran since an answer was last lost.                 *)
(***************************************************************************)
EXTENDS Approvals, TLAPS

\* Of each request, at most one run is not accounted for.
Counted == \A r \in Request : cut[r] <= runs[r] /\ runs[r] <= cut[r] + 1

\* A request that is pending, and that no decision holds, has not been run.
Untouched ==
  \A r \in Request :
    row[r].status \in {"none", "pending"} /\ deciding.request # r => runs[r] = cut[r]

\* What the decision that holds the lock knows of its request.
Holds ==
  \A r \in Request : deciding.request = r =>
    /\ row[r].status \in {"pending", "expired"}
    /\ deciding.step = "run" => runs[r] = cut[r]
    /\ deciding.step = "audit" => runs[r] = cut[r] + 1 /\ deciding.outcome \in {"ok", "error"}
    /\ deciding.step = "write" =>
         /\ deciding.outcome = "ok" => runs[r] = cut[r] + 1 /\ "ok" \in audit[r]
         /\ deciding.outcome = "rejected" => runs[r] = cut[r]
         /\ deciding.outcome # "none"

\* A list of the queue holds stored requests.
Listed == \A v \in Viewer : \A r \in stale[v] : row[r] # NoRow

\* In AI mode the autonomous stance is one the person named.
Asked == mode = "ai" /\ stance = "autonomous" => asked

IInv == TypeOK /\ Counted /\ Untouched /\ Holds /\ Listed /\ DecisionTells

-----------------------------------------------------------------------------
\* The request a decision is about.
LEMMA DecidesOne ==
  ASSUME TypeOK, deciding # Free
  PROVE  /\ deciding \in Decision /\ deciding.request \in Request
         /\ deciding.step \in {"run", "audit", "write"}
         /\ deciding.outcome \in {"none", "ok", "error", "rejected"}
BY DEF TypeOK, Decision

LEMMA NobodyDecides == Free.request \notin Request /\ Free.step = "free"
BY DEF Free, Request

\* The record of a decision with another step and outcome.
LEMMA Moves ==
  ASSUME TypeOK, deciding # Free,
         NEW step \in {"run", "audit", "write"},
         NEW outcome \in {"none", "ok", "error", "rejected"},
         deciding' = [deciding EXCEPT !.step = step, !.outcome = outcome]
  PROVE  /\ deciding' \in Decision
         /\ deciding'.request = deciding.request
         /\ deciding'.step = step /\ deciding'.outcome = outcome
BY DEF TypeOK, Decision

LEMMA InitIInv == Init => IInv
<1> SUFFICES ASSUME Init
             PROVE  IInv
  OBVIOUS
<1>1. TypeOK
  BY DEF Init, TypeOK
<1>2. Counted /\ Untouched /\ Listed /\ DecisionTells
  BY DEF Init, Counted, Untouched, Listed, DecisionTells, NoRow
<1>3. Holds
  BY NobodyDecides DEF Init, Holds
<1>4. QED
  BY <1>1, <1>2, <1>3 DEF IInv

-----------------------------------------------------------------------------
\* What a person does with the modes, and an agent with what it may do,
\* leaves the queue alone.
LEMMA ModesKeep ==
  ASSUME IInv,
         \/ \E m \in Plain \cup {"ai"}, s \in {"human_in_the_loop", "autonomous", "unnamed"} : Enter(m, s)
         \/ Leave
         \/ \E s \in {"human_in_the_loop", "autonomous"} : SetStance(s)
         \/ \E a \in Action : AgentAllowed(a) \/ AgentRuns(a)
         \/ UNCHANGED vars
  PROVE  IInv'
<1> USE DEF IInv
<1>1. UNCHANGED queue
  BY DEF Enter, Leave, SetStance, AgentAllowed, AgentRuns, vars
<1>2. /\ mode' \in Plain \cup {"none", "ai"}
      /\ stance' \in {"human_in_the_loop", "autonomous"}
      /\ asked' \in BOOLEAN /\ cleared' \subseteq Action
  BY DEF TypeOK, Enter, Leave, SetStance, AgentAllowed, AgentRuns, session, vars
<1>3. TypeOK'
  BY <1>1, <1>2 DEF TypeOK, queue
<1>4. Counted' /\ Untouched' /\ Holds' /\ Listed' /\ DecisionTells'
  BY <1>1 DEF queue, Counted, Untouched, Holds, Listed, DecisionTells
<1>5. QED
  BY <1>3, <1>4

LEMMA HoldKeeps == ASSUME IInv, NEW a \in Action, AgentHeld(a) PROVE IInv'
<1> USE DEF IInv
<1>1. PICK r \in Request :
        /\ \A q \in Request : row[q] = NoRow <=> q >= r
        /\ row' = [row EXCEPT ![r] = [status |-> "pending", action |-> a]]
        /\ UNCHANGED <<session, cleared, late, deciding, stale, runs, cut, audit>>
  BY DEF AgentHeld
<1>2. row[r] = NoRow
  BY <1>1 DEF Request
<1>3. /\ row'[r] = [status |-> "pending", action |-> a]
      /\ \A q \in Request : q # r => row'[q] = row[q]
      /\ row[r].status = "none"
  BY <1>1, <1>2 DEF TypeOK, NoRow
<1>4. row' \in [Request -> Row \cup {NoRow}]
  BY <1>1 DEF TypeOK, Row, Status
<1>5. TypeOK'
  BY <1>1, <1>4 DEF TypeOK, session
<1>6. Counted' /\ Untouched'
  BY <1>1, <1>3 DEF Counted, Untouched
<1>7. Holds'
  BY <1>1, <1>3 DEF Holds
<1>8. Listed'
  BY <1>1, <1>3 DEF Listed, NoRow, TypeOK
<1>9. DecisionTells'
  BY <1>1, <1>3, <1>6 DEF DecisionTells, Untouched
<1>10. QED
  BY <1>5, <1>6, <1>7, <1>8, <1>9

LEMMA ElapseKeeps == ASSUME IInv, NEW r \in Request, Elapse(r) PROVE IInv'
<1> USE DEF IInv, Elapse
<1>1. TypeOK'
  BY DEF TypeOK, session
<1>2. Counted' /\ Untouched' /\ Holds' /\ Listed' /\ DecisionTells'
  BY DEF Counted, Untouched, Holds, Listed, DecisionTells
<1>3. QED
  BY <1>1, <1>2

-----------------------------------------------------------------------------
\* A decision is made of a pending request.
LEMMA ClaimKeeps ==
  ASSUME IInv, NEW r \in Request, Approve(r) \/ Reject(r)
  PROVE  IInv'
<1> USE DEF IInv
<1>1. /\ deciding = Free /\ row[r].status = "pending"
      /\ deciding' \in Decision /\ deciding'.request = r
      /\ \/ deciding'.step = "run" /\ deciding'.outcome = "none"
         \/ deciding'.step = "write" /\ deciding'.outcome = "rejected"
      /\ UNCHANGED <<session, cleared, row, late, stale, runs, cut, audit>>
  BY DEF Approve, Reject, Decision
<1>2. runs[r] = cut[r]
  BY <1>1, NobodyDecides DEF Untouched
<1>3. TypeOK'
  BY <1>1 DEF TypeOK, session
<1>4. Counted' /\ Listed'
  BY <1>1 DEF Counted, Listed
<1>5. Untouched' /\ DecisionTells'
  BY <1>1, NobodyDecides DEF Untouched, DecisionTells
<1>6. Holds'
  BY <1>1, <1>2 DEF Holds
<1>7. QED
  BY <1>3, <1>4, <1>5, <1>6

\* A status is overwritten with EXPIRED.
LEMMA ExpiredKeeps ==
  ASSUME IInv, NEW r \in Request, row[r] # NoRow,
         row' = [row EXCEPT ![r].status = "expired"],
         stale' \in [Viewer -> SUBSET Request],
         \A v \in Viewer : stale'[v] \subseteq stale[v],
         UNCHANGED <<session, cleared, late, deciding, runs, cut, audit>>
  PROVE  IInv'
<1> USE DEF IInv
<1>1. /\ row'[r].status = "expired"
      /\ \A q \in Request : q # r => row'[q] = row[q]
      /\ row' \in [Request -> Row \cup {NoRow}]
  BY DEF TypeOK, Row, Status
<1>2. TypeOK'
  BY <1>1 DEF TypeOK, session
<1>3. Counted' /\ Untouched' /\ DecisionTells'
  BY <1>1 DEF Counted, Untouched, DecisionTells
<1>4. Holds'
  BY <1>1 DEF Holds
<1>5. Listed'
  BY <1>1 DEF Listed, NoRow, TypeOK
<1>6. QED
  BY <1>2, <1>3, <1>4, <1>5

LEMMA ApproveLateKeeps == ASSUME IInv, NEW r \in Request, ApproveLate(r) PROVE IInv'
<1>1. row[r] # NoRow
  BY DEF ApproveLate, NoRow
<1>2. QED
  BY <1>1, ExpiredKeeps DEF ApproveLate, IInv, TypeOK

LEMMA ExpireKeeps == ASSUME IInv, NEW v \in Viewer, Expire(v) PROVE IInv'
<1>1. PICK r \in stale[v] :
        /\ row' = [row EXCEPT ![r].status = "expired"]
        /\ stale' = [stale EXCEPT ![v] = @ \ {r}]
        /\ UNCHANGED <<session, cleared, late, deciding, runs, cut, audit>>
  BY DEF Expire
<1>2. r \in Request /\ row[r] # NoRow
  BY DEF IInv, TypeOK, Listed
<1>3. /\ stale' \in [Viewer -> SUBSET Request]
      /\ \A w \in Viewer : stale'[w] \subseteq stale[w]
  BY <1>1 DEF IInv, TypeOK
<1>4. QED
  BY <1>1, <1>2, <1>3, ExpiredKeeps

LEMMA LookKeeps == ASSUME IInv, NEW v \in Viewer, Look(v) PROVE IInv'
<1> USE DEF IInv, Look
<1>1. TypeOK'
  BY DEF TypeOK, session
<1>2. Counted' /\ Untouched' /\ Holds' /\ DecisionTells'
  BY DEF Counted, Untouched, Holds, DecisionTells
<1>3. Listed'
  BY DEF Listed, NoRow, TypeOK
<1>4. QED
  BY <1>1, <1>2, <1>3

LEMMA RunKeeps ==
  ASSUME IInv, NEW outcome \in {"ok", "error"}, Run(outcome)
  PROVE  IInv'
<1> USE DEF IInv, Run
<1> DEFINE d == deciding.request
<1>1. deciding # Free
  BY NobodyDecides
<1>2. d \in Request
  BY <1>1, DecidesOne
<1>3. /\ deciding' \in Decision /\ deciding'.request = d
      /\ deciding'.step = "audit" /\ deciding'.outcome = outcome
  BY <1>1, Moves
<1>4. /\ runs' \in [Request -> Nat] /\ runs'[d] = runs[d] + 1
      /\ \A r \in Request : r # d => runs'[r] = runs[r]
  BY <1>2 DEF TypeOK
<1>5. runs[d] = cut[d] /\ row[d].status \in {"pending", "expired"}
  BY <1>2 DEF Holds
<1>6. TypeOK'
  BY <1>3, <1>4 DEF TypeOK, session
<1>7. Counted' /\ Untouched' /\ Listed' /\ DecisionTells'
  BY <1>2, <1>3, <1>4, <1>5 DEF TypeOK, Counted, Untouched, Listed, DecisionTells
<1>8. Holds'
  BY <1>2, <1>3, <1>4, <1>5 DEF Holds
<1>9. QED
  BY <1>6, <1>7, <1>8

\* The decision goes on without the action being run.
LEMMA DecisionKeeps ==
  ASSUME IInv, RefuseArguments \/ Audit \/ AuditFails
  PROVE  IInv'
<1> USE DEF IInv
<1> DEFINE d == deciding.request
<1>1. deciding # Free
  BY NobodyDecides DEF RefuseArguments, Audit, AuditFails
<1>2. d \in Request
  BY <1>1, DecidesOne
<1>3. CASE RefuseArguments \/ AuditFails
  <2>1. /\ deciding' \in Decision /\ deciding'.request = d
        /\ deciding'.step = "write" /\ deciding'.outcome = "error"
        /\ UNCHANGED <<session, cleared, row, late, stale, runs, cut, audit>>
    BY <1>1, <1>3, Moves DEF RefuseArguments, AuditFails
  <2>2. TypeOK'
    BY <2>1 DEF TypeOK, session
  <2>3. Counted' /\ Untouched' /\ Listed' /\ DecisionTells'
    BY <2>1 DEF Counted, Untouched, Listed, DecisionTells
  <2>4. Holds'
    BY <2>1 DEF Holds
  <2>5. QED
    BY <2>2, <2>3, <2>4
<1>4. CASE Audit
  <2>1. deciding.outcome \in {"ok", "error"} /\ runs[d] = cut[d] + 1
    BY <1>2, <1>4 DEF Holds, Audit
  <2>2. /\ deciding' \in Decision /\ deciding'.request = d
        /\ deciding'.step = "write" /\ deciding'.outcome = deciding.outcome
    BY <1>1, <1>4 DEF Audit, TypeOK, Decision
  <2>3. /\ audit' \in [Request -> SUBSET {"ok", "error"}]
        /\ audit'[d] = audit[d] \cup {deciding.outcome}
        /\ \A r \in Request : audit[r] \subseteq audit'[r]
        /\ UNCHANGED <<session, cleared, row, late, stale, runs, cut>>
    BY <1>2, <1>4, <2>1 DEF Audit, TypeOK
  <2>4. TypeOK'
    BY <2>2, <2>3 DEF TypeOK, session
  <2>5. Counted' /\ Untouched' /\ Listed' /\ DecisionTells'
    BY <2>2, <2>3 DEF Counted, Untouched, Listed, DecisionTells
  <2>6. Holds'
    BY <1>2, <2>1, <2>2, <2>3 DEF Holds
  <2>7. QED
    BY <2>4, <2>5, <2>6
<1>5. QED
  BY <1>3, <1>4

LEMMA WriteKeeps == ASSUME IInv, Write PROVE IInv'
<1> USE DEF IInv, Write
<1> DEFINE d == deciding.request
<1>1. deciding # Free
  BY NobodyDecides
<1>2. d \in Request /\ deciding.outcome \in {"none", "ok", "error", "rejected"}
  BY <1>1, DecidesOne
<1>3. row[d].status \in {"pending", "expired"}
  BY <1>2 DEF Holds
<1>4. Written \in {"approved", "rejected", "failed"}
  BY DEF Written
<1>5. /\ row'[d].status = Written
      /\ \A r \in Request : r # d => row'[r] = row[r]
      /\ row' \in [Request -> Row \cup {NoRow}]
  BY <1>2, <1>3, <1>4 DEF TypeOK, Row, NoRow, Status
<1>6. TypeOK'
  BY <1>5 DEF TypeOK, session
<1>7. Counted'
  BY DEF Counted
<1>8. Untouched'
  BY <1>4, <1>5 DEF Untouched
<1>9. Holds'
  BY NobodyDecides DEF Holds
<1>10. Listed'
  BY <1>4, <1>5 DEF Listed, NoRow, TypeOK
<1>11. DecisionTells'
  <2>1. /\ Written = "approved" => deciding.outcome = "ok"
        /\ Written = "rejected" => deciding.outcome = "rejected"
    BY <1>2 DEF Written
  <2>2. QED
    BY <1>2, <1>5, <1>8, <2>1 DEF DecisionTells, Holds, Untouched
<1>12. QED
  BY <1>6, <1>7, <1>8, <1>9, <1>10, <1>11

\* The answer is lost: with the process, or because it cannot be written.
LEMMA LosingKeeps ==
  ASSUME IInv, WriteFails \/ Crash
  PROVE  IInv'
<1> USE DEF IInv
<1>1. /\ deciding' = Free /\ cut' = AnswerLost
      /\ UNCHANGED <<session, row, late, runs, audit>>
      /\ cleared' \subseteq cleared
      /\ stale' = stale \/ stale' = [v \in Viewer |-> {}]
  BY DEF WriteFails, Crash
<1>2. \A r \in Request : cut'[r] = IF deciding.request = r THEN runs[r] ELSE cut[r]
  BY <1>1 DEF AnswerLost
<1>3. cut' \in [Request -> Nat]
  BY <1>1 DEF AnswerLost, TypeOK
<1>4. TypeOK'
  BY <1>1, <1>3 DEF TypeOK, session
<1>5. Counted' /\ Untouched'
  BY <1>1, <1>2 DEF Counted, Untouched, TypeOK
<1>6. Holds'
  BY <1>1, NobodyDecides DEF Holds
<1>7. Listed'
  BY <1>1 DEF Listed
<1>8. DecisionTells'
  BY <1>1, <1>2 DEF DecisionTells, Holds
<1>9. QED
  BY <1>4, <1>5, <1>6, <1>7, <1>8

LEMMA NextIInv == IInv /\ [Next]_vars => IInv'
<1> SUFFICES ASSUME IInv, [Next]_vars
             PROVE  IInv'
  OBVIOUS
<1>1. ASSUME NEW a \in Action, Agent(a)
      PROVE  IInv'
  BY <1>1, HoldKeeps, ModesKeep DEF Agent
<1>2. CASE Person
  BY <1>2, ModesKeep, ClaimKeeps, ApproveLateKeeps DEF Person
<1>3. CASE Decides
  BY <1>3, RunKeeps, DecisionKeeps, WriteKeeps, LosingKeeps DEF Decides
<1>4. ASSUME NEW v \in Viewer, Look(v) \/ Expire(v)
      PROVE  IInv'
  BY <1>4, LookKeeps, ExpireKeeps
<1>5. QED
  BY <1>1, <1>2, <1>3, <1>4, ElapseKeeps, LosingKeeps, ModesKeep DEF Next

LEMMA Invariance == Spec => []IInv
BY InitIInv, NextIInv, PTL DEF Spec

(* Every reachable state is well typed, whatever the actions, the modes,   *)
(* the requests and the viewers of the queue.                              *)
THEOREM TypeCorrect == Spec => []TypeOK
BY Invariance, PTL DEF IInv

(* A request is run a second time only after an answer was lost.           *)
THEOREM ApprovalRunsOnce == Spec => []RunsOnce
<1>1. IInv => RunsOnce
  BY DEF IInv, Counted, RunsOnce
<1>2. QED
  BY <1>1, Invariance, PTL

(* A status tells of every run whose answer was not lost: there is none    *)
(* behind a rejected or an undecided request, and an audited one behind an *)
(* approved one.                                                           *)
THEOREM DecisionsTell == Spec => []DecisionTells
BY Invariance, PTL DEF IInv

-----------------------------------------------------------------------------
(* The permission policy.                                                  *)

LEMMA InitAsked == Init => Asked
BY DEF Init, Asked

LEMMA NextAsked == Asked /\ [Next]_vars => Asked'
<1> SUFFICES ASSUME Asked, [Next]_vars
             PROVE  Asked'
  OBVIOUS
<1> USE DEF Asked
<1>1. ASSUME NEW m \in Plain \cup {"ai"},
             NEW s \in {"human_in_the_loop", "autonomous", "unnamed"}, Enter(m, s)
      PROVE  Asked'
  BY <1>1 DEF Enter
<1>2. CASE Leave
  BY <1>2 DEF Leave
<1>3. ASSUME NEW s \in {"human_in_the_loop", "autonomous"}, SetStance(s)
      PROVE  Asked'
  BY <1>3 DEF SetStance
<1>4. CASE UNCHANGED session
  BY <1>4 DEF session
<1>5. QED
  BY <1>1, <1>2, <1>3, <1>4 DEF Next, Agent, AgentAllowed, AgentRuns, AgentHeld, Elapse,
     Person, Approve, ApproveLate, Reject, Decides, Run, RefuseArguments, Audit, AuditFails,
     Write, WriteFails, Look, Expire, Crash, vars, session

\* What the policy lets an agent do at once.
LEMMA AllowedIsHarmless ==
  ASSUME TypeOK, Asked, NEW a \in Action, AgentAllowed(a)
  PROVE  /\ ~Facts[a].protected
         /\ Facts[a].mutating => Facts[a].risk = "safe"
         /\ Facts[a].list = "consequential" /\ Facts[a].mutating => asked
<1>1. /\ ~Facts[a].protected /\ Facts[a].risk = "safe"
      /\ Facts[a].mutating => Granted(Facts[a].list)
  BY DEF AgentAllowed, Ruling
<1>2. ASSUME Facts[a].list = "consequential", Facts[a].mutating
      PROVE  asked
  <2>1. ContextStance = "autonomous"
    BY <1>1, <1>2 DEF Granted
  <2>2. mode = "ai" /\ stance = "autonomous"
    BY <2>1 DEF ContextStance
  <2>3. QED
    BY <2>2 DEF Asked
<1>3. QED
  BY <1>1, <1>2

LEMMA NextNeedsAPerson ==
  TypeOK /\ Asked /\ [Next]_vars =>
    \A a \in cleared' \ cleared :
       /\ ~Facts[a].protected
       /\ Facts[a].mutating => Facts[a].risk = "safe"
       /\ Facts[a].list = "consequential" /\ Facts[a].mutating => asked
<1> SUFFICES ASSUME TypeOK, Asked, [Next]_vars, NEW a \in cleared' \ cleared
             PROVE  /\ ~Facts[a].protected
                    /\ Facts[a].mutating => Facts[a].risk = "safe"
                    /\ Facts[a].list = "consequential" /\ Facts[a].mutating => asked
  OBVIOUS
<1>1. \E b \in Action : AgentAllowed(b)
  BY DEF Next, Agent, AgentRuns, AgentHeld, Elapse, Person, Enter, Leave, SetStance, Approve,
     ApproveLate, Reject, Decides, Run, RefuseArguments, Audit, AuditFails, Write, WriteFails,
     Look, Expire, Crash, vars
<1>2. PICK b \in Action : AgentAllowed(b)
  BY <1>1
<1>3. a = b
  BY <1>2 DEF AgentAllowed
<1>4. QED
  BY <1>2, <1>3, AllowedIsHarmless

(* No agent does anything protected or destructive without a person, and   *)
(* it reaches the book only under a stance the person named for this entry *)
(* of the mode, for any actions and any modes.                             *)
THEOREM PersonIsNeeded == Spec => NeedsAPerson
BY InitAsked, NextAsked, NextNeedsAPerson, TypeCorrect, PTL DEF Spec, NeedsAPerson

-----------------------------------------------------------------------------
(* Approvals implements Consent.                                           *)

\* What the abstract queue says of a request, before and after a step.
LEMMA AbstractOf ==
  ASSUME NEW r \in Request
  PROVE  /\ AbstractHeld[r] =
              IF row[r] = NoRow THEN "unasked" ELSE IF Open(r) THEN "open" ELSE "closed"
         /\ AbstractHeld'[r] =
              IF row'[r] = NoRow THEN "unasked" ELSE IF Open(r)' THEN "open" ELSE "closed"
BY DEF AbstractHeld

\* A request nothing happens to looks the same.
LEMMA SameSeen ==
  ASSUME NEW r \in Request,
         row'[r] = row[r], runs'[r] = runs[r], cut'[r] = cut[r],
         (deciding'.request = r /\ deciding'.step = "run")
           = (deciding.request = r /\ deciding.step = "run")
  PROVE  AbstractHeld'[r] = AbstractHeld[r] /\ runs'[r] = runs[r]
<1>1. Open(r)' = Open(r)
  BY DEF Open
<1>2. QED
  BY <1>1, AbstractOf

\* A step that moves one request, or none.
LEMMA OneMoves ==
  ASSUME NEW r \in Request,
         \A q \in Request : q # r => AbstractHeld'[q] = AbstractHeld[q] /\ runs'[q] = runs[q],
         runs \in [Request -> Nat], runs' \in [Request -> Nat],
         \/ /\ AbstractHeld'[r] = AbstractHeld[r] /\ runs'[r] = runs[r]
         \/ /\ AbstractHeld[r] = "unasked" /\ AbstractHeld'[r] = "open" /\ runs'[r] = runs[r]
         \/ /\ AbstractHeld[r] = "open" /\ AbstractHeld'[r] = "closed" /\ runs'[r] \in {runs[r], runs[r] + 1}
         \/ /\ AbstractHeld[r] = "closed" /\ AbstractHeld'[r] = "open" /\ runs'[r] = runs[r] /\ runs[r] > 0
  PROVE  [Abstract!Next]_Abstract!consent
<1> DEFINE h == AbstractHeld
<1>1. /\ h \in [Request -> {"unasked", "open", "closed"}]
      /\ h' \in [Request -> {"unasked", "open", "closed"}]
  BY DEF AbstractHeld
<1>2. h' = [h EXCEPT ![r] = h'[r]] /\ runs' = [runs EXCEPT ![r] = runs'[r]]
  BY <1>1
<1> HIDE DEF h
<1>3. CASE h'[r] = h[r] /\ runs'[r] = runs[r]
  <2>1. h' = h /\ runs' = runs
    BY <1>1, <1>2, <1>3
  <2>2. QED
    BY <2>1 DEF Abstract!consent, h
<1>4. CASE h[r] = "unasked" /\ h'[r] = "open" /\ runs'[r] = runs[r]
  <2>1. Abstract!Ask(r)
    BY <1>2, <1>4 DEF Abstract!Ask, h
  <2>2. QED
    BY <2>1 DEF Abstract!Next
<1>5. CASE h[r] = "open" /\ h'[r] = "closed" /\ runs'[r] = runs[r]
  <2>1. Abstract!Close(r)
    BY <1>2, <1>5 DEF Abstract!Close, h
  <2>2. QED
    BY <2>1 DEF Abstract!Next
<1>6. CASE h[r] = "open" /\ h'[r] = "closed" /\ runs'[r] = runs[r] + 1
  <2>1. Abstract!Run(r)
    BY <1>2, <1>6 DEF Abstract!Run, h
  <2>2. QED
    BY <2>1 DEF Abstract!Next
<1>7. CASE h[r] = "closed" /\ h'[r] = "open" /\ runs'[r] = runs[r] /\ runs[r] > 0
  <2>1. Abstract!LoseAnswer(r)
    BY <1>2, <1>7 DEF Abstract!LoseAnswer, h
  <2>2. QED
    BY <2>1 DEF Abstract!Next
<1>8. QED
  BY <1>3, <1>4, <1>5, <1>6, <1>7 DEF h

\* Nothing the abstract state is made of changes.
LEMMA NoneMoves ==
  ASSUME UNCHANGED <<row, deciding, runs, cut>>
  PROVE  [Abstract!Next]_Abstract!consent
BY DEF Abstract!consent, AbstractHeld, Open

LEMMA InitConsent == Init => Abstract!Init
<1> SUFFICES ASSUME Init
             PROVE  Abstract!Init
  OBVIOUS
<1>1. AbstractHeld = [r \in Request |-> "unasked"]
  BY DEF Init, AbstractHeld
<1>2. QED
  BY <1>1 DEF Init, Abstract!Init

LEMMA HoldAsks ==
  ASSUME IInv, NEW a \in Action, AgentHeld(a)
  PROVE  [Abstract!Next]_Abstract!consent
<1>1. PICK r \in Request :
        /\ \A q \in Request : row[q] = NoRow <=> q >= r
        /\ row' = [row EXCEPT ![r] = [status |-> "pending", action |-> a]]
        /\ UNCHANGED <<session, cleared, late, deciding, stale, runs, cut, audit>>
  BY DEF AgentHeld
<1>2. row[r] = NoRow
  BY <1>1 DEF Request
<1>3. /\ row'[r] = [status |-> "pending", action |-> a]
      /\ \A q \in Request : q # r => row'[q] = row[q]
      /\ row[r].status = "none" /\ row'[r] # NoRow
  BY <1>1, <1>2 DEF IInv, TypeOK, NoRow
<1>4. runs[r] = cut[r]
  BY <1>3 DEF IInv, Untouched, Holds
<1>5. Open(r)'
  BY <1>1, <1>3, <1>4 DEF Open
<1>6. AbstractHeld[r] = "unasked" /\ AbstractHeld'[r] = "open"
  BY <1>2, <1>3, <1>5, AbstractOf
<1>7. \A q \in Request : q # r => AbstractHeld'[q] = AbstractHeld[q] /\ runs'[q] = runs[q]
  BY <1>1, <1>3, SameSeen
<1>8. QED
  BY <1>1, <1>6, <1>7, OneMoves DEF IInv, TypeOK

\* Claiming a request leaves it open.
LEMMA ClaimStutters ==
  ASSUME IInv, NEW r \in Request, Approve(r) \/ Reject(r)
  PROVE  [Abstract!Next]_Abstract!consent
<1>1. /\ deciding = Free /\ row[r].status = "pending" /\ deciding'.request = r
      /\ UNCHANGED <<row, runs, cut>>
  BY DEF Approve, Reject
<1>2. \A q \in Request : q # r => AbstractHeld'[q] = AbstractHeld[q] /\ runs'[q] = runs[q]
  BY <1>1, NobodyDecides, SameSeen
<1>3. Open(r)' = Open(r)
  BY <1>1 DEF Open
<1>4. AbstractHeld'[r] = AbstractHeld[r] /\ runs'[r] = runs[r]
  BY <1>1, <1>3, AbstractOf
<1>5. QED
  BY <1>1, <1>2, <1>4, OneMoves DEF IInv, TypeOK

LEMMA ExpiredCloses ==
  ASSUME IInv, NEW r \in Request, row[r] # NoRow,
         row' = [row EXCEPT ![r].status = "expired"],
         UNCHANGED <<deciding, runs, cut>>
  PROVE  [Abstract!Next]_Abstract!consent
<1>1. /\ row'[r].status = "expired" /\ row'[r] # NoRow
      /\ \A q \in Request : q # r => row'[q] = row[q]
  BY DEF IInv, TypeOK, Row, NoRow
<1>2. \A q \in Request : q # r => AbstractHeld'[q] = AbstractHeld[q] /\ runs'[q] = runs[q]
  BY <1>1, SameSeen
<1>3. Open(r)' => Open(r)
  BY <1>1 DEF Open
<1>4. QED
  BY <1>1, <1>2, <1>3, AbstractOf, OneMoves DEF IInv, TypeOK

LEMMA ExpireCloses ==
  ASSUME IInv, NEW v \in Viewer, Expire(v)
  PROVE  [Abstract!Next]_Abstract!consent
<1>1. PICK r \in stale[v] :
        row' = [row EXCEPT ![r].status = "expired"] /\ UNCHANGED <<deciding, runs, cut>>
  BY DEF Expire
<1>2. r \in Request /\ row[r] # NoRow
  BY DEF IInv, TypeOK, Listed
<1>3. QED
  BY <1>1, <1>2, ExpiredCloses

LEMMA ApproveLateCloses ==
  ASSUME IInv, NEW r \in Request, ApproveLate(r)
  PROVE  [Abstract!Next]_Abstract!consent
<1>1. row[r] # NoRow
  BY DEF ApproveLate, NoRow
<1>2. QED
  BY <1>1, ExpiredCloses DEF ApproveLate

\* A step of the decision moves only the request it is about.
LEMMA DecisionMovesOne ==
  ASSUME IInv, NEW d \in Request, deciding.request = d,
         deciding'.request = d \/ deciding' = Free,
         \A q \in Request : q # d =>
           row'[q] = row[q] /\ runs'[q] = runs[q] /\ cut'[q] = cut[q]
  PROVE  \A q \in Request : q # d => AbstractHeld'[q] = AbstractHeld[q] /\ runs'[q] = runs[q]
BY NobodyDecides, SameSeen

LEMMA RunRuns ==
  ASSUME IInv, NEW outcome \in {"ok", "error"}, Run(outcome)
  PROVE  [Abstract!Next]_Abstract!consent
<1>1. deciding # Free
  BY NobodyDecides DEF Run
<1>2. PICK d \in Request : /\ deciding.request = d
                           /\ deciding'.request = d /\ deciding'.step = "audit"
  BY <1>1, DecidesOne, Moves DEF IInv, Run
<1>3. /\ runs' \in [Request -> Nat] /\ runs'[d] = runs[d] + 1
      /\ \A q \in Request : q # d => runs'[q] = runs[q]
      /\ UNCHANGED <<row, cut>>
  BY <1>2 DEF IInv, TypeOK, Run
<1>4. runs[d] = cut[d] /\ row[d] # NoRow
  BY <1>2 DEF IInv, Holds, Run, NoRow
<1>5. Open(d) /\ ~ Open(d)'
  <2>1. Open(d)
    BY <1>2, <1>4 DEF Open, Run
  <2>2. runs'[d] # cut'[d]
    BY <1>2, <1>3, <1>4 DEF IInv, TypeOK
  <2>3. QED
    BY <2>1, <2>2 DEF Open
<1>6. AbstractHeld[d] = "open" /\ AbstractHeld'[d] = "closed"
  BY <1>2, <1>3, <1>4, <1>5, AbstractOf
<1>7. \A q \in Request : q # d => AbstractHeld'[q] = AbstractHeld[q] /\ runs'[q] = runs[q]
  BY <1>2, <1>3, DecisionMovesOne
<1>8. QED
  BY <1>2, <1>3, <1>6, <1>7, OneMoves DEF IInv, TypeOK

\* Whatever else the decision does, its request at most closes.
LEMMA DecisionCloses ==
  ASSUME IInv, RefuseArguments \/ Audit \/ AuditFails \/ Write
  PROVE  [Abstract!Next]_Abstract!consent
<1>1. deciding # Free
  BY NobodyDecides DEF RefuseArguments, Audit, AuditFails, Write
<1>2. PICK d \in Request : deciding.request = d
  BY <1>1, DecidesOne DEF IInv
<1>3. row[d].status \in {"pending", "expired"} /\ row[d] # NoRow
  BY <1>2 DEF IInv, Holds, NoRow
<1>4. UNCHANGED <<runs, cut>>
  BY DEF RefuseArguments, Audit, AuditFails, Write
<1>5. deciding'.request = d \/ deciding' = Free
  BY <1>1, <1>2 DEF RefuseArguments, Audit, AuditFails, Write, IInv, TypeOK, Decision
<1>6. /\ row' \in [Request -> Row \cup {NoRow}]
      /\ \A q \in Request : q # d => row'[q] = row[q]
      /\ row'[d] # NoRow
      /\ row'[d].status = "pending" => row[d].status = "pending"
  <2>1. CASE Write
    <3>1. Written \in {"approved", "rejected", "failed"}
      BY DEF Written
    <3>2. /\ row'[d].status = Written
          /\ \A q \in Request : q # d => row'[q] = row[q]
          /\ row' \in [Request -> Row \cup {NoRow}]
      BY <1>2, <1>3, <2>1, <3>1 DEF Write, IInv, TypeOK, Row, NoRow, Status
    <3>3. QED
      BY <3>1, <3>2 DEF NoRow
  <2>2. CASE ~Write
    BY <1>3, <2>2 DEF RefuseArguments, Audit, AuditFails, IInv, TypeOK
  <2>3. QED
    BY <2>1, <2>2
<1>7. ~(deciding'.request = d /\ deciding'.step = "run")
  <2>1. deciding' = Free \/ deciding'.step \in {"audit", "write"}
    BY <1>1 DEF RefuseArguments, Audit, AuditFails, Write, IInv, TypeOK, Decision
  <2>2. QED
    BY <2>1, NobodyDecides
<1>8. Open(d)' => Open(d)
  BY <1>4, <1>6, <1>7 DEF Open
<1>9. \A q \in Request : q # d => AbstractHeld'[q] = AbstractHeld[q] /\ runs'[q] = runs[q]
  BY <1>2, <1>4, <1>5, <1>6, DecisionMovesOne
<1>10. \/ AbstractHeld'[d] = AbstractHeld[d]
       \/ AbstractHeld[d] = "open" /\ AbstractHeld'[d] = "closed"
  BY <1>2, <1>3, <1>6, <1>8, AbstractOf
<1>11. QED
  BY <1>2, <1>4, <1>9, <1>10, OneMoves DEF IInv, TypeOK

\* A lost answer opens its request again, or closes one that had expired.
LEMMA LosingOpens ==
  ASSUME IInv, WriteFails \/ Crash
  PROVE  [Abstract!Next]_Abstract!consent
<1>1. /\ deciding' = Free /\ cut' = AnswerLost
      /\ UNCHANGED <<row, runs>>
  BY DEF WriteFails, Crash
<1>2. \A r \in Request : cut'[r] = IF deciding.request = r THEN runs[r] ELSE cut[r]
  BY <1>1 DEF AnswerLost
<1>3. CASE deciding = Free
  <2>1. cut' = cut
    BY <1>1, <1>3, NobodyDecides DEF AnswerLost, IInv, TypeOK
  <2>2. QED
    BY <1>1, <1>3, <2>1, NoneMoves
<1>4. CASE deciding # Free
  <2>1. PICK d \in Request : deciding.request = d
    BY <1>4, DecidesOne DEF IInv
  <2>2. /\ row[d].status \in {"pending", "expired"} /\ row[d] # NoRow
        /\ cut[d] <= runs[d]
    BY <2>1 DEF IInv, Holds, Counted, NoRow
  <2>3. \A q \in Request : q # d => AbstractHeld'[q] = AbstractHeld[q] /\ runs'[q] = runs[q]
    BY <1>1, <1>2, <2>1, DecisionMovesOne
  <2>4. CASE row[d].status = "pending"
    <3>1. Open(d)'
      BY <1>1, <1>2, <2>1, <2>4 DEF Open
    <3>2. AbstractHeld'[d] = "open"
      BY <1>1, <2>1, <2>2, <3>1, AbstractOf
    <3>3. AbstractHeld[d] = "open" \/ (AbstractHeld[d] = "closed" /\ runs[d] # cut[d])
      BY <2>1, <2>2, <2>4, AbstractOf DEF Open
    <3>4. runs[d] # cut[d] => runs[d] > 0
      BY <2>1, <2>2 DEF IInv, TypeOK
    <3>5. QED
      BY <1>1, <2>1, <2>3, <3>2, <3>3, <3>4, OneMoves DEF IInv, TypeOK
  <2>5. CASE row[d].status = "expired"
    <3>1. ~ Open(d)'
      BY <1>1, <2>1, <2>5, NobodyDecides DEF Open
    <3>2. AbstractHeld'[d] = "closed" /\ AbstractHeld[d] \in {"open", "closed"}
      BY <1>1, <2>1, <2>2, <3>1, AbstractOf
    <3>3. QED
      BY <1>1, <2>1, <2>3, <3>2, OneMoves DEF IInv, TypeOK
  <2>6. QED
    BY <2>2, <2>4, <2>5
<1>5. QED
  BY <1>3, <1>4

LEMMA NextConsent == IInv /\ [Next]_vars => [Abstract!Next]_Abstract!consent
<1> SUFFICES ASSUME IInv, [Next]_vars
             PROVE  [Abstract!Next]_Abstract!consent
  OBVIOUS
<1>1. ASSUME NEW a \in Action, Agent(a)
      PROVE  [Abstract!Next]_Abstract!consent
  BY <1>1, HoldAsks, NoneMoves DEF Agent, AgentAllowed, AgentRuns, queue
<1>2. CASE Person
  <2>1. ASSUME UNCHANGED queue
        PROVE  [Abstract!Next]_Abstract!consent
    BY <2>1, NoneMoves DEF queue
  <2>2. QED
    BY <1>2, <2>1, ClaimStutters, ApproveLateCloses DEF Person, Enter, Leave, SetStance
<1>3. CASE Decides
  BY <1>3, RunRuns, DecisionCloses, LosingOpens DEF Decides
<1>4. ASSUME NEW v \in Viewer, Look(v) \/ Expire(v)
      PROVE  [Abstract!Next]_Abstract!consent
  BY <1>4, ExpireCloses, NoneMoves DEF Look
<1>5. ASSUME NEW r \in Request, Elapse(r)
      PROVE  [Abstract!Next]_Abstract!consent
  BY <1>5, NoneMoves DEF Elapse
<1>6. CASE UNCHANGED vars
  BY <1>6, NoneMoves DEF vars, queue
<1>7. QED
  BY <1>1, <1>2, <1>3, <1>4, <1>5, <1>6, LosingOpens DEF Next

(* The queue, with its lock, its clock, its stale lists and its crashes,   *)
(* keeps the promise of Consent, for any number of requests and viewers.   *)
THEOREM ApprovalsImplementConsent == Spec => ImplementsConsent
BY InitConsent, NextConsent, Invariance, PTL DEF Spec, ImplementsConsent, Abstract!Spec
=============================================================================
