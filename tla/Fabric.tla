------------------------------- MODULE Fabric -------------------------------
(***************************************************************************)
(* One connection of the execution fabric (propdesk/fabric.py): the        *)
(* priority queue, the rate budget, the outbox and the retry list of a     *)
(* ConnectionRuntime, drained by the request threads of the API.           *)
(*                                                                         *)
(* Nothing in the runtime or in PropDeskService holds a lock, so a drain   *)
(* is a sequence of steps that other requests may interleave with: one     *)
(* step for each statement that reads or writes what threads share.  What  *)
(* holds only while requests come one at a time is stated under            *)
(* ~overlapped.                                                            *)
(***************************************************************************)
EXTENDS Integers, Sequences, FiniteSets

CONSTANTS
  Command,     \* the intents the passes make; every pass makes new ones
  Prio,        \* the Priority of each command
  Thread,      \* the request threads
  Limit,       \* how many commands one drain may send
  Capacity,    \* tokens the rate budget holds
  Faults,      \* what the adapter may answer other than to execute
  MaxFaults,   \* bound: how many faulty answers a behaviour has
  MaxCrashes   \* bound: how often the process dies

FaultKind == {"offline", "dropped", "ack_lost", "rejected", "unavailable"}

ASSUME FabricAssumption ==
  /\ Command # {}
  /\ Thread # {} /\ IsFiniteSet(Thread)
  /\ Prio \in [Command -> 0 .. 4]
  /\ Limit \in Nat /\ Capacity \in Nat
  /\ Faults \subseteq FaultKind
  /\ MaxFaults \in Nat /\ MaxCrashes \in Nat

VARIABLES
  queue,     \* the heap: entries [cmd, ticket]
  ticket,    \* the next sequence number
  retry,     \* intents to put back after the drain
  outbox,    \* Outbox._pending
  conn,      \* connection.state
  tokens,    \* RateBudget._tokens
  pc,        \* where each thread is in drain
  held,      \* the intent each thread has in hand
  ack,       \* the answer each thread got from the adapter
  left,      \* the rounds left in each thread's drain
  cursor,    \* each thread's place in the retry list
  asked,     \* the commands the desk dispatched
  answer,    \* the last final answer a drain returned for each command
  acted,     \* what the provider carried out, or knew already
  overlapped, \* whether two requests were ever served at once
  tried,     \* what was handed to the adapter since the last drain began
  late,      \* what each thread handed over, against the connection's state,
             \* since that state changed
  faults,    \* faulty answers so far
  crashes    \* crashes so far

threads == <<pc, held, ack, left, cursor>>
history == <<asked, answer, acted, faults, crashes>>
watch == <<tried, late>>
ghosts == <<history, overlapped, watch>>
vars == <<queue, ticket, retry, outbox, conn, tokens, threads, ghosts>>

Cancel == 1
\* Every state but live and degraded sends nothing: "down".
ConnState == {"live", "degraded", "down"}
Line ==
  {"idle", "peek", "permit", "ask", "charge", "pop", "send", "settle", "put_back",
   "clear"}
Answer == {"none", "accepted", "refused", "unavailable", "retry"}

Quiet == \A t \in Thread : pc[t] = "idle"

\* A request starts; whether another one is being served is remembered.
Arrives == overlapped' = (overlapped \/ ~Quiet)

\* c is queued, waiting to be retried, or in the hand of the thread that
\* sends it.
OnItsWay(c) ==
  \/ \E e \in queue : e.cmd = c
  \/ \E i \in 1 .. Len(retry) : retry[i] = c
  \/ \E t \in Thread : held[t] = c /\ pc[t] \in {"send", "settle"}

\* Mutant: first come, first served.
OldestFirst(e) == \A f \in queue : e.ticket <= f.ticket

\* e is at the head of the heap: lowest priority number, then oldest.
Lowest(e) ==
  \A f \in queue :
    \/ Prio[e.cmd] < Prio[f.cmd]
    \/ Prio[e.cmd] = Prio[f.cmd] /\ e.ticket <= f.ticket

MaySend(c) ==
  \/ conn = "live"
  \/ conn = "degraded" /\ Prio[c] <= Cancel

Goto(t, line) == pc' = [pc EXCEPT ![t] = line]

AnyCommand == CHOOSE c \in Command : TRUE

\* The drains of the threads in T end, and their locals with them.
Return(T) ==
  /\ pc' = [t \in Thread |-> IF t \in T THEN "idle" ELSE pc[t]]
  /\ held' = [t \in Thread |-> IF t \in T THEN AnyCommand ELSE held[t]]
  /\ ack' = [t \in Thread |-> IF t \in T THEN "none" ELSE ack[t]]
  /\ left' = [t \in Thread |-> IF t \in T THEN 0 ELSE left[t]]
  /\ cursor' = [t \in Thread |-> IF t \in T THEN 1 ELSE cursor[t]]

Enqueue(c) ==
  /\ queue' = queue \cup {[cmd |-> c, ticket |-> ticket]}
  /\ ticket' = ticket + 1

-----------------------------------------------------------------------------
(* The desk and the connection.                                            *)

\* enqueue takes whatever it is given: a pass dispatches an intent it has
\* just made, whether or not an earlier one has the same idempotency key.
Dispatch(c) ==
  /\ Arrives
  /\ c \notin asked
  /\ asked' = asked \cup {c}
  /\ Enqueue(c)
  /\ UNCHANGED <<retry, outbox, conn, tokens, threads, answer, acted, faults,
                 crashes, watch>>

SetState(s) ==
  /\ Arrives
  /\ s # conn
  /\ conn' = s
  /\ late' = [t \in Thread |-> 0]
  /\ UNCHANGED <<queue, ticket, retry, outbox, tokens, threads, history, tried>>

\* Mutant: the refill does not stop at the capacity.
RefillUncapped ==
  /\ tokens' = tokens + 1
  /\ UNCHANGED <<queue, ticket, retry, outbox, conn, threads, ghosts>>

Refill ==
  /\ tokens < Capacity
  /\ tokens' = tokens + 1
  /\ UNCHANGED <<queue, ticket, retry, outbox, conn, threads, ghosts>>

-----------------------------------------------------------------------------
(* drain, one action for each step that reads or writes the runtime.       *)

Flush(t) ==
  /\ Arrives
  /\ pc[t] = "idle"
  /\ Goto(t, "peek")
  /\ left' = [left EXCEPT ![t] = Limit]
  /\ tried' = {}
  /\ UNCHANGED <<queue, ticket, retry, outbox, conn, tokens, held, ack, cursor,
                 history, late>>

\* The round is over: nothing is queued or the limit is reached.
StopPeeking(t) ==
  /\ pc[t] = "peek"
  /\ queue = {} \/ left[t] = 0
  /\ Goto(t, "put_back")
  /\ cursor' = [cursor EXCEPT ![t] = 1]
  /\ UNCHANGED <<queue, ticket, retry, outbox, conn, tokens, held, ack, left, ghosts>>

Peek(t) ==
  /\ pc[t] = "peek"
  /\ left[t] > 0
  /\ \E e \in queue : Lowest(e) /\ held' = [held EXCEPT ![t] = e.cmd]
  /\ Goto(t, "permit")
  /\ UNCHANGED <<queue, ticket, retry, outbox, conn, tokens, ack, left, cursor, ghosts>>

\* Mutant: the state is consulted in the first round only.
PermitOnce(t) ==
  /\ pc[t] = "permit"
  /\ left[t] < Limit \/ MaySend(held[t])
  /\ Goto(t, "ask")
  /\ UNCHANGED <<queue, ticket, retry, outbox, conn, tokens, held, ack, left,
                 cursor, ghosts>>

\* The connection's state, as it is now, permits the command peeked.
Permit(t) ==
  /\ pc[t] = "permit"
  /\ MaySend(held[t])
  /\ Goto(t, "ask")
  /\ UNCHANGED <<queue, ticket, retry, outbox, conn, tokens, held, ack, left,
                 cursor, ghosts>>

\* Mutant: the budget is charged without being asked.
AskNothing(t) ==
  /\ pc[t] = "ask"
  /\ Goto(t, "charge")
  /\ UNCHANGED <<queue, ticket, retry, outbox, conn, tokens, held, ack, left,
                 cursor, ghosts>>

\* take finds a token, and subtracts it in a statement of its own.
Ask(t) ==
  /\ pc[t] = "ask"
  /\ tokens > 0
  /\ Goto(t, "charge")
  /\ UNCHANGED <<queue, ticket, retry, outbox, conn, tokens, held, ack, left,
                 cursor, ghosts>>

Charge(t) ==
  /\ pc[t] = "charge"
  /\ tokens' = tokens - 1
  /\ Goto(t, "pop")
  /\ UNCHANGED <<queue, ticket, retry, outbox, conn, held, ack, left, cursor, ghosts>>

\* The state does not permit the command, or the budget has no token.
HoldBack(t) ==
  /\ \/ pc[t] = "permit" /\ ~MaySend(held[t])
     \/ pc[t] = "ask" /\ tokens <= 0
  /\ Goto(t, "put_back")
  /\ cursor' = [cursor EXCEPT ![t] = 1]
  /\ UNCHANGED <<queue, ticket, retry, outbox, conn, tokens, held, ack, left, ghosts>>

\* _pop takes whatever is at the head now, and its result is not used.
Pop(t) ==
  /\ pc[t] = "pop"
  /\ \E e \in queue : Lowest(e) /\ queue' = queue \ {e}
  /\ Goto(t, "send")
  /\ UNCHANGED <<ticket, retry, outbox, conn, tokens, held, ack, left, cursor, ghosts>>

\* heappop of an empty heap raises out of drain.
PopNothing(t) ==
  /\ pc[t] = "pop"
  /\ queue = {}
  /\ Return({t})
  /\ UNCHANGED <<queue, ticket, retry, outbox, conn, tokens, ghosts>>

Sending(t) ==
  /\ pc[t] = "send"
  /\ outbox' = outbox \cup {held[t]}
  /\ Goto(t, "settle")
  /\ tried' = tried \cup {held[t]}
  /\ late' = [late EXCEPT ![t] = IF MaySend(held[t]) THEN @ ELSE @ + 1]
  /\ UNCHANGED <<queue, ticket, retry, conn, tokens, held, left, cursor, asked,
                 answer, crashes, overlapped>>

\* The provider carries the command out, or knows its key and says so.
Acts(t) == acted' = acted \cup {held[t]}

Hears(t, a) == ack' = [ack EXCEPT ![t] = a]

Send(t) ==
  /\ Sending(t)
  /\ Acts(t) /\ Hears(t, "accepted")
  /\ UNCHANGED faults

\* offline and dropped leave the provider as it was; ack_lost is a transport
\* that fails after the provider acted; rejected and unavailable are final.
SendFails(t) ==
  /\ Sending(t)
  /\ faults < MaxFaults /\ faults' = faults + 1
  /\ \E f \in Faults :
       /\ IF f = "ack_lost" THEN Acts(t) ELSE UNCHANGED acted
       /\ Hears(t, CASE f = "rejected" -> "refused"
                     [] f = "unavailable" -> "unavailable"
                     [] OTHER -> "retry")

\* Mutant: a command that may be retried is not kept.
SettleDropsRetry(t) ==
  /\ pc[t] = "settle"
  /\ IF ack[t] = "retry"
     THEN UNCHANGED <<outbox, answer>>
     ELSE /\ answer' = [answer EXCEPT ![held[t]] = ack[t]]
          /\ outbox' = IF ack[t] = "unavailable" THEN outbox
                       ELSE outbox \ {held[t]}
  /\ Goto(t, "peek")
  /\ left' = [left EXCEPT ![t] = @ - 1]
  /\ UNCHANGED <<queue, ticket, retry, conn, tokens, held, ack, cursor,
                 asked, acted, faults, crashes, overlapped, watch>>

\* Mutant: every answer clears the outbox.
SettleForgets(t) ==
  /\ pc[t] = "settle"
  /\ outbox' = outbox \ {held[t]}
  /\ IF ack[t] = "retry"
     THEN retry' = Append(retry, held[t]) /\ UNCHANGED answer
     ELSE /\ answer' = [answer EXCEPT ![held[t]] = ack[t]]
          /\ UNCHANGED retry
  /\ Goto(t, "peek")
  /\ left' = [left EXCEPT ![t] = @ - 1]
  /\ UNCHANGED <<queue, ticket, conn, tokens, held, ack, cursor, asked,
                 acted, faults, crashes, overlapped, watch>>

\* Mutant: a command that may be retried goes back to the queue at once.
SettleRequeues(t) ==
  /\ pc[t] = "settle"
  /\ IF ack[t] = "retry"
     THEN Enqueue(held[t]) /\ UNCHANGED <<outbox, answer>>
     ELSE /\ answer' = [answer EXCEPT ![held[t]] = ack[t]]
          /\ outbox' = IF ack[t] = "unavailable" THEN outbox
                       ELSE outbox \ {held[t]}
          /\ UNCHANGED <<queue, ticket>>
  /\ Goto(t, "peek")
  /\ left' = [left EXCEPT ![t] = @ - 1]
  /\ UNCHANGED <<retry, conn, tokens, held, ack, cursor, asked, acted, faults,
                 crashes, overlapped, watch>>

\* A final answer clears the outbox; only "unavailable" leaves it there.
Settle(t) ==
  /\ pc[t] = "settle"
  /\ IF ack[t] = "retry"
     THEN retry' = Append(retry, held[t]) /\ UNCHANGED <<outbox, answer>>
     ELSE /\ answer' = [answer EXCEPT ![held[t]] = ack[t]]
          /\ outbox' = IF ack[t] = "unavailable" THEN outbox
                       ELSE outbox \ {held[t]}
          /\ UNCHANGED retry
  /\ Goto(t, "peek")
  /\ left' = [left EXCEPT ![t] = @ - 1]
  /\ UNCHANGED <<queue, ticket, conn, tokens, held, ack, cursor, asked,
                 acted, faults, crashes, overlapped, watch>>

PutBack(t) ==
  /\ pc[t] = "put_back"
  /\ cursor[t] <= Len(retry)
  /\ Enqueue(retry[cursor[t]])
  /\ cursor' = [cursor EXCEPT ![t] = @ + 1]
  /\ UNCHANGED <<retry, outbox, conn, tokens, pc, held, ack, left,
                 ghosts>>

DonePuttingBack(t) ==
  /\ pc[t] = "put_back"
  /\ cursor[t] > Len(retry)
  /\ Goto(t, "clear")
  /\ UNCHANGED <<queue, ticket, retry, outbox, conn, tokens, held, ack, left,
                 cursor, ghosts>>

Clear(t) ==
  /\ pc[t] = "clear"
  /\ retry' = <<>>
  /\ Return({t})
  /\ UNCHANGED <<queue, ticket, outbox, conn, tokens, ghosts>>

Drain(t) ==
  \/ StopPeeking(t) \/ Peek(t) \/ Permit(t) \/ Ask(t) \/ Charge(t)
  \/ HoldBack(t) \/ Pop(t) \/ PopNothing(t) \/ Send(t) \/ SendFails(t)
  \/ Settle(t) \/ PutBack(t) \/ DonePuttingBack(t) \/ Clear(t)

-----------------------------------------------------------------------------
\* The process dies and restarts: _restore registers a new runtime for the
\* stored connection, disconnected, with nothing in it.
Crash ==
  /\ crashes < MaxCrashes /\ crashes' = crashes + 1
  /\ queue' = {} /\ ticket' = 0 /\ retry' = <<>> /\ outbox' = {}
  /\ conn' = "down" /\ tokens' = Capacity
  /\ Return(Thread)
  /\ late' = [t \in Thread |-> 0]
  /\ UNCHANGED <<asked, answer, acted, faults, overlapped, tried>>

Init ==
  /\ queue = {} /\ ticket = 0 /\ retry = <<>> /\ outbox = {}
  /\ conn = "down" /\ tokens = Capacity
  /\ pc = [t \in Thread |-> "idle"]
  /\ held = [t \in Thread |-> AnyCommand]
  /\ ack = [t \in Thread |-> "none"]
  /\ left = [t \in Thread |-> 0]
  /\ cursor = [t \in Thread |-> 1]
  /\ asked = {}
  /\ answer = [c \in Command |-> "none"]
  /\ acted = {}
  /\ faults = 0 /\ crashes = 0 /\ overlapped = FALSE
  /\ tried = {} /\ late = [t \in Thread |-> 0]

Next ==
  \/ \E c \in Command : Dispatch(c)
  \/ \E s \in ConnState : SetState(s)
  \/ Refill
  \/ \E t \in Thread : Flush(t) \/ Drain(t)
  \/ Crash

Spec == Init /\ [][Next]_vars

-----------------------------------------------------------------------------
(* Properties.                                                             *)

TypeOK ==
  /\ queue \subseteq [cmd : Command, ticket : Nat]
  /\ ticket \in Nat
  /\ retry \in Seq(Command)
  /\ outbox \subseteq Command
  /\ conn \in ConnState
  /\ tokens \in Int /\ tokens <= Capacity
  /\ pc \in [Thread -> Line]
  /\ held \in [Thread -> Command]
  /\ ack \in [Thread -> Answer]
  /\ left \in [Thread -> 0 .. Limit]
  /\ cursor \in [Thread -> Nat \ {0}]
  /\ asked \subseteq Command
  /\ answer \in [Command -> Answer]
  /\ acted \subseteq Command
  /\ faults \in 0 .. MaxFaults
  /\ crashes \in 0 .. MaxCrashes
  /\ overlapped \in BOOLEAN
  /\ tried \subseteq Command
  /\ late \in [Thread -> Nat]

(* A command the desk dispatched is answered for good, or still on its     *)
(* way: queued, waiting to be retried, or in the hand of the thread that   *)
(* sends it.  "Silently losing it is how a follower misses a trade with    *)
(* nothing in the record" (_dispatch).                                     *)
NothingLost == \A c \in asked : answer[c] = "none" => OnItsWay(c)

(* The same, while requests come one at a time and the process lives.      *)
NothingLostInTurn == ~overlapped /\ crashes = 0 => NothingLost

(* What the provider carried out and the desk has no answer for is in the  *)
(* outbox: "writing the intent first makes the ambiguity one-sided".       *)
OutboxFirst == \A c \in acted : answer[c] = "none" => c \in outbox

(* The same, while the process lives.                                      *)
OutboxFirstAlive == crashes = 0 => OutboxFirst

(* take tests the budget and charges it in two statements, and no lock     *)
(* keeps two drains apart: they overdraw it by one token for each thread   *)
(* but the last, and by no more.  Requests that come one at a time never   *)
(* overdraw it.                                                            *)
BudgetHolds ==
  /\ tokens > -Cardinality(Thread)
  /\ ~overlapped => tokens >= 0

(* A drain reads the connection's state before each command and acts on    *)
(* what it read a few steps later: after the state has changed, a drain    *)
(* under way may hand over one command the new state forbids, and then it  *)
(* stops, whatever the other threads do.                                   *)
LateAtMostOnce == \A t \in Thread : late[t] <= 1

\* Thread t hands its command to the adapter.
HandsOver(t) == pc[t] = "send" /\ pc'[t] = "settle"

(* No command overtakes a more urgent one: while an entry is handed over   *)
(* no flatten, cancel or protective order is left in the queue.            *)
HighestFirst ==
  [][\A t \in Thread : HandsOver(t) /\ ~overlapped =>
       \A e \in queue : Prio[held[t]] <= Prio[e.cmd]]_vars

(* A drain tries a command once: what failed waits for the next drain (the *)
(* reconnect storm the retry list is for), and what has its final answer   *)
(* is never handed over again.                                             *)
OneTryPerDrain ==
  [][\A t \in Thread : HandsOver(t) /\ ~overlapped =>
       held[t] \notin tried /\ answer[held[t]] = "none"]_vars
=============================================================================
