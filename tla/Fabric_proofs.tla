---------------------------- MODULE Fabric_proofs ----------------------------
(***************************************************************************)
(* Proofs about Fabric, for any commands, threads, budgets and limits.     *)
(*                                                                         *)
(* Three facts hold whatever the threads do: what was carried out is in    *)
(* the outbox until it is answered, the budget is overdrawn by less than   *)
(* one token for each thread, and a drain hands over at most one command   *)
(* that a change of state forbids.                                         *)
(* The others need requests to come one at a time.  What makes them        *)
(* inductive is that then a single drain runs, the command it has in hand  *)
(* stays at the head of the queue until it is popped, and the retry list   *)
(* is back in the queue before it is cleared.                              *)
(***************************************************************************)
EXTENDS Fabric, SequenceTheorems, FiniteSetTheorems, TLAPS

\* No two entries of the queue have the same ticket.
Tickets ==
  /\ \A e \in queue : e.ticket < ticket
  /\ \A e, f \in queue : e.ticket = f.ticket => e = f

\* A thread that settles has an answer.
Heard == \A t \in Thread : pc[t] = "settle" => ack[t] # "none"

\* A round that is under way was counted.
Rounds ==
  \A t \in Thread :
    pc[t] \in {"permit", "ask", "charge", "pop", "send", "settle"} => left[t] > 0

Solo == \A t, u \in Thread : pc[t] # "idle" /\ pc[u] # "idle" => t = u

\* The command in hand is still at the head of the queue.
AtHead ==
  \A t \in Thread : pc[t] \in {"permit", "ask", "charge", "pop"} =>
    \E e \in queue : e.cmd = held[t] /\ Lowest(e)

\* The part of the retry list behind the cursor is back in the queue.
Restored ==
  \A t \in Thread : \A i \in 1 .. Len(retry) :
    \/ pc[t] = "put_back" /\ i < cursor[t]
    \/ pc[t] = "clear"
    => \E e \in queue : e.cmd = retry[i]

\* Nothing queued is more urgent than what is being sent.
Urgent ==
  \A t \in Thread : pc[t] = "send" =>
    \A e \in queue : Prio[held[t]] <= Prio[e.cmd]

\* The token that is about to be charged is there.
Covered ==
  /\ tokens >= 0
  /\ \A t \in Thread : pc[t] = "charge" => tokens > 0

\* What a thread is about to hand over the state permits, once the thread
\* handed over something it forbids.
LateStops ==
  \A t \in Thread :
    /\ late[t] <= 1
    /\ late[t] > 0 /\ pc[t] \in {"ask", "charge", "pop", "send"} => MaySend(held[t])

\* The threads that found a token and have yet to charge it.
Charging == {t \in Thread : pc[t] = "charge"}

\* Every token that is missing was found there by a thread.
Overdraft == tokens >= 1 + Cardinality(Charging) - Cardinality(Thread)

InTurn ==
  ~overlapped =>
    /\ Solo /\ AtHead /\ Restored /\ Urgent /\ Covered
    /\ crashes = 0 => NothingLost

-----------------------------------------------------------------------------
(* Type correctness.                                                       *)

LEMMA InitTypeOK == Init => TypeOK
<1> USE FabricAssumption
<1>1. AnyCommand \in Command
  BY DEF AnyCommand
<1> SUFFICES ASSUME Init
             PROVE  TypeOK
  OBVIOUS
<1>2. retry \in Seq(Command)
  BY DEF Init
<1>3. /\ pc \in [Thread -> Line]
      /\ held \in [Thread -> Command]
      /\ ack \in [Thread -> Answer]
  BY <1>1 DEF Init, Line, Answer
<1>4. /\ left \in [Thread -> 0 .. Limit]
      /\ cursor \in [Thread -> Nat \ {0}]
  BY DEF Init
<1>5. /\ answer \in [Command -> Answer]
      /\ acted \subseteq Command /\ tried \subseteq Command
      /\ late \in [Thread -> Nat]
  BY DEF Init, Answer
<1>6. /\ tokens \in Int /\ tokens <= Capacity
      /\ faults \in 0 .. MaxFaults
      /\ crashes \in 0 .. MaxCrashes
  BY DEF Init
<1>7. QED
  BY <1>2, <1>3, <1>4, <1>5, <1>6 DEF Init, TypeOK, ConnState

\* The types of the locals of a drain, apart from which a step changes one
\* or two variables.
LocalsOK ==
  /\ pc \in [Thread -> Line]
  /\ held \in [Thread -> Command]
  /\ ack \in [Thread -> Answer]
  /\ left \in [Thread -> 0 .. Limit]
  /\ cursor \in [Thread -> Nat \ {0}]

LEMMA ReturnTypes ==
  ASSUME LocalsOK, NEW T \in SUBSET Thread, Return(T)
  PROVE  LocalsOK'
<1>1. AnyCommand \in Command
  BY FabricAssumption DEF AnyCommand
<1>2. QED
  BY <1>1, FabricAssumption DEF LocalsOK, Return, Line, Answer

LEMMA NextTypeOK == TypeOK /\ Rounds /\ [Next]_vars => TypeOK'
<1> SUFFICES ASSUME TypeOK, Rounds, [Next]_vars
             PROVE  TypeOK'
  OBVIOUS
<1> USE FabricAssumption DEF TypeOK
<1>1. ASSUME NEW c \in Command, Dispatch(c)
      PROVE  TypeOK'
  BY <1>1 DEF Dispatch, Arrives, Enqueue, threads, watch
<1>2. ASSUME NEW s \in ConnState, SetState(s)
      PROVE  TypeOK'
  BY <1>2 DEF SetState, Arrives, threads, history
<1>3. CASE Refill
  BY <1>3 DEF Refill, threads, ghosts, history, watch
<1>4. ASSUME NEW t \in Thread, Flush(t)
      PROVE  TypeOK'
  BY <1>4 DEF Flush, Arrives, Goto, Line, history
<1>5. ASSUME NEW t \in Thread, Drain(t)
      PROVE  TypeOK'
  <2>1. CASE StopPeeking(t)
    BY <2>1 DEF StopPeeking, Goto, Line, ghosts, history, watch
  <2>2. CASE Peek(t)
    BY <2>2 DEF Peek, Goto, Line, ghosts, history, watch
  <2>3. CASE Permit(t) \/ Ask(t) \/ Charge(t)
    <3>1. pc' \in [Thread -> Line]
      BY <2>3 DEF Permit, Ask, Charge, Goto, Line
    <3>2. tokens' \in Int /\ tokens' <= Capacity
      BY <2>3 DEF Permit, Ask, Charge
    <3>3. QED
      BY <2>3, <3>1, <3>2 DEF Permit, Ask, Charge, ghosts, history, watch
  <2>4. CASE HoldBack(t)
    BY <2>4 DEF HoldBack, Goto, Line, ghosts, history, watch
  <2>5. CASE Pop(t)
    BY <2>5 DEF Pop, Goto, Line, ghosts, history, watch
  <2>6. CASE PopNothing(t)
    BY <2>6, ReturnTypes DEF PopNothing, LocalsOK, ghosts, history, watch
  <2>7. CASE Send(t)
    BY <2>7 DEF Send, Acts, Sending, Hears, Goto, Line, Answer
  <2>8. CASE SendFails(t)
    <3>1. PICK f \in Faults :
            /\ IF f = "ack_lost" THEN Acts(t) ELSE UNCHANGED acted
            /\ Hears(t, CASE f = "rejected" -> "refused"
                          [] f = "unavailable" -> "unavailable"
                          [] OTHER -> "retry")
      BY <2>8 DEF SendFails
    <3>2. acted' \subseteq Command
      BY <3>1 DEF Acts
    <3>3. ack' \in [Thread -> Answer]
      <4>1. CASE f = "rejected"
        BY <3>1, <4>1 DEF Hears, Answer
      <4>2. CASE f = "unavailable"
        BY <3>1, <4>2 DEF Hears, Answer
      <4>3. CASE f # "rejected" /\ f # "unavailable"
        BY <3>1, <4>3 DEF Hears, Answer
      <4>4. QED
        BY <4>1, <4>2, <4>3
    <3>4. faults' \in 0 .. MaxFaults
      BY <2>8 DEF SendFails
    <3>5. late' \in [Thread -> Nat] /\ tried' \subseteq Command
      BY <2>8 DEF SendFails, Sending
    <3>6. pc' \in [Thread -> Line] /\ outbox' \subseteq Command
      BY <2>8 DEF SendFails, Sending, Goto, Line
    <3>7. QED
      BY <2>8, <3>2, <3>3, <3>4, <3>5, <3>6 DEF SendFails, Sending
  <2>9. CASE Settle(t)
    <3>1. retry' \in Seq(Command)
      <4>1. retry' = Append(retry, held[t]) \/ retry' = retry
        BY <2>9 DEF Settle
      <4>2. Append(retry, held[t]) \in Seq(Command)
        BY AppendProperties
      <4>3. QED
        BY <4>1, <4>2
    <3>2. answer' \in [Command -> Answer] /\ outbox' \subseteq Command
      BY <2>9 DEF Settle
    <3>3. left' \in [Thread -> 0 .. Limit]
      <4>1. left[t] > 0 /\ left[t] \in 0 .. Limit
        BY <2>9 DEF Settle, Rounds
      <4>2. left[t] - 1 \in 0 .. Limit
        BY <4>1
      <4>3. QED
        BY <2>9, <4>2 DEF Settle
    <3>4. QED
      BY <2>9, <3>1, <3>2, <3>3 DEF Settle, Goto, Line, watch
  <2>10. CASE PutBack(t)
    <3>1. retry[cursor[t]] \in Command
      BY <2>10 DEF PutBack
    <3>2. /\ queue' \subseteq [cmd : Command, ticket : Nat]
          /\ ticket' \in Nat
      BY <2>10, <3>1 DEF PutBack, Enqueue
    <3>3. cursor' \in [Thread -> Nat \ {0}]
      BY <2>10 DEF PutBack
    <3>4. QED
      BY <2>10, <3>2, <3>3 DEF PutBack, ghosts, history, watch
  <2>11. CASE DonePuttingBack(t)
    BY <2>11 DEF DonePuttingBack, Goto, Line, ghosts, history, watch
  <2>12. CASE Clear(t)
    BY <2>12, ReturnTypes DEF Clear, LocalsOK, ghosts, history, watch
  <2>13. QED
    BY <1>5, <2>1, <2>2, <2>3, <2>4, <2>5, <2>6, <2>7, <2>8, <2>9, <2>10,
       <2>11, <2>12 DEF Drain
<1>6. CASE Crash
  BY <1>6, ReturnTypes DEF Crash, LocalsOK, ConnState
<1>7. CASE UNCHANGED vars
  BY <1>7 DEF vars, threads, ghosts, history, watch
<1>8. QED
  BY <1>1, <1>2, <1>3, <1>4, <1>5, <1>6, <1>7 DEF Next

LEMMA NextRounds == TypeOK /\ Rounds /\ [Next]_vars => Rounds'
<1> SUFFICES ASSUME TypeOK, Rounds, [Next]_vars
             PROVE  Rounds'
  OBVIOUS
<1> USE DEF Rounds, TypeOK
<1>1. ASSUME NEW c \in Command, Dispatch(c)
      PROVE  Rounds'
  BY <1>1 DEF Dispatch, threads
<1>2. ASSUME NEW s \in ConnState, SetState(s)
      PROVE  Rounds'
  BY <1>2 DEF SetState, threads
<1>3. CASE Refill
  BY <1>3 DEF Refill, threads
<1>4. ASSUME NEW t \in Thread, Flush(t)
      PROVE  Rounds'
  BY <1>4 DEF Flush, Goto
<1>5. ASSUME NEW t \in Thread, Drain(t)
      PROVE  Rounds'
  <2>1. CASE StopPeeking(t)
    BY <2>1 DEF StopPeeking, Goto
  <2>2. CASE Peek(t)
    BY <2>2 DEF Peek, Goto
  <2>3. CASE Permit(t) \/ Ask(t) \/ Charge(t)
    BY <2>3 DEF Permit, Ask, Charge, Goto
  <2>4. CASE HoldBack(t)
    BY <2>4 DEF HoldBack, Goto
  <2>5. CASE Pop(t)
    BY <2>5 DEF Pop, Goto
  <2>6. CASE PopNothing(t)
    BY <2>6 DEF PopNothing, Return
  <2>7. CASE Send(t) \/ SendFails(t)
    BY <2>7 DEF Send, SendFails, Sending, Goto
  <2>8. CASE Settle(t)
    BY <2>8 DEF Settle, Goto
  <2>9. CASE PutBack(t)
    BY <2>9 DEF PutBack
  <2>10. CASE DonePuttingBack(t)
    BY <2>10 DEF DonePuttingBack, Goto
  <2>11. CASE Clear(t)
    BY <2>11 DEF Clear, Return
  <2>12. QED
    BY <1>5, <2>1, <2>2, <2>3, <2>4, <2>5, <2>6, <2>7, <2>8, <2>9, <2>10,
       <2>11 DEF Drain
<1>6. CASE Crash
  BY <1>6 DEF Crash, Return
<1>7. CASE UNCHANGED vars
  BY <1>7 DEF vars, threads
<1>8. QED
  BY <1>1, <1>2, <1>3, <1>4, <1>5, <1>6, <1>7 DEF Next

(* Every reachable state of the runtime is well typed: no drain makes more *)
(* rounds than its limit, and the budget never exceeds its capacity.       *)
THEOREM TypeCorrect == Spec => []TypeOK
<1>1. Init => TypeOK /\ Rounds
  BY InitTypeOK DEF Init, Rounds
<1>2. TypeOK /\ Rounds /\ [Next]_vars => (TypeOK /\ Rounds)'
  BY NextTypeOK, NextRounds
<1>3. QED
  BY <1>1, <1>2, PTL DEF Spec

-----------------------------------------------------------------------------
(* What holds whatever the threads do: the provider and the outbox.        *)

\* Only a send, an answer and a crash touch what the provider did, the
\* outbox and the answers.
LEMMA Effects ==
  ASSUME [Next]_vars
  PROVE  \/ UNCHANGED <<outbox, answer, acted, crashes>>
         \/ \E t \in Thread :
              Sending(t) /\ (Acts(t) \/ UNCHANGED acted)
         \/ \E t \in Thread : Settle(t)
         \/ Crash
<1>1. ASSUME NEW c \in Command, Dispatch(c)
      PROVE  UNCHANGED <<outbox, answer, acted, crashes>>
  BY <1>1 DEF Dispatch
<1>2. ASSUME NEW s \in ConnState, SetState(s)
      PROVE  UNCHANGED <<outbox, answer, acted, crashes>>
  BY <1>2 DEF SetState, history
<1>3. CASE Refill
  BY <1>3 DEF Refill, ghosts, history, watch
<1>4. ASSUME NEW t \in Thread, Flush(t)
      PROVE  UNCHANGED <<outbox, answer, acted, crashes>>
  BY <1>4 DEF Flush, history
<1>5. ASSUME NEW t \in Thread, Drain(t)
      PROVE  \/ UNCHANGED <<outbox, answer, acted, crashes>>
             \/ Sending(t) /\ (Acts(t) \/ UNCHANGED acted)
             \/ Settle(t)
  <2>1. CASE Send(t) \/ SendFails(t)
    BY <2>1 DEF Send, SendFails
  <2>2. CASE Settle(t)
    BY <2>2
  <2>3. CASE PopNothing(t) \/ Clear(t)
    BY <2>3 DEF PopNothing, Clear, ghosts, history, watch
  <2>4. CASE \/ StopPeeking(t) \/ Peek(t) \/ Permit(t) \/ Ask(t)
             \/ Charge(t) \/ HoldBack(t)
             \/ Pop(t) \/ PutBack(t) \/ DonePuttingBack(t)
    BY <2>4 DEF StopPeeking, Peek, Permit, Ask, Charge, HoldBack, Pop, PutBack,
                DonePuttingBack, ghosts, history, watch
  <2>5. QED
    BY <1>5, <2>1, <2>2, <2>3, <2>4 DEF Drain
<1>6. CASE UNCHANGED vars
  BY <1>6 DEF vars, ghosts, history, watch
<1>7. QED
  BY <1>1, <1>2, <1>3, <1>4, <1>5, <1>6 DEF Next

LEMMA NextHeard == TypeOK /\ Heard /\ [Next]_vars => Heard'
<1> SUFFICES ASSUME TypeOK, Heard, [Next]_vars
             PROVE  Heard'
  OBVIOUS
<1> USE DEF Heard, TypeOK
<1>1. ASSUME NEW c \in Command, Dispatch(c)
      PROVE  Heard'
  BY <1>1 DEF Dispatch, threads
<1>2. ASSUME NEW s \in ConnState, SetState(s)
      PROVE  Heard'
  BY <1>2 DEF SetState, threads
<1>3. CASE Refill
  BY <1>3 DEF Refill, threads
<1>4. ASSUME NEW t \in Thread, Flush(t)
      PROVE  Heard'
  BY <1>4 DEF Flush, Goto
<1>5. ASSUME NEW t \in Thread, Drain(t)
      PROVE  Heard'
  <2>1. CASE Send(t)
    BY <2>1 DEF Send, Sending, Goto, Hears
  <2>2. CASE SendFails(t)
    <3>1. ack' = [ack EXCEPT ![t] = "refused"]
          \/ ack' = [ack EXCEPT ![t] = "unavailable"]
          \/ ack' = [ack EXCEPT ![t] = "retry"]
      BY <2>2 DEF SendFails, Hears
    <3>2. QED
      BY <2>2, <3>1 DEF SendFails, Sending, Goto
  <2>3. CASE PopNothing(t) \/ Clear(t)
    BY <2>3 DEF PopNothing, Clear, Return
  <2>4. CASE \/ StopPeeking(t) \/ Peek(t) \/ Permit(t) \/ Ask(t)
             \/ Charge(t) \/ HoldBack(t)
             \/ Pop(t) \/ Settle(t) \/ DonePuttingBack(t)
    BY <2>4 DEF StopPeeking, Peek, Permit, Ask, Charge, HoldBack, Pop, Settle,
                DonePuttingBack, Goto
  <2>5. CASE PutBack(t)
    BY <2>5 DEF PutBack
  <2>6. QED
    BY <1>5, <2>1, <2>2, <2>3, <2>4, <2>5 DEF Drain
<1>6. CASE Crash
  BY <1>6 DEF Crash, Return
<1>7. CASE UNCHANGED vars
  BY <1>7 DEF vars, threads
<1>8. QED
  BY <1>1, <1>2, <1>3, <1>4, <1>5, <1>6, <1>7 DEF Next

LEMMA NextOutboxFirst ==
  TypeOK /\ Heard /\ OutboxFirstAlive /\ [Next]_vars => OutboxFirstAlive'
<1> SUFFICES ASSUME TypeOK, Heard, OutboxFirstAlive, [Next]_vars,
                    crashes' = 0,
                    NEW c \in acted', answer'[c] = "none"
             PROVE  c \in outbox'
  BY DEF OutboxFirstAlive, OutboxFirst
<1> USE DEF OutboxFirstAlive, OutboxFirst, TypeOK
<1>1. CASE UNCHANGED <<outbox, answer, acted, crashes>>
  BY <1>1
<1>2. ASSUME NEW t \in Thread, Sending(t),
             Acts(t) \/ UNCHANGED acted
      PROVE  c \in outbox'
  <2>1. CASE c = held[t]
    BY <1>2, <2>1 DEF Sending
  <2>2. CASE c # held[t]
    BY <1>2, <2>2 DEF Sending, Acts
  <2>3. QED
    BY <2>1, <2>2
<1>3. ASSUME NEW t \in Thread, Settle(t)
      PROVE  c \in outbox'
  <2>1. c \in acted /\ crashes = 0
    BY <1>3 DEF Settle
  <2>2. CASE ack[t] = "retry"
    BY <1>3, <2>1, <2>2 DEF Settle
  <2>3. CASE ack[t] # "retry"
    <3>1. c # held[t]
      BY <1>3, <2>3 DEF Settle, Heard
    <3>2. answer[c] = "none" /\ (outbox' = outbox \/ outbox' = outbox \ {held[t]})
      BY <1>3, <2>3, <3>1 DEF Settle
    <3>3. QED
      BY <2>1, <3>1, <3>2
  <2>4. QED
    BY <2>2, <2>3
<1>4. CASE Crash
  BY <1>4, FabricAssumption DEF Crash
<1>5. QED
  BY <1>1, <1>2, <1>3, <1>4, Effects

(* While the process lives, what the provider carried out and the desk has *)
(* no answer for is in the outbox, whatever the drains do to the queue.    *)
THEOREM OutboxComesFirst == Spec => []OutboxFirstAlive
<1>1. Init => Heard /\ OutboxFirstAlive
  BY DEF Init, Heard, OutboxFirstAlive, OutboxFirst
<1>2. QED
  BY <1>1, TypeCorrect, NextHeard, NextOutboxFirst, PTL DEF Spec

-----------------------------------------------------------------------------
(* What holds while requests come one at a time.                           *)

LEMMA NextTickets == TypeOK /\ Tickets /\ [Next]_vars => Tickets'
<1> SUFFICES ASSUME TypeOK, Tickets, [Next]_vars
             PROVE  Tickets'
  OBVIOUS
<1> USE DEF Tickets, TypeOK
<1>1. ASSUME NEW c \in Command, Enqueue(c)
      PROVE  Tickets'
  BY <1>1 DEF Enqueue
<1>2. CASE UNCHANGED <<queue, ticket>>
  BY <1>2
<1>3. ASSUME NEW t \in Thread, Drain(t)
      PROVE  Tickets'
  <2>1. CASE Pop(t)
    BY <2>1 DEF Pop
  <2>2. CASE PutBack(t)
    <3>1. retry[cursor[t]] \in Command
      BY <2>2 DEF PutBack
    <3>2. QED
      BY <1>1, <2>2, <3>1 DEF PutBack
  <2>3. CASE \/ StopPeeking(t) \/ Peek(t) \/ Permit(t) \/ Ask(t)
             \/ Charge(t) \/ HoldBack(t)
             \/ PopNothing(t) \/ Send(t) \/ SendFails(t) \/ Settle(t)
             \/ DonePuttingBack(t) \/ Clear(t)
    BY <1>2, <2>3 DEF StopPeeking, Peek, Permit, Ask, Charge, HoldBack, PopNothing, Send,
         SendFails, Sending, Settle, DonePuttingBack, Clear
  <2>4. QED
    BY <1>3, <2>1, <2>2, <2>3 DEF Drain
<1>4. CASE Crash
  BY <1>4 DEF Crash
<1>5. QED
  BY <1>1, <1>2, <1>3, <1>4 DEF Next, Dispatch, SetState, Refill, Flush, vars

\* While requests come one at a time, one arrives when none is served.
LEMMA InTurnSteps ==
  ASSUME TypeOK, [Next]_vars, ~overlapped'
  PROVE  /\ ~overlapped
         /\ \/ Quiet /\ \E c \in Command : Dispatch(c)
            \/ Quiet /\ \E s \in ConnState : SetState(s)
            \/ Refill
            \/ Quiet /\ \E t \in Thread : Flush(t)
            \/ \E t \in Thread : Drain(t)
            \/ Crash
            \/ UNCHANGED vars
<1>1. ASSUME NEW c \in Command, Dispatch(c)
      PROVE  ~overlapped /\ Quiet
  BY <1>1 DEF Dispatch, Arrives
<1>2. ASSUME NEW s \in ConnState, SetState(s)
      PROVE  ~overlapped /\ Quiet
  BY <1>2 DEF SetState, Arrives
<1>3. ASSUME NEW t \in Thread, Flush(t)
      PROVE  ~overlapped /\ Quiet
  BY <1>3 DEF Flush, Arrives
<1>4. ASSUME Refill \/ UNCHANGED vars
      PROVE  ~overlapped
  BY <1>4 DEF Refill, vars, ghosts
<1>5. ASSUME NEW t \in Thread, Drain(t)
      PROVE  ~overlapped
  BY <1>5 DEF Drain, StopPeeking, Peek, Permit, Ask, Charge, HoldBack, Pop, PopNothing,
       Send, SendFails, Sending, Settle, PutBack, DonePuttingBack, Clear, ghosts
<1>6. ASSUME Crash
      PROVE  ~overlapped
  BY <1>6 DEF Crash
<1>7. QED
  BY <1>1, <1>2, <1>3, <1>4, <1>5, <1>6 DEF Next

\* A step of a drain changes where its own thread is, and no other.
LEMMA OwnPlace ==
  ASSUME TypeOK, NEW t \in Thread, Drain(t)
  PROVE  /\ pc[t] # "idle"
         /\ \A u \in Thread : u # t => pc'[u] = pc[u] /\ held'[u] = held[u]
<1>1. CASE PopNothing(t) \/ Clear(t)
  BY <1>1 DEF PopNothing, Clear, Return, TypeOK
<1>2. CASE \/ StopPeeking(t) \/ Peek(t) \/ Permit(t) \/ Ask(t) \/ Charge(t)
           \/ HoldBack(t) \/ Pop(t)
           \/ Settle(t) \/ PutBack(t) \/ DonePuttingBack(t)
  BY <1>2 DEF StopPeeking, Peek, Permit, Ask, Charge, HoldBack, Pop, Settle, PutBack,
              DonePuttingBack, Goto, TypeOK
<1>3. CASE Send(t) \/ SendFails(t)
  BY <1>3 DEF Send, SendFails, Sending, Goto, TypeOK
<1>4. QED
  BY <1>1, <1>2, <1>3 DEF Drain

LEMMA NextSolo ==
  ASSUME TypeOK, Solo, [Next]_vars, ~overlapped'
  PROVE  Solo'
<1>1. CASE UNCHANGED pc
  BY <1>1 DEF Solo
<1>2. CASE Quiet /\ \E t \in Thread : Flush(t)
  BY <1>2 DEF Quiet, Flush, Goto, Solo, TypeOK
<1>3. ASSUME NEW t \in Thread, Drain(t)
      PROVE  Solo'
  BY <1>3, OwnPlace DEF Solo
<1>4. CASE Crash
  BY <1>4 DEF Crash, Return, Solo
<1>5. QED
  BY <1>1, <1>2, <1>3, <1>4, InTurnSteps
     DEF Dispatch, SetState, Refill, vars, threads

LEMMA NextAtHead ==
  ASSUME TypeOK, Solo, AtHead, [Next]_vars, ~overlapped'
  PROVE  AtHead'
<1> USE DEF AtHead, Lowest
<1>1. CASE Quiet /\ UNCHANGED <<pc, held>>
  BY <1>1 DEF Quiet
<1>2. CASE UNCHANGED <<queue, pc, held>>
  BY <1>2
<1>3. CASE Quiet /\ \E t \in Thread : Flush(t)
  BY <1>3 DEF Quiet, Flush, Goto, TypeOK
<1>4. ASSUME NEW t \in Thread, Drain(t)
      PROVE  AtHead'
  <2>1. ASSUME NEW u \in Thread, u # t
        PROVE  pc'[u] \notin {"permit", "ask", "charge", "pop"}
    BY <1>4, <2>1, OwnPlace DEF Solo
  <2>2. CASE pc'[t] \notin {"permit", "ask", "charge", "pop"}
    BY <2>1, <2>2
  <2>3. CASE Peek(t)
    BY <2>1, <2>3 DEF Peek, Goto, TypeOK
  <2>4. CASE Permit(t) \/ Ask(t) \/ Charge(t)
    BY <2>1, <2>4 DEF Permit, Ask, Charge, Goto, TypeOK
  <2>5. CASE PopNothing(t) \/ Clear(t)
    BY <2>2, <2>5 DEF PopNothing, Clear, Return
  <2>6. CASE \/ StopPeeking(t) \/ HoldBack(t) \/ Pop(t) \/ Settle(t)
             \/ PutBack(t) \/ DonePuttingBack(t)
    BY <2>2, <2>6 DEF StopPeeking, HoldBack, Pop, Settle, PutBack,
                      DonePuttingBack, Goto, TypeOK
  <2>7. CASE Send(t) \/ SendFails(t)
    BY <2>2, <2>7 DEF Send, SendFails, Sending, Goto, TypeOK
  <2>8. QED
    BY <1>4, <2>3, <2>4, <2>5, <2>6, <2>7 DEF Drain
<1>5. CASE Crash
  BY <1>5 DEF Crash, Return
<1>6. QED
  BY <1>1, <1>2, <1>3, <1>4, <1>5, InTurnSteps
     DEF Dispatch, SetState, Refill, vars, threads

LEMMA NextRestored ==
  ASSUME TypeOK, Solo, Restored, [Next]_vars, ~overlapped'
  PROVE  Restored'
<1> USE DEF Restored
<1>1. CASE Quiet /\ UNCHANGED <<pc, cursor>>
  BY <1>1 DEF Quiet
<1>2. CASE UNCHANGED <<queue, retry, pc, cursor>>
  BY <1>2
<1>3. CASE Quiet /\ \E t \in Thread : Flush(t)
  BY <1>3 DEF Quiet, Flush, Goto, TypeOK
<1>4. ASSUME NEW t \in Thread, Drain(t)
      PROVE  Restored'
  <2>1. ASSUME NEW u \in Thread, u # t
        PROVE  pc'[u] = "idle"
    BY <1>4, <2>1, OwnPlace DEF Solo
  <2>2. CASE pc'[t] \notin {"put_back", "clear"}
    BY <2>1, <2>2
  <2>3. CASE StopPeeking(t) \/ HoldBack(t)
    <3>1. cursor'[t] = 1
      BY <2>3 DEF StopPeeking, HoldBack, TypeOK
    <3>2. pc'[t] = "put_back"
      BY <2>3 DEF StopPeeking, HoldBack, Goto, TypeOK
    <3>3. \A i \in 1 .. Len(retry') : ~(i < cursor'[t])
      BY <3>1
    <3>4. QED
      BY <2>1, <3>2, <3>3
  <2>4. CASE PutBack(t)
    <3>1. /\ retry' = retry /\ pc' = pc /\ pc[t] = "put_back"
          /\ cursor'[t] = cursor[t] + 1
          /\ queue' = queue \cup {[cmd |-> retry[cursor[t]], ticket |-> ticket]}
      BY <2>4 DEF PutBack, Enqueue, TypeOK
    <3>2. ASSUME NEW i \in 1 .. Len(retry), i < cursor'[t]
          PROVE  \E e \in queue' : e.cmd = retry[i]
      <4>1. CASE i = cursor[t]
        <5>1. [cmd |-> retry[i], ticket |-> ticket] \in queue'
          BY <3>1, <4>1
        <5>2. QED
          BY <5>1
      <4>2. CASE i < cursor[t]
        BY <3>1, <4>2
      <4>3. cursor[t] \in Nat
        BY DEF TypeOK
      <4>4. QED
        BY <3>1, <3>2, <4>1, <4>2, <4>3
    <3>3. QED
      BY <2>1, <3>1, <3>2
  <2>5. CASE DonePuttingBack(t)
    <3>1. /\ UNCHANGED <<queue, retry>> /\ pc[t] = "put_back"
          /\ cursor[t] > Len(retry) /\ cursor[t] \in Nat
      BY <2>5 DEF DonePuttingBack, TypeOK
    <3>2. Len(retry) \in Nat
      BY LenProperties DEF TypeOK
    <3>3. \A i \in 1 .. Len(retry) : i < cursor[t]
      BY <3>1, <3>2
    <3>4. QED
      BY <2>1, <3>1, <3>3
  <2>6. CASE PopNothing(t) \/ Clear(t)
    BY <2>2, <2>6 DEF PopNothing, Clear, Return
  <2>7. CASE Peek(t) \/ Permit(t) \/ Ask(t) \/ Charge(t) \/ Pop(t) \/ Settle(t)
    BY <2>2, <2>7 DEF Peek, Permit, Ask, Charge, Pop, Settle, Goto, TypeOK
  <2>8. CASE Send(t) \/ SendFails(t)
    BY <2>2, <2>8 DEF Send, SendFails, Sending, Goto, TypeOK
  <2>9. QED
    BY <1>4, <2>3, <2>4, <2>5, <2>6, <2>7, <2>8 DEF Drain
<1>5. CASE Crash
  BY <1>5 DEF Crash, Return
<1>6. QED
  BY <1>1, <1>2, <1>3, <1>4, <1>5, InTurnSteps
     DEF Dispatch, SetState, Refill, vars, threads

LEMMA EntryTypes ==
  ASSUME TypeOK, NEW e \in queue
  PROVE  e.cmd \in Command /\ e.ticket \in Int /\ Prio[e.cmd] \in Int
<1>1. e \in [cmd : Command, ticket : Nat]
  BY DEF TypeOK
<1>2. e.cmd \in Command /\ e.ticket \in Int
  BY <1>1
<1>3. Prio[e.cmd] \in 0 .. 4
  BY <1>2, FabricAssumption
<1>4. QED
  BY <1>2, <1>3

\* While requests come one at a time, what is popped is what was peeked.
LEMMA PopsWhatItHolds ==
  ASSUME TypeOK, Tickets, AtHead, NEW t \in Thread, pc[t] = "pop",
         NEW e \in queue, Lowest(e)
  PROVE  e.cmd = held[t]
<1>1. PICK f \in queue : f.cmd = held[t] /\ Lowest(f)
  BY DEF AtHead
<1>2. /\ Prio[e.cmd] \in Int /\ Prio[f.cmd] \in Int
      /\ e.ticket \in Int /\ f.ticket \in Int
  BY EntryTypes
<1>3. e.ticket = f.ticket
  BY <1>1, <1>2 DEF Lowest
<1>4. QED
  BY <1>1, <1>3 DEF Tickets

LEMMA NextUrgent ==
  ASSUME TypeOK, Tickets, Solo, AtHead, Urgent, [Next]_vars, ~overlapped'
  PROVE  Urgent'
<1> USE DEF Urgent
<1>1. CASE Quiet /\ UNCHANGED <<pc, held>>
  BY <1>1 DEF Quiet
<1>2. CASE UNCHANGED <<queue, pc, held>>
  BY <1>2
<1>3. CASE Quiet /\ \E t \in Thread : Flush(t)
  BY <1>3 DEF Quiet, Flush, Goto, TypeOK
<1>4. ASSUME NEW t \in Thread, Drain(t)
      PROVE  Urgent'
  <2>1. ASSUME NEW u \in Thread, u # t
        PROVE  pc'[u] = "idle"
    BY <1>4, <2>1, OwnPlace DEF Solo
  <2>2. CASE pc'[t] # "send"
    BY <2>1, <2>2
  <2>3. CASE Pop(t)
    <3>1. PICK e \in queue : Lowest(e) /\ queue' = queue \ {e}
      BY <2>3 DEF Pop
    <3>2. e.cmd = held[t]
      BY <2>3, <3>1, PopsWhatItHolds DEF Pop
    <3>3. \A g \in queue' : Prio[held[t]] <= Prio[g.cmd]
      <4>1. \A g \in queue : Prio[g.cmd] \in Int
        BY EntryTypes
      <4>2. QED
        BY <3>1, <3>2, <4>1 DEF Lowest
    <3>4. UNCHANGED held
      BY <2>3 DEF Pop
    <3>5. QED
      BY <2>1, <3>3, <3>4
  <2>4. CASE PopNothing(t) \/ Clear(t)
    BY <2>2, <2>4 DEF PopNothing, Clear, Return
  <2>5. CASE \/ StopPeeking(t) \/ Peek(t) \/ Permit(t) \/ Ask(t) \/ Charge(t)
             \/ HoldBack(t) \/ Settle(t) \/ PutBack(t) \/ DonePuttingBack(t)
    BY <2>2, <2>5 DEF StopPeeking, Peek, Permit, Ask, Charge, HoldBack, Settle,
                      PutBack, DonePuttingBack, Goto, TypeOK
  <2>6. CASE Send(t) \/ SendFails(t)
    BY <2>2, <2>6 DEF Send, SendFails, Sending, Goto, TypeOK
  <2>7. QED
    BY <1>4, <2>3, <2>4, <2>5, <2>6 DEF Drain
<1>5. CASE Crash
  BY <1>5 DEF Crash, Return
<1>6. QED
  BY <1>1, <1>2, <1>3, <1>4, <1>5, InTurnSteps
     DEF Dispatch, SetState, Refill, vars, threads

\* A drain that runs alone finds the token it tested still there.
LEMMA NextCovered ==
  ASSUME TypeOK, Solo, Covered, [Next]_vars, ~overlapped'
  PROVE  Covered'
<1> USE DEF Covered, TypeOK
<1>1. CASE UNCHANGED <<pc, tokens>>
  BY <1>1
<1>2. CASE Refill
  BY <1>2 DEF Refill, threads
<1>3. CASE \E t \in Thread : Flush(t)
  BY <1>3 DEF Flush, Goto
<1>4. ASSUME NEW t \in Thread, Drain(t)
      PROVE  Covered'
  <2>1. ASSUME NEW u \in Thread, u # t
        PROVE  pc'[u] = "idle"
    BY <1>4, <2>1, OwnPlace DEF Solo
  <2>2. CASE UNCHANGED tokens /\ pc'[t] # "charge"
    BY <2>1, <2>2
  <2>3. CASE Ask(t)
    BY <2>1, <2>3 DEF Ask
  <2>4. CASE Charge(t)
    BY <2>1, <2>4 DEF Charge, Goto
  <2>5. CASE PopNothing(t) \/ Clear(t)
    BY <2>2, <2>5 DEF PopNothing, Clear, Return
  <2>6. CASE \/ StopPeeking(t) \/ Peek(t) \/ Permit(t) \/ HoldBack(t) \/ Pop(t)
             \/ Settle(t) \/ PutBack(t) \/ DonePuttingBack(t)
    BY <2>2, <2>6 DEF StopPeeking, Peek, Permit, HoldBack, Pop, Settle, PutBack,
                      DonePuttingBack, Goto
  <2>7. CASE Send(t) \/ SendFails(t)
    BY <2>2, <2>7 DEF Send, SendFails, Sending, Goto
  <2>8. QED
    BY <1>4, <2>3, <2>4, <2>5, <2>6, <2>7 DEF Drain
<1>5. CASE Crash
  BY <1>5, FabricAssumption DEF Crash, Return
<1>6. QED
  BY <1>1, <1>2, <1>3, <1>4, <1>5, InTurnSteps
     DEF Dispatch, SetState, vars, threads

\* A command on its way is still so after a step that leaves the queue's and
\* the retry list's commands where they are and no thread out of its hand.
LEMMA StaysOnItsWay ==
  ASSUME NEW c, OnItsWay(c), queue \subseteq queue', retry' = retry,
         \A u \in Thread : pc[u] \in {"send", "settle"} =>
           pc'[u] \in {"send", "settle"} /\ held'[u] = held[u]
  PROVE  OnItsWay(c)'
BY DEF OnItsWay

\* The answer of a thread that runs alone settles its command: it is put on
\* the retry list or answered, and every other command stays where it was.
LEMMA SettleKeeps ==
  ASSUME TypeOK, Heard, Solo, NothingLost, NEW t \in Thread, Settle(t)
  PROVE  NothingLost'
<1> SUFFICES ASSUME NEW c \in asked, answer'[c] = "none"
             PROVE  OnItsWay(c)'
  BY DEF NothingLost, Settle
<1>1. c \in Command /\ held[t] \in Command /\ pc[t] = "settle"
  BY DEF Settle, TypeOK
<1>2. CASE ack[t] = "retry"
  <2>1. retry' = Append(retry, held[t]) /\ UNCHANGED <<queue, answer, held>>
    BY <1>2 DEF Settle
  <2>2. /\ Len(retry') = Len(retry) + 1 /\ Len(retry) \in Nat
        /\ \A i \in 1 .. Len(retry) : retry'[i] = retry[i]
        /\ retry'[Len(retry) + 1] = held[t]
    BY <2>1, <1>1, AppendProperties, LenProperties DEF TypeOK
  <2>3. OnItsWay(c)
    BY <2>1 DEF NothingLost
  <2>4. CASE \E e \in queue : e.cmd = c
    BY <2>1, <2>4 DEF OnItsWay
  <2>5. CASE \E i \in 1 .. Len(retry) : retry[i] = c
    BY <2>2, <2>5 DEF OnItsWay
  <2>6. CASE c = held[t]
    BY <2>2, <2>6 DEF OnItsWay
  <2>7. \A u \in Thread : held[u] = c /\ pc[u] \in {"send", "settle"} => u = t
    BY <1>1 DEF Solo
  <2>8. QED
    BY <2>3, <2>4, <2>5, <2>6, <2>7 DEF OnItsWay
<1>3. CASE ack[t] # "retry"
  <2>1. /\ answer' = [answer EXCEPT ![held[t]] = ack[t]]
        /\ UNCHANGED <<queue, retry, held>>
    BY <1>3 DEF Settle
  <2>2. ack[t] # "none"
    BY <1>1 DEF Heard
  <2>3. c # held[t] /\ answer[c] = "none"
    BY <1>1, <2>1, <2>2 DEF TypeOK
  <2>4. OnItsWay(c)
    BY <2>3 DEF NothingLost
  <2>5. \A u \in Thread : held[u] = c => pc[u] \notin {"send", "settle"}
    BY <1>1, <2>3 DEF Solo
  <2>6. QED
    BY <2>1, <2>4, <2>5 DEF OnItsWay
<1>4. QED
  BY <1>2, <1>3

LEMMA NextNothingLost ==
  ASSUME TypeOK, Tickets, Heard, Solo, AtHead, Restored, NothingLost,
         [Next]_vars, ~overlapped', crashes' = 0
  PROVE  NothingLost'
<1>1. ASSUME NEW c \in Command, Dispatch(c)
      PROVE  NothingLost'
  <2>1. /\ asked' = asked \cup {c}
        /\ queue \subseteq queue' /\ [cmd |-> c, ticket |-> ticket] \in queue'
        /\ UNCHANGED <<retry, answer, pc, held>>
    BY <1>1 DEF Dispatch, Enqueue, threads
  <2>2. ASSUME NEW d \in asked, answer'[d] = "none"
        PROVE  OnItsWay(d)'
    BY <2>1, <2>2 DEF NothingLost, OnItsWay
  <2>3. \E e \in queue' : e.cmd = c
    BY <2>1
  <2>4. QED
    BY <2>1, <2>2, <2>3 DEF NothingLost, OnItsWay
<1>2. CASE UNCHANGED <<asked, answer, queue, retry, pc, held>>
  BY <1>2 DEF NothingLost, OnItsWay
<1>3. CASE Quiet /\ \E t \in Thread : Flush(t)
  <2>1. /\ UNCHANGED <<asked, answer, queue, retry>>
        /\ \A u \in Thread : pc[u] \notin {"send", "settle"}
    BY <1>3 DEF Quiet, Flush, history
  <2>2. QED
    BY <2>1 DEF NothingLost, OnItsWay
<1>4. ASSUME NEW t \in Thread, Drain(t)
      PROVE  NothingLost'
  <2>1. CASE \/ StopPeeking(t) \/ Peek(t) \/ Permit(t) \/ Ask(t)
             \/ Charge(t) \/ HoldBack(t)
             \/ PutBack(t) \/ DonePuttingBack(t)
    <3>1. /\ UNCHANGED <<asked, answer, retry>> /\ queue \subseteq queue'
          /\ pc[t] \notin {"send", "settle"}
      BY <2>1 DEF StopPeeking, Peek, Permit, Ask, Charge, HoldBack, PutBack, Enqueue,
                  DonePuttingBack, ghosts, history, watch
    <3>2. QED
      BY <3>1, <1>4, OwnPlace, StaysOnItsWay DEF NothingLost
  <2>2. CASE Pop(t)
    <3>1. PICK e \in queue : Lowest(e) /\ queue' = queue \ {e}
      BY <2>2 DEF Pop
    <3>2. /\ e.cmd = held[t] /\ pc[t] = "pop" /\ pc'[t] = "send"
          /\ UNCHANGED <<asked, answer, retry, held>>
      BY <2>2, <3>1, PopsWhatItHolds DEF Pop, Goto, TypeOK, ghosts, history, watch
    <3>3. ASSUME NEW d \in asked, answer'[d] = "none"
          PROVE  OnItsWay(d)'
      <4>1. OnItsWay(d)
        BY <3>2, <3>3 DEF NothingLost
      <4>2. \A u \in Thread : pc[u] \notin {"send", "settle"}
        BY <3>2 DEF Solo
      <4>3. QED
        BY <3>1, <3>2, <4>1, <4>2 DEF OnItsWay
    <3>4. QED
      BY <3>2, <3>3 DEF NothingLost
  <2>3. CASE PopNothing(t)
    BY <2>3 DEF PopNothing, AtHead
  <2>4. CASE Send(t) \/ SendFails(t)
    <3>1. /\ UNCHANGED <<asked, answer, queue, retry, held>>
          /\ pc'[t] = "settle"
      BY <2>4 DEF Send, SendFails, Sending, Goto, TypeOK
    <3>2. QED
      BY <3>1, <1>4, OwnPlace, StaysOnItsWay DEF NothingLost
  <2>5. CASE Settle(t)
    BY <2>5, SettleKeeps
  <2>6. CASE Clear(t)
    <3>1. /\ UNCHANGED <<asked, answer, queue>>
          /\ \A i \in 1 .. Len(retry) : \E e \in queue : e.cmd = retry[i]
          /\ \A u \in Thread : pc[u] \notin {"send", "settle"}
      BY <2>6 DEF Clear, Restored, Solo, ghosts, history, watch
    <3>2. QED
      BY <3>1 DEF NothingLost, OnItsWay
  <2>7. QED
    BY <1>4, <2>1, <2>2, <2>3, <2>4, <2>5, <2>6 DEF Drain
<1>5. ~Crash
  BY FabricAssumption DEF Crash, TypeOK
<1>6. QED
  BY <1>1, <1>2, <1>3, <1>4, <1>5, InTurnSteps
     DEF SetState, Refill, vars, threads, ghosts, history, watch

LEMMA NextInTurn ==
  TypeOK /\ Tickets /\ Heard /\ InTurn /\ [Next]_vars => InTurn'
<1> SUFFICES ASSUME TypeOK, Tickets, Heard, InTurn, [Next]_vars, ~overlapped'
             PROVE  /\ (Solo /\ AtHead /\ Restored /\ Urgent /\ Covered)'
                    /\ (crashes = 0 => NothingLost)'
  BY DEF InTurn
<1>1. /\ Solo /\ AtHead /\ Restored /\ Urgent /\ Covered
      /\ crashes = 0 => NothingLost
  BY InTurnSteps DEF InTurn
<1>2. (Solo /\ AtHead /\ Restored /\ Urgent /\ Covered)'
  BY <1>1, NextSolo, NextAtHead, NextRestored, NextUrgent, NextCovered
<1>3. crashes' = 0 => crashes = 0
  <2>1. CASE Crash
    BY <2>1, FabricAssumption DEF Crash, TypeOK
  <2>2. CASE ~Crash
    BY <2>2, Effects DEF Sending, Settle
  <2>3. QED
    BY <2>1, <2>2
<1>4. ASSUME crashes' = 0
      PROVE  NothingLost'
  BY <1>1, <1>3, <1>4, NextNothingLost
<1>5. QED
  BY <1>2, <1>4

LEMMA InTurnHolds == Spec => [](TypeOK /\ Tickets /\ Heard /\ InTurn)
<1>1. Init => Tickets /\ Heard /\ InTurn
  BY FabricAssumption DEF Init, Tickets, Heard, InTurn, Solo, AtHead, Restored, Urgent,
         Covered, NothingLost
<1>2. QED
  BY <1>1, TypeCorrect, NextTickets, NextHeard, NextInTurn, PTL DEF Spec

(* While requests come one at a time and the process lives, every command  *)
(* the desk dispatched is answered or still on its way, however often the  *)
(* adapter fails, the budget runs out and the connection changes.          *)
THEOREM NoneIsLostInTurn == Spec => []NothingLostInTurn
<1>1. InTurn => NothingLostInTurn
  BY DEF InTurn, NothingLostInTurn
<1>2. QED
  BY <1>1, InTurnHolds, PTL

(* While requests come one at a time, no command is handed over while a    *)
(* more urgent one is queued.                                              *)
THEOREM MostUrgentFirst == Spec => HighestFirst
<1>1. InTurn =>
        [\A t \in Thread : HandsOver(t) /\ ~overlapped =>
           \A e \in queue : Prio[held[t]] <= Prio[e.cmd]]_vars
  BY DEF InTurn, Urgent, HandsOver
<1>2. QED
  BY <1>1, InTurnHolds, PTL DEF HighestFirst

-----------------------------------------------------------------------------
(* What has its answer.                                                    *)

\* Put back into the queue already, by a drain that has yet to clear the list.
Again(i) ==
  \E t \in Thread : pc[t] = "clear" \/ (pc[t] = "put_back" /\ i < cursor[t])

\* A command is in one place at a time: queued once, waiting once to be
\* retried or in one hand; the retry list is both only while it is put back.
OnePlace ==
  /\ \A e, f \in queue : e.cmd = f.cmd => e = f
  /\ \A i, j \in 1 .. Len(retry) : retry[i] = retry[j] => i = j
  /\ \A i \in 1 .. Len(retry) : Again(i) \/ \A e \in queue : e.cmd # retry[i]
  /\ \A t \in Thread : pc[t] \in {"send", "settle"} =>
       /\ \A e \in queue : e.cmd # held[t]
       /\ \A i \in 1 .. Len(retry) : retry[i] # held[t]

\* What is on its way was dispatched and has no answer, and what was not
\* dispatched has none either.
Unanswered ==
  \A c \in Command :
    /\ OnItsWay(c) => c \in asked /\ answer[c] = "none"
    /\ c \notin asked => answer[c] = "none"

Once == ~overlapped => OnePlace /\ Unanswered

\* A step that touches neither the queue nor the list, and no hand.
LEMMA OnceFrame ==
  ASSUME TypeOK, OnePlace, Unanswered, UNCHANGED <<queue, retry, asked, answer>>,
         \A t \in Thread : pc'[t] \in {"send", "settle"} => pc[t] \in {"send", "settle"} /\ held'[t] = held[t],
         \A i \in 1 .. Len(retry) : Again(i) => Again(i)'
  PROVE  OnePlace' /\ Unanswered'
<1>1. OnePlace'
  BY DEF OnePlace
<1>2. \A c \in Command : OnItsWay(c)' => OnItsWay(c)
  BY DEF OnItsWay
<1> QED BY <1>1, <1>2 DEF Unanswered

LEMMA DispatchOnce ==
  ASSUME TypeOK, OnePlace, Unanswered, Quiet, NEW c \in Command, Dispatch(c)
  PROVE  OnePlace' /\ Unanswered'
<1>1. ~OnItsWay(c) /\ answer[c] = "none"
  BY DEF Dispatch, Unanswered
<1>2. /\ queue' = queue \cup {[cmd |-> c, ticket |-> ticket]} /\ asked' = asked \cup {c}
      /\ UNCHANGED <<retry, answer, pc, held, cursor>>
  BY DEF Dispatch, Enqueue, threads
<1>3. \A e \in queue' : e \in queue \/ (e = [cmd |-> c, ticket |-> ticket] /\ e.cmd = c)
  BY <1>2
<1>4. \A e \in queue : e.cmd # c
  BY <1>1 DEF OnItsWay
<1>5. \A i \in 1 .. Len(retry) : retry[i] # c
  BY <1>1 DEF OnItsWay
<1>6. OnePlace'
  BY <1>2, <1>3, <1>4, <1>5 DEF OnePlace, Quiet, Again
<1>7. \A d \in Command : OnItsWay(d)' => OnItsWay(d) \/ d = c
  BY <1>2, <1>3 DEF OnItsWay
<1> QED BY <1>1, <1>2, <1>6, <1>7 DEF Unanswered

LEMMA SettleOnce ==
  ASSUME TypeOK, Heard, Solo, OnePlace, Unanswered, NEW t \in Thread, Settle(t)
  PROVE  OnePlace' /\ Unanswered'
<1>1. /\ pc[t] = "settle" /\ held[t] \in Command
      /\ pc' = [pc EXCEPT ![t] = "peek"] /\ UNCHANGED <<queue, held, asked, cursor>>
  BY DEF Settle, Goto, TypeOK
<1>2. \A u \in Thread : pc'[u] \in {"peek", "idle"} /\ (pc[u] \in {"settle", "idle"})
  BY <1>1 DEF Solo, TypeOK
<1>3. /\ \A e \in queue : e.cmd # held[t]
      /\ \A i \in 1 .. Len(retry) : retry[i] # held[t] /\ \A e \in queue : e.cmd # retry[i]
      /\ OnItsWay(held[t])
  BY <1>1, <1>2 DEF OnePlace, Again, OnItsWay
<1>4. CASE ack[t] = "retry"
  <2>1. retry' = Append(retry, held[t]) /\ answer' = answer
    BY <1>4 DEF Settle
  <2>2. /\ Len(retry') = Len(retry) + 1 /\ Len(retry) \in Nat
        /\ \A i \in 1 .. Len(retry) : retry'[i] = retry[i]
        /\ retry'[Len(retry) + 1] = held[t]
    BY <2>1, <1>1, AppendProperties, LenProperties DEF TypeOK
  <2>3. \A i \in 1 .. Len(retry') : i \in 1 .. Len(retry) \/ i = Len(retry) + 1
    BY <2>2
  <2>4. OnePlace'
    <3>1. \A i, j \in 1 .. Len(retry') : retry'[i] = retry'[j] => i = j
      BY <1>3, <2>2, <2>3 DEF OnePlace
    <3>2. \A i \in 1 .. Len(retry') : \A e \in queue : e.cmd # retry'[i]
      BY <1>3, <2>2, <2>3
    <3> QED BY <1>1, <1>2, <3>1, <3>2 DEF OnePlace
  <2>5. \A c \in Command : OnItsWay(c)' => OnItsWay(c)
    <3>1. \A i \in 1 .. Len(retry') : retry'[i] = held[t] \/ \E j \in 1 .. Len(retry) : retry'[i] = retry[j]
      BY <2>2, <2>3
    <3> QED BY <1>1, <1>2, <1>3, <3>1 DEF OnItsWay
  <2> QED BY <1>1, <2>1, <2>4, <2>5 DEF Unanswered
<1>5. CASE ack[t] # "retry"
  <2>1. retry' = retry /\ answer' = [answer EXCEPT ![held[t]] = ack[t]]
    BY <1>5 DEF Settle
  <2>2. OnePlace'
    BY <1>1, <1>2, <1>3, <2>1 DEF OnePlace
  <2>3. \A c \in Command : OnItsWay(c)' => OnItsWay(c) /\ c # held[t]
    BY <1>1, <1>2, <1>3, <2>1 DEF OnItsWay
  <2>4. held[t] \in asked
    BY <1>1, <1>3 DEF Unanswered
  <2> QED BY <1>1, <2>1, <2>2, <2>3, <2>4 DEF Unanswered, TypeOK
<1> QED BY <1>4, <1>5

LEMMA PutBackOnce ==
  ASSUME TypeOK, Solo, OnePlace, Unanswered, NEW t \in Thread, PutBack(t)
  PROVE  OnePlace' /\ Unanswered'
<1> DEFINE k == cursor[t]
<1>1. /\ pc[t] = "put_back" /\ k \in 1 .. Len(retry) /\ Len(retry) \in Nat
      /\ cursor' = [cursor EXCEPT ![t] = k + 1]
      /\ queue' = queue \cup {[cmd |-> retry[k], ticket |-> ticket]}
      /\ UNCHANGED <<retry, pc, held, asked, answer>>
  BY LenProperties DEF PutBack, Enqueue, TypeOK, ghosts, history, watch
<1>2. \A u \in Thread : u # t => pc[u] = "idle"
  BY <1>1 DEF Solo
<1>3. /\ \A i \in 1 .. Len(retry) : Again(i) <=> i < k
      /\ \A i \in 1 .. Len(retry) : Again(i)' <=> i < k + 1
  BY <1>1, <1>2 DEF Again, TypeOK
<1>4. \A e \in queue : e.cmd # retry[k]
  BY <1>1, <1>3 DEF OnePlace
<1>5. \A e \in queue' : e \in queue \/ (e = [cmd |-> retry[k], ticket |-> ticket] /\ e.cmd = retry[k])
  BY <1>1
<1>6. OnePlace'
  <2>1. \A e, f \in queue' : e.cmd = f.cmd => e = f
    BY <1>4, <1>5 DEF OnePlace
  <2>2. ASSUME NEW i \in 1 .. Len(retry), ~(i < k + 1), NEW e \in queue'
        PROVE  e.cmd # retry[i]
    <3>1. i # k /\ ~(i < k)
      BY <1>1, <2>2
    <3>2. retry[i] # retry[k]
      BY <1>1, <3>1 DEF OnePlace
    <3>3. \A f \in queue : f.cmd # retry[i]
      BY <1>3, <3>1 DEF OnePlace
    <3> QED BY <1>5, <3>2, <3>3
  <2>3. \A u \in Thread : pc[u] \notin {"send", "settle"}
    BY <1>1, <1>2
  <2> QED BY <1>1, <1>3, <2>1, <2>2, <2>3 DEF OnePlace
<1>7. \A c \in Command : OnItsWay(c)' => OnItsWay(c)
  BY <1>1, <1>2, <1>5 DEF OnItsWay
<1> QED BY <1>1, <1>6, <1>7 DEF Unanswered

LEMMA DrainOnce ==
  ASSUME TypeOK, Tickets, Heard, Solo, AtHead, Restored, OnePlace, Unanswered,
         NEW t \in Thread, Drain(t)
  PROVE  OnePlace' /\ Unanswered'
<1>1. /\ pc[t] # "idle"
      /\ \A u \in Thread : u # t => pc[u] = "idle" /\ pc'[u] = "idle" /\ held'[u] = held[u]
  BY OwnPlace DEF Solo
<1>2. CASE \/ StopPeeking(t) \/ Peek(t) \/ Permit(t) \/ Ask(t) \/ Charge(t)
           \/ HoldBack(t) \/ DonePuttingBack(t)
  <2>1. /\ UNCHANGED <<queue, retry, asked, answer>> /\ pc'[t] \notin {"send", "settle"}
        /\ pc[t] = "put_back" => pc'[t] = "clear"
        /\ pc[t] # "clear"
    BY <1>2 DEF StopPeeking, Peek, Permit, Ask, Charge, HoldBack, DonePuttingBack, Goto, TypeOK, ghosts, history, watch
  <2>2. \A i \in 1 .. Len(retry) : Again(i) => Again(i)'
    BY <1>1, <2>1 DEF Again
  <2> QED BY <1>1, <2>1, <2>2, OnceFrame
<1>3. CASE Send(t) \/ SendFails(t)
  <2>1. /\ UNCHANGED <<queue, retry, asked, answer, held>> /\ pc[t] = "send"
    BY <1>3 DEF Send, SendFails, Sending
  <2>2. \A i \in 1 .. Len(retry) : Again(i) => Again(i)'
    BY <1>1, <2>1 DEF Again
  <2> QED BY <1>1, <2>1, <2>2, OnceFrame
<1>4. CASE Pop(t)
  <2>1. PICK e \in queue : Lowest(e) /\ queue' = queue \ {e}
    BY <1>4 DEF Pop
  <2>2. /\ e.cmd = held[t] /\ pc[t] = "pop" /\ pc'[t] = "send"
        /\ UNCHANGED <<asked, answer, retry, held>>
    BY <1>4, <2>1, PopsWhatItHolds DEF Pop, Goto, TypeOK, ghosts, history, watch
  <2>3. \A f \in queue' : f.cmd # held[t]
    BY <2>1, <2>2 DEF OnePlace
  <2>4. \A i \in 1 .. Len(retry) : \A f \in queue : f.cmd # retry[i]
    BY <1>1, <2>2 DEF OnePlace, Again
  <2>5. OnePlace'
    BY <1>1, <2>1, <2>2, <2>3, <2>4 DEF OnePlace
  <2>6. \A c \in Command : OnItsWay(c)' => OnItsWay(c)
    BY <1>1, <2>1, <2>2 DEF OnItsWay
  <2> QED BY <2>2, <2>5, <2>6 DEF Unanswered
<1>5. CASE PopNothing(t)
  BY <1>5 DEF PopNothing, AtHead
<1>6. CASE Settle(t)
  BY <1>6, SettleOnce
<1>7. CASE PutBack(t)
  BY <1>7, PutBackOnce
<1>8. CASE Clear(t)
  <2>1. /\ UNCHANGED <<queue, asked, answer>> /\ retry' = <<>> /\ pc'[t] = "idle"
    BY <1>8 DEF Clear, Return, ghosts, history, watch
  <2>2. OnePlace'
    BY <1>1, <2>1 DEF OnePlace
  <2>3. \A c \in Command : OnItsWay(c)' => OnItsWay(c)
    BY <1>1, <2>1 DEF OnItsWay
  <2> QED BY <2>1, <2>2, <2>3 DEF Unanswered
<1> QED BY <1>2, <1>3, <1>4, <1>5, <1>6, <1>7, <1>8 DEF Drain

LEMMA NextOnce ==
  TypeOK /\ Tickets /\ Heard /\ InTurn /\ Once /\ [Next]_vars => Once'
<1> SUFFICES ASSUME TypeOK, Tickets, Heard, InTurn, Once, [Next]_vars, ~overlapped'
             PROVE  OnePlace' /\ Unanswered'
  BY DEF Once
<1>1. Solo /\ AtHead /\ Restored /\ OnePlace /\ Unanswered
  BY InTurnSteps DEF InTurn, Once
<1>2. CASE Quiet /\ \E c \in Command : Dispatch(c)
  BY <1>1, <1>2, DispatchOnce
<1>3. CASE Refill \/ (\E s \in ConnState : SetState(s)) \/ UNCHANGED vars
  <2>1. UNCHANGED <<queue, retry, asked, answer, pc, held, cursor>>
    BY <1>3 DEF Refill, SetState, vars, threads, ghosts, history, watch
  <2> QED BY <1>1, <2>1, OnceFrame DEF Again
<1>4. CASE Quiet /\ \E t \in Thread : Flush(t)
  <2>1. /\ UNCHANGED <<queue, retry, asked, answer, held, cursor>>
        /\ \A u \in Thread : pc[u] = "idle" /\ pc'[u] \in {"idle", "peek"}
    BY <1>4 DEF Flush, Quiet, Goto, TypeOK, history
  <2> QED BY <1>1, <2>1, OnceFrame DEF Again
<1>5. ASSUME NEW t \in Thread, Drain(t)
      PROVE  OnePlace' /\ Unanswered'
  BY <1>1, <1>5, DrainOnce
<1>6. CASE Crash
  <2>1. /\ queue' = {} /\ retry' = <<>> /\ UNCHANGED <<asked, answer>>
        /\ \A u \in Thread : pc'[u] = "idle"
    BY <1>6 DEF Crash, Return
  <2>2. OnePlace'
    BY <2>1 DEF OnePlace
  <2>3. \A c \in Command : ~OnItsWay(c)'
    BY <2>1 DEF OnItsWay
  <2> QED BY <1>1, <2>1, <2>2, <2>3 DEF Unanswered
<1> QED BY <1>2, <1>3, <1>4, <1>5, <1>6, InTurnSteps

\* While a drain sends, nothing in the queue was tried by it.
Untried ==
  \A t \in Thread :
    /\ pc[t] \in {"peek", "permit", "ask", "charge", "pop", "send", "settle"} =>
         \A e \in queue : e.cmd \notin tried
    /\ pc[t] = "send" => held[t] \notin tried

LEMMA NextUntried ==
  ASSUME TypeOK, Tickets, Solo, AtHead, OnePlace, Untried, [Next]_vars, ~overlapped'
  PROVE  Untried'
<1> USE DEF Untried
<1>1. CASE Quiet /\ UNCHANGED pc
  BY <1>1 DEF Quiet
<1>2. CASE UNCHANGED <<queue, pc, held, tried>>
  BY <1>2
<1>3. CASE Quiet /\ \E t \in Thread : Flush(t)
  BY <1>3 DEF Quiet, Flush, Goto, TypeOK
<1>4. ASSUME NEW t \in Thread, Drain(t)
      PROVE  Untried'
  <2>1. ASSUME NEW u \in Thread, u # t
        PROVE  pc'[u] = "idle"
    BY <1>4, <2>1, OwnPlace DEF Solo
  <2>2. CASE pc'[t] \in {"idle", "put_back", "clear"}
    BY <2>1, <2>2
  <2>3. CASE \/ Peek(t) \/ Permit(t) \/ Ask(t) \/ Charge(t) \/ Settle(t)
    <3>1. /\ UNCHANGED <<queue, tried>> /\ pc'[t] # "send"
          /\ pc[t] \in {"peek", "permit", "ask", "charge", "settle"}
      BY <2>3 DEF Peek, Permit, Ask, Charge, Settle, Goto, TypeOK, ghosts, watch
    <3>2. QED
      BY <2>1, <3>1
  <2>4. CASE Pop(t)
    <3>1. PICK e \in queue : Lowest(e) /\ queue' = queue \ {e}
      BY <2>4 DEF Pop
    <3>2. /\ e.cmd = held[t] /\ pc[t] = "pop" /\ UNCHANGED <<held, tried>>
      BY <2>4, <3>1, PopsWhatItHolds DEF Pop, ghosts, watch
    <3>3. QED
      BY <2>1, <3>1, <3>2
  <2>5. CASE Send(t) \/ SendFails(t)
    <3>1. /\ tried' = tried \cup {held[t]} /\ UNCHANGED <<queue, held>>
          /\ pc[t] = "send" /\ pc'[t] = "settle"
      BY <2>5 DEF Send, SendFails, Sending, Goto, TypeOK
    <3>2. QED
      BY <2>1, <3>1 DEF OnePlace
  <2>6. CASE PopNothing(t) \/ Clear(t)
    BY <2>2, <2>6 DEF PopNothing, Clear, Return
  <2>7. CASE StopPeeking(t) \/ HoldBack(t) \/ PutBack(t) \/ DonePuttingBack(t)
    BY <2>2, <2>7 DEF StopPeeking, HoldBack, PutBack, DonePuttingBack, Goto, TypeOK
  <2>8. QED
    BY <1>4, <2>3, <2>4, <2>5, <2>6, <2>7 DEF Drain
<1>5. CASE Crash
  BY <1>5 DEF Crash, Return
<1>6. QED
  BY <1>1, <1>2, <1>3, <1>4, <1>5, InTurnSteps
     DEF Dispatch, SetState, Refill, vars, threads, ghosts, watch

(* While requests come one at a time, a drain hands each command over once *)
(* at most, and none that has its final answer, whatever the adapter       *)
(* answered before that and however often the process was restarted.       *)
THEOREM TriedOnce == Spec => OneTryPerDrain
<1> DEFINE FreshInTurn == ~overlapped => Untried
<1>1. Init => Once /\ FreshInTurn
  BY DEF Init, Once, OnePlace, Unanswered, OnItsWay, Untried
<1>2. TypeOK /\ Tickets /\ InTurn /\ Once /\ FreshInTurn /\ [Next]_vars => FreshInTurn'
  <2> SUFFICES ASSUME TypeOK, Tickets, InTurn, Once, FreshInTurn, [Next]_vars, ~overlapped'
               PROVE  Untried'
    OBVIOUS
  <2>1. Solo /\ AtHead /\ OnePlace /\ Untried
    BY InTurnSteps DEF InTurn, Once
  <2> QED BY <2>1, NextUntried
<1>3. TypeOK /\ Once /\ FreshInTurn =>
        [\A t \in Thread : HandsOver(t) /\ ~overlapped =>
           held[t] \notin tried /\ answer[held[t]] = "none"]_vars
  <2> SUFFICES ASSUME TypeOK, Once, FreshInTurn, NEW t \in Thread, HandsOver(t), ~overlapped
               PROVE  held[t] \notin tried /\ answer[held[t]] = "none"
    OBVIOUS
  <2>1. pc[t] = "send" /\ held[t] \in Command /\ OnItsWay(held[t])
    BY DEF HandsOver, OnItsWay, TypeOK
  <2> QED BY <2>1 DEF Once, Unanswered, Untried
<1>4. Spec => [](Once /\ FreshInTurn)
  BY <1>1, <1>2, InTurnHolds, NextOnce, PTL DEF Spec
<1> QED BY <1>3, <1>4, InTurnHolds, PTL DEF OneTryPerDrain

-----------------------------------------------------------------------------
(* The budget and the state, whatever the threads do.                      *)

LEMMA ChargingIsFinite ==
  /\ IsFiniteSet(Charging) /\ Cardinality(Charging) \in Nat
  /\ Cardinality(Thread) \in Nat \ {0}
  /\ Cardinality(Charging) <= Cardinality(Thread)
BY FabricAssumption, FS_Subset, FS_EmptySet, FS_CardinalityType DEF Charging

LEMMA NextOverdraft == TypeOK /\ Overdraft /\ [Next]_vars => Overdraft'
<1> SUFFICES ASSUME TypeOK, Overdraft, [Next]_vars
             PROVE  Overdraft'
  OBVIOUS
<1> USE DEF Overdraft, TypeOK
<1>1. CASE /\ \A u \in Thread : pc'[u] = "charge" <=> pc[u] = "charge"
           /\ tokens' \in {tokens, tokens + 1}
  <2>1. Charging' = Charging
    BY <1>1 DEF Charging
  <2> QED BY <1>1, <2>1, ChargingIsFinite
<1>2. ASSUME NEW t \in Thread, Ask(t)
      PROVE  Overdraft'
  <2>1. Charging' \subseteq Thread
    BY DEF Charging
  <2>2. Cardinality(Charging') \in Nat /\ Cardinality(Charging') <= Cardinality(Thread)
    BY <2>1, FabricAssumption, FS_Subset, FS_CardinalityType
  <2>3. tokens' = tokens /\ tokens > 0
    BY <1>2 DEF Ask
  <2> QED BY <2>2, <2>3, ChargingIsFinite
<1>3. ASSUME NEW t \in Thread, Charge(t)
      PROVE  Overdraft'
  <2>1. Charging' = Charging \ {t} /\ t \in Charging /\ tokens' = tokens - 1
    BY <1>3 DEF Charge, Goto, Charging
  <2>2. Cardinality(Charging') = Cardinality(Charging) - 1
    BY <2>1, ChargingIsFinite, FS_RemoveElement
  <2> QED BY <2>1, <2>2, ChargingIsFinite
<1>4. ASSUME NEW t \in Thread, Drain(t), ~Ask(t), ~Charge(t)
      PROVE  Overdraft'
  <2>1. CASE PopNothing(t) \/ Clear(t)
    BY <1>1, <2>1 DEF PopNothing, Clear, Return
  <2>2. CASE \/ StopPeeking(t) \/ Peek(t) \/ Permit(t) \/ HoldBack(t) \/ Pop(t)
             \/ Settle(t) \/ PutBack(t) \/ DonePuttingBack(t)
    BY <1>1, <2>2 DEF StopPeeking, Peek, Permit, HoldBack, Pop, Settle, PutBack,
                      DonePuttingBack, Goto
  <2>3. CASE Send(t) \/ SendFails(t)
    BY <1>1, <2>3 DEF Send, SendFails, Sending, Goto
  <2> QED BY <1>4, <2>1, <2>2, <2>3 DEF Drain
<1>5. ASSUME NEW t \in Thread, Flush(t)
      PROVE  Overdraft'
  BY <1>1, <1>5 DEF Flush, Goto
<1>6. CASE Refill \/ UNCHANGED vars \/ UNCHANGED <<pc, tokens>>
  BY <1>1, <1>6 DEF Refill, vars, threads
<1>7. CASE Crash
  <2>1. Charging' = {} /\ tokens' = Capacity
    BY <1>7 DEF Crash, Return, Charging
  <2>2. Cardinality({}) = 0
    BY FS_EmptySet
  <2> QED BY <2>1, <2>2, ChargingIsFinite, FabricAssumption
<1> QED BY <1>2, <1>3, <1>4, <1>5, <1>6, <1>7 DEF Next, Dispatch, SetState, threads

(* However many drains test the budget before one of them charges it, they *)
(* overdraw it by less than a token each; one at a time they never do.     *)
THEOREM BudgetIsKept == Spec => []BudgetHolds
<1>1. Init => Overdraft
  <2> SUFFICES ASSUME Init PROVE Overdraft
    OBVIOUS
  <2>1. Charging = {} /\ tokens = Capacity
    BY DEF Init, Charging
  <2>2. Cardinality({}) = 0
    BY FS_EmptySet
  <2> QED BY <2>1, <2>2, ChargingIsFinite, FabricAssumption DEF Overdraft
<1>2. TypeOK /\ Overdraft /\ InTurn => BudgetHolds
  BY ChargingIsFinite DEF Overdraft, InTurn, Covered, BudgetHolds, TypeOK
<1>3. QED
  BY <1>1, <1>2, NextOverdraft, InTurnHolds, PTL DEF Spec

LEMMA NextLateStops == TypeOK /\ LateStops /\ [Next]_vars => LateStops'
<1> SUFFICES ASSUME TypeOK, LateStops, [Next]_vars
             PROVE  LateStops'
  OBVIOUS
<1> USE DEF LateStops, TypeOK, MaySend
<1>1. CASE UNCHANGED <<conn, pc, held, late>>
  BY <1>1
<1>2. CASE (\E s \in ConnState : SetState(s)) \/ Crash
  BY <1>2 DEF SetState, Crash
<1>3. ASSUME NEW t \in Thread, Flush(t)
      PROVE  LateStops'
  BY <1>3 DEF Flush, Goto
<1>4. ASSUME NEW t \in Thread, Drain(t)
      PROVE  LateStops'
  <2>1. /\ UNCHANGED conn
        /\ \A u \in Thread : u # t => pc'[u] = pc[u] /\ held'[u] = held[u]
    BY <1>4, OwnPlace DEF Drain, StopPeeking, Peek, Permit, Ask, Charge, HoldBack,
       Pop, PopNothing, Send, SendFails, Sending, Settle, PutBack, DonePuttingBack,
       Clear
  <2>2. CASE UNCHANGED late /\ pc'[t] \notin {"ask", "charge", "pop", "send"}
    BY <2>1, <2>2
  <2>3. CASE Permit(t) \/ Ask(t) \/ Charge(t) \/ Pop(t)
    BY <2>1, <2>3 DEF Permit, Ask, Charge, Pop, Goto, ghosts, watch
  <2>4. CASE Send(t) \/ SendFails(t)
    <3>1. /\ pc[t] = "send" /\ pc'[t] = "settle"
          /\ late' = [late EXCEPT ![t] = IF MaySend(held[t]) THEN @ ELSE @ + 1]
      BY <2>4 DEF Send, SendFails, Sending, Goto
    <3>2. late'[t] <= 1
      BY <3>1
    <3> QED BY <2>1, <3>1, <3>2
  <2>5. CASE PopNothing(t) \/ Clear(t)
    BY <2>2, <2>5 DEF PopNothing, Clear, Return, ghosts, watch
  <2>6. CASE \/ StopPeeking(t) \/ Peek(t) \/ HoldBack(t) \/ Settle(t)
             \/ PutBack(t) \/ DonePuttingBack(t)
    BY <2>2, <2>6 DEF StopPeeking, Peek, HoldBack, Settle, PutBack,
                      DonePuttingBack, Goto, ghosts, watch
  <2> QED BY <1>4, <2>3, <2>4, <2>5, <2>6 DEF Drain
<1> QED BY <1>1, <1>2, <1>3, <1>4
        DEF Next, Dispatch, Refill, vars, threads, ghosts, watch

(* Whatever the threads do, a drain that was under way when the state      *)
(* changed hands over at most one command the new state forbids.           *)
THEOREM LateIsOne == Spec => []LateAtMostOnce
<1>1. Init => LateStops
  BY DEF Init, LateStops
<1>2. LateStops => LateAtMostOnce
  BY DEF LateStops, LateAtMostOnce
<1>3. QED
  BY <1>1, <1>2, NextLateStops, TypeCorrect, PTL DEF Spec
=============================================================================
