------------------------------ MODULE CopyDesk ------------------------------
(***************************************************************************)
(* A copy group on the Prop Desk: the resolver (propdesk/copy.py), the     *)
(* screening ladder (propdesk/desk.py), the copy pass and the              *)
(* reconciliation of the API service (api/propdesk.py), and the provider   *)
(* that carries the orders out (adapters/simulated.py).                    *)
(*                                                                         *)
(* A pass reads what the desk believes about the followers, computes each  *)
(* follower's target from the leader's net position, screens the orders in *)
(* group order and flushes every queue.  The belief is refreshed only by a *)
(* reconciliation.  A pass is one action: how the threads of two requests  *)
(* interleave inside it is the subject of Fabric.                          *)
(***************************************************************************)
EXTENDS Integers, Sequences, SequencesExt

CONSTANTS
  Group,            \* the followers, in the order the group lists them
  MaxLeader,        \* the largest leader position
  Size,             \* contracts a follower holds for each leader magnitude:
                    \* ratio, rounding, mapping and position ceiling
  PerOrder,         \* each follower's max_contracts_per_order
  ProviderCap,      \* the position each follower's provider accepts
  FlattenWhenFlat,  \* GroupPolicy.flatten_followers_when_leader_flat
  BlockReversals,   \* GroupPolicy.block_reversals
  Troubles,         \* what may go wrong around the desk
  MaxMoves,         \* bound: how often the leader's position changes
  MaxPending        \* bound: commands a follower's queue holds after a pass

Follower == Range(Group)

ASSUME CopyAssumption ==
  /\ Group \in Seq(STRING) /\ IsInjective(Group)
  /\ MaxLeader \in Nat /\ MaxMoves \in Nat /\ MaxPending \in Nat \ {0}
  /\ Size \in [Follower -> [0 .. MaxLeader -> Nat]]
  /\ \A f \in Follower : Size[f][0] = 0
  /\ PerOrder \in [Follower -> Nat \ {0}]
  /\ ProviderCap \in [Follower -> Nat]
  /\ {FlattenWhenFlat, BlockReversals} \subseteq BOOLEAN
  /\ Troubles \subseteq {"connection", "offline", "barred"}

VARIABLES
  leader,    \* the leader's net position, as the pass is given it
  moves,     \* how often it has changed
  position,  \* each follower's position at its provider
  view,      \* the position in the desk's LocalView of each follower
  conn,      \* connection.state of each follower's connection
  offline,   \* the followers whose transport fails though the state is live
  barred,    \* the followers a rule, a policy or a blackout refuses
  pending,   \* each follower's queue of unsent or refused-for-now orders
  used       \* the keys each provider has accepted

vars == <<leader, moves, position, view, conn, offline, barred, pending, used>>

Abs(n) == IF n < 0 THEN -n ELSE n
Sign(n) == IF n < 0 THEN -1 ELSE IF n = 0 THEN 0 ELSE 1
Least(a, b) == IF a < b THEN a ELSE b

ConnState == {"live", "degraded", "disconnected"}

-----------------------------------------------------------------------------
(* The resolver.                                                           *)

\* target_position: a function of the leader's net position alone.
Target(f) == Sign(leader) * Size[f][Abs(leader)]

Crosses(f) == view[f] # 0 /\ Target(f) # 0 /\ Sign(view[f]) # Sign(Target(f))

\* Mutant: a leader that scales out is not followed.
SkippedScaleOut(f) ==
  \/ Target(f) = view[f]
  \/ Target(f) = 0 /\ ~FlattenWhenFlat
  \/ Crosses(f) /\ BlockReversals
  \/ Target(f) # 0 /\ Abs(Target(f)) < Abs(view[f])

\* Mutant: the reversal policy is not consulted.
SkippedNotReversal(f) ==
  \/ Target(f) = view[f]
  \/ Target(f) = 0 /\ ~FlattenWhenFlat

\* The decisions that leave the follower alone.
Skipped(f) ==
  \/ Target(f) = view[f]
  \/ Target(f) = 0 /\ ~FlattenWhenFlat
  \/ Crosses(f) /\ BlockReversals

\* Priority FLATTEN, which the ladder takes for a reduction of exposure.
Reducing(f) == Abs(Target(f)) < Abs(view[f])

\* Mutant: the order is for the target and not for what is missing to it.
LotsOfTarget(f) ==
  LET delta == Target(f) - view[f]
  IN Sign(delta) * Least(Abs(Target(f)), PerOrder[f])

Lots(f) ==
  LET delta == Target(f) - view[f]
  IN Sign(delta) * Least(Abs(delta), PerOrder[f])

\* idempotency_key: the group and the account are the follower's own.
Key(f) == <<leader, Target(f)>>

Intent(f) == [lots |-> Lots(f), reducing |-> Reducing(f), key |-> Key(f)]

-----------------------------------------------------------------------------
(* The screening ladder.                                                   *)

ConnectionPasses(f, reducing) ==
  conn[f] = "live" \/ (conn[f] = "degraded" /\ reducing)

\* DirectionGuard: with this order nobody is long while another is short.
OneSide(book) ==
  \A f, g \in DOMAIN book : ~(book[f] > 0 /\ book[g] < 0)

\* Mutant: the other accounts of the owner are not looked at.
ClearedAlone(f, book) ==
  /\ ~Skipped(f)
  /\ ConnectionPasses(f, Reducing(f))
  /\ Reducing(f) \/ f \notin barred

Cleared(f, book) ==
  /\ ~Skipped(f)
  /\ ConnectionPasses(f, Reducing(f))
  /\ \/ Reducing(f)
     \/ f \notin barred /\ OneSide([book EXCEPT ![f] = @ + Lots(f)])

\* screen_all threads each cleared order's effect into the next.
ScreenNext(screened, f) ==
  IF Cleared(f, screened.book)
  THEN [book |-> [screened.book EXCEPT ![f] = @ + Lots(f)],
        cleared |-> screened.cleared \cup {f}]
  ELSE screened

Screened == FoldLeft(ScreenNext, [book |-> view, cleared |-> {}], Group).cleared

-----------------------------------------------------------------------------
(* The flush.                                                              *)

\* The intents of a queue that are in a class, in the order they have there.
Keep(queue, class) ==
  FoldLeft(LAMBDA kept, i : IF i \in class THEN Append(kept, i) ELSE kept, <<>>, queue)

\* What a follower's queue holds when the pass flushes it: reductions first,
\* each class in the order it was queued.
Queued(f) ==
  LET all == IF f \in Screened THEN Append(pending[f], Intent(f)) ELSE pending[f]
      first == {i \in Range(all) : i.reducing}
  IN Keep(all, first) \o Keep(all, Range(all) \ first)

\* Mutant: the provider fills beyond the account's cap.
CarryUncapped(f, account, i) ==
  IF i.key \in account.used
  THEN account
  ELSE [position |-> account.position + i.lots, used |-> account.used \cup {i.key}]

\* Mutant: the provider does not know the key again.
CarryAgain(f, account, i) ==
  IF Abs(account.position + i.lots) > ProviderCap[f]
  THEN account
  ELSE [position |-> account.position + i.lots, used |-> account.used \cup {i.key}]

\* One order reaches the provider: a known key is a duplicate, a position
\* beyond the account's cap is refused for good, and the rest fills.
Carry(f, account, i) ==
  IF \/ i.key \in account.used
     \/ Abs(account.position + i.lots) > ProviderCap[f]
  THEN account
  ELSE [position |-> account.position + i.lots, used |-> account.used \cup {i.key}]

Sendable(f, i) == ConnectionPasses(f, i.reducing) /\ f \notin offline

Sent(f) == {i \in Range(Queued(f)) : Sendable(f, i)}

\* The account after the flush.
Flushed(f) ==
  FoldLeft(LAMBDA account, i : Carry(f, account, i),
           [position |-> position[f], used |-> used[f]], Keep(Queued(f), Sent(f)))

-----------------------------------------------------------------------------
\* A pass flushes what was held back before along with what it adds.  The
\* code has no bound on a queue: passes that would leave more than MaxPending
\* commands in one are the ones that are not explored.
CopyPass ==
  /\ position' = [f \in Follower |-> Flushed(f).position]
  /\ used' = [f \in Follower |-> Flushed(f).used]
  /\ pending' = [f \in Follower |-> Keep(Queued(f), Range(Queued(f)) \ Sent(f))]
  /\ \A f \in Follower : Len(pending'[f]) <= MaxPending
  /\ UNCHANGED <<leader, moves, view, conn, offline, barred>>

\* The snapshot replaces the view.
Reconcile(f) ==
  /\ view' = [view EXCEPT ![f] = position[f]]
  /\ UNCHANGED <<leader, moves, position, conn, offline, barred, pending, used>>

LeaderMoves ==
  /\ moves < MaxMoves /\ moves' = moves + 1
  /\ leader' \in -MaxLeader .. MaxLeader /\ leader' # leader
  /\ UNCHANGED <<position, view, conn, offline, barred, pending, used>>

\* connect, disconnect and mark.  The queue stays as it is.
SetState(f) ==
  /\ "connection" \in Troubles
  /\ \E s \in ConnState : s # conn[f] /\ conn' = [conn EXCEPT ![f] = s]
  /\ UNCHANGED <<leader, moves, position, view, offline, barred, pending, used>>

\* The transport drops or returns.
Toggle(f, set) == IF f \in set THEN set \ {f} ELSE set \cup {f}

Transport(f) ==
  /\ "offline" \in Troubles
  /\ offline' = Toggle(f, offline)
  /\ UNCHANGED <<leader, moves, position, view, conn, barred, pending, used>>

\* A rule, a policy or a blackout begins or ends.
Bar(f) ==
  /\ "barred" \in Troubles
  /\ barred' = Toggle(f, barred)
  /\ UNCHANGED <<leader, moves, position, view, conn, offline, pending, used>>

Init ==
  /\ leader = 0 /\ moves = 0
  /\ position = [f \in Follower |-> 0] /\ view = position
  /\ conn = [f \in Follower |-> "live"]
  /\ offline = {} /\ barred = {}
  /\ pending = [f \in Follower |-> <<>>]
  /\ used = [f \in Follower |-> {}]

Next ==
  \/ CopyPass \/ LeaderMoves
  \/ \E f \in Follower : Reconcile(f) \/ SetState(f) \/ Transport(f) \/ Bar(f)

Spec == Init /\ [][Next]_vars

-----------------------------------------------------------------------------
(* Properties.                                                             *)

LeaderPosition == -MaxLeader .. MaxLeader

TypeOK ==
  /\ leader \in LeaderPosition /\ moves \in 0 .. MaxMoves
  /\ position \in [Follower -> Int] /\ view \in [Follower -> Int]
  /\ \A f \in Follower : Abs(position[f]) <= ProviderCap[f]
  /\ conn \in [Follower -> ConnState]
  /\ offline \subseteq Follower /\ barred \subseteq Follower
  /\ \A f \in Follower : Len(pending[f]) <= MaxPending
  /\ \A f \in Follower : used[f] \subseteq LeaderPosition \X Int

(* However stale the desk's view is, and however often an order is         *)
(* repeated, held back or retried, one move of the leader never makes a    *)
(* follower hold more than the leader's position calls for.                *)
NeverOversized ==
  moves <= 1 => \A f \in Follower : Abs(position[f]) <= Abs(Target(f))

\* What the desk believes is so, and nothing is on its way.
Informed == view = position /\ \A f \in Follower : pending[f] = <<>>

\* A pass that was made informed changed some position.
InformedPass == Informed /\ position' # position

(* No two accounts of the owner come to hold opposite sides: DirectionGuard *)
(* keeps an informed pass on one side through blocked reversals, down       *)
(* connections and part-filled groups.  It does with block_reversals and    *)
(* where no sizing rounds away a position the leader holds: such a follower *)
(* is closed while the others open, and the guard counts on the closing.    *)
StaysOneSided ==
  [][InformedPass /\ OneSide(position) => OneSide(position')]_vars

(* An informed pass moves every follower towards its target and never past *)
(* it.                                                                     *)
TowardTarget ==
  [][InformedPass => \A f \in Follower :
       \/ position[f] <= position'[f] /\ position'[f] <= Target(f)
       \/ Target(f) <= position'[f] /\ position'[f] <= position[f]
       \/ position'[f] = position[f]]_vars

(* "Overridden because the command reduces exposure: getting flat is       *)
(* permitted even when opening is not" (screen): an informed pass moves an *)
(* account that is barred towards flat only, and never through it.         *)
OverrideOnlyReduces ==
  [][InformedPass => \A f \in barred :
       \/ 0 <= position'[f] /\ position'[f] <= position[f]
       \/ position[f] <= position'[f] /\ position'[f] <= 0]_vars

\* Nothing the desk reports stands between this follower and its target.
Unhindered(f) ==
  /\ Informed
  /\ conn[f] = "live" /\ f \notin offline /\ f \notin barred
  /\ ~Crosses(f) /\ Abs(Target(f)) <= ProviderCap[f]
  /\ Target(f) = 0 => FlattenWhenFlat
  /\ OneSide([view EXCEPT ![f] = Target(f)])

(* "A duplicated event, a reordered event, or a missed event all converge  *)
(* to the same place on the next evaluation" (copy.py): an informed pass   *)
(* takes every follower that nothing hinders to its target, if its         *)
(* provider has not yet accepted an order under the key this leader        *)
(* position and target give, and one order can take it there.              *)
LandsOnNewTarget ==
  \A f \in Follower :
    /\ Unhindered(f) /\ Key(f) \notin used[f]
    /\ Abs(Target(f) - view[f]) <= PerOrder[f]
    => Flushed(f).position = Target(f)
=============================================================================
