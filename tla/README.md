# TLA+ models of AlgoForge

AlgoForge (`src/`) is a desktop application for building, judging and
simulating trading strategies. Two of its parts decide whether money-sized state
is right: the Prop Desk (`packages/forge/propdesk`), which copies the position
of a leader account onto follower accounts at other providers, and the fund
(`packages/forge/hedgefund`, `execution`), which turns a proposal into orders
behind a gate and a queue of approvals. Under both lie the background jobs and
the missions that let agents work unattended. These are what is modelled. Paths
below are relative to `src/packages/forge/propdesk/` unless they say otherwise;
`api/` stands for `src/apps/api/forge_api/`, `../` for `src/packages/forge/`.

## Inventory

| Component | State it keeps | Operations | What makes it hard |
|---|---|---|---|
| Order lifecycle, `orders.py` | one `OrderRecord` per order, the keys of the reports it applied | `track`, `apply`, `forget`; `_transition`, `_bust` | reports are repeated, reordered, lost, quantified as totals or increments, and may void a fill afterwards |
| Execution fabric, `fabric.py` | per connection: heap, retry list, outbox, rate budget, connection state | `dispatch`, `drain`, `connect`, `disconnect`, `mark`, `snapshot` | no lock, requests on several threads; failing transports; a queue that outlives a disconnection; nothing persisted |
| Copy desk, `copy.py`, `desk.py`, `policy.py`, `api/propdesk.py` | groups, local views of the followers, decisions | `resolve`, `screen`, `screen_all`, `dispatch`, `copy_pass`, `reconcile` | targets computed from views that go stale; keys that make repeats no-ops; rungs that are overridden for reductions; direction across accounts |
| Simulated provider, `adapters/simulated.py` | accounts, orders, accepted keys, pending events, injected faults | `place`, `modify`, `cancel`, `flatten`, `snapshot`, `poll` | stands for what a provider does with a repeated key, a cap, a dropped transport |
| Reconciliation engine, `reconcile.py` | divergence clocks, quarantines | `reconcile`, `adopt`, correction plans | tolerance windows, triggers, corrections that race the copier |
| Risk, allocation, survival, scaling | recommended sizes per account | `evaluate`, ratchets | a mode that may only tighten by itself |
| Autonomy, consent, desk audit | consents, levels, an append-only log | grant, revoke, evaluate | a level must fall with the consent it rests on |
| Modes and permissions, `../modes` | the open mode, a stance per mode | `enter`, `leave`, `set_stance`; `evaluate` | an agent's permission is a stance left over from another day |
| Approvals, `../hedgefund/approvals.py` | approval rows in SQLite, a lock | `submit`, `approve`, `reject`, `pending` | expiry on read without the lock; the action runs before the record is written |
| Fund service, gate and OMS, `api/fund.py`, `../execution` | screened orders in memory, orders and fills in SQLite | `prepare_orders`, `screen_all`, `submit`, `cancel`, `reconcile` | check-then-act over a store; clearances that outlive what they were computed from; a crash between place and fill |
| Background jobs, `api/jobs.py` | job table, cancel set | `submit`, `run`, `cancel`, `progress`, eviction | cancel against finish, eviction against work |
| Inbox, `api/inbox.py` | one row per ended job | `arrive`, `mark_read`, `dismiss`, `mark_all_read` | a cap that must not lose what nobody has seen |
| Missions, `api/orchestrator.py` | mission rows, the slot | `launch`, `_run`, `_save` | one mission at a time; steps that wait for other jobs; two threads save one row |
| Fund loop, audit chain, `../hedgefund` | audit rows, hash chain | `record`, `verify` | rows that must exist for what was done |
| Research campaign, frontier, runtime, `../research`, `api/campaigns.py`, `api/director.py` | campaigns, waves, leads, journal | start, pause, resume, stop, schedule | long-running threads, restart |
| Vault, `../vault` | location pointer, mirror files | move, mirror, restore | file moves interrupted half way |
| Release keeper, `../forgekeeper` | pointer files, manifests | `stage`, `activate` | two pointers written one after the other; only its overview is reachable from the API |
| Everything else | strategies, market data, statistics, conversations, web UI | computation, rendering, storage | numerical or single-writer |

How the desk's components interact: a request to the API calls `copy_pass`. It
reads `self.views` (a `LocalView` per account, replaced by `reconcile` with the
provider's snapshot), asks the resolver for one decision per follower, screens
the intents in order with each cleared order's effect threaded into the next,
queues what cleared on each follower's connection and flushes *every*
connection. The connection's runtime sends what its state and rate budget
permit, keeps what failed for the next flush, and hands back acknowledgements.
Providers report what happened to each order as events, which an
`OrderMachine` folds into a record.

On the other side, an agent's call goes through `Actions.call`: `evaluate` rules
on it under the open mode and stance, and it runs, is denied, or waits in the
approval queue until a person decides, whose approval runs it under the queue's
lock. Actions that take long hand their work to the job registry, one thread
each; a mission is such a job, and its steps submit further jobs and poll the
registry for them. The registry tells the inbox when a job ended. The fund's
actions prepare orders, have the gate screen them and submit what it cleared.

`PROJECT.json` lists every component with what is modelled of it, and under
"hazards" each place in the code where these interactions can go wrong, with the
property that watches it or the reason why none does.

## Modules

| Module | Models | Source |
|---|---|---|
| `MonotoneOrder` | what a record promises its readers: forward only, except for a bust | `orders.py`, module docstring and tables |
| `OrderLifecycle` | `OrderMachine` and the broker that reports to it | `orders.py`, `adapters/simulated.py` |
| `OrderLifecycle_proofs` | theorems about it | |
| `Fabric` | one `ConnectionRuntime` drained by several threads, its provider, a restart | `fabric.py`, `adapters/simulated.py`, `api/propdesk.py` |
| `Fabric_proofs` | theorems about it | |
| `CopyDesk` | resolver, ladder, pass, reconciliation and providers for a group | `copy.py`, `desk.py`, `policy.py`, `api/propdesk.py` |
| `Jobs` | job registry, worker threads and inbox | `api/jobs.py`, `api/inbox.py` |
| `Missions` | missions, composed with `Jobs` by `INSTANCE` | `api/orchestrator.py` |
| `Consent` | what a queue of approvals promises | `../hedgefund/approvals.py` |
| `Approvals` | permission policy, queue and decisions | `../modes`, `../hedgefund/approvals.py`, `api/actions.py` |
| `Fund` | prepare, screen, submit, cancel | `api/fund.py`, `../execution` |
| `Jobs_proofs`, `Approvals_proofs`, `Fund_proofs`, `Missions_proofs`, `CopyDesk_proofs` | theorems about them | |
| `Counting` | lemmas these share: least numbers, sums over finite sets, who comes first in an order | |
| `MC*` | instances for TLC | |

### OrderLifecycle

`record` is the `OrderRecord` (state, quantity, filled quantity, last
sequence), `tracked` whether the machine holds it, `seen` its ledger of keys.
A report's identity is its place on `wire`: the provider's event id, so a
second delivery has the same key. The wire keeps every report, so a report can
be delivered in any order, twice, or never. `arrived` is a history variable.

`_transition` is one predicate per refusal, in the code's order (`Verdict`):
a modification of a closed order, sequence behind, total behind, rank behind,
off the table, overfilled, cut below the fills. `ApplyReport` and `RefuseReport`
are the two outcomes of `apply`; a refused report is not remembered, so it is
judged anew when it comes again. The broker executes the order and says so in
the profile the constants choose: totals on every report, totals on fills,
increments, or no quantities; sequence numbers on some types; modifications,
closings and busts or none. `CREATED` as an event type is left out: the machine
never accepts it. Prices, times and the position arithmetic that consumes
`fill_delta` are left out.

`MonotoneOrder` is the abstract specification. `OrderLifecycle!MonotoneProgress`
is its `Spec` under the mapping `state <- record.state, filled <- record.filled`.

### Fabric

One action per step of `drain` that reads or writes what threads share: `Peek`,
`Permit` (`_may_send`), `Ask` and `Charge` (the test and the subtraction of
`budget.take`), `HoldBack` (either of them says no), `Pop`/`PopNothing`, `Send`
and `SendFails` (`_dispatch` up to the adapter's return, after
`outbox.record`), `Settle` (what `_dispatch` does with the answer), `PutBack`,
`DonePuttingBack`, `Clear`. Nothing locks the runtime. A statement is one step:
a heap operation, a dictionary update and `_tokens -= count` are taken to be
uninterrupted, as CPython executes them; between two statements any other
request may run.

A command is an intent. Every pass makes new ones (`copy.py:644`: the intent id
has the time in it) and `enqueue` takes what it is given, so the model
dispatches each command once, whatever became of earlier ones; that two intents
may share an idempotency key is a matter of `CopyDesk`. `Faults` are the answers
other than to execute: "offline" (retryable refusal) and "dropped" (the
transport raises before the provider acts), "ack_lost" (it raises after),
"rejected" (final), "unavailable" (`AdapterUnavailable`, which leaves the outbox
entry). `Acts` is the provider carrying a command out or knowing its key
already; either way it answers that it accepted.

`Crash` is the process dying and `_restore` registering a fresh runtime:
disconnected, empty, with an empty outbox. `asked`, `answer`, `acted` and
`overlapped` are history variables, and so are `tried`, what was handed over
since the last drain began, and `late`, what each thread handed over against the
connection's state since that state changed. Rate penalties (`penalise`, which
only tests call), event polling and health are left out.

### CopyDesk

`position` is what the providers hold, `view` what the desk believes, `pending`
each queue, `used` the keys each provider accepted, `leader` the position the
caller passes in. `Target`, `Skipped`, `Lots`, `Reducing` and `Key` are
`target_position` and `_for_follower`; the sizing arithmetic is the constant
table `Size`. `Cleared` is `screen`, with everything that reads account rules,
compatibility, news and source evidence in `barred`. `CopyPass` is a whole
non-dry-run pass, atomic; `Reconcile` is one account's adoption of its snapshot.
Every order is a market order with a reference price, so it fills at once up to
the account's cap. A flush sends what the state and the transport allow; the
limit of 50 and the rate budget are left to `Fabric`. An order that is held back
waits in `pending`, and every later pass flushes it along with its own orders;
`MaxPending` bounds what a pass may leave there, not when a pass may be made.

Several `GroupPolicy` fields are read by no code (among them
`flatten_delay_seconds`, `disable_on_divergence` and
`prevent_cross_account_hedging`), so they are not in the model; direction is
checked for every account whatever the last of them says.

### Jobs

Each action is one critical section of the registry's lock or of the inbox's.
A worker is at a place in `thread`: starting, working, an outcome it is about to
record, announcing, over. `Submit` includes `_evict`, `Checkpoint` is
`handle.progress` (which raises when the job is to stop), `Return` and `Raise`
leave the work, `Record` is the three branches of `run`. `left` counts the
checkpoints the work has still to reach: agents have none. `ended` and `arrived`
keep the order of times, which is all that eviction and trimming read. `lost` is
a history variable. The inbox is a file and survives `Crash`; the registry and
its daemon threads do not.

### Missions

`J == INSTANCE Jobs` with the jobs of missions and of their steps. `phase` is
where a launch and then `_run` is. `mission` is the dictionary both threads
share and `row` what is stored of it: `_run` changes the dictionary in steps
(`StepEnds`, `Conclude`, `Finish`) and `_save` stores it as it is at that
moment, in one step, since `_write_lock` spans the dump and the commit
(`Saves`). `SaveJobId` is `launch`'s last save, which may come between any two
steps of the run and stores whatever the dictionary holds then: a step that
failed under a mission that still reads "completed", before the finally block
makes it "partial", and for good if the process dies there. `RecordTells` says
which of these in-between rows can be read. The mutant of `SaveJobId`, a copy
made before the job was submitted, is the bug
`tests/api/test_mission_persistence.py` tells of. `AwaitFails` covers every way
a wait ends without a result; the job goes on. `LaunchRaises` and `CloseRaises`
are exceptions at places where the slot is taken and nothing frees it. The
inbox's part of `Jobs` plays no role for a mission and is not stepped here.

### Approvals and Consent

`mode` and `stance` are what `ModeStore` has on file, `Ruling` is `evaluate` for
an agent. An allowed call is `cleared` and runs in a second step, so that the
mode may change in between. `deciding` is the decision that holds the queue's
lock, with its steps: run the action, write its audit row, write the request.
`Look` and `Expire` are `pending()`: one query without the lock, then one write
per row found late. `late` are the requests past their deadline. `cut` counts
runs whose answer never reached the request, because the process died or the
write failed. Human calls that need no decision, and audit rows of calls nobody
held, are left out.

`Consent` knows neither threads nor clocks: a request is open, runs only while
it is open, and opens again only after an answer was lost.
`Approvals!ImplementsConsent` is its `Spec` under a mapping in which a request is
open while it is pending or claimed and has not been run.

### Fund

`order` is what was screened, `screened` what the service remembers of it,
`rec`, `fills`, `held` and `worth` the tables and the book summed from them,
`doing` the step each thread makes next, `delta` the rebalance it has in hand.
`Rebalance` is `prepare_orders`: the difference between a proposal and the book,
at the prices the configuration holds then (a `quote`), where a holding that is
missing from the proposal is closed by an order that names no strategy (and
which the gate's `_validation` therefore blocks). `Screen` reads the book and
the configuration and decides; `Remember` stores the decisions, after the
verdicts of up to forty strategies were looked up, so that fills land in
between. `Allowed` is `screen` with the checks whose answer differs from order
to order: kill switch, verdict, borrow, leverage, concentration; `_leverage` and
`_concentration` add an order's weight whatever its side. `GrossBefore` is the
threading of `screen_all`. Then one action per write of `submit` and `cancel`.

Money is counted in whole units, for contracts of one multiplier. The gate
weighs an order at its reference price (`Weight`), the paper broker fills it a
slippage away from that (`Paid`), and the book is worth its quantities at their
average prices (`worth`, `Gross`): `WorthAfter` is `_apply_fill`, by which a
reduction keeps the average, to the last digit that is stored, and a fill that
crosses through flat opens what remains at its own price. The slippage is one
constant and smaller than any price. The bound on orders sits in `Prepare`.

The duplicate check never fires between screenings, since order ids carry the
time, and `working` is read by no check; neither is in the model. `overlapped`,
`cut`, `behind`, `fresh` and `mixed` are history variables that name the
situations the properties exclude; `slipped` is what the buys of the basket
filled last paid above their reference prices.

## Runs

| Run | Question | States |
|---|---|---|
| `order_totals` | Totals in any order, repeated: is the record inflated; does it agree with the broker once all arrived? | 45 thousand |
| `order_busts` | Increments and busts: is the record consistent, FILLED filled, each step allowed by `MonotoneOrder`? | 33 thousand |
| `fabric` | Two threads, faults, a crash: what holds always, what holds while requests come in turn? | 1.7 million |
| `copy` | Two followers, stale views, failing connections, barred accounts: size, side, direction, convergence, override? | 0.7 million |
| `jobs` | Three jobs, cancellations, failures, a crash: does everything that was accepted end and say so, and is nothing live forgotten? | 0.3 million |
| `missions` | Two missions and their jobs: do rows agree with steps and jobs, whoever saves, and is the slot freed? | 1 million |
| `approvals` | An agent, a person, a list and deadlines: does what runs have a decision, once, and is the record true? | 1 million |
| `fund` | Two requests on one book: are orders placed once, limits kept by a basket, records in agreement with fills? | 1 million |
| `v_*` | a statement of the documentation that the code does not keep (see below) | |

What the properties say:

* `NeverOverCounts`, `Converges`: duplicates and reordering neither inflate a
  record nor, when totals are stated, leave anything out. `Converges` excludes
  orders that were modified.
* `RecordConsistent`, `FilledMeansFilled`, `MonotoneProgress`: state and
  quantity move together, and back by a bust only.
* `OutboxFirstAlive`, `BudgetHolds` and `LateAtMostOnce` of `Fabric` hold with
  any interleaving: what was carried out and not answered is in the outbox while
  the process lives; drains that overlap overdraw the budget by one token for
  each of them but the last, as the unlocked test and charge of `take` permits,
  and never by more; after the connection's state changed, a drain under way may
  hand over one command the new state forbids, and then stops.
  `NothingLostInTurn`, `HighestFirst`, `OneTryPerDrain` hold while requests are
  served one at a time (`~overlapped`), which the code does not ensure and
  `v_lost` shows the want of.
* `NeverOversized`: after one move of the leader no staleness, retry or
  repetition oversizes a follower. `StaysOneSided`, `TowardTarget`,
  `OverrideOnlyReduces`, `LandsOnNewTarget` speak of passes made *informed*:
  views as the providers have it, nothing queued. `OverrideOnlyReduces` and
  `StaysOneSided` hold with `block_reversals` (its default), the second one only
  where no follower's size rounds a held leader position to zero.
* `LiveJobsAreListed`, `NoStaleCancel`, `InboxAgrees`, `CapYieldsToUnseen`:
  registry, cancel set and inbox agree whatever is evicted or trimmed.
  `EveryJobLands`, `CancelStops`: accepted work ends in the inbox; a job asked
  to stop before its last checkpoint does not complete.
* `RecordTells`: a mission's row against its steps, the job that ran it and the
  jobs its steps waited for. A job that is DONE left a finished row that says
  what the steps came to; before that the row may say "completed" of steps that
  failed, but never of steps that did not end. `SlotIsFreed`: the slot comes free
  unless a launch or a closing raised, also if a job that is waited for hangs.
* `RunsOnce`, `DecisionTells`, `NeedsAPerson`, `LockIsReleased`,
  `ImplementsConsent`: at most one run more than answers were lost; a decision on
  file tells of every run whose answer was not lost (a rejection may stand over
  one whose answer was); what an agent does without a person was allowed by a stance a
  person named; no decision keeps the lock.
* `PlacedOnce`, `Reconciles` of `Fund`: no order twice, and records agree with
  fills, for orders whose submission was neither overlapped nor cut short nor
  crossed by a cancel. `WithinCeiling`: the book is worth no more than the
  ceiling and what the last basket slipped, while fills happen under a screening
  that describes the book. Slippage does take the book past the ceiling (the run
  reaches it); it does not add up, because the next basket is weighed against a
  book that contains it.
  `AcceptedSettles`: no order stays accepted.

### Disagreements with the documentation

| Run | The text | What the code does |
|---|---|---|
| `v_lost` | `fabric.py:88` and `:461`, queued and not dropped | two drains peek one command and pop two |
| `v_expired` | `approvals.py:21` and `:234`, an expired request was not run | a listing that read a request as pending overwrites its decision with EXPIRED |
| `v_kill` | `gate.py:330`, a disabled limit set refuses every order | an order cleared before is accepted and placed |
| `v_mission` | `test_mission_persistence.py:1`, a finished mission never reads as running | a cancelled mission has an end and the status "running" |

Known beside these, and the reason for conditions in the properties above: a
modification takes an order's state from the quantity it replaces
(`orders.py:560`); an increment behind a later sequence number is dropped
(`orders.py:485`); a bust reopens a rejected order (`orders.py:465`); the outbox
dies with the process (`fabric.py:331`); a key used once blocks the same position
and target for good (`copy.py:636`); with reversals allowed, a smaller position
on the other side counts as a reduction (`copy.py:635`); a queued entry is sent
after the leader went flat (`fabric.py:420`); an order may clear the direction
rung on the strength of a closing order that is then not delivered
(`desk.py:336`); two submissions of one order may
both place it, and a cancel writes over a fill it crossed (`oms.py:283`, `:328`);
submitting two screenings of one rebalance doubles it (`fund.py:472`); a drain on
an emptied queue raises (`fabric.py:400`); `launch` may store "completed" for a
mission with a failed step (`orchestrator.py:386` between `:414` and `:428`), and
it stays if the process dies there; an
exception in `_normalise` or in the mirror leaves the mission slot taken until a
restart (`orchestrator.py:348`, `:429`); after a crash the rows of missions stay
"running".

### Bounds

* Orders: quantity 3, modified up to 4, in `order_totals`, so that an order can
  be filled in three steps and the last report arrive before the others;
  quantity 2 in `order_busts`. Five or six reports, which is submit,
  acknowledge, two fills and two more (a bust and a fill after it, or a
  modification up and a close). Every order of delivery of them is explored,
  and tracking and forgetting at any time.
* `fabric`: an entry and a more urgent cancel, two threads, two rounds per
  drain, a budget of one token, so that it runs out inside a drain and two drains
  overdraw it; one faulty answer and one crash at any step. Threads are
  interchangeable and no property names one, so the run uses symmetry.
* `copy`: leader positions -2 to 2, two changes (a reversal through or past
  flat), one order per follower that a pass leaves held back, which later passes
  flush along with their own; "one" is small enough to reverse in a
  single order, "double" needs two orders for its largest position and has a
  provider that refuses it.
* `jobs`: three jobs, a registry and an inbox that keep one, so that both limits
  are exceeded by one and by two; one of the jobs has a checkpoint.
* `missions`: a plan with an action and a job, and a plan of one action; the
  registry keeps one job, so the job a step waits for can be evicted.
* `approvals`: two requests (`MaxRequests`), one list of the queue, one lost
  answer per request (`MaxCut`); three kinds of action, one ordinary mode beside
  AI mode.
* `fund`: two symbols at one price, two orders (`MaxOrders`), two threads;
  proposals whose orders fit the ceiling one at a time only, that drop a holding
  while they reduce another, and that turn a holding into a short.

Deadlock is checked in every run. `Jobs` and `Missions` end when every job ended
and every mission is over, which their `Rest` step says.

### Fairness

Where the code has a thread of its own, the model has weak fairness: a worker
thread that was started goes on (`Jobs`), so do a request that is being served
(`Fund`), a decision that holds the lock (`Approvals`), and a launch and the
thread of a mission (`Missions`; a wait has a deadline, which makes `AwaitFails`
possible at any time, and the job it waits for may hang). Nobody has to submit, cancel, decide, list or launch.
Whether work raises, a broker answers with a fill or an error, and a write
fails, is left open. The desk has no fairness: nothing in the code schedules a
flush, a pass or a reconciliation, each happens when a person or an assistant
calls the API, and "a queued command is eventually sent" would have to assume
exactly that.

## Proofs

Every invariant and every action property that a passing run checks is a theorem
of its module, for every value of the constants; liveness is left to TLC. The
assumptions are the named `ASSUME`s of the modules (constants have their types, a
follower's size for a flat leader is zero) and the hypotheses of single theorems,
which are named here with what happens without them.

`OrderLifecycle_proofs`, for every quantity, broker profile and number of
reports:

* `TypeCorrect`, `RecordsAreConsistent`, `ImplementsPromise`, `FilledIsFilled`.
  The inductive invariant is `IInv`: types, `RecordConsistent`, and two facts
  about the other side, that the broker's order is itself coherent and that every
  report on the wire states a quantity that makes sense for its type. Without them
  a report could carry anything and the guards of `_transition` would have to be
  complete, which they are not for reports no broker makes. `ImplementsPromise`
  maps each action to a step of `MonotoneOrder` or a stutter. `FilledIsFilled`
  assumes that "modified" is not among `Emits`, the case in which it is true.
* `CountsNoMore` (`NeverOverCounts`). With totals, `ByTotals`: every total on the
  wire is at most what the broker has filled by now, and a record takes over what
  it is told. With increments, `ByIncrements`: the record holds the sum of the
  increments whose keys are in its ledger, the broker the sum of all on the wire,
  and a sum over a part is no larger (`SumBelow` of `Counting`). Hypotheses: no
  report is a bust, since a record holds a voided fill until its bust arrives; and
  a broker that states no quantities modifies no order, since the machine then
  takes a fill to be all of the quantity it knows.
* `RecordCatchesUp` (`Converges`), for a broker that states a total on every
  report and voids none. `UpToDate` says, of an order that was not modified, that
  the reports are a chain (each one's state and total later than those before it,
  the last one's the broker's) and that the record says what the last of the
  reports that arrived says. So a report that a guard refuses was overtaken, and
  a report that nothing overtook is applied.

`Fabric_proofs`, for any commands, threads, budget and limits:

* `TypeCorrect`. Inductive with `Rounds`: a round under way was counted, so
  `left` does not go below zero.
* `OutboxComesFirst`. `Effects` says which steps touch the provider, the outbox
  and the answers; `Heard`, that a thread that settles has an answer, is what it
  needs beside that.
* `BudgetIsKept` (`BudgetHolds`), from `Overdraft`: the threads between the test
  and the charge found at least one token together, so the number of tokens is
  more than the number of these threads less the number of all. In turn,
  `Covered`: the token about to be charged is there.
* `LateIsOne` (`LateAtMostOnce`), from `LateStops`: once a thread handed over
  something its state forbids, what it has in hand after the next test the state
  permits, until the state changes again.
* `NoneIsLostInTurn`, `MostUrgentFirst`, from `InTurn`: while requests come in
  turn only one drain runs (`Solo`), the command in hand stays at the head of the
  heap until it is popped (`AtHead`), what is popped is what was peeked because
  tickets are unique (`Tickets`, `PopsWhatItHolds`), and the retry list is back
  in the queue before it is cleared (`Restored`). Each of these is what two
  overlapping drains break.
* `TriedOnce` (`OneTryPerDrain`), from `Once`: in turn, a command is in one
  place, the queue, a hand or the retry list (`OnePlace`; while the list is put
  back its front part is in both), and what is on its way has no final answer
  (`Unanswered`); and from `Untried`: while a drain sends, it has tried nothing
  that is queued or in hand.

`Jobs_proofs`, for any jobs, checkpoints and limits: `TypeCorrect`,
`LiveAreListed`, `NoCancelIsStale`, `InboxTells` and `CapYields`
(`CapYieldsToUnseen`). What they need beside each other is that a job has an
ending time exactly when it has recorded an outcome, because eviction goes by
the time and everything else by the thread. `CapYields` needs that an inbox over
its cap drops as many seen rows as it must if it has them: of n or more rows in
an order, at least n have fewer than n before them (`EnoughComeFirst` of
`Counting`).

`Missions_proofs`, for any missions, plans and jobs: `TypeCorrect` and
`RecordsTell` (`RecordTells`). The invariant `Inv` says where the worker of a
mission's job may be at each phase of the mission (`Worker`), which step the run
has come to (`Front`, and `Behind` once the step ended), what the dictionary
reads at each phase (`Place`), that what is in the dictionary, and hence whatever
part of the run any save stores, is `Sound`, and that a job which is DONE was
handed its result by a run past its last save (`Result`). A step of one mission,
or of a job that is not its own, leaves this as it is (`OneMission`, `JobIsOwn`,
`Frame`).

`CopyDesk_proofs`, for any group of followers and any sizes, caps and bounds:

* `TypeCorrect`, by `TypeInv`, which adds what the queues hold.
* `MovesTowardTarget`, `OverridesReduce`, `KeepsOneSide`, `PassLands`: what an
  informed pass does. Screening and flush are folds over sequences; the first
  section of the module shows that a fold is where a run ends, value by value
  (`Runs`). Hence the book in which a follower was cleared (`ScreenedInTurn`,
  `ScreenedWas`): it has the follower's own view, and the views of all that are
  skipped. The queues of an informed pass are empty, so an account receives its
  own order or nothing (`FlushedFresh`), and `LotsAre` says how far that goes:
  towards the target and not past it. For `KeepsOneSide`: while the leader is
  long no target is short, so an account that ends short was short before and its
  reversal is skipped; an account that is long beside it was flat, opened in this
  pass, and was screened against a book that holds the short one. Hypotheses:
  `BlockReversals` for `OverridesReduce` and `KeepsOneSide` (with reversals, a
  "reduction" may cross flat), and for the latter that no size of a held leader
  position is zero. The second one came out of the proof. A follower that takes
  one contract for two of the leader's is to be closed when the leader turns from
  -2 to 1, and another, flat one is to open long in the same pass: `screen_all`
  counts the closing order as carried out in the book of the next order
  (`desk.py:336`), and if its transport fails and the other's does not, the two
  accounts end opposite until the next flush.
* `OneMoveNeverOversizes` (`NeverOversized`). `MoveInv` says that before the
  leader's first move nothing is held, queued or accepted (`NoMove`), and that
  after it every order queued or accepted was made for this position of the
  leader (`OneMove`): they have one key, of which a provider takes one, and each
  leads from flat no further than to the target.

`Approvals_proofs`, for any actions, modes, requests and viewers: `TypeCorrect`,
`ApprovalRunsOnce`, `DecisionsTell`, `PersonIsNeeded` and
`ApprovalsImplementConsent`. The invariant relates the step of the decision that
holds the lock to the counts of its request (`runs` is one more than `cut` after
the run and equal before), and says that a pending request nobody decides was
not run. `PersonIsNeeded` rests on the fact that an autonomous stance in an open
AI mode was named on entering it.

`Fund_proofs`, for any symbols, proposals, clients and limits:

* `TypeCorrect`, `OrdersPlacedOnce` and `BookReconciles`. Per order: of the
  threads that submit it at most one is there unless it is overlapped (`Alone`),
  what was placed and stored follows from the step that thread is at (`Known`),
  and an undisturbed order that no thread has in hand agrees with its fills
  (`Clean`).
* `BookWithinCeiling` (`WithinCeiling`), from `LInv`: what is submitted was
  cleared (`Passed`), and, as long as no fill was mixed, what the book is worth
  and the weights of all orders of a basket that were cleared, describe this book
  and are not filled fit the ceiling together, but for what the basket itself has
  slipped (`Room`). `ScreenBudgets` shows that what the gate decides fits, symbol
  after symbol, and `BasketFits` turns that into a sum over the orders that are
  remembered. A fill moves one order's weight from the sum to the book and adds at
  most its slippage (`WorthGrows`, `FillCosts`): adding costs what was paid,
  reducing adds nothing, and crossing no more than the whole order cost. Baskets
  are told apart by `Numbered`. Hypothesis beside the types: a contract costs more
  than the slippage.

The provers cannot instantiate an induction theorem that takes an operator.
Where a proof needs induction (sums, folds, the order of rows) it is stated on
sets instead, by a least counterexample (`LeastNat` of `Counting`, `Climb` of
`CopyDesk_proofs`), and the models use the folds of the community modules and no
recursive operator. Out of the prover's reach are the liveness properties
`EveryJobLands`, `CancelStops`, `LockIsReleased`, `AcceptedSettles` and
`SlotIsFreed`; they hold on the instances of the runs, under the fairness above.

## Plan

1. Theorems: the weakest condition under which each disagreement above cannot
   happen, where none of the theorems states it yet.
2. Research campaigns: the life cycle of `api/campaigns.py` on the job registry,
   as a second client of `Jobs` beside `Missions`.
3. Vault move and mirror, and the workspace pointer, with a crash between copy
   and switch: one protocol for both.
4. Consent and autonomy of the desk, the risk ratchet and integer allocation.

## Not modelled

Statistics, judging, indicators, market data, portfolio construction and
analytics are numerical functions without protocol. Text generation, planning
and model calls have no outcome a model could predict; where another component
depends on them, their outcomes are choices. Rendering, the React and Electron
code, and single-writer stores whose every operation is one SQLite statement
have no interleaving to explore. Of the reconciliation engine only the adoption
of snapshots is modelled: the service reports divergences, acts on none and asks
for no correction plan. The largest files, `api/actions.py` and `api/control.py`,
are registrations: each action checks its arguments and calls one operation of a
component above.
