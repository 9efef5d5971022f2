-------------------------------- MODULE Fund --------------------------------
(* From a portfolio proposal to fills: prepare the orders, screen them at  *)
(* the pre-trade gate, submit what was cleared, cancel.                    *)
(* Source: api/fund.py, execution/gate.py, execution/oms.py, paper.py.     *)
(*                                                                         *)
(* Requests are served by several threads. Screened orders are memory;     *)
(* orders and fills are tables, one transaction per write. The paper       *)
(* broker fills an order whole or lets it rest; the set of resting orders  *)
(* it keeps answers nothing that is read. Money is counted in whole units, *)
(* for the contracts of one multiplier: the gate weighs an order at its    *)
(* reference price, the broker fills it a slippage away from that, and the *)
(* book is worth what it was filled at.                                    *)
EXTENDS Integers, FiniteSets, Functions

CONSTANTS
  Symbols,    \* symbols are 1..Symbols, in the order prepare_orders goes through
  MaxOrders,  \* bound: orders prepared and screened
  Client,     \* threads that serve requests
  Proposals,  \* stored proposals: contracts by symbol; Absent where a symbol has no holding
  Absent,
  Judged,     \* symbols whose strategy holds an eligible verdict
  Shortable,  \* symbols established as shortable
  Prices,     \* what a contract may cost by the configuration a rebalance reads
  Slip,       \* slippage_ticks: what a contract is filled away from its reference
  MaxGross,   \* max_leverage, of the capital
  MaxWeight   \* max_position_weight, of the capital

Symbol == 1..Symbols
Order == 1..MaxOrders

ASSUME FundAssumption ==
  /\ Symbols \in Nat /\ MaxOrders \in Nat
  /\ Absent \notin Int
  /\ Proposals \subseteq [Symbol -> Int \cup {Absent}]
  /\ MaxGross \in Nat /\ MaxWeight \in Nat
  /\ Slip \in Nat /\ Prices \subseteq Nat /\ \A price \in Prices : Slip < price

VARIABLES
  enabled,   \* FALSE: the kill switch is thrown
  order,     \* the orders that were screened, what they are and whether they were cleared
  screened,  \* the orders the service remembers (_screened)
  rec,       \* the rows of the orders table
  fills,     \* fills[o]: fills stored for o, each of its whole quantity
  held,      \* Book: the positions those fills sum to
  worth,     \* and what each is worth, at its average price
  doing,     \* the step a thread makes next, and the order it makes it for
  delta      \* the rebalance it prepared, and what the gate decided on it

VARIABLES
  placed,      \* history: calls of place for o
  overlapped,  \* history: orders two submissions found unrecorded
  cut,         \* history: orders whose submission was cut short or crossed by a cancel
  behind,      \* history: threads whose screening read a book that was filled since
  fresh,       \* history: orders whose screening still describes the book
  mixed,       \* history: an order was filled that was not fresh
  last,        \* history: the basket that was filled last
  slipped      \* history: what its buys paid above their reference prices

service == <<enabled, order, screened>>
tables == <<rec, fills, held, worth>>
threads == <<doing, delta>>
ceiling == <<fresh, mixed, last, slipped>>
history == <<placed, overlapped, cut, behind, ceiling>>
vars == <<service, tables, threads, history>>

NoOrder == [symbol |-> 0, size |-> 0, price |-> 0, cleared |-> FALSE, batch |-> 0]
OrderStatus == {"none", "accepted", "working", "filled", "cancelled", "rejected"}
Open(o) == rec[o].status \in {"accepted", "working"}
Flat == [s \in Symbol |-> 0]
NoDelta == [size |-> 0, price |-> 0, named |-> FALSE, cleared |-> FALSE]
Nothing == [s \in Symbol |-> NoDelta]
Idle == [step |-> "idle", order |-> 0]
Screening == {"screen", "remember"}
Submitting == {"save", "place", "fill", "settle", "rest", "reject"}
Cancelling == {"cancel", "mark"}

Init ==
  /\ enabled \in BOOLEAN
  /\ order = [o \in Order |-> NoOrder] /\ screened = {}
  /\ rec = [o \in Order |-> [status |-> "none", filled |-> FALSE]]
  /\ fills = [o \in Order |-> 0] /\ held = Flat /\ worth = Flat
  /\ doing = [c \in Client |-> Idle] /\ delta = [c \in Client |-> Nothing]
  /\ placed = [o \in Order |-> 0]
  /\ overlapped = {} /\ cut = {} /\ behind = {}
  /\ fresh = {} /\ mixed = FALSE /\ last = 0 /\ slipped = 0

At(c, step) == doing[c].step = step
Starts(c, step, o) == doing' = [doing EXCEPT ![c] = [step |-> step, order |-> o]]
Goes(c, step) == doing' = [doing EXCEPT ![c].step = step]
Ends(c) == doing' = [doing EXCEPT ![c] = Idle]
Magnitude(n) == IF n < 0 THEN -n ELSE n
Gross == SumFunctionOnSet(worth, Symbol)

-----------------------------------------------------------------------------
SetSwitch ==
  /\ enabled' = ~enabled
  /\ UNCHANGED <<order, screened, tables, threads, history>>

(* prepare_orders: to the target from the book. A symbol that is held and  *)
(* has no holding in the proposal is closed, and its order names nobody.   *)
Rebalance(p, quote) ==
  [s \in Symbol |->
     LET target == IF p[s] = Absent THEN 0 ELSE p[s]
     IN  IF target = held[s] THEN NoDelta
         ELSE [size |-> target - held[s], price |-> quote[s],
               named |-> p[s] # Absent, cleared |-> FALSE]]

Used == Cardinality({o \in Order : order[o] # NoOrder})
HasRoom(ds) == Used + Cardinality({s \in Symbol : ds[s].size # 0}) <= MaxOrders

Prepare(c, p, quote) ==
  /\ At(c, "idle")
  /\ Rebalance(p, quote) # Nothing /\ HasRoom(Rebalance(p, quote))
  /\ Starts(c, "screen", 0)
  /\ delta' = [delta EXCEPT ![c] = Rebalance(p, quote)]
  /\ UNCHANGED <<service, tables, history>>

Weight(d) == Magnitude(d.size) * d.price

(* screen: the checks whose answer differs from order to order. Unknown    *)
(* evidence and unknown shortability block.                                *)
Allowed(s, d, gross) ==
  /\ enabled
  /\ d.named /\ s \in Judged
  /\ held[s] + d.size >= 0 \/ s \in Shortable
  /\ gross + Weight(d) <= MaxGross
  /\ Magnitude(held[s]) * d.price + Weight(d) <= MaxWeight

\* Mutant: each order of the basket is screened against the book alone.
GrossAlone(ds, s) == Gross

(* screen_all: the weight of what was cleared before s is added to what    *)
(* the book is worth when s is screened.                                   *)
GrossBefore(ds, s) ==
  LET After[n \in 0..Symbols] ==
        IF n = 0 THEN Gross
        ELSE After[n - 1] + (IF Allowed(n, ds[n], After[n - 1]) THEN Weight(ds[n]) ELSE 0)
  IN  After[s - 1]

(* screen: the gate decides on the configuration and the book it reads ... *)
Screen(c) ==
  /\ At(c, "screen")
  /\ delta' = [delta EXCEPT ![c] =
                 [s \in Symbol |->
                    [@[s] EXCEPT !.cleared = Allowed(s, delta[c][s], GrossBefore(delta[c], s))]]]
  /\ Goes(c, "remember")
  /\ UNCHANGED <<service, tables, history>>

IdOf(ds, s) == Used + Cardinality({q \in 1..s : ds[q].size # 0})

(* ... and the service remembers the decisions, once the verdict of every  *)
(* strategy was looked up and the checks were made.                        *)
Remember(c) ==
  LET ds == delta[c]
      moved == {s \in Symbol : ds[s].size # 0}
      new == {IdOf(ds, s) : s \in moved}
      Of(o) == CHOOSE s \in moved : IdOf(ds, s) = o
      Decided(s) == [symbol |-> s, size |-> ds[s].size, price |-> ds[s].price,
                     cleared |-> ds[s].cleared, batch |-> Used + 1]
  IN  /\ At(c, "remember")
      /\ new \subseteq Order
      /\ order' = [o \in Order |-> IF o \in new THEN Decided(Of(o)) ELSE order[o]]
      /\ screened' = screened \cup new
      /\ fresh' = IF mixed \/ c \in behind THEN fresh ELSE fresh \cup new
      /\ behind' = behind \ {c}
      /\ Ends(c)
      /\ delta' = [delta EXCEPT ![c] = Nothing]
      /\ UNCHANGED <<enabled, tables, placed, overlapped, cut, mixed, last, slipped>>

-----------------------------------------------------------------------------
InFlight(o) == \E c \in Client : doing[c].order = o /\ doing[c].step \in Submitting

(* FundService.submit and OrderManagementSystem.submit. *)
Check(c, o) ==
  /\ At(c, "idle")
  /\ o \in screened /\ order[o].cleared
  /\ rec[o].status = "none"
  /\ Starts(c, "save", o)
  /\ overlapped' = IF \E k \in Client : doing[k] = [step |-> "save", order |-> o]
                   THEN overlapped \cup {o} ELSE overlapped
  /\ UNCHANGED <<service, tables, delta, placed, cut, behind, ceiling>>

\* Mutant: the order is recorded only once it is known what became of it.
SaveLater(c) ==
  /\ At(c, "save")
  /\ Goes(c, "place")
  /\ UNCHANGED <<service, tables, delta, history>>

Save(c) ==
  /\ At(c, "save")
  /\ rec' = [rec EXCEPT ![doing[c].order] = [status |-> "accepted", filled |-> FALSE]]
  /\ Goes(c, "place")
  /\ UNCHANGED <<service, fills, held, worth, delta, history>>

\* Mutant: an error of the broker is not caught.
PlaceUncaught(c) ==
  /\ At(c, "place")
  /\ placed' = [placed EXCEPT ![doing[c].order] = @ + 1]
  /\ \E answer \in {"fill", "rest", "error"} : Goes(c, answer)
  /\ UNCHANGED <<service, tables, delta, overlapped, cut, behind, ceiling>>

(* BrokerAdapter.place: the whole order, nothing (it rests), or an error.  *)
Place(c) ==
  /\ At(c, "place")
  /\ placed' = [placed EXCEPT ![doing[c].order] = @ + 1]
  /\ \E answer \in {"fill", "rest", "reject"} : Goes(c, answer)
  /\ UNCHANGED <<service, tables, delta, overlapped, cut, behind, ceiling>>

(* Fill.price: a buy pays the slippage, a sale gives it away.              *)
Paid(d) == IF d.size > 0 THEN d.price + Slip ELSE d.price - Slip
Slippage(d) == IF d.size > 0 THEN d.size * Slip ELSE 0

(* _apply_fill: what a position of h, worth w, is worth once n contracts   *)
(* were filled at price. What adds to it is worth what it cost; a          *)
(* reduction keeps the average, to the last digit that is kept; a fill     *)
(* that crosses through flat opens what remains.                           *)
WorthAfter(h, w, n, price) ==
  IF (h >= 0 /\ n >= 0) \/ (h <= 0 /\ n <= 0) THEN {w + Magnitude(n) * price}
  ELSE IF Magnitude(n) < Magnitude(h)
       THEN {v \in 0..w : Magnitude(v * Magnitude(h) - w * Magnitude(h + n)) < Magnitude(h)}
       ELSE {Magnitude(h + n) * price}

AddFill(c) ==
  LET o == doing[c].order
      s == order[o].symbol
  IN  /\ At(c, "fill")
      /\ fills' = [fills EXCEPT ![o] = @ + 1]
      /\ held' = [held EXCEPT ![s] = @ + order[o].size]
      /\ \E v \in WorthAfter(held[s], worth[s], order[o].size, Paid(order[o])) :
           worth' = [worth EXCEPT ![s] = v]
      /\ Goes(c, "settle")
      /\ IF ~mixed /\ o \in fresh /\ fills[o] = 0
         THEN /\ mixed' = FALSE
              /\ fresh' = {p \in fresh : order[p].batch = order[o].batch}
              /\ behind' = {k \in Client : At(k, "remember")}
              /\ last' = order[o].batch
              /\ slipped' = Slippage(order[o]) + (IF last = order[o].batch THEN slipped ELSE 0)
         ELSE /\ mixed' = TRUE /\ fresh' = {} /\ behind' = {} /\ last' = 0 /\ slipped' = 0
      /\ UNCHANGED <<service, rec, delta, placed, overlapped, cut>>

Records(c, status, filled) ==
  /\ rec' = [rec EXCEPT ![doing[c].order] = [status |-> status, filled |-> filled]]
  /\ Ends(c)
  /\ UNCHANGED <<service, fills, held, worth, delta, history>>

\* Mutant: what is saved is the order as it was accepted, with its status only.
SettleUncounted(c) == At(c, "settle") /\ Records(c, "filled", FALSE)

(* _applied: filled, or working when the broker returned no fills. *)
Settle(c) == At(c, "settle") /\ Records(c, "filled", TRUE)
Rest(c) == At(c, "rest") /\ Records(c, "working", FALSE)

\* Mutant: an error of the broker is passed on and the record left as it is.
RejectSilent(c) ==
  /\ At(c, "reject")
  /\ Ends(c)
  /\ UNCHANGED <<service, tables, delta, history>>

Reject(c) == At(c, "reject") /\ Records(c, "rejected", FALSE)

(* cancel: read, tell the broker, write back what was read as cancelled.   *)
(* An open record counts no fills.                                         *)
AskCancel(c, o) ==
  /\ At(c, "idle")
  /\ Open(o)
  /\ Starts(c, "cancel", o)
  /\ cut' = IF InFlight(o) THEN cut \cup {o} ELSE cut
  /\ UNCHANGED <<service, tables, delta, placed, overlapped, behind, ceiling>>

BrokerCancels(c) ==
  /\ At(c, "cancel")
  /\ Goes(c, "mark")
  /\ UNCHANGED <<service, tables, delta, history>>

MarkCancelled(c) == At(c, "mark") /\ Records(c, "cancelled", FALSE)

(* A write that cannot be made (a locked database) ends the request.       *)
Fails(c) ==
  /\ doing[c].step \in {"fill", "settle", "rest", "reject", "mark"}
  /\ Ends(c)
  /\ cut' = cut \cup {doing[c].order}
  /\ UNCHANGED <<service, tables, delta, placed, overlapped, behind, ceiling>>

Crash ==
  /\ screened # {}
  /\ screened' = {}
  /\ doing' = [c \in Client |-> Idle]
  /\ delta' = [c \in Client |-> Nothing]
  /\ cut' = cut \cup {o \in Order : \E c \in Client : doing[c].order = o}
  /\ behind' = {}
  /\ UNCHANGED <<enabled, order, tables, placed, overlapped, ceiling>>

-----------------------------------------------------------------------------
Submission(c) == Save(c) \/ Place(c) \/ AddFill(c) \/ Settle(c) \/ Rest(c) \/ Reject(c)
Cancellation(c) == BrokerCancels(c) \/ MarkCancelled(c)

Next ==
  \/ SetSwitch
  \/ \E c \in Client :
       \/ \E p \in Proposals, quote \in [Symbol -> Prices] : Prepare(c, p, quote)
       \/ Screen(c) \/ Remember(c)
       \/ \E o \in Order : Check(c, o) \/ AskCancel(c, o)
       \/ Submission(c) \/ Cancellation(c) \/ Fails(c)
  \/ Crash

(* A request that is being served goes on; nobody has to make one. *)
Fairness == \A c \in Client : WF_vars(Submission(c) \/ Cancellation(c) \/ Fails(c))
Spec == Init /\ [][Next]_vars /\ Fairness

-----------------------------------------------------------------------------
Step == {"idle"} \cup Screening \cup Submitting \cup Cancelling
Priced(d) == d.size # 0 => d.price \in Prices
OrderRecord == {d \in [symbol : 0..Symbols, size : Int, price : Nat, cleared : BOOLEAN, batch : Nat] : Priced(d)}
DeltaRecord == {d \in [size : Int, price : Nat, named : BOOLEAN, cleared : BOOLEAN] : Priced(d)}

TypeOK ==
  /\ enabled \in BOOLEAN
  /\ order \in [Order -> OrderRecord]
  /\ rec \in [Order -> [status : OrderStatus, filled : BOOLEAN]]
  /\ fills \in [Order -> Nat]
  /\ held \in [Symbol -> Int] /\ worth \in [Symbol -> Nat]
  /\ doing \in [Client -> [step : Step, order : 0..MaxOrders]]
  /\ delta \in [Client -> [Symbol -> DeltaRecord]]
  /\ placed \in [Order -> Nat]
  /\ screened \cup overlapped \cup fresh \subseteq Order
  /\ cut \subseteq Order
  /\ behind \subseteq Client
  /\ mixed \in BOOLEAN /\ last \in Nat /\ slipped \in Nat

(* An order is placed at most once, whatever crashes and whatever write    *)
(* fails, unless two submissions both found it unrecorded.                 *)
PlacedOnce == \A o \in Order : o \notin overlapped => placed[o] <= 1

(* What reconcile compares: a record and the fills behind it agree once    *)
(* the submission is over, unless it overlapped, was cut short, or was     *)
(* crossed by a cancel.                                                    *)
Reconciles ==
  \A o \in Order :
    ~InFlight(o) /\ o \notin overlapped \cup cut =>
      /\ rec[o].filled <=> fills[o] > 0
      /\ rec[o].status = "filled" <=> fills[o] = 1

(* However large a basket is and however it slips, the book is worth no    *)
(* more than the ceiling and what the basket that was filled last paid     *)
(* above its reference prices: the next basket is weighed against a book   *)
(* that has the slippage in it. This is while orders are filled on a       *)
(* screening that read the book as it is but for fills of their basket.    *)
WithinCeiling == ~mixed => Gross <= MaxGross + slipped

(* An accepted order gets another status, unless its submission was cut.   *)
AcceptedSettles ==
  \A o \in Order : rec[o].status = "accepted" ~> (rec[o].status # "accepted" \/ o \in cut)

(* "A disabled limit set refuses every order": a submission that passes    *)
(* the checks while the switch is thrown breaks it.                        *)
KillSwitchRefuses ==
  [][\A o \in Order : rec[o].status = "none" /\ rec'[o].status # "none" => enabled]_vars
=============================================================================
