--------------------------- MODULE OrderLifecycle ---------------------------
(***************************************************************************)
(* One order as the Prop Desk records it (propdesk/orders.py), driven by   *)
(* the reports of a broker that may be repeated, reordered or lost.        *)
(*                                                                         *)
(* The broker side is the environment: it executes the order and puts one  *)
(* report on the wire for each thing that happened to it.  A report stays  *)
(* on the wire, so it can be delivered in any order, twice, or never.  The *)
(* machine side is OrderMachine: track, apply and forget.                  *)
(***************************************************************************)
EXTENDS Integers, Sequences

CONSTANTS
  OrderQty,        \* the quantity the order was placed for
  MaxQty,          \* the largest quantity a modification may ask for
  MaxReports,      \* how many reports the broker makes in a behaviour
  Totals,          \* how fills are quantified: "every" report carries the
                   \* cumulative total, only "fills" do, each fill carries an
                   \* "increment", or "none" is stated
  SequencedTypes,  \* the report types that carry a provider sequence number
  Emits            \* the optional report types this broker makes

ReportType ==
  {"submitted", "acknowledged", "modified", "partial_fill", "fill",
   "cancelled", "rejected", "expired", "busted"}

ASSUME OrderAssumption ==
  /\ MaxQty \in Nat \ {0} /\ OrderQty \in 1 .. MaxQty
  /\ MaxReports \in Nat
  /\ Totals \in {"every", "fills", "increment", "none"}
  /\ SequencedTypes \subseteq ReportType
  /\ Emits \subseteq {"modified", "cancelled", "rejected", "expired", "busted"}

VARIABLES
  broker,   \* the order as it really is: [state, quantity, filled]
  wire,     \* every report made so far, in the order the broker made them
  tracked,  \* order_id \in OrderMachine._orders
  record,   \* the OrderRecord: [state, quantity, filled, lastSeq]
  seen,     \* OrderMachine._seen, as positions on the wire
  arrived   \* the positions delivered to the tracked record at least once

vars == <<broker, wire, tracked, record, seen, arrived>>
machine == <<tracked, record, seen, arrived>>

\* A field the report does not have (None in the code).
Absent == -1

Terminal == {"filled", "cancelled", "rejected", "expired"}

OrderState ==
  {"created", "submitted", "working", "partially_filled"} \cup Terminal

Rank(s) ==
  IF s \in Terminal THEN 4
  ELSE CASE s = "created" -> 0
         [] s = "submitted" -> 1
         [] s = "working" -> 2
         [] s = "partially_filled" -> 3

\* Mutant: a closed order may still be closed differently.
TransitionsReclose(s) ==
  CASE s = "created" -> OrderState \ {"created"}
    [] s = "submitted" -> OrderState \ {"created", "submitted"}
    [] s = "working" -> OrderState \ {"created", "submitted"}
    [] s = "partially_filled" -> Terminal \cup {"partially_filled"}
    [] OTHER -> Terminal

\* The states each state may move to.
Transitions(s) ==
  CASE s = "created" -> OrderState \ {"created"}
    [] s = "submitted" -> OrderState \ {"created", "submitted"}
    [] s = "working" -> OrderState \ {"created", "submitted"}
    [] s = "partially_filled" -> Terminal \cup {"partially_filled"}
    [] OTHER -> {}

Report ==
  [type : ReportType, seq : Nat \cup {Absent}, cum : Nat \cup {Absent},
   inc : Nat \cup {Absent}, qty : (1 .. MaxQty) \cup {Absent}]

OrderRecord ==
  [state : OrderState, quantity : 1 .. MaxQty, filled : 0 .. MaxQty,
   lastSeq : Nat \cup {Absent}]

Fresh == [state |-> "created", quantity |-> OrderQty, filled |-> 0,
          lastSeq |-> Absent]

-----------------------------------------------------------------------------
(* The machine.  One predicate for each reason _transition has to refuse.  *)

\* The filled total the report implies, if it implies one.
Cumulative(o, r) ==
  IF r.cum # Absent THEN r.cum
  ELSE IF r.inc # Absent THEN o.filled + r.inc
  ELSE Absent

\* The state the report asks for.  A modification asks for no move.
Target(o, r) ==
  CASE r.type = "submitted" -> "submitted"
    [] r.type = "acknowledged" -> "working"
    [] r.type = "modified" -> IF o.state = "created" THEN "working" ELSE o.state
    [] r.type = "partial_fill" -> "partially_filled"
    [] r.type = "fill" -> "filled"
    [] OTHER -> r.type

\* Mutant: a report called a complete fill fills the order, whatever it states.
FilledByLabel(o, r) ==
  IF r.type = "fill" THEN o.quantity
  ELSE IF Cumulative(o, r) # Absent THEN Cumulative(o, r)
  ELSE o.filled

\* The filled quantity the record would hold afterwards: a complete fill that
\* states no quantity means the whole order.
FilledAfter(o, r) ==
  IF Cumulative(o, r) # Absent THEN Cumulative(o, r)
  ELSE IF r.type = "fill" THEN o.quantity
  ELSE o.filled

ClosedModification(o, r) == r.type = "modified" /\ o.state \in Terminal

BehindSequence(o, r) ==
  r.seq # Absent /\ o.lastSeq # Absent /\ r.seq < o.lastSeq

\* Mutant: an older total is taken as news.
BehindNoTotal(o, r) == FALSE

BehindTotal(o, r) == Cumulative(o, r) # Absent /\ Cumulative(o, r) < o.filled

BehindRank(o, r) ==
  /\ Rank(Target(o, r)) < Rank(o.state)
  /\ o.state # "working"
  /\ r.type # "modified"

OffTable(o, r) == Target(o, r) \notin Transitions(o.state)

\* Mutant: the total is tested before the report is added to it.
OverfillsTooLate(o, r) == o.filled > o.quantity

Overfills(o, r) == FilledAfter(o, r) > o.quantity

CutsBelowFilled(o, r) ==
  r.type = "modified" /\ r.qty # Absent /\ r.qty < o.filled

\* What a bust says was voided: its increment, else its quantity, else none.
Voided(r) == IF r.inc > 0 THEN r.inc ELSE IF r.qty > 0 THEN r.qty ELSE 0

\* Mutant: a bust may void more than was filled.
BadBustUnbounded(o, r) == Voided(r) = 0

BadBust(o, r) == Voided(r) = 0 \/ Voided(r) > o.filled

Verdict(o, r) ==
  IF r.type = "busted" THEN IF BadBust(o, r) THEN "illegal" ELSE "accepted"
  ELSE IF ClosedModification(o, r) THEN "illegal"
  ELSE IF BehindSequence(o, r) \/ BehindTotal(o, r) \/ BehindRank(o, r)
    THEN "stale"
  ELSE IF OffTable(o, r) \/ Overfills(o, r) \/ CutsBelowFilled(o, r)
    THEN "illegal"
  ELSE "accepted"

\* Mutant: the provider's label decides whether a fill was complete.
StateByLabel(o, r) == Target(o, r)

\* The state an accepted report leaves: a fill is partial or complete by its
\* quantity, whatever the provider called it, and a fill of nothing is an
\* acknowledgement.
StateAfter(o, r) ==
  LET asked == Target(o, r)  filled == FilledAfter(o, r) IN
  IF asked \notin {"partially_filled", "filled"} THEN asked
  ELSE IF filled = 0 THEN "working"
  ELSE IF filled >= o.quantity THEN "filled"
  ELSE "partially_filled"

Advanced(o, r) ==
  [state |-> StateAfter(o, r),
   quantity |-> IF r.type = "modified" /\ r.qty # Absent THEN r.qty
                ELSE o.quantity,
   filled |-> FilledAfter(o, r),
   lastSeq |-> IF r.seq > o.lastSeq THEN r.seq ELSE o.lastSeq]

\* A voided fill moves the total back, and takes the state from what is left.
Busted(o, r) ==
  LET left == o.filled - Voided(r) IN
  [o EXCEPT !.filled = left,
            !.state = IF left = 0 THEN "working"
                      ELSE IF left < o.quantity THEN "partially_filled"
                      ELSE "filled"]

Track ==
  /\ ~tracked
  /\ tracked' = TRUE /\ record' = Fresh /\ seen' = {} /\ arrived' = {}
  /\ UNCHANGED <<broker, wire>>

Forget ==
  /\ tracked
  /\ tracked' = FALSE /\ record' = Fresh /\ seen' = {} /\ arrived' = {}
  /\ UNCHANGED <<broker, wire>>

\* Mutant: the ledger of keys is not consulted.
ApplyAgain(i) ==
  /\ tracked
  /\ Verdict(record, wire[i]) = "accepted"
  /\ record' = IF wire[i].type = "busted" THEN Busted(record, wire[i])
               ELSE Advanced(record, wire[i])
  /\ seen' = seen \cup {i}
  /\ arrived' = arrived \cup {i}
  /\ UNCHANGED <<broker, wire, tracked>>

\* apply() of a report whose key is new and that no guard refuses.
ApplyReport(i) ==
  /\ tracked /\ i \notin seen
  /\ Verdict(record, wire[i]) = "accepted"
  /\ record' = IF wire[i].type = "busted" THEN Busted(record, wire[i])
               ELSE Advanced(record, wire[i])
  /\ seen' = seen \cup {i}
  /\ arrived' = arrived \cup {i}
  /\ UNCHANGED <<broker, wire, tracked>>

\* apply() of a report that is a duplicate, stale or illegal: the record and
\* the ledger of keys stay as they are, so a later delivery is judged anew.
RefuseReport(i) ==
  /\ tracked
  /\ i \in seen \/ Verdict(record, wire[i]) # "accepted"
  /\ arrived' = arrived \cup {i}
  /\ UNCHANGED <<broker, wire, tracked, record, seen>>

Deliver == \E i \in 1 .. Len(wire) : ApplyReport(i) \/ RefuseReport(i)

-----------------------------------------------------------------------------
(* The broker.                                                             *)

Quantified(type) == type \in {"partial_fill", "fill"}

\* Put a report on the wire.  The total is the one after the event.
Say(type, total, inc, qty) ==
  LET states == \/ Totals = "every" /\ type # "busted"
                \/ Totals = "fills" /\ Quantified(type)
      adds   == \/ type = "busted"
                \/ Totals = "increment" /\ Quantified(type)
  IN wire' = Append(wire,
       [type |-> type,
        seq  |-> IF type \in SequencedTypes THEN Len(wire) + 1 ELSE Absent,
        cum  |-> IF states THEN total ELSE Absent,
        inc  |-> IF adds THEN inc ELSE Absent,
        qty  |-> qty])

BrokerSubmits ==
  /\ broker.state = "created"
  /\ broker' = [broker EXCEPT !.state = "submitted"]
  /\ Say("submitted", 0, 0, Absent)

BrokerAcknowledges ==
  /\ broker.state = "submitted"
  /\ broker' = [broker EXCEPT !.state = "working"]
  /\ Say("acknowledged", 0, 0, Absent)

\* The label of a quantified fill is the provider's own business.
BrokerFills ==
  /\ broker.state \in {"submitted", "working", "partially_filled"}
  /\ \E n \in 1 .. broker.quantity - broker.filled :
       LET total == broker.filled + n
           state == IF total = broker.quantity THEN "filled"
                    ELSE "partially_filled"
       IN /\ broker' = [broker EXCEPT !.state = state, !.filled = total]
          /\ \E label \in {"partial_fill", "fill"} :
               /\ Totals = "none" =>
                    (label = "fill" <=> total = broker.quantity)
               /\ Say(label, total, n, Absent)

BrokerModifies ==
  /\ "modified" \in Emits
  /\ broker.state \in {"working", "partially_filled"}
  /\ \E q \in (broker.filled + 1) .. MaxQty :
       /\ q # broker.quantity
       /\ broker' = [broker EXCEPT !.quantity = q]
       /\ Say("modified", broker.filled, 0, q)

BrokerCloses ==
  \E s \in {"cancelled", "rejected", "expired"} \cap Emits :
    /\ broker.state \notin Terminal \cup {"created"}
    /\ broker' = [broker EXCEPT !.state = s]
    /\ Say(s, broker.filled, 0, Absent)

\* A fill is voided after the fact.
BrokerBusts ==
  /\ "busted" \in Emits
  /\ \E n \in 1 .. broker.filled :
       /\ broker' = [broker EXCEPT !.filled = @ - n]
       /\ Say("busted", broker.filled - n, n, Absent)

Broker ==
  /\ Len(wire) < MaxReports
  /\ \/ BrokerSubmits \/ BrokerAcknowledges \/ BrokerFills
     \/ BrokerModifies \/ BrokerCloses \/ BrokerBusts
  /\ UNCHANGED machine

Init ==
  /\ broker = [state |-> "created", quantity |-> OrderQty, filled |-> 0]
  /\ wire = <<>>
  /\ tracked = FALSE /\ record = Fresh /\ seen = {} /\ arrived = {}

Next == Track \/ Forget \/ Deliver \/ Broker

Spec == Init /\ [][Next]_vars

-----------------------------------------------------------------------------
(* Properties.                                                             *)

TypeOK ==
  /\ broker \in [state : OrderState, quantity : 1 .. MaxQty,
                 filled : 0 .. MaxQty]
  /\ wire \in Seq(Report)
  /\ tracked \in BOOLEAN
  /\ record \in OrderRecord
  /\ seen \subseteq 1 .. Len(wire)
  /\ arrived \subseteq 1 .. Len(wire)

(* Whatever arrived and in whichever order, a record never holds more     *)
(* fills than the order asks for, and an order that counts as filled or   *)
(* partially filled has fills.  _transition and _bust move the state and  *)
(* the quantity together.                                                 *)
Consistent(o) ==
  /\ o.filled <= o.quantity
  /\ o.state \in {"partially_filled", "filled"} => o.filled > 0
RecordConsistent == Consistent(record)

(* A record that says FILLED is filled completely: "a half-applied        *)
(* transition - quantity updated, state not - [...] unrepresentable"      *)
(* (orders.py).  It holds of orders that are never modified.              *)
FilledMeansFilled ==
  record.state = "filled" => record.filled = record.quantity

(* A record never claims more fills than the broker made, however often   *)
(* and in whichever order the fills were reported: a duplicate, a re-read *)
(* total or a repeated increment never inflates a position.               *)
NeverOverCounts == record.filled <= broker.filled

(* Once every report reached the record at least once, in any order and   *)
(* with any repetition, the record agrees with the broker: nothing the    *)
(* guards dropped as stale was needed.  Of an order that was modified it  *)
(* does not hold: a quantity that arrives late meets a closed record.     *)
Agrees == record.filled = broker.filled /\ record.state = broker.state
Converges ==
  /\ tracked /\ arrived = 1 .. Len(wire)
  /\ \A i \in 1 .. Len(wire) : wire[i].type # "modified"
  => Agrees

(* The record implements the abstract promise of MonotoneOrder: progress  *)
(* and fills never move back except by a bust.                            *)
Promise ==
  INSTANCE MonotoneOrder WITH state <- record.state, filled <- record.filled
MonotoneProgress == Promise!Spec
=============================================================================
