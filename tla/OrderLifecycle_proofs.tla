------------------------ MODULE OrderLifecycle_proofs ------------------------
(***************************************************************************)
(* Proofs about OrderLifecycle, for every order quantity, every broker     *)
(* profile and every number of reports.                                    *)
(*                                                                         *)
(* IInv adds to the type invariant what the machine relies on from the     *)
(* wire: a modification never reports more fills than the quantity it asks *)
(* for, and a broker that does not modify puts no modification there.      *)
(*                                                                         *)
(* The later sections are about brokers that void no fill.  BrokerSays     *)
(* tells what each of their events puts on the wire; ByTotals and          *)
(* ByIncrements, one for each way of quantifying fills, are inductive and  *)
(* bound the record by the broker; UpToDate is inductive where every       *)
(* report states its total, and says that the record is what the last of   *)
(* the reports that arrived says.                                          *)
(***************************************************************************)
EXTENDS OrderLifecycle, Counting, TLAPS

Coherent(r) ==
  /\ r.type = "modified" => r.cum <= r.qty /\ r.qty # Absent
  /\ r.type = "modified" => "modified" \in Emits
  /\ r.type = "modified" => r.inc = Absent

WireCoherent == \A i \in 1 .. Len(wire) : Coherent(wire[i])

BrokerCoherent == broker.filled <= broker.quantity

IInv == TypeOK /\ RecordConsistent /\ WireCoherent /\ BrokerCoherent

-----------------------------------------------------------------------------
(* The two ways a record changes.                                          *)

(* An accepted report that is not a bust finds the order open and moves    *)
(* its rank and its filled quantity forward, and leaves a consistent       *)
(* record.                                                                 *)
LEMMA AdvancedFacts ==
  ASSUME NEW o \in OrderRecord, Consistent(o),
         NEW r \in Report, Coherent(r),
         r.type # "busted", Verdict(o, r) = "accepted"
  PROVE  /\ Advanced(o, r) \in OrderRecord
         /\ Consistent(Advanced(o, r))
         /\ o.state \notin Terminal
         /\ Rank(Advanced(o, r).state) >= Rank(o.state)
         /\ Advanced(o, r).filled >= o.filled
<1> USE OrderAssumption DEF Absent
<1>1. /\ ~BehindTotal(o, r) /\ ~BehindRank(o, r) /\ ~OffTable(o, r)
      /\ ~Overfills(o, r) /\ ~CutsBelowFilled(o, r)
  BY DEF Verdict
<1>2. /\ o.state \in OrderState /\ o.quantity \in 1 .. MaxQty
      /\ o.filled \in 0 .. MaxQty /\ o.lastSeq \in Nat \cup {-1}
      /\ r.type \in ReportType /\ r.seq \in Nat \cup {-1}
      /\ r.cum \in Nat \cup {-1} /\ r.inc \in Nat \cup {-1}
      /\ r.qty \in (1 .. MaxQty) \cup {-1}
  BY DEF OrderRecord, Report
<1>3. o.state \notin Terminal
  BY <1>1, <1>2 DEF OffTable, Transitions, Terminal, OrderState
<1>4. FilledAfter(o, r) \in o.filled .. o.quantity
  BY <1>1, <1>2 DEF BehindTotal, Overfills, FilledAfter, Cumulative, Consistent
<1>5. Target(o, r) \in Transitions(o.state) /\ Target(o, r) \in OrderState
  <2>1. Target(o, r) \in Transitions(o.state)
    BY <1>1 DEF OffTable
  <2>2. Transitions(o.state) \subseteq OrderState
    BY <1>2 DEF Transitions, OrderState, Terminal
  <2>3. QED
    BY <2>1, <2>2
<1>6. StateAfter(o, r) \in OrderState
  BY <1>5 DEF StateAfter, OrderState, Terminal
<1>7. Rank(StateAfter(o, r)) >= Rank(o.state)
  <2>1. CASE o.state = "created"
    BY <2>1, <1>6 DEF Rank, OrderState, Terminal
  <2>2. CASE o.state = "submitted"
    BY <2>2, <1>5 DEF Rank, OrderState, Terminal, StateAfter, Transitions
  <2>3. CASE o.state = "working"
    BY <2>3, <1>5 DEF Rank, OrderState, Terminal, StateAfter, Transitions
  <2>4. CASE o.state = "partially_filled"
    <3>1. FilledAfter(o, r) > 0
      BY <2>4, <1>4, <1>2 DEF Consistent
    <3>2. Target(o, r) \in Terminal \cup {"partially_filled"}
      BY <2>4, <1>5 DEF Transitions
    <3>3. StateAfter(o, r) \in Terminal \cup {"partially_filled"}
      BY <3>1, <3>2 DEF StateAfter, Terminal
    <3>4. QED
      BY <2>4, <3>3 DEF Rank, Terminal
  <2>5. QED
    BY <1>2, <1>3, <2>1, <2>2, <2>3, <2>4 DEF OrderState
<1>8. LET q == IF r.type = "modified" /\ r.qty # Absent THEN r.qty
               ELSE o.quantity
      IN q \in 1 .. MaxQty /\ FilledAfter(o, r) <= q
  <2>1. CASE r.type = "modified"
    <3>1. r.qty \in 1 .. MaxQty /\ r.cum <= r.qty /\ r.inc = -1
      BY <2>1, <1>2 DEF Coherent
    <3>2. o.filled <= r.qty
      BY <2>1, <3>1, <1>1, <1>2 DEF CutsBelowFilled
    <3>3. QED
      BY <2>1, <3>1, <3>2, <1>2 DEF FilledAfter, Cumulative
  <2>2. CASE r.type # "modified"
    BY <2>2, <1>2, <1>4
  <2>3. QED
    BY <2>1, <2>2
<1>9. StateAfter(o, r) \in {"partially_filled", "filled"} =>
        FilledAfter(o, r) > 0
  BY <1>2, <1>4 DEF StateAfter
<1>10. Advanced(o, r) \in OrderRecord
  BY <1>2, <1>4, <1>6, <1>8 DEF Advanced, OrderRecord
<1>11. Consistent(Advanced(o, r))
  BY <1>8, <1>9 DEF Advanced, Consistent
<1>12. /\ Advanced(o, r).state = StateAfter(o, r)
       /\ Advanced(o, r).filled = FilledAfter(o, r)
  BY DEF Advanced
<1>13. QED
  BY <1>2, <1>3, <1>4, <1>7, <1>10, <1>11, <1>12

(* An accepted bust takes away at least one fill and no more than there    *)
(* are, and takes the state from what is left.                             *)
LEMMA BustedFacts ==
  ASSUME NEW o \in OrderRecord, Consistent(o),
         NEW r \in Report,
         r.type = "busted", Verdict(o, r) = "accepted"
  PROVE  /\ Busted(o, r) \in OrderRecord
         /\ Consistent(Busted(o, r))
         /\ Busted(o, r).quantity = o.quantity
         /\ Busted(o, r).filled \in 0 .. o.filled - 1
         /\ Busted(o, r).state = IF Busted(o, r).filled = 0 THEN "working"
                                 ELSE "partially_filled"
<1> USE OrderAssumption
<1>1. Voided(r) \in 1 .. o.filled
  BY DEF Verdict, BadBust, Voided, Report, OrderRecord, Absent
<1>2. /\ o.quantity \in 1 .. MaxQty /\ o.filled \in 0 .. MaxQty
      /\ o.filled <= o.quantity
  BY DEF OrderRecord, Consistent
<1>3. o.filled - Voided(r) < o.quantity
  BY <1>1, <1>2
<1>4. Busted(o, r) = [o EXCEPT !.filled = o.filled - Voided(r),
                               !.state = IF o.filled - Voided(r) = 0
                                         THEN "working"
                                         ELSE "partially_filled"]
  BY <1>3 DEF Busted
<1>5. /\ Busted(o, r).filled = o.filled - Voided(r)
      /\ Busted(o, r).quantity = o.quantity
      /\ Busted(o, r).state = IF o.filled - Voided(r) = 0 THEN "working"
                              ELSE "partially_filled"
  BY <1>4 DEF OrderRecord
<1>6. Busted(o, r) \in OrderRecord
  <2>1. o.filled - Voided(r) \in 0 .. MaxQty
    BY <1>1, <1>2
  <2>2. {"working", "partially_filled"} \subseteq OrderState
    BY DEF OrderState
  <2>3. QED
    BY <1>4, <2>1, <2>2 DEF OrderRecord
<1>7. QED
  BY <1>1, <1>2, <1>5, <1>6 DEF Consistent

-----------------------------------------------------------------------------
(* The invariant is inductive.                                             *)

Adds == \E r \in Report : Coherent(r) /\ wire' = Append(wire, r)

BrokerOK ==
  /\ broker \in [state : OrderState, quantity : 1 .. MaxQty,
                 filled : 0 .. MaxQty]
  /\ BrokerCoherent

(* Every report the broker puts on the wire is well formed and coherent.   *)
LEMMA SayAdds ==
  ASSUME wire \in Seq(Report),
         NEW type \in ReportType, NEW total \in Nat, NEW inc \in Nat,
         NEW qty \in (1 .. MaxQty) \cup {Absent},
         type = "modified" =>
           "modified" \in Emits /\ qty # Absent /\ total <= qty,
         Say(type, total, inc, qty)
  PROVE  Adds
<1> USE OrderAssumption DEF Absent
<1> DEFINE states == \/ Totals = "every" /\ type # "busted"
                     \/ Totals = "fills" /\ Quantified(type)
           adds == \/ type = "busted"
                   \/ Totals = "increment" /\ Quantified(type)
           seq == IF type \in SequencedTypes THEN Len(wire) + 1 ELSE Absent
           cum == IF states THEN total ELSE Absent
           by  == IF adds THEN inc ELSE Absent
           r == [type |-> type, seq |-> seq, cum |-> cum, inc |-> by,
                 qty |-> qty]
<1>1. wire' = Append(wire, r)
  BY DEF Say
<1>2. seq \in Nat \cup {Absent}
  OBVIOUS
<1>3. cum \in Nat \cup {Absent} /\ (cum = total \/ cum = Absent)
  OBVIOUS
<1>4. by \in Nat \cup {Absent}
  OBVIOUS
<1>5. type = "modified" => by = Absent
  BY DEF Quantified
<1> HIDE DEF seq, cum, by
<1>6. r \in Report
  BY <1>2, <1>3, <1>4 DEF Report
<1>7. Coherent(r)
  BY <1>3, <1>5 DEF Coherent
<1>8. QED
  BY <1>1, <1>6, <1>7 DEF Adds

LEMMA BrokerStep ==
  ASSUME IInv, Broker PROVE IInv'
<1> USE OrderAssumption
<1>1. UNCHANGED <<tracked, record, seen, arrived>>
  BY DEF Broker, machine
<1>2. /\ broker.state \in OrderState /\ broker.quantity \in 1 .. MaxQty
      /\ broker.filled \in 0 .. MaxQty /\ broker.filled <= broker.quantity
      /\ wire \in Seq(Report)
      /\ broker \in [state : OrderState, quantity : 1 .. MaxQty,
                     filled : 0 .. MaxQty]
  BY DEF IInv, TypeOK, BrokerCoherent
<1>3. BrokerOK' /\ Adds
  <2>1. CASE BrokerSubmits
    <3>1. BrokerOK'
      BY <2>1, <1>2 DEF BrokerSubmits, BrokerOK, BrokerCoherent, OrderState
    <3>2. Say("submitted", 0, 0, Absent)
      BY <2>1 DEF BrokerSubmits
    <3>3. QED
      BY <3>1, <3>2, <1>2, SayAdds DEF ReportType
  <2>2. CASE BrokerAcknowledges
    <3>1. BrokerOK'
      BY <2>2, <1>2
      DEF BrokerAcknowledges, BrokerOK, BrokerCoherent, OrderState
    <3>2. Say("acknowledged", 0, 0, Absent)
      BY <2>2 DEF BrokerAcknowledges
    <3>3. QED
      BY <3>1, <3>2, <1>2, SayAdds DEF ReportType
  <2>3. CASE BrokerFills
    <3>1. PICK n \in 1 .. broker.quantity - broker.filled,
               label \in {"partial_fill", "fill"} :
            /\ broker' = [broker EXCEPT
                 !.state = IF broker.filled + n = broker.quantity
                           THEN "filled" ELSE "partially_filled",
                 !.filled = broker.filled + n]
            /\ Say(label, broker.filled + n, n, Absent)
      BY <2>3 DEF BrokerFills
    <3>2. BrokerOK'
      <4>1. broker.filled + n \in 0 .. broker.quantity
        BY <3>1, <1>2
      <4>2. {"filled", "partially_filled"} \subseteq OrderState
        BY DEF OrderState, Terminal
      <4>3. /\ broker'.quantity = broker.quantity
            /\ broker'.filled = broker.filled + n
        BY <3>1, <1>2
      <4>4. broker' \in [state : OrderState, quantity : 1 .. MaxQty,
                        filled : 0 .. MaxQty]
        <5>1. broker.filled + n \in 0 .. MaxQty
          BY <1>2, <4>1
        <5>2. PICK s \in OrderState :
                broker' = [broker EXCEPT !.state = s,
                                         !.filled = broker.filled + n]
          BY <3>1, <4>2
        <5>3. QED
          BY <1>2, <5>1, <5>2
      <4>5. QED
        BY <4>1, <4>3, <4>4 DEF BrokerOK, BrokerCoherent
    <3>3. broker.filled + n \in Nat /\ n \in Nat
      BY <1>2
    <3>4. QED
      BY <3>1, <3>2, <3>3, <1>2, SayAdds DEF ReportType
  <2>4. CASE BrokerModifies
    <3>1. PICK q \in (broker.filled + 1) .. MaxQty :
            /\ broker' = [broker EXCEPT !.quantity = q]
            /\ Say("modified", broker.filled, 0, q)
      BY <2>4 DEF BrokerModifies
    <3>2. BrokerOK'
      BY <3>1, <1>2 DEF BrokerOK, BrokerCoherent
    <3>3. "modified" \in Emits /\ q \in 1 .. MaxQty /\ q # Absent
          /\ broker.filled <= q /\ broker.filled \in Nat
      BY <2>4, <1>2 DEF BrokerModifies, Absent
    <3>4. QED
      BY <3>1, <3>2, <3>3, <1>2, SayAdds DEF ReportType
  <2>5. CASE BrokerCloses
    <3>1. PICK s \in {"cancelled", "rejected", "expired"} :
            /\ broker' = [broker EXCEPT !.state = s]
            /\ Say(s, broker.filled, 0, Absent)
      BY <2>5 DEF BrokerCloses
    <3>2. BrokerOK'
      BY <3>1, <1>2 DEF BrokerOK, BrokerCoherent, OrderState, Terminal
    <3>3. QED
      BY <3>1, <3>2, <1>2, SayAdds DEF ReportType
  <2>6. CASE BrokerBusts
    <3>1. PICK n \in 1 .. broker.filled :
            /\ broker' = [broker EXCEPT !.filled = broker.filled - n]
            /\ Say("busted", broker.filled - n, n, Absent)
      BY <2>6 DEF BrokerBusts
    <3>2. BrokerOK'
      BY <3>1, <1>2 DEF BrokerOK, BrokerCoherent
    <3>3. broker.filled - n \in Nat /\ n \in Nat
      BY <1>2
    <3>4. QED
      BY <3>1, <3>2, <3>3, <1>2, SayAdds DEF ReportType
  <2>7. QED
    BY <2>1, <2>2, <2>3, <2>4, <2>5, <2>6 DEF Broker
<1>4. PICK r \in Report : Coherent(r) /\ wire' = Append(wire, r)
  BY <1>3 DEF Adds
<1>5. /\ wire' \in Seq(Report) /\ Len(wire') = Len(wire) + 1
      /\ \A i \in 1 .. Len(wire) : wire'[i] = wire[i]
      /\ wire'[Len(wire) + 1] = r
  BY <1>2, <1>4
<1>6. \A i \in 1 .. Len(wire') : Coherent(wire'[i])
  <2> SUFFICES ASSUME NEW i \in 1 .. Len(wire') PROVE Coherent(wire'[i])
    OBVIOUS
  <2>1. CASE i = Len(wire) + 1
    BY <2>1, <1>4, <1>5
  <2>2. CASE i \in 1 .. Len(wire)
    BY <2>2, <1>2, <1>5 DEF WireCoherent, IInv
  <2>3. QED
    BY <2>1, <2>2, <1>2, <1>5
<1>7. TypeOK'
  BY <1>1, <1>2, <1>3, <1>5 DEF TypeOK, IInv, BrokerOK
<1>8. RecordConsistent'
  BY <1>1 DEF IInv, RecordConsistent, Consistent
<1>9. QED
  BY <1>3, <1>6, <1>7, <1>8 DEF IInv, WireCoherent, Coherent, BrokerOK

(* An accepted report changes the record as Advanced or Busted says, and   *)
(* both leave it consistent.                                               *)
LEMMA ApplyStep ==
  ASSUME IInv, NEW i \in 1 .. Len(wire), ApplyReport(i)
  PROVE  IInv'
<1>1. /\ record \in OrderRecord /\ Consistent(record)
      /\ wire[i] \in Report /\ Coherent(wire[i])
      /\ Verdict(record, wire[i]) = "accepted"
  BY DEF IInv, TypeOK, RecordConsistent, WireCoherent, ApplyReport
<1>2. record' \in OrderRecord /\ Consistent(record')
  <2>1. CASE wire[i].type = "busted"
    BY <2>1, <1>1, BustedFacts DEF ApplyReport
  <2>2. CASE wire[i].type # "busted"
    BY <2>2, <1>1, AdvancedFacts DEF ApplyReport
  <2>3. QED
    BY <2>1, <2>2
<1>3. /\ UNCHANGED <<broker, wire, tracked>>
      /\ seen' = seen \cup {i} /\ arrived' = arrived \cup {i}
  BY DEF ApplyReport
<1>4. TypeOK'
  BY <1>2, <1>3 DEF IInv, TypeOK
<1>5. RecordConsistent'
  BY <1>2 DEF RecordConsistent, Consistent
<1>6. WireCoherent' /\ BrokerCoherent'
  BY <1>3 DEF IInv, WireCoherent, BrokerCoherent, Coherent
<1>7. QED
  BY <1>4, <1>5, <1>6 DEF IInv

LEMMA FreshFacts == Fresh \in OrderRecord /\ Consistent(Fresh)
BY OrderAssumption
DEF Fresh, OrderRecord, Consistent, OrderState, Absent

LEMMA InitIInv == Init => IInv
<1> SUFFICES ASSUME Init PROVE IInv
  OBVIOUS
<1>1. wire = <<>> /\ Len(wire) = 0 /\ wire \in Seq(Report)
  BY DEF Init
<1>2. broker \in [state : OrderState, quantity : 1 .. MaxQty,
                 filled : 0 .. MaxQty] /\ BrokerCoherent
  BY OrderAssumption DEF Init, OrderState, BrokerCoherent
<1>3. TypeOK
  BY <1>1, <1>2, FreshFacts DEF Init, TypeOK
<1>4. RecordConsistent
  BY FreshFacts DEF Init, RecordConsistent
<1>5. WireCoherent
  BY <1>1 DEF WireCoherent
<1>6. QED
  BY <1>2, <1>3, <1>4, <1>5 DEF IInv

LEMMA NextIInv == IInv /\ [Next]_vars => IInv'
<1> SUFFICES ASSUME IInv, [Next]_vars PROVE IInv'
  OBVIOUS
<1>1. CASE Track \/ Forget
  <2>1. /\ UNCHANGED <<broker, wire>> /\ record' = Fresh
        /\ seen' = {} /\ arrived' = {} /\ tracked' \in BOOLEAN
    BY <1>1 DEF Track, Forget
  <2>2. QED
    BY <2>1, FreshFacts
    DEF IInv, TypeOK, RecordConsistent, WireCoherent, BrokerCoherent,
        Consistent, Coherent
<1>2. ASSUME NEW i \in 1 .. Len(wire), ApplyReport(i) PROVE IInv'
  BY <1>2, ApplyStep
<1>3. ASSUME NEW i \in 1 .. Len(wire), RefuseReport(i) PROVE IInv'
  BY <1>3
  DEF RefuseReport, IInv, TypeOK, RecordConsistent, WireCoherent,
      BrokerCoherent, Consistent, Coherent
<1>4. CASE Broker
  BY <1>4, BrokerStep
<1>5. CASE UNCHANGED vars
  BY <1>5
  DEF vars, IInv, TypeOK, RecordConsistent, WireCoherent, BrokerCoherent,
      Consistent, Coherent
<1>6. QED
  BY <1>1, <1>2, <1>3, <1>4, <1>5 DEF Next, Deliver

(* Every state of every behaviour is well typed and its record consistent. *)
THEOREM Invariance == Spec => []IInv
<1>1. QED
  BY InitIInv, NextIInv, PTL DEF Spec

(* Type correctness.                                                       *)
THEOREM TypeCorrect == Spec => []TypeOK
<1>1. IInv => TypeOK
  BY DEF IInv
<1>2. QED
  BY <1>1, Invariance, PTL

(* No report, in any order and however often delivered, makes a record     *)
(* hold more fills than its order asks for, or count as filled without a   *)
(* fill.                                                                   *)
THEOREM RecordsAreConsistent == Spec => []RecordConsistent
<1>1. IInv => RecordConsistent
  BY DEF IInv
<1>2. QED
  BY <1>1, Invariance, PTL

-----------------------------------------------------------------------------
(* The record implements the abstract promise.                             *)

LEMMA SameStates ==
  /\ Promise!Terminal = Terminal /\ Promise!OrderState = OrderState
  /\ \A s : Promise!Rank(s) = Rank(s)
BY DEF Promise!Terminal, Terminal, Promise!OrderState, OrderState,
       Promise!Rank, Rank

LEMMA StepImplements == IInv /\ [Next]_vars => [Promise!Next]_(Promise!view)
<1> SUFFICES ASSUME IInv, [Next]_vars
             PROVE  Promise!Next \/ UNCHANGED Promise!view
  OBVIOUS
<1> USE DEF Promise!view
<1>1. CASE Track
  BY <1>1 DEF Track, Fresh, Promise!Next, Promise!Begin
<1>2. CASE Forget
  BY <1>2 DEF Forget, Fresh, Promise!Next, Promise!Drop
<1>3. ASSUME NEW i \in 1 .. Len(wire), ApplyReport(i)
      PROVE  Promise!Next
  <2>1. /\ record \in OrderRecord /\ Consistent(record)
        /\ wire[i] \in Report /\ Coherent(wire[i])
        /\ Verdict(record, wire[i]) = "accepted"
        /\ tracked = TRUE /\ tracked' = TRUE
    BY <1>3
    DEF IInv, TypeOK, RecordConsistent, WireCoherent, ApplyReport
  <2>2. CASE wire[i].type = "busted"
    <3>1. record' = Busted(record, wire[i])
      BY <2>2, <1>3 DEF ApplyReport
    <3>2. /\ record'.filled \in 0 .. record.filled - 1
          /\ record'.state = IF record'.filled = 0 THEN "working"
                             ELSE "partially_filled"
      BY <2>1, <2>2, <3>1, BustedFacts
    <3>3. QED
      BY <2>1, <3>2 DEF Promise!Next, Promise!Bust
  <2>3. CASE wire[i].type # "busted"
    <3>1. record' = Advanced(record, wire[i])
      BY <2>3, <1>3 DEF ApplyReport
    <3>2. /\ record' \in OrderRecord
          /\ record.state \notin Terminal
          /\ Rank(record'.state) >= Rank(record.state)
          /\ record'.filled >= record.filled
      BY <2>1, <2>3, <3>1, AdvancedFacts
    <3>3. /\ record'.state \in OrderState
          /\ record'.filled \in record.filled .. MaxQty
      BY <2>1, <3>2, OrderAssumption DEF OrderRecord
    <3>4. QED
      BY <2>1, <3>2, <3>3, SameStates
      DEF Promise!Next, Promise!Advance, Promise!Open
  <2>4. QED
    BY <2>2, <2>3
<1>4. ASSUME NEW i \in 1 .. Len(wire), RefuseReport(i)
      PROVE  UNCHANGED Promise!view
  BY <1>4 DEF RefuseReport
<1>5. CASE Broker
  BY <1>5 DEF Broker, machine
<1>6. CASE UNCHANGED vars
  BY <1>6 DEF vars
<1>7. QED
  BY <1>1, <1>2, <1>3, <1>4, <1>5, <1>6 DEF Next, Deliver

(* The detailed lifecycle implements MonotoneOrder: progress and the       *)
(* filled quantity of a record move back by a bust or not at all, and a    *)
(* closed order changes by a bust or not at all, whatever arrives.         *)
THEOREM ImplementsPromise == Spec => MonotoneProgress
<1>1. Init => Promise!Init
  BY DEF Init, Fresh, Promise!Init
<1>2. QED
  BY <1>1, StepImplements, Invariance, PTL
  DEF Spec, MonotoneProgress, Promise!Spec

-----------------------------------------------------------------------------
(* A record that says FILLED is completely filled, if nobody modifies.     *)

(* FILLED and the quantities agree for every order of a broker that makes  *)
(* no modifications.                                                       *)
THEOREM FilledIsFilled ==
  ASSUME "modified" \notin Emits
  PROVE  Spec => []FilledMeansFilled
<1>1. Init => FilledMeansFilled
  BY DEF Init, Fresh, FilledMeansFilled
<1>2. IInv /\ FilledMeansFilled /\ [Next]_vars => FilledMeansFilled'
  <2> SUFFICES ASSUME IInv, FilledMeansFilled, [Next]_vars
               PROVE  FilledMeansFilled'
    OBVIOUS
  <2>1. CASE Track \/ Forget
    BY <2>1 DEF Track, Forget, Fresh, FilledMeansFilled
  <2>2. ASSUME NEW i \in 1 .. Len(wire), ApplyReport(i)
        PROVE  FilledMeansFilled'
    <3>1. /\ record \in OrderRecord /\ Consistent(record)
          /\ wire[i] \in Report /\ Coherent(wire[i])
          /\ Verdict(record, wire[i]) = "accepted"
      BY <2>2
      DEF IInv, TypeOK, RecordConsistent, WireCoherent, ApplyReport
    <3>2. CASE wire[i].type = "busted"
      BY <2>2, <3>1, <3>2, BustedFacts DEF ApplyReport, FilledMeansFilled
    <3>3. CASE wire[i].type # "busted"
      <4>1. record' = Advanced(record, wire[i])
        BY <2>2, <3>3 DEF ApplyReport
      <4>2. wire[i].type # "modified"
        BY <3>1 DEF Coherent
      <4>3. /\ record'.quantity = record.quantity
            /\ record'.filled = FilledAfter(record, wire[i])
            /\ record'.state = StateAfter(record, wire[i])
        BY <4>1, <4>2 DEF Advanced
      <4>4. record' \in OrderRecord /\ Consistent(record')
        BY <4>1, <3>1, <3>3, AdvancedFacts
      <4>5. record'.state = "filled" => record'.filled >= record.quantity
        BY <4>3 DEF StateAfter
      <4>6. QED
        BY <4>3, <4>4, <4>5, <3>1
        DEF FilledMeansFilled, Consistent, OrderRecord
    <3>4. QED
      BY <3>2, <3>3
  <2>3. ASSUME NEW i \in 1 .. Len(wire), RefuseReport(i)
        PROVE  FilledMeansFilled'
    BY <2>3 DEF RefuseReport, FilledMeansFilled
  <2>4. CASE Broker
    BY <2>4 DEF Broker, machine, FilledMeansFilled
  <2>5. CASE UNCHANGED vars
    BY <2>5 DEF vars, FilledMeansFilled
  <2>6. QED
    BY <2>1, <2>2, <2>3, <2>4, <2>5 DEF Next, Deliver
<1>3. QED
  BY <1>1, <1>2, Invariance, PTL DEF Spec

-----------------------------------------------------------------------------
(* What a broker that voids no fill puts on the wire.                      *)

(* Before its first fill an order has none.                                *)
NoneYet == broker.state \in {"created", "submitted", "working"} => broker.filled = 0

(* The event a report tells of.                                            *)
Event(r) ==
  \/ /\ r.type = "submitted" /\ broker.state = "created"
     /\ broker'.state = "submitted"
  \/ /\ r.type = "acknowledged" /\ broker.state = "submitted"
     /\ broker'.state = "working"
  \/ /\ Quantified(r.type) /\ broker.state \in {"submitted", "working", "partially_filled"}
     /\ broker'.filled \in broker.filled + 1 .. broker.quantity
     /\ broker'.state = IF broker'.filled = broker.quantity THEN "filled" ELSE "partially_filled"
     /\ Totals = "none" => (r.type = "fill" <=> broker'.filled = broker.quantity)
  \/ r.type = "modified" /\ "modified" \in Emits /\ broker'.state = broker.state
  \/ /\ r.type \in {"cancelled", "rejected", "expired"}
     /\ broker.state \in {"submitted", "working", "partially_filled"}
     /\ broker'.state = r.type

(* How a report quantifies it, as the totals of this broker go.            *)
Counts(r) ==
  /\ r.cum = IF Totals = "every" \/ (Totals = "fills" /\ Quantified(r.type))
             THEN broker'.filled ELSE Absent
  /\ r.inc = IF Totals = "increment" /\ Quantified(r.type)
             THEN broker'.filled - broker.filled ELSE Absent

Reports(r) ==
  /\ wire' = Append(wire, r) /\ r.seq \in {Absent, Len(wire) + 1}
  /\ Event(r) /\ Counts(r)
  /\ r.type # "modified" => broker'.quantity = broker.quantity
  /\ ~Quantified(r.type) => broker'.filled = broker.filled

LEMMA Said ==
  ASSUME NEW type \in ReportType \ {"busted"}, NEW total, NEW inc, NEW qty,
         Say(type, total, inc, qty)
  PROVE  \E r : /\ wire' = Append(wire, r) /\ r.seq \in {Absent, Len(wire) + 1}
                /\ r.type = type
                /\ r.cum = IF Totals = "every" \/ (Totals = "fills" /\ Quantified(type))
                           THEN total ELSE Absent
                /\ r.inc = IF Totals = "increment" /\ Quantified(type) THEN inc ELSE Absent
<1> DEFINE r == [type |-> type,
                 seq  |-> IF type \in SequencedTypes THEN Len(wire) + 1 ELSE Absent,
                 cum  |-> IF \/ Totals = "every" /\ type # "busted"
                             \/ Totals = "fills" /\ Quantified(type) THEN total ELSE Absent,
                 inc  |-> IF \/ type = "busted"
                             \/ Totals = "increment" /\ Quantified(type) THEN inc ELSE Absent,
                 qty  |-> qty]
<1>1. wire' = Append(wire, r)
  BY DEF Say
<1>2. r.seq \in {Absent, Len(wire) + 1} /\ r.type = type
  OBVIOUS
<1>3. /\ r.cum = IF Totals = "every" \/ (Totals = "fills" /\ Quantified(type)) THEN total ELSE Absent
      /\ r.inc = IF Totals = "increment" /\ Quantified(type) THEN inc ELSE Absent
  OBVIOUS
<1> HIDE DEF r
<1> QED BY <1>1, <1>2, <1>3

LEMMA BrokerSays ==
  ASSUME IInv, NoneYet, "busted" \notin Emits, Broker
  PROVE  NoneYet' /\ \E r \in Report : Reports(r)
<1> USE OrderAssumption
<1>1. /\ broker.state \in OrderState /\ broker.quantity \in 1 .. MaxQty
      /\ broker.filled \in 0 .. MaxQty /\ broker.filled <= broker.quantity
      /\ wire \in Seq(Report)
      /\ broker \in [state : OrderState, quantity : 1 .. MaxQty, filled : 0 .. MaxQty]
  BY DEF IInv, TypeOK, BrokerCoherent
<1>2. ASSUME NEW r, wire' = Append(wire, r)
      PROVE  r \in Report
  <2>1. wire' \in Seq(Report)
    BY BrokerStep, NextIInv DEF IInv, TypeOK
  <2>2. Len(wire') = Len(wire) + 1 /\ wire'[Len(wire) + 1] = r
    BY <1>1, <1>2
  <2> QED BY <1>1, <2>1, <2>2
<1>3. CASE BrokerSubmits
  <2>1. broker.state = "created" /\ broker' = [broker EXCEPT !.state = "submitted"] /\ Say("submitted", 0, 0, Absent)
    BY <1>3 DEF BrokerSubmits
  <2>2. PICK r : /\ wire' = Append(wire, r) /\ r.seq \in {Absent, Len(wire) + 1} /\ r.type = "submitted"
                 /\ r.cum = IF Totals = "every" \/ (Totals = "fills" /\ Quantified("submitted")) THEN 0 ELSE Absent
                 /\ r.inc = IF Totals = "increment" /\ Quantified("submitted") THEN 0 ELSE Absent
    BY <2>1, Said DEF ReportType
  <2>3. broker'.state = "submitted" /\ broker'.quantity = broker.quantity /\ broker'.filled = broker.filled /\ broker.filled = 0
    BY <1>1, <2>1 DEF NoneYet
  <2>4. Reports(r) /\ NoneYet'
    BY <2>1, <2>2, <2>3 DEF Reports, Event, Counts, Quantified, NoneYet
  <2> QED BY <1>2, <2>2, <2>4
<1>4. CASE BrokerAcknowledges
  <2>1. broker.state = "submitted" /\ broker' = [broker EXCEPT !.state = "working"] /\ Say("acknowledged", 0, 0, Absent)
    BY <1>4 DEF BrokerAcknowledges
  <2>2. PICK r : /\ wire' = Append(wire, r) /\ r.seq \in {Absent, Len(wire) + 1} /\ r.type = "acknowledged"
                 /\ r.cum = IF Totals = "every" \/ (Totals = "fills" /\ Quantified("acknowledged")) THEN 0 ELSE Absent
                 /\ r.inc = IF Totals = "increment" /\ Quantified("acknowledged") THEN 0 ELSE Absent
    <3>1. "acknowledged" \in ReportType \ {"busted"}
      BY DEF ReportType
    <3> QED BY <2>1, <3>1, Said
  <2>3. broker'.state = "working" /\ broker'.quantity = broker.quantity /\ broker'.filled = broker.filled /\ broker.filled = 0
    BY <1>1, <2>1 DEF NoneYet
  <2>4. Reports(r) /\ NoneYet'
    BY <2>1, <2>2, <2>3 DEF Reports, Event, Counts, Quantified, NoneYet
  <2> QED BY <1>2, <2>2, <2>4
<1>5. CASE BrokerFills
  <2>1. PICK n \in 1 .. broker.quantity - broker.filled, label \in {"partial_fill", "fill"} :
          /\ broker' = [broker EXCEPT
               !.state = IF broker.filled + n = broker.quantity THEN "filled" ELSE "partially_filled",
               !.filled = broker.filled + n]
          /\ Totals = "none" => (label = "fill" <=> broker.filled + n = broker.quantity)
          /\ Say(label, broker.filled + n, n, Absent)
    BY <1>5 DEF BrokerFills
  <2>2. PICK r : /\ wire' = Append(wire, r) /\ r.seq \in {Absent, Len(wire) + 1} /\ r.type = label
                 /\ r.cum = IF Totals = "every" \/ (Totals = "fills" /\ Quantified(label)) THEN broker.filled + n ELSE Absent
                 /\ r.inc = IF Totals = "increment" /\ Quantified(label) THEN n ELSE Absent
    BY <2>1, Said DEF ReportType
  <2>3. /\ broker'.state = IF broker.filled + n = broker.quantity THEN "filled" ELSE "partially_filled"
        /\ broker'.quantity = broker.quantity /\ broker'.filled = broker.filled + n
    BY <1>1, <2>1
  <2>4. /\ broker.state \in {"submitted", "working", "partially_filled"} /\ Quantified(label)
        /\ broker'.filled \in broker.filled + 1 .. broker.quantity /\ n = broker'.filled - broker.filled
    BY <1>1, <1>5, <2>1, <2>3 DEF BrokerFills, Quantified
  <2>5. Event(r)
    BY <2>1, <2>2, <2>3, <2>4 DEF Event
  <2>6. Counts(r)
    BY <2>2, <2>3, <2>4 DEF Counts
  <2>7. Reports(r) /\ NoneYet'
    BY <2>2, <2>3, <2>4, <2>5, <2>6 DEF Reports, NoneYet
  <2> QED BY <1>2, <2>2, <2>7
<1>6. CASE BrokerModifies
  <2>1. PICK q : broker' = [broker EXCEPT !.quantity = q] /\ Say("modified", broker.filled, 0, q)
    BY <1>6 DEF BrokerModifies
  <2>2. PICK r : /\ wire' = Append(wire, r) /\ r.seq \in {Absent, Len(wire) + 1} /\ r.type = "modified"
                 /\ r.cum = IF Totals = "every" \/ (Totals = "fills" /\ Quantified("modified")) THEN broker.filled ELSE Absent
                 /\ r.inc = IF Totals = "increment" /\ Quantified("modified") THEN 0 ELSE Absent
    BY <2>1, Said DEF ReportType
  <2>3. broker'.state = broker.state /\ broker'.filled = broker.filled /\ "modified" \in Emits
    BY <1>1, <1>6, <2>1 DEF BrokerModifies
  <2>4. Reports(r) /\ NoneYet'
    BY <2>2, <2>3 DEF Reports, Event, Counts, Quantified, NoneYet
  <2> QED BY <1>2, <2>2, <2>4
<1>7. CASE BrokerCloses
  <2>1. PICK s \in {"cancelled", "rejected", "expired"} :
          /\ broker.state \notin Terminal \cup {"created"}
          /\ broker' = [broker EXCEPT !.state = s] /\ Say(s, broker.filled, 0, Absent)
    BY <1>7 DEF BrokerCloses
  <2>2. PICK r : /\ wire' = Append(wire, r) /\ r.seq \in {Absent, Len(wire) + 1} /\ r.type = s
                 /\ r.cum = IF Totals = "every" \/ (Totals = "fills" /\ Quantified(s)) THEN broker.filled ELSE Absent
                 /\ r.inc = IF Totals = "increment" /\ Quantified(s) THEN 0 ELSE Absent
    <3>1. s \in ReportType \ {"busted"} /\ Say(s, broker.filled, 0, Absent)
      BY <2>1 DEF ReportType
    <3> QED BY <3>1, Said
  <2>3. /\ broker'.state = s /\ broker'.quantity = broker.quantity /\ broker'.filled = broker.filled
        /\ broker.state \in {"submitted", "working", "partially_filled"} /\ ~Quantified(s)
    BY <1>1, <2>1 DEF OrderState, Terminal, Quantified
  <2>4. Event(r) /\ Counts(r)
    BY <2>1, <2>2, <2>3 DEF Event, Counts
  <2>5. Reports(r) /\ NoneYet'
    BY <2>2, <2>3, <2>4 DEF Reports, NoneYet
  <2> QED BY <1>2, <2>2, <2>5
<1>8. ~BrokerBusts
  BY DEF BrokerBusts
<1> QED BY <1>3, <1>4, <1>5, <1>6, <1>7, <1>8 DEF Broker

-----------------------------------------------------------------------------
(* A record never claims more fills than were made.                        *)

(* The wire grows at its end.                                              *)
LEMMA WireGrows ==
  ASSUME wire \in Seq(Report), NEW r \in Report, wire' = Append(wire, r)
  PROVE  /\ Len(wire) \in Nat /\ Len(wire') = Len(wire) + 1
         /\ 1 .. Len(wire') = (1 .. Len(wire)) \cup {Len(wire) + 1}
         /\ \A i \in 1 .. Len(wire) : wire'[i] = wire[i]
         /\ wire'[Len(wire) + 1] = r
<1>1. Len(wire) \in Nat /\ Len(wire') = Len(wire) + 1
  OBVIOUS
<1>2. 1 .. Len(wire') = (1 .. Len(wire)) \cup {Len(wire) + 1}
  BY <1>1
<1> QED BY <1>1, <1>2

(* Where reports state totals, or nothing: no report on the wire leads a   *)
(* record above what was filled.  A fill that states nothing means the     *)
(* whole order, which a modification would have made a guess.              *)
Told ==
  /\ \A i \in 1 .. Len(wire) :
       /\ wire[i].type # "busted" /\ wire[i].inc = Absent /\ wire[i].cum <= broker.filled
       /\ wire[i].type = "fill" /\ wire[i].cum = Absent =>
            "modified" \notin Emits /\ broker.filled = OrderQty
  /\ "modified" \notin Emits => broker.quantity = OrderQty /\ record.quantity = OrderQty

ByTotals == NoneYet /\ Told /\ NeverOverCounts

LEMMA InitByTotals == Init => ByTotals
<1> SUFFICES ASSUME Init PROVE ByTotals
  OBVIOUS
<1>1. Len(wire) = 0 /\ broker.filled = 0 /\ broker.quantity = OrderQty /\ record = Fresh
  BY DEF Init
<1> QED BY <1>1 DEF ByTotals, NoneYet, Told, NeverOverCounts, Fresh

LEMMA NextByTotals ==
  ASSUME "busted" \notin Emits, Totals # "increment", Totals # "none" \/ "modified" \notin Emits,
         IInv, ByTotals, [Next]_vars
  PROVE  ByTotals'
<1> USE OrderAssumption
<1>1. /\ wire \in Seq(Report) /\ record \in OrderRecord
      /\ broker.filled \in Nat /\ broker.quantity \in 1 .. MaxQty /\ Len(wire) \in Nat
  BY DEF IInv, TypeOK
<1>2. CASE Track \/ Forget
  <2>1. UNCHANGED <<broker, wire>> /\ record' = Fresh
    BY <1>2 DEF Track, Forget
  <2> QED BY <1>1, <2>1 DEF ByTotals, NoneYet, Told, NeverOverCounts, Fresh
<1>3. ASSUME NEW i \in 1 .. Len(wire), ApplyReport(i)
      PROVE  ByTotals'
  <2> DEFINE r == wire[i]
  <2>1. /\ r \in Report /\ r.type # "busted" /\ r.inc = Absent /\ r.cum <= broker.filled
        /\ r.type = "fill" /\ r.cum = Absent => "modified" \notin Emits /\ broker.filled = OrderQty
        /\ Coherent(r)
    BY <1>1, <1>3 DEF ByTotals, Told, IInv, WireCoherent
  <2>2. UNCHANGED <<broker, wire>> /\ record' = Advanced(record, r)
    BY <1>3, <2>1 DEF ApplyReport
  <2> HIDE DEF r
  <2>3. record'.filled = FilledAfter(record, r)
    BY <2>2 DEF Advanced
  <2>4. FilledAfter(record, r) <= broker.filled
    <3>1. CASE r.cum # Absent
      BY <2>1, <3>1 DEF FilledAfter, Cumulative
    <3>2. CASE r.cum = Absent /\ r.type = "fill"
      BY <2>1, <3>2 DEF FilledAfter, Cumulative, ByTotals, Told
    <3>3. CASE r.cum = Absent /\ r.type # "fill"
      BY <2>1, <3>3 DEF FilledAfter, Cumulative, ByTotals, NeverOverCounts
    <3> QED BY <3>1, <3>2, <3>3
  <2>5. "modified" \notin Emits => record'.quantity = record.quantity
    BY <2>1, <2>2 DEF Advanced, Coherent
  <2> QED BY <2>2, <2>3, <2>4, <2>5 DEF ByTotals, NoneYet, Told, NeverOverCounts
<1>4. ASSUME NEW i \in 1 .. Len(wire), RefuseReport(i)
      PROVE  ByTotals'
  BY <1>4 DEF RefuseReport, ByTotals, NoneYet, Told, NeverOverCounts
<1>5. CASE Broker
  <2>1. NoneYet' /\ UNCHANGED record
    BY <1>5, BrokerSays DEF Broker, machine, ByTotals
  <2>2. PICK r \in Report : Reports(r)
    BY <1>5, BrokerSays DEF ByTotals
  <2>3. /\ Len(wire) \in Nat /\ Len(wire') = Len(wire) + 1
        /\ 1 .. Len(wire') = (1 .. Len(wire)) \cup {Len(wire) + 1}
        /\ \A i \in 1 .. Len(wire) : wire'[i] = wire[i]
        /\ wire'[Len(wire) + 1] = r
    BY <1>1, <2>2, WireGrows DEF Reports
  <2>4. broker.filled <= broker'.filled /\ broker'.filled \in Nat
    <3>1. Quantified(r.type) => broker'.filled \in broker.filled + 1 .. broker.quantity
      BY <2>2 DEF Reports, Event, Quantified
    <3> QED BY <1>1, <2>2, <3>1 DEF Reports
  <2>5. "modified" \notin Emits => broker'.quantity = OrderQty
    <3>1. r.type = "modified" => "modified" \in Emits
      BY <2>2 DEF Reports, Event, Quantified
    <3> QED BY <2>2, <3>1 DEF Reports, ByTotals, Told
  <2>6. /\ r.type # "busted" /\ r.inc = Absent /\ r.cum <= broker'.filled
        /\ r.type = "fill" /\ r.cum = Absent => "modified" \notin Emits /\ broker'.filled = OrderQty
    <3>1. r.type # "busted" /\ r.inc = Absent /\ r.cum \in {Absent, broker'.filled}
      BY <2>2 DEF Reports, Event, Counts, Quantified
    <3>2. r.type = "fill" => Quantified(r.type)
      BY DEF Quantified
    <3>3. r.type = "fill" /\ r.cum = Absent => Totals = "none"
      BY <2>2, <2>4, <3>2 DEF Reports, Counts, Absent
    <3>4. r.type = "fill" /\ r.cum = Absent => broker'.filled = broker.quantity
      BY <2>2, <3>3 DEF Reports, Event
    <3> QED BY <2>4, <3>1, <3>3, <3>4 DEF ByTotals, Told, Absent
  <2>7. Told'
    <3>1. ASSUME NEW i \in 1 .. Len(wire')
          PROVE  /\ wire'[i].type # "busted" /\ wire'[i].inc = Absent /\ wire'[i].cum <= broker'.filled
                 /\ wire'[i].type = "fill" /\ wire'[i].cum = Absent =>
                      "modified" \notin Emits /\ broker'.filled = OrderQty
      <4>1. CASE i = Len(wire) + 1
        BY <2>3, <2>6, <4>1
      <4>2. CASE i \in 1 .. Len(wire)
        <5>1. wire[i] \in Report /\ wire'[i] = wire[i]
          BY <1>1, <2>3, <4>2
        <5>2. wire[i].cum <= broker'.filled
          BY <1>1, <2>4, <4>2, <5>1 DEF ByTotals, Told, Report, Absent
        <5>3. wire[i].type = "fill" /\ wire[i].cum = Absent =>
                "modified" \notin Emits /\ broker'.filled = OrderQty
          <6>1. broker'.filled <= broker'.quantity
            BY <1>5, BrokerStep DEF IInv, BrokerCoherent
          <6> QED BY <1>1, <2>4, <2>5, <4>2, <6>1 DEF ByTotals, Told
        <5> QED BY <4>2, <5>1, <5>2, <5>3 DEF ByTotals, Told
      <4> QED BY <2>3, <4>1, <4>2
    <3>2. "modified" \notin Emits => broker'.quantity = OrderQty /\ record'.quantity = OrderQty
      BY <2>1, <2>5 DEF ByTotals, Told
    <3> QED BY <3>1, <3>2 DEF Told
  <2>8. NeverOverCounts'
    BY <1>1, <2>1, <2>4 DEF ByTotals, NeverOverCounts, OrderRecord
  <2> QED BY <2>1, <2>7, <2>8 DEF ByTotals
<1>6. CASE UNCHANGED vars
  BY <1>6 DEF vars, ByTotals, NoneYet, Told, NeverOverCounts
<1> QED BY <1>2, <1>3, <1>4, <1>5, <1>6 DEF Next, Deliver

(* Where fills state increments: the record is the sum of the increments   *)
(* that were counted, the order that of all of them.                       *)
Increment(w) == [i \in 1 .. Len(w) |-> IF w[i].inc = Absent THEN 0 ELSE w[i].inc]

Summed ==
  /\ \A i \in 1 .. Len(wire) :
       /\ wire[i].type # "busted" /\ wire[i].cum = Absent
       /\ wire[i].type = "fill" => wire[i].inc # Absent
  /\ broker.filled = SumFunctionOnSet(Increment(wire), 1 .. Len(wire))
  /\ record.filled = SumFunctionOnSet(Increment(wire), seen)

ByIncrements == NoneYet /\ Summed

LEMMA InitByIncrements == Init => ByIncrements
<1> SUFFICES ASSUME Init PROVE ByIncrements
  OBVIOUS
<1>1. Len(wire) = 0 /\ broker.filled = 0 /\ record.filled = 0 /\ seen = {} /\ 1 .. Len(wire) = {}
  BY DEF Init, Fresh
<1>2. SumFunctionOnSet(Increment(wire), {}) = 0
  BY SumEmpty
<1> QED BY <1>1, <1>2 DEF ByIncrements, NoneYet, Summed

LEMMA IncrementsCount ==
  ASSUME wire \in Seq(Report)
  PROVE  \A i \in 1 .. Len(wire) : /\ Increment(wire)[i] \in Nat
                                   /\ Increment(wire)[i] = IF wire[i].inc = Absent THEN 0 ELSE wire[i].inc
<1> SUFFICES ASSUME NEW i \in 1 .. Len(wire)
             PROVE  /\ Increment(wire)[i] \in Nat
                    /\ Increment(wire)[i] = IF wire[i].inc = Absent THEN 0 ELSE wire[i].inc
  OBVIOUS
<1>1. wire[i] \in Report
  OBVIOUS
<1> QED BY <1>1 DEF Increment, Report

LEMMA NextByIncrements ==
  ASSUME "busted" \notin Emits, Totals = "increment", IInv, ByIncrements, [Next]_vars
  PROVE  ByIncrements'
<1> USE OrderAssumption
<1>1. /\ wire \in Seq(Report) /\ record \in OrderRecord /\ seen \in SUBSET (1 .. Len(wire))
      /\ broker.filled \in Nat /\ Len(wire) \in Nat
  BY DEF IInv, TypeOK
<1>2. \A T \in SUBSET (1 .. Len(wire)) : IsFiniteSet(T) /\ \A i \in T : Increment(wire)[i] \in Int
  <2>1. IsFiniteSet(1 .. Len(wire))
    BY <1>1, FS_Interval
  <2>2. \A i \in 1 .. Len(wire) : Increment(wire)[i] \in Int
    BY <1>1, IncrementsCount
  <2> QED BY <2>1, <2>2, FS_Subset
<1>3. CASE Track \/ Forget
  <2>1. UNCHANGED <<broker, wire>> /\ record'.filled = 0 /\ seen' = {}
    BY <1>3 DEF Track, Forget, Fresh
  <2>2. SumFunctionOnSet(Increment(wire), {}) = 0
    BY SumEmpty
  <2> QED BY <2>1, <2>2 DEF ByIncrements, NoneYet, Summed, Increment
<1>4. ASSUME NEW i \in 1 .. Len(wire), ApplyReport(i)
      PROVE  ByIncrements'
  <2> DEFINE r == wire[i]
  <2>1. /\ r \in Report /\ r.type # "busted" /\ r.cum = Absent
        /\ r.type = "fill" => r.inc # Absent
    BY <1>1, <1>4 DEF ByIncrements, Summed
  <2>2. /\ UNCHANGED <<broker, wire>> /\ record' = Advanced(record, r)
        /\ seen' = seen \cup {i} /\ i \notin seen
    BY <1>4, <2>1 DEF ApplyReport
  <2>3. Increment(wire)[i] = IF r.inc = Absent THEN 0 ELSE r.inc
    BY <1>1, <1>4, IncrementsCount
  <2> HIDE DEF r
  <2>4. record'.filled = record.filled + Increment(wire)[i]
    <3>1. record'.filled = FilledAfter(record, r)
      BY <2>2 DEF Advanced
    <3>2. record.filled \in Nat
      BY <1>1 DEF OrderRecord
    <3>3. r.inc \in Nat \cup {Absent}
      BY <2>1 DEF Report
    <3> QED BY <2>1, <2>3, <3>1, <3>2, <3>3 DEF FilledAfter, Cumulative, Absent
  <2>5. SumFunctionOnSet(Increment(wire), seen \cup {i}) =
          Increment(wire)[i] + SumFunctionOnSet(Increment(wire), seen)
    <3>1. seen \cup {i} \in SUBSET (1 .. Len(wire))
      BY <1>1, <1>4
    <3> QED BY <1>1, <1>2, <2>2, <3>1, SumAdds
  <2>6. Increment(wire)[i] \in Int /\ SumFunctionOnSet(Increment(wire), seen) \in Int
    BY <1>1, <1>2, <1>4, SumTakesOut
  <2>7. record'.filled = SumFunctionOnSet(Increment(wire), seen')
    BY <2>2, <2>4, <2>5, <2>6 DEF ByIncrements, Summed
  <2> QED BY <2>2, <2>7 DEF ByIncrements, NoneYet, Summed, Increment
<1>5. ASSUME NEW i \in 1 .. Len(wire), RefuseReport(i)
      PROVE  ByIncrements'
  BY <1>5 DEF RefuseReport, ByIncrements, NoneYet, Summed, Increment
<1>6. CASE Broker
  <2>1. NoneYet' /\ UNCHANGED <<record, seen>>
    BY <1>6, BrokerSays DEF Broker, machine, ByIncrements
  <2>2. PICK r \in Report : Reports(r)
    BY <1>6, BrokerSays DEF ByIncrements
  <2> DEFINE n == Len(wire) + 1
  <2>3. /\ Len(wire) \in Nat /\ Len(wire') = n
        /\ 1 .. Len(wire') = (1 .. Len(wire)) \cup {n}
        /\ \A i \in 1 .. Len(wire) : wire'[i] = wire[i]
        /\ wire'[n] = r
    BY <1>1, <2>2, WireGrows DEF Reports
  <2>4. /\ r.type # "busted" /\ r.cum = Absent
        /\ r.inc = IF Quantified(r.type) THEN broker'.filled - broker.filled ELSE Absent
        /\ Quantified(r.type) => broker'.filled \in broker.filled + 1 .. broker.quantity
        /\ ~Quantified(r.type) => broker'.filled = broker.filled
    BY <2>2 DEF Reports, Event, Counts, Quantified
  <2>5. wire' \in Seq(Report)
    BY <1>1, <2>2 DEF Reports
  <2>6. \A i \in 1 .. Len(wire') : /\ Increment(wire')[i] \in Nat
                                   /\ Increment(wire')[i] = IF wire'[i].inc = Absent THEN 0 ELSE wire'[i].inc
    <3> SUFFICES ASSUME NEW i \in 1 .. Len(wire')
                 PROVE  /\ Increment(wire')[i] \in Nat
                        /\ Increment(wire')[i] = IF wire'[i].inc = Absent THEN 0 ELSE wire'[i].inc
      OBVIOUS
    <3>1. wire'[i] \in Report
      BY <2>5
    <3> QED BY <3>1 DEF Increment, Report
  <2> HIDE DEF n
  <2>7. \A T \in SUBSET (1 .. Len(wire)) :
          SumFunctionOnSet(Increment(wire'), T) = SumFunctionOnSet(Increment(wire), T)
    <3>1. \A i \in 1 .. Len(wire) : Increment(wire')[i] = Increment(wire)[i]
      BY <1>1, <2>3, <2>6, IncrementsCount
    <3> QED BY <1>2, <3>1, SumAgrees
  <2>8. SumFunctionOnSet(Increment(wire'), 1 .. Len(wire')) =
          Increment(wire')[n] + SumFunctionOnSet(Increment(wire'), 1 .. Len(wire))
    <3>1. n \notin 1 .. Len(wire) /\ IsFiniteSet(1 .. Len(wire))
      BY <1>1, <1>2 DEF n
    <3>2. \A i \in (1 .. Len(wire)) \cup {n} : Increment(wire')[i] \in Int
      BY <2>3, <2>6
    <3>3. SumFunctionOnSet(Increment(wire'), (1 .. Len(wire)) \cup {n}) =
            Increment(wire')[n] + SumFunctionOnSet(Increment(wire'), 1 .. Len(wire))
      BY <3>1, <3>2, SumAdds
    <3> QED BY <2>3, <3>3
  <2>9. Increment(wire')[n] = broker'.filled - broker.filled
    <3>1. n \in 1 .. Len(wire')
      BY <2>3
    <3> QED BY <1>1, <2>3, <2>4, <2>6, <3>1 DEF Absent
  <2>10. broker'.filled = SumFunctionOnSet(Increment(wire'), 1 .. Len(wire'))
    <3>1. broker'.filled \in Nat
      BY <1>1, <2>4
    <3> QED BY <1>1, <2>7, <2>8, <2>9, <3>1 DEF ByIncrements, Summed
  <2>11. record'.filled = SumFunctionOnSet(Increment(wire'), seen')
    BY <1>1, <2>1, <2>7 DEF ByIncrements, Summed
  <2>12. ASSUME NEW i \in 1 .. Len(wire')
         PROVE  /\ wire'[i].type # "busted" /\ wire'[i].cum = Absent
                /\ wire'[i].type = "fill" => wire'[i].inc # Absent
    <3>1. CASE i = n
      <4>1. r.type = "fill" => r.inc \in Nat
        BY <1>1, <2>4 DEF Quantified
      <4> QED BY <2>3, <2>4, <3>1, <4>1 DEF Absent
    <3>2. CASE i \in 1 .. Len(wire)
      BY <2>3, <3>2 DEF ByIncrements, Summed
    <3> QED BY <2>3, <3>1, <3>2
  <2> QED BY <2>1, <2>10, <2>11, <2>12 DEF ByIncrements, Summed
<1>7. CASE UNCHANGED vars
  BY <1>7 DEF vars, ByIncrements, NoneYet, Summed, Increment
<1> QED BY <1>3, <1>4, <1>5, <1>6, <1>7 DEF Next, Deliver

LEMMA PartOfWhole == IInv /\ ByIncrements => NeverOverCounts
<1> SUFFICES ASSUME IInv, ByIncrements PROVE NeverOverCounts
  OBVIOUS
<1>1. wire \in Seq(Report) /\ seen \in SUBSET (1 .. Len(wire)) /\ Len(wire) \in Nat
  BY DEF IInv, TypeOK
<1>2. IsFiniteSet(1 .. Len(wire)) /\ \A i \in 1 .. Len(wire) : Increment(wire)[i] \in Nat
  BY <1>1, IncrementsCount, FS_Interval
<1>3. SumFunctionOnSet(Increment(wire), seen) <= SumFunctionOnSet(Increment(wire), 1 .. Len(wire))
  BY <1>1, <1>2, SumBelow
<1> QED BY <1>3 DEF ByIncrements, Summed, NeverOverCounts

(* However often and in whichever order its reports are delivered, a       *)
(* record never holds more fills than the broker made, whether the broker  *)
(* reports totals or increments; of one that reports no quantities, so     *)
(* long as it does not modify either.  A broker that voids fills is the    *)
(* exception: the record has them until the bust arrives.                  *)
THEOREM CountsNoMore ==
  ASSUME "busted" \notin Emits, Totals # "none" \/ "modified" \notin Emits
  PROVE  Spec => []NeverOverCounts
<1>1. CASE Totals = "increment"
  <2>1. IInv /\ ByIncrements /\ [Next]_vars => ByIncrements'
    BY <1>1, NextByIncrements
  <2> QED BY <2>1, InitByIncrements, PartOfWhole, Invariance, PTL DEF Spec
<1>2. CASE Totals # "increment"
  <2>1. IInv /\ ByTotals /\ [Next]_vars => ByTotals'
    BY <1>2, NextByTotals
  <2>2. ByTotals => NeverOverCounts
    BY DEF ByTotals
  <2> QED BY <2>1, <2>2, InitByTotals, Invariance, PTL DEF Spec
<1> QED BY <1>1, <1>2

-----------------------------------------------------------------------------
(* Once every report arrived, the record agrees with the broker.           *)

(* No modification is on the wire.                                         *)
Unmodified == \A i \in 1 .. Len(wire) : wire[i].type # "modified"

(* The state the order was in once the broker had made the report r.       *)
StateOf(r) ==
  IF Quantified(r.type) THEN IF r.cum = OrderQty THEN "filled" ELSE "partially_filled"
  ELSE IF r.type = "acknowledged" THEN "working"
  ELSE r.type

(* The order went on between a state with a total and a report: further    *)
(* along the lifecycle, or another fill.                                   *)
Later(state, filled, r) ==
  /\ filled <= r.cum
  /\ \/ Rank(state) < Rank(StateOf(r))
     \/ state = "partially_filled" /\ StateOf(r) = "partially_filled" /\ filled < r.cum

(* A report that states the total of an order of the quantity it was       *)
(* placed for.                                                             *)
Plain(r) ==
  /\ r.type \in ReportType \ {"modified", "busted"} /\ r.cum \in 0 .. OrderQty
  /\ Quantified(r.type) => r.cum > 0

(* The reports tell of the order as it went on; the last of them is where  *)
(* it is.                                                                  *)
Chained ==
  /\ broker.quantity = OrderQty
  /\ wire = <<>> => broker.state = "created" /\ broker.filled = 0
  /\ wire # <<>> => broker.state = StateOf(wire[Len(wire)]) /\ broker.filled = wire[Len(wire)].cum
  /\ \A i \in 1 .. Len(wire) : Plain(wire[i]) /\ wire[i].seq \in {Absent, i}
  /\ \A i, j \in 1 .. Len(wire) : i < j => Later(StateOf(wire[i]), wire[i].cum, wire[j])

(* The record is what the last of the reports that arrived says.           *)
Reflects ==
  /\ record.quantity = OrderQty
  /\ record.lastSeq \in {Absent} \cup arrived /\ seen \subseteq arrived
  /\ arrived = {} => record.state = "created" /\ record.filled = 0
  /\ arrived # {} => \E m \in seen :
       /\ \A k \in arrived : k <= m
       /\ record.state = StateOf(wire[m]) /\ record.filled = wire[m].cum

UpToDate == NoneYet /\ (Unmodified => Chained /\ Reflects)

LEMMA StatesOfReports ==
  ASSUME NEW r, Plain(r)
  PROVE  /\ StateOf(r) \in OrderState \ {"created"}
         /\ Quantified(r.type) => StateOf(r) \in {"partially_filled", "filled"}
         /\ StateOf(r) \in {"partially_filled", "filled"} => Quantified(r.type)
BY DEF Plain, StateOf, Quantified, ReportType, OrderState, Terminal

(* A report of what happened later is news.                                *)
LEMMA Newer ==
  ASSUME NEW o \in OrderRecord, o.quantity = OrderQty, NEW r \in Report, Plain(r),
         Later(o.state, o.filled, r), ~BehindSequence(o, r)
  PROVE  /\ Verdict(o, r) = "accepted"
         /\ Advanced(o, r).state = StateOf(r) /\ Advanced(o, r).filled = r.cum
         /\ Advanced(o, r).quantity = OrderQty /\ Advanced(o, r).lastSeq \in {o.lastSeq, r.seq}
<1> USE OrderAssumption
<1>1. /\ o.state \in OrderState /\ o.filled \in Nat /\ OrderQty \in Nat
      /\ r.type \in ReportType \ {"modified", "busted"} /\ r.cum \in 0 .. OrderQty
      /\ Quantified(r.type) => r.cum > 0
  BY DEF OrderRecord, Plain
<1>2. Cumulative(o, r) = r.cum /\ FilledAfter(o, r) = r.cum
  BY <1>1 DEF Cumulative, FilledAfter, Absent
<1>3. ~BehindTotal(o, r) /\ ~Overfills(o, r) /\ ~CutsBelowFilled(o, r) /\ ~ClosedModification(o, r)
  BY <1>1, <1>2 DEF BehindTotal, Overfills, CutsBelowFilled, ClosedModification, Later
<1>4. /\ Quantified(r.type) => Target(o, r) \in {"partially_filled", "filled"}
      /\ ~Quantified(r.type) => Target(o, r) = StateOf(r) /\ StateOf(r) \notin {"partially_filled", "filled"}
  BY <1>1 DEF Target, StateOf, Quantified, ReportType
<1>5. StateOf(r) \in OrderState \ {"created"}
      /\ (Quantified(r.type) => StateOf(r) \in {"partially_filled", "filled"})
  BY StatesOfReports
<1>6. Target(o, r) \in Transitions(o.state) /\ Rank(Target(o, r)) >= Rank(o.state)
  <2>1. \/ Rank(o.state) < Rank(StateOf(r))
        \/ o.state = "partially_filled" /\ StateOf(r) = "partially_filled"
    BY DEF Later
  <2>2. o.state \notin Terminal
    BY <1>1, <1>5, <2>1 DEF Rank, Terminal, OrderState
  <2>3. CASE Quantified(r.type)
    <3>1. o.state \in {"created", "submitted", "working", "partially_filled"}
      BY <1>1, <2>2 DEF OrderState
    <3> QED BY <1>4, <2>3, <3>1 DEF Rank, Transitions, OrderState, Terminal
  <2>4. CASE ~Quantified(r.type)
    <3>1. Rank(o.state) < Rank(Target(o, r))
      BY <1>4, <2>1, <2>4
    <3>2. Target(o, r) \in OrderState \ {"created", "partially_filled", "filled"}
      BY <1>4, <1>5, <2>4
    <3>3. Target(o, r) \in Transitions(o.state)
      BY <1>1, <2>2, <3>1, <3>2 DEF Rank, Transitions, OrderState, Terminal
    <3>4. Rank(Target(o, r)) >= Rank(o.state)
      BY <1>1, <2>2, <3>1, <3>2 DEF Rank, OrderState, Terminal
    <3> QED BY <3>3, <3>4
  <2> QED BY <2>3, <2>4
<1>7. ~BehindRank(o, r) /\ ~OffTable(o, r)
  <2>1. Rank(Target(o, r)) \in Int /\ Rank(o.state) \in Int
    BY <1>1, <1>4, <1>5 DEF Rank, OrderState, Terminal
  <2> QED BY <1>6, <2>1 DEF BehindRank, OffTable
<1>8. Verdict(o, r) = "accepted"
  BY <1>1, <1>3, <1>7 DEF Verdict
<1>9. StateAfter(o, r) = StateOf(r)
  BY <1>1, <1>2, <1>4 DEF StateAfter, StateOf
<1> QED BY <1>1, <1>2, <1>8, <1>9 DEF Advanced

(* A report of what happened earlier is refused.                           *)
LEMMA Older ==
  ASSUME NEW o \in OrderRecord, NEW r \in Report, Plain(r), NEW last, Plain(last),
         o.state = StateOf(last), o.filled = last.cum,
         Later(StateOf(r), r.cum, last)
  PROVE  Verdict(o, r) # "accepted"
<1> USE OrderAssumption
<1>1. /\ o.state \in OrderState /\ o.filled \in Nat /\ OrderQty \in Nat
      /\ r.type \in ReportType \ {"modified", "busted"} /\ r.cum \in 0 .. OrderQty
  BY DEF OrderRecord, Plain
<1>2. Cumulative(o, r) = r.cum
  BY <1>1 DEF Cumulative, Absent
<1>3. CASE r.cum < o.filled
  BY <1>1, <1>2, <1>3 DEF Verdict, BehindTotal, Absent
<1>4. CASE ~(r.cum < o.filled)
  <2>1. Rank(StateOf(r)) < Rank(o.state)
    BY <1>1, <1>4 DEF Later
  <2>2. StateOf(r) \in OrderState \ {"created"}
        /\ (Quantified(r.type) => StateOf(r) \in {"partially_filled", "filled"})
    BY StatesOfReports
  <2>3. CASE o.state \in Terminal
    BY <1>1, <2>3 DEF Verdict, OffTable, Transitions, Terminal
  <2>4. CASE o.state \notin Terminal
    <3>1. /\ o.state \in {"working", "partially_filled"} /\ StateOf(r) \in {"submitted", "working"}
          /\ o.state = "working" => StateOf(r) = "submitted"
      BY <1>1, <2>1, <2>2, <2>4 DEF Rank, OrderState, Terminal
    <3>2. ~Quantified(r.type)
      BY <2>2, <3>1
    <3>3. Target(o, r) = StateOf(r)
      BY <1>1, <3>2 DEF Target, StateOf, Quantified, ReportType
    <3>4. CASE o.state = "working"
      BY <1>1, <3>1, <3>3, <3>4 DEF Verdict, OffTable, Transitions, OrderState
    <3>5. CASE o.state = "partially_filled"
      BY <1>1, <3>1, <3>3, <3>5 DEF Verdict, BehindRank, Rank, Terminal
    <3> QED BY <3>1, <3>4, <3>5
  <2> QED BY <2>3, <2>4
<1> QED BY <1>3, <1>4

(* What came later than what came later came later.                        *)
LEMMA LaterStill ==
  ASSUME NEW q, Plain(q), NEW p, Plain(p), NEW r, Plain(r),
         Later(StateOf(q), q.cum, p), Later(StateOf(p), p.cum, r)
  PROVE  Later(StateOf(q), q.cum, r)
<1>1. q.cum \in Int /\ p.cum \in Int /\ r.cum \in Int
  BY OrderAssumption DEF Plain
<1>2. StateOf(q) \in OrderState /\ StateOf(p) \in OrderState /\ StateOf(r) \in OrderState
  BY StatesOfReports
<1>3. \A s \in OrderState : Rank(s) \in Int
  BY DEF Rank, OrderState, Terminal
<1> HIDE DEF StateOf
<1> QED BY <1>1, <1>2, <1>3 DEF Later

(* The broker's next report is later than all before.                      *)
LEMMA BrokerGoesOn ==
  ASSUME Totals = "every", "busted" \notin Emits, IInv, UpToDate, Broker
  PROVE  UpToDate'
<1> USE OrderAssumption
<1>1. NoneYet' /\ UNCHANGED <<record, seen, arrived>>
  BY BrokerSays DEF Broker, machine, UpToDate
<1>2. PICK r \in Report : Reports(r)
  BY BrokerSays DEF UpToDate
<1> DEFINE n == Len(wire) + 1
<1>3. /\ Len(wire) \in Nat /\ Len(wire') = n
      /\ 1 .. Len(wire') = (1 .. Len(wire)) \cup {n}
      /\ \A i \in 1 .. Len(wire) : wire'[i] = wire[i]
      /\ wire'[n] = r /\ wire \in Seq(Report)
  BY <1>2, WireGrows DEF Reports, IInv, TypeOK
<1> SUFFICES ASSUME Unmodified' PROVE Chained' /\ Reflects'
  BY <1>1 DEF UpToDate
<1>4. Unmodified /\ r.type # "modified"
  BY <1>3 DEF Unmodified
<1>5. Chained /\ Reflects
  BY <1>4 DEF UpToDate
<1>6. /\ broker.state \in OrderState /\ broker.filled \in 0 .. OrderQty /\ broker.quantity = OrderQty
      /\ broker.filled <= broker.quantity
  BY <1>5 DEF IInv, TypeOK, BrokerCoherent, Chained
<1>7. /\ broker'.quantity = OrderQty /\ r.cum = broker'.filled /\ r.seq \in {Absent, n}
      /\ r.type \in ReportType \ {"modified", "busted"}
      /\ Quantified(r.type) => broker'.filled \in broker.filled + 1 .. OrderQty
      /\ ~Quantified(r.type) => broker'.filled = broker.filled
  BY <1>2, <1>4, <1>6 DEF Reports, Event, Counts, Quantified, ReportType
<1>8. Plain(r)
  BY <1>6, <1>7 DEF Plain
<1>9. StateOf(r) = broker'.state
  <2>1. CASE Quantified(r.type)
    <3>1. broker'.state = IF broker'.filled = broker.quantity THEN "filled" ELSE "partially_filled"
      BY <1>2, <2>1 DEF Reports, Event, Quantified
    <3> QED BY <1>6, <1>7, <2>1, <3>1 DEF StateOf
  <2>2. CASE ~Quantified(r.type)
    BY <1>2, <1>4, <2>2 DEF Reports, Event, StateOf
  <2> QED BY <2>1, <2>2
<1>10. Later(broker.state, broker.filled, r)
  <2>1. CASE Quantified(r.type)
    <3>1. broker.state \in {"submitted", "working", "partially_filled"}
      BY <1>2, <2>1 DEF Reports, Event, Quantified
    <3>2. StateOf(r) \in {"partially_filled", "filled"}
      BY <2>1 DEF StateOf
    <3>3. broker.filled < r.cum
      BY <1>6, <1>7, <2>1
    <3> QED BY <1>6, <1>7, <3>1, <3>2, <3>3 DEF Later, Rank, Terminal
  <2>2. CASE ~Quantified(r.type)
    <3>1. broker.filled <= r.cum
      BY <1>6, <1>7, <2>2
    <3>2. Rank(broker.state) < Rank(broker'.state)
      BY <1>2, <1>4, <2>2 DEF Reports, Event, Rank, Terminal
    <3> QED BY <1>9, <3>1, <3>2 DEF Later
  <2> QED BY <2>1, <2>2
<1> HIDE DEF n
<1>11. ASSUME NEW i \in 1 .. Len(wire)
       PROVE  Later(StateOf(wire[i]), wire[i].cum, r)
  <2> DEFINE last == Len(wire)
  <2>1. last \in 1 .. Len(wire) /\ wire # <<>> /\ i <= last
    BY <1>3
  <2>2. broker.state = StateOf(wire[last]) /\ broker.filled = wire[last].cum
    BY <1>5, <2>1 DEF Chained
  <2> HIDE DEF last
  <2>3. CASE i = last
    BY <1>10, <2>2, <2>3
  <2>4. CASE i # last
    <3>1. Plain(wire[i]) /\ Plain(wire[last]) /\ Later(StateOf(wire[i]), wire[i].cum, wire[last])
      <4>1. i < last
        BY <1>3, <2>1, <2>4
      <4> QED BY <1>5, <2>1, <4>1 DEF Chained
    <3> QED BY <1>8, <1>10, <2>2, <3>1, LaterStill
  <2> QED BY <2>3, <2>4
<1>12. Chained'
  <2>1. wire' # <<>> /\ broker'.state = StateOf(wire'[Len(wire')]) /\ broker'.filled = wire'[Len(wire')].cum
    <3>1. wire' # <<>>
      BY <1>2, <1>3 DEF Reports
    <3> QED BY <1>3, <1>7, <1>9, <3>1
  <2>2. \A i \in 1 .. Len(wire') : Plain(wire'[i]) /\ wire'[i].seq \in {Absent, i}
    BY <1>3, <1>5, <1>7, <1>8 DEF Chained
  <2>3. ASSUME NEW i \in 1 .. Len(wire'), NEW j \in 1 .. Len(wire'), i < j
        PROVE  Later(StateOf(wire'[i]), wire'[i].cum, wire'[j])
    <3>1. i \in 1 .. Len(wire)
      BY <1>3, <2>3 DEF n
    <3>2. wire'[i] = wire[i]
      BY <1>3, <3>1
    <3>3. CASE j = n
      BY <1>3, <1>11, <3>1, <3>2, <3>3
    <3>4. CASE j \in 1 .. Len(wire)
      BY <1>3, <1>5, <2>3, <3>1, <3>2, <3>4 DEF Chained
    <3> QED BY <1>3, <3>3, <3>4
  <2> QED BY <1>7, <2>1, <2>2, <2>3 DEF Chained, Plain, StateOf, Later
<1>13. Reflects'
  <2>1. seen \subseteq 1 .. Len(wire)
    BY DEF IInv, TypeOK
  <2> QED BY <1>1, <1>3, <1>5, <2>1 DEF Reflects, StateOf
<1> QED BY <1>12, <1>13

(* A report that arrives makes the record tell of the last that arrived.   *)
LEMMA ReportArrives ==
  ASSUME IInv, Chained, Reflects, NEW i \in 1 .. Len(wire), ApplyReport(i) \/ RefuseReport(i)
  PROVE  Reflects'
<1> USE OrderAssumption
<1>1. /\ wire \in Seq(Report) /\ record \in OrderRecord /\ wire[i] \in Report /\ Len(wire) \in Nat
      /\ seen \subseteq 1 .. Len(wire) /\ arrived \subseteq 1 .. Len(wire)
      /\ UNCHANGED wire /\ arrived' = arrived \cup {i} /\ Plain(wire[i]) /\ wire[i].seq \in {Absent, i}
      /\ record.quantity = OrderQty /\ seen \subseteq arrived
  BY DEF IInv, TypeOK, ApplyReport, RefuseReport, Chained, Reflects
<1>2. CASE \A k \in arrived : k < i
  <2>1. Later(record.state, record.filled, wire[i])
    <3>1. CASE arrived = {}
      <4>1. record.state = "created" /\ record.filled = 0
        BY <3>1 DEF Reflects
      <4>2. StateOf(wire[i]) \in OrderState \ {"created"} /\ wire[i].cum >= 0
        BY <1>1, StatesOfReports DEF Plain
      <4> QED BY <4>1, <4>2 DEF Later, Rank, OrderState, Terminal
    <3>2. CASE arrived # {}
      <4>1. PICK m \in seen : record.state = StateOf(wire[m]) /\ record.filled = wire[m].cum
        BY <3>2 DEF Reflects
      <4> QED BY <1>1, <1>2, <4>1 DEF Chained
    <3> QED BY <3>1, <3>2
  <2>2. ~BehindSequence(record, wire[i])
    <3>1. record.lastSeq = Absent \/ record.lastSeq \in arrived
      BY DEF Reflects
    <3>2. wire[i].seq \in {Absent, i} /\ i \in Nat /\ \A k \in arrived : k \in Nat /\ k < i
      BY <1>1, <1>2
    <3> QED BY <3>1, <3>2 DEF BehindSequence
  <2>3. /\ Verdict(record, wire[i]) = "accepted"
        /\ Advanced(record, wire[i]).state = StateOf(wire[i])
        /\ Advanced(record, wire[i]).filled = wire[i].cum
        /\ Advanced(record, wire[i]).quantity = OrderQty
        /\ Advanced(record, wire[i]).lastSeq \in {record.lastSeq, wire[i].seq}
    BY <1>1, <2>1, <2>2, Newer
  <2>4. i \notin seen
    BY <1>1, <1>2
  <2>5. ApplyReport(i)
    BY <2>3, <2>4 DEF RefuseReport
  <2>6. wire[i].type # "busted"
    BY <1>1 DEF Plain
  <2>7. record' = Advanced(record, wire[i]) /\ seen' = seen \cup {i}
    BY <2>5, <2>6 DEF ApplyReport
  <2>8. \A k \in arrived' : k <= i
    BY <1>1, <1>2
  <2>9. record'.lastSeq \in {Absent} \cup arrived' /\ seen' \subseteq arrived'
    BY <1>1, <2>3, <2>7 DEF Reflects
  <2> QED BY <1>1, <2>3, <2>7, <2>8, <2>9 DEF Reflects, StateOf
<1>3. CASE ~(\A k \in arrived : k < i)
  <2>1. PICK m \in seen : /\ \A k \in arrived : k <= m
                          /\ record.state = StateOf(wire[m]) /\ record.filled = wire[m].cum
    BY <1>3 DEF Reflects
  <2>2. i <= m /\ m \in 1 .. Len(wire)
    <3>1. PICK k \in arrived : ~(k < i)
      BY <1>3
    <3>2. m \in 1 .. Len(wire) /\ k \in 1 .. Len(wire) /\ k <= m
      BY <1>1, <2>1, <3>1
    <3> QED BY <3>1, <3>2
  <2>3. RefuseReport(i)
    <3>1. CASE i = m
      BY <2>1, <3>1 DEF ApplyReport
    <3>2. CASE i < m
      <4>1. Later(StateOf(wire[i]), wire[i].cum, wire[m]) /\ Plain(wire[m])
        BY <2>2, <3>2 DEF Chained
      <4>2. Verdict(record, wire[i]) # "accepted"
        BY <1>1, <2>1, <4>1, Older
      <4> QED BY <4>2 DEF ApplyReport
    <3> QED BY <1>1, <2>2, <3>1, <3>2
  <2>4. UNCHANGED <<record, seen>>
    BY <2>3 DEF RefuseReport
  <2>5. \A k \in arrived' : k <= m
    <3>1. arrived' = arrived \cup {i}
      BY <1>1
    <3> QED BY <2>1, <2>2, <3>1
  <2>6. arrived' # {}
    BY <1>1
  <2> QED BY <1>1, <2>1, <2>4, <2>5, <2>6 DEF Reflects, StateOf
<1> QED BY <1>2, <1>3

LEMMA InitUpToDate == Init => UpToDate
<1> SUFFICES ASSUME Init PROVE UpToDate
  OBVIOUS
<1>1. /\ Len(wire) = 0 /\ wire = <<>> /\ broker.filled = 0 /\ broker.quantity = OrderQty
      /\ broker.state = "created" /\ record = Fresh /\ seen = {} /\ arrived = {}
  BY DEF Init
<1> QED BY <1>1 DEF UpToDate, NoneYet, Chained, Reflects, Fresh

LEMMA NextUpToDate ==
  ASSUME Totals = "every", "busted" \notin Emits, IInv, UpToDate, [Next]_vars
  PROVE  UpToDate'
<1>1. CASE Track \/ Forget
  <2>1. UNCHANGED <<broker, wire>> /\ record' = Fresh /\ seen' = {} /\ arrived' = {}
    BY <1>1 DEF Track, Forget
  <2>2. NoneYet' /\ (Unmodified' => Unmodified) /\ (Chained => Chained')
    BY <2>1 DEF UpToDate, NoneYet, Unmodified, Chained, Plain, StateOf, Later
  <2>3. Reflects'
    BY <2>1 DEF Reflects, Fresh
  <2> QED BY <2>2, <2>3 DEF UpToDate
<1>2. ASSUME NEW i \in 1 .. Len(wire), ApplyReport(i) \/ RefuseReport(i)
      PROVE  UpToDate'
  <2>1. UNCHANGED <<broker, wire>>
    BY <1>2 DEF ApplyReport, RefuseReport
  <2>2. NoneYet' /\ (Unmodified' => Unmodified) /\ (Chained => Chained')
    BY <2>1 DEF UpToDate, NoneYet, Unmodified, Chained, Plain, StateOf, Later
  <2>3. Unmodified => Reflects'
    BY <1>2, ReportArrives DEF UpToDate
  <2> QED BY <2>2, <2>3 DEF UpToDate
<1>3. CASE Broker
  BY <1>3, BrokerGoesOn
<1>4. CASE UNCHANGED vars
  BY <1>4 DEF vars, UpToDate, NoneYet, Unmodified, Chained, Reflects, Plain, StateOf, Later
<1> QED BY <1>1, <1>2, <1>3, <1>4 DEF Next, Deliver

(* Where every report states its total and no fill is voided, a record     *)
(* that every report has reached, in whatever order and however often,     *)
(* holds what the broker holds: no report a guard dropped was needed.      *)
THEOREM RecordCatchesUp ==
  ASSUME Totals = "every", "busted" \notin Emits
  PROVE  Spec => []Converges
<1>1. IInv /\ UpToDate /\ [Next]_vars => UpToDate'
  BY NextUpToDate
<1>2. IInv /\ UpToDate => Converges
  <2> SUFFICES ASSUME IInv, UpToDate, arrived = 1 .. Len(wire), Unmodified
               PROVE  Agrees
    BY DEF Converges, Unmodified
  <2>1. Chained /\ Reflects /\ wire \in Seq(Report) /\ seen \subseteq 1 .. Len(wire)
    BY DEF UpToDate, IInv, TypeOK
  <2>2. CASE wire = <<>>
    <3>1. arrived = {}
      BY <2>2
    <3> QED BY <2>1, <2>2, <3>1 DEF Chained, Reflects, Agrees
  <2>3. CASE wire # <<>>
    <3>1. Len(wire) \in arrived /\ Len(wire) \in Nat
      BY <2>1, <2>3
    <3>2. PICK m \in seen : /\ \A k \in arrived : k <= m
                            /\ record.state = StateOf(wire[m]) /\ record.filled = wire[m].cum
      BY <2>1, <3>1 DEF Reflects
    <3>3. m = Len(wire)
      BY <2>1, <3>1, <3>2
    <3> QED BY <2>1, <2>3, <3>2, <3>3 DEF Chained, Agrees
  <2> QED BY <2>2, <2>3
<1> QED BY <1>1, <1>2, InitUpToDate, Invariance, PTL DEF Spec
=============================================================================
