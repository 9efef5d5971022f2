----------------------------- MODULE Fund_proofs -----------------------------
(***************************************************************************)
(* Proofs about Fund, for any symbols, proposals, orders and threads: an   *)
(* order is placed once, and its record and its fills agree, outside the   *)
(* windows the properties name.                                            *)
(*                                                                         *)
(* The argument is about one order.  Unless two submissions both found it  *)
(* unrecorded, one thread at most submits it; while there is no record the *)
(* broker has not heard of it; and unless the submission was cut short or  *)
(* crossed by a cancel, the record stays accepted and uncounted for as     *)
(* long as that thread has something to write.                             *)
(*                                                                         *)
(* The leverage ceiling is about a basket.  What the book is exposed to    *)
(* and what the cleared orders of one basket could still add to it stay    *)
(* within the ceiling together: a screening makes it so for the basket it  *)
(* clears, and a fill moves an order from the second sum into the first.   *)
(***************************************************************************)
EXTENDS Fund, Counting, FiniteSetTheorems, TLAPS

Works(c, o) == doing[c].order = o /\ doing[c].step \in Submitting
Cancels(c, o) == doing[c].order = o /\ doing[c].step \in Cancelling

\* One thread at most submits o.
Alone(o) == \A c, k \in Client : Works(c, o) /\ Works(k, o) => c = k

\* What each step of a submission knows of the record, the broker and the fills.
Known(o) ==
  /\ placed[o] <= 1 /\ fills[o] <= 1
  /\ rec[o].status = "none" => placed[o] = 0 /\ fills[o] = 0 /\ ~rec[o].filled
  /\ \A c \in Client : Works(c, o) =>
       /\ At(c, "save") <=> rec[o].status = "none"
       /\ doing[c].step \in {"save", "place"} => placed[o] = 0
       /\ IF At(c, "settle") THEN fills[o] = 1 ELSE fills[o] = 0
  /\ \A c \in Client : Cancels(c, o) => rec[o].status # "none"

\* The record of an order whose submission was neither cut nor crossed.
Clean(o) ==
  /\ \A c \in Client : Works(c, o) => rec[o].status \in {"none", "accepted"} /\ ~rec[o].filled
  /\ \A c \in Client : Cancels(c, o) => ~InFlight(o) /\ fills[o] = 0
  /\ ~InFlight(o) =>
       /\ rec[o].filled <=> fills[o] > 0
       /\ rec[o].status = "filled" <=> fills[o] = 1

Sound(o) ==
  o \notin overlapped => Alone(o) /\ Known(o) /\ (o \notin cut => Clean(o))

\* What a thread does that is about no order.
Offering == {"idle"} \cup Screening

\* A thread that submits or cancels does it for an order.
Busy ==
  \A c \in Client : doing[c].step \in Submitting \cup Cancelling => doing[c].order \in Order

IInv == TypeOK /\ Busy /\ \A o \in Order : Sound(o)

-----------------------------------------------------------------------------
LEMMA InFlightIsWork ==
  ASSUME NEW o \in Order
  PROVE  /\ InFlight(o) <=> \E c \in Client : Works(c, o)
         /\ InFlight(o)' <=> \E c \in Client : Works(c, o)'
BY DEF InFlight, Works

LEMMA InitIInv == Init => IInv
<1> SUFFICES ASSUME Init
             PROVE  IInv
  OBVIOUS
<1>1. /\ Idle \in [step : Step, order : 0..MaxOrders]
      /\ Idle.step \notin Submitting \cup Cancelling
  BY FundAssumption DEF Idle, Step, Submitting, Cancelling
<1>2. TypeOK
  <2>1. NoOrder \in OrderRecord
    BY FundAssumption DEF NoOrder, OrderRecord, Priced
  <2>2. order \in [Order -> OrderRecord]
    BY <2>1 DEF Init
  <2>3. rec \in [Order -> [status : OrderStatus, filled : BOOLEAN]]
    BY DEF Init, OrderStatus
  <2>4. /\ fills \in [Order -> Nat] /\ placed \in [Order -> Nat]
        /\ held \in [Symbol -> Int] /\ worth \in [Symbol -> Nat]
    BY DEF Init, Flat
  <2>5. doing \in [Client -> [step : Step, order : 0..MaxOrders]]
    BY <1>1 DEF Init
  <2>6. delta \in [Client -> [Symbol -> DeltaRecord]]
    BY DEF Init, Nothing, NoDelta, DeltaRecord, Priced
  <2>7. QED
    BY <2>2, <2>3, <2>4, <2>5, <2>6 DEF Init, TypeOK
<1>3. Busy
  BY <1>1 DEF Init, Busy
<1>4. ASSUME NEW o \in Order
      PROVE  Sound(o)
  <2>1. \A c \in Client : ~Works(c, o) /\ ~Cancels(c, o)
    BY <1>1 DEF Init, Works, Cancels
  <2>2. QED
    BY <2>1 DEF Init, Sound, Alone, Known, Clean
<1>5. QED
  BY <1>2, <1>3, <1>4 DEF IInv

-----------------------------------------------------------------------------
\* An order a step is not about stays as it was.
LEMMA OtherOrders ==
  ASSUME NEW c \in Client, NEW p \in Order, Sound(p),
         \A k \in Client \ {c} : doing'[k] = doing[k],
         ~Works(c, p), ~Works(c, p)', ~Cancels(c, p), ~Cancels(c, p)',
         rec'[p] = rec[p], fills'[p] = fills[p], placed'[p] = placed[p],
         p \in overlapped' <=> p \in overlapped, p \in cut' <=> p \in cut
  PROVE  Sound(p)'
<1>1. \A k \in Client : /\ Works(k, p)' <=> Works(k, p)
                        /\ Cancels(k, p)' <=> Cancels(k, p)
                        /\ Works(k, p) => At(k, "save")' = At(k, "save")
                                          /\ At(k, "settle")' = At(k, "settle")
                                          /\ doing'[k].step = doing[k].step
  BY DEF Works, Cancels, At
<1>2. Alone(p) => Alone(p)'
  BY <1>1 DEF Alone
<1>3. Known(p) => Known(p)'
  BY <1>1 DEF Known
<1>4. Clean(p) => Clean(p)'
  BY <1>1, InFlightIsWork DEF Clean
<1>5. QED
  BY <1>2, <1>3, <1>4 DEF Sound

\* The tables, the threads and their history stay as they were.
LEMMA SameOrders ==
  ASSUME IInv, UNCHANGED <<tables, doing, placed, overlapped, cut>>
  PROVE  Busy' /\ \A o \in Order : Sound(o)'
BY DEF IInv, tables, Busy, Sound, Alone, Known, Clean, InFlight, Works, Cancels, At

LEMMA SetSwitchKeeps == ASSUME IInv, SetSwitch PROVE IInv'
<1>1. TypeOK'
  BY DEF IInv, TypeOK, ceiling, SetSwitch, tables, threads, history
<1>2. QED
  BY <1>1, SameOrders DEF IInv, SetSwitch, threads, history

\* A thread that serves nothing starts or ends a screening.
LEMMA OffersKeep ==
  ASSUME IInv, TypeOK', NEW c \in Client,
         doing[c].step \in Offering, doing'[c].step \in Offering,
         \A k \in Client \ {c} : doing'[k] = doing[k],
         UNCHANGED <<tables, placed, overlapped, cut>>
  PROVE  IInv'
<1>1. Busy'
  BY DEF IInv, Busy, Offering, Screening, Submitting, Cancelling
<1>2. ASSUME NEW o \in Order
      PROVE  Sound(o)'
  <2>1. ~Works(c, o) /\ ~Works(c, o)' /\ ~Cancels(c, o) /\ ~Cancels(c, o)'
    BY DEF Works, Cancels, Offering, Screening, Submitting, Cancelling
  <2>2. QED
    BY <2>1, OtherOrders DEF IInv, tables
<1>3. QED
  BY <1>1, <1>2 DEF IInv

LEMMA PrepareKeeps ==
  ASSUME IInv, NEW c \in Client, NEW p \in Proposals, NEW quote \in [Symbol -> Prices],
         Prepare(c, p, quote)
  PROVE  IInv'
<1>1. Rebalance(p, quote) \in [Symbol -> DeltaRecord]
  <2>1. \A s \in Symbol : p[s] \in Int \cup {Absent} /\ held[s] \in Int /\ quote[s] \in Nat
    BY FundAssumption DEF IInv, TypeOK
  <2>2. QED
    BY <2>1 DEF Rebalance, NoDelta, DeltaRecord, Priced
<1>2. /\ doing' = [doing EXCEPT ![c] = [step |-> "screen", order |-> 0]]
      /\ [step |-> "screen", order |-> 0] \in [step : Step, order : 0..MaxOrders]
  BY FundAssumption DEF Prepare, Starts, Step, Screening
<1>3. TypeOK'
  BY <1>1, <1>2 DEF IInv, TypeOK, Prepare, service, tables, history, ceiling
<1>4. QED
  BY <1>2, <1>3, OffersKeep DEF IInv, TypeOK, Prepare, At, tables, history, Offering, Screening

LEMMA ScreenKeeps == ASSUME IInv, NEW c \in Client, Screen(c) PROVE IInv'
<1> DEFINE decided == [s \in Symbol |-> [delta[c][s] EXCEPT !.cleared =
                                           Allowed(s, delta[c][s], GrossBefore(delta[c], s))]]
<1>1. /\ At(c, "screen") /\ Goes(c, "remember")
      /\ delta' = [delta EXCEPT ![c] = decided]
      /\ UNCHANGED <<service, tables, history>>
  BY DEF IInv, TypeOK, Screen
<1>2. decided \in [Symbol -> DeltaRecord]
  <2>1. ASSUME NEW s \in Symbol
        PROVE  [delta[c][s] EXCEPT !.cleared = Allowed(s, delta[c][s], GrossBefore(delta[c], s))]
                 \in DeltaRecord
    <3>1. delta[c][s] \in DeltaRecord
      BY DEF IInv, TypeOK
    <3>2. Allowed(s, delta[c][s], GrossBefore(delta[c], s)) \in BOOLEAN
      BY DEF Allowed
    <3>3. QED
      BY <3>1, <3>2 DEF DeltaRecord, Priced
  <2>2. QED
    BY <2>1
<1> HIDE DEF decided
<1>3. doing'[c].step = "remember" /\ \A k \in Client \ {c} : doing'[k] = doing[k]
  BY <1>1 DEF IInv, TypeOK, Goes
<1>4. TypeOK'
  <2>1. doing' \in [Client -> [step : Step, order : 0..MaxOrders]]
    BY <1>1 DEF IInv, TypeOK, Goes, Step, Screening
  <2>2. delta' \in [Client -> [Symbol -> DeltaRecord]]
    BY <1>1, <1>2 DEF IInv, TypeOK
  <2>3. QED
    BY <1>1, <2>1, <2>2 DEF IInv, TypeOK, service, tables, history, ceiling
<1>5. QED
  BY <1>1, <1>3, <1>4, OffersKeep DEF At, history, Offering, Screening

LEMMA RememberKeeps == ASSUME IInv, NEW c \in Client, Remember(c) PROVE IInv'
<1> DEFINE ds == delta[c]
           moved == {s \in Symbol : ds[s].size # 0}
           new == {IdOf(ds, s) : s \in moved}
           Of(o) == CHOOSE s \in moved : IdOf(ds, s) = o
           Decided(s) == [symbol |-> s, size |-> ds[s].size, price |-> ds[s].price,
                          cleared |-> ds[s].cleared, batch |-> Used + 1]
<1>1. /\ At(c, "remember") /\ new \subseteq Order
      /\ order' = [o \in Order |-> IF o \in new THEN Decided(Of(o)) ELSE order[o]]
      /\ screened' = screened \cup new
      /\ fresh' = IF mixed \/ c \in behind THEN fresh ELSE fresh \cup new
      /\ behind' = behind \ {c}
      /\ Ends(c) /\ delta' = [delta EXCEPT ![c] = Nothing]
      /\ UNCHANGED <<enabled, tables, placed, overlapped, cut, mixed, last, slipped>>
  BY DEF Remember
<1>2. Used \in Nat
  <2>1. IsFiniteSet(Order)
    BY FS_Interval, FundAssumption DEF Order
  <2>2. {o \in Order : order[o] # NoOrder} \in SUBSET Order
    OBVIOUS
  <2>3. QED
    BY <2>1, <2>2, FS_Subset, FS_CardinalityType DEF Used
<1>3. ASSUME NEW o \in new
      PROVE  Decided(Of(o)) \in OrderRecord
  <2>1. Of(o) \in Symbol
    OBVIOUS
  <2>2. ds[Of(o)] \in DeltaRecord
    BY <2>1 DEF IInv, TypeOK
  <2>3. Of(o) \in 0..Symbols
    BY <2>1, FundAssumption DEF Symbol
  <2> HIDE DEF ds, Of
  <2>4. QED
    BY <1>2, <2>2, <2>3 DEF DeltaRecord, OrderRecord, Priced
<1> HIDE DEF ds, moved, new, Of, Decided
<1>4. doing'[c] = Idle /\ \A k \in Client \ {c} : doing'[k] = doing[k]
  BY <1>1 DEF Ends, IInv, TypeOK
<1>5. TypeOK'
  <2>1. order' \in [Order -> OrderRecord]
    BY <1>1, <1>3 DEF IInv, TypeOK
  <2>2. delta' \in [Client -> [Symbol -> DeltaRecord]]
    BY <1>1 DEF IInv, TypeOK, Nothing, NoDelta, DeltaRecord, Priced
  <2>3. doing' \in [Client -> [step : Step, order : 0..MaxOrders]]
    BY <1>1, FundAssumption DEF IInv, TypeOK, Ends, Idle, Step
  <2>4. QED
    BY <1>1, <2>1, <2>2, <2>3 DEF IInv, TypeOK, tables
<1>6. QED
  BY <1>1, <1>4, <1>5, OffersKeep DEF At, Idle, Offering, Screening

-----------------------------------------------------------------------------
\* Where a thread is after a step, and that the others are where they were.
LEMMA GoesOn ==
  ASSUME IInv, NEW c \in Client, doing[c].step \in Submitting \cup Cancelling,
         NEW step \in Submitting \cup Cancelling, Goes(c, step)
  PROVE  /\ doing'[c].step = step /\ doing'[c].order = doing[c].order
         /\ \A k \in Client \ {c} : doing'[k] = doing[k]
         /\ doing' \in [Client -> [step : Step, order : 0..MaxOrders]]
         /\ Busy'
BY DEF IInv, TypeOK, Goes, Busy, Step, Submitting, Cancelling

LEMMA IsOver ==
  ASSUME IInv, NEW c \in Client, Ends(c)
  PROVE  /\ doing'[c].step = "idle"
         /\ \A k \in Client \ {c} : doing'[k] = doing[k]
         /\ doing' \in [Client -> [step : Step, order : 0..MaxOrders]]
         /\ Busy'
BY FundAssumption DEF IInv, TypeOK, Ends, Idle, Busy, Step, Submitting, Cancelling

\* A step of one thread disturbs the order it is about, and no other.
LEMMA OneOrder ==
  ASSUME IInv, NEW c \in Client, NEW o \in Order,
         doing[c].step \in Offering \/ doing[c].order = o,
         doing'[c].step = "idle" \/ doing'[c].order = o,
         \A k \in Client \ {c} : doing'[k] = doing[k],
         \A p \in Order \ {o} :
           /\ rec'[p] = rec[p] /\ fills'[p] = fills[p] /\ placed'[p] = placed[p]
           /\ p \in overlapped' <=> p \in overlapped
           /\ p \in cut' <=> p \in cut,
         Sound(o)', Busy', TypeOK'
  PROVE  IInv'
<1>1. ASSUME NEW p \in Order, p # o
      PROVE  Sound(p)'
  <2>1. ~Works(c, p) /\ ~Works(c, p)' /\ ~Cancels(c, p) /\ ~Cancels(c, p)'
    BY <1>1 DEF Works, Cancels, Offering, Screening, Submitting, Cancelling
  <2>2. QED
    BY <1>1, <2>1, OtherOrders DEF IInv
<1>2. QED
  BY <1>1 DEF IInv

-----------------------------------------------------------------------------
LEMMA CheckKeeps == ASSUME IInv, NEW c \in Client, NEW o \in Order, Check(c, o) PROVE IInv'
<1>1. /\ At(c, "idle") /\ rec[o].status = "none"
      /\ doing' = [doing EXCEPT ![c] = [step |-> "save", order |-> o]]
      /\ overlapped' = IF \E k \in Client : doing[k] = [step |-> "save", order |-> o]
                       THEN overlapped \cup {o} ELSE overlapped
      /\ UNCHANGED <<service, tables, delta, placed, cut, behind, ceiling>>
  BY DEF Check, Starts
<1>2. /\ doing'[c] = [step |-> "save", order |-> o]
      /\ \A k \in Client \ {c} : doing'[k] = doing[k]
      /\ doing' \in [Client -> [step : Step, order : 0..MaxOrders]]
  BY <1>1, FundAssumption DEF IInv, TypeOK, Step, Submitting, Order
<1>3. TypeOK'
  BY <1>1, <1>2 DEF IInv, TypeOK, ceiling, service, tables
<1>4. Busy'
  BY <1>2 DEF IInv, Busy
<1>5. ASSUME o \notin overlapped'
      PROVE  Alone(o)' /\ Known(o)' /\ Clean(o)'
  <2>1. o \notin overlapped /\ ~\E k \in Client : doing[k] = [step |-> "save", order |-> o]
    BY <1>1, <1>5
  <2>2. Alone(o) /\ Known(o)
    BY <2>1 DEF IInv, Sound
  <2>3. \A k \in Client : ~Works(k, o) /\ ~Cancels(k, o)
    <3>1. ASSUME NEW k \in Client, Works(k, o)
          PROVE  FALSE
      <4>1. doing[k].step = "save" /\ doing[k].order = o
        BY <1>1, <2>2, <3>1 DEF Known, Works, At
      <4>2. doing[k] = [step |-> "save", order |-> o]
        BY <4>1 DEF IInv, TypeOK, ceiling
      <4>3. QED
        BY <2>1, <4>2
    <3>2. QED
      BY <1>1, <2>2, <3>1 DEF Known
  <2>4. /\ Works(c, o)' /\ At(c, "save")' /\ ~Cancels(c, o)'
        /\ \A k \in Client \ {c} : ~Works(k, o)' /\ ~Cancels(k, o)'
    BY <1>2, <2>3 DEF Works, Cancels, At, Submitting, Cancelling
  <2>5. Alone(o)'
    BY <2>4 DEF Alone
  <2>6. Known(o)'
    BY <1>1, <2>2, <2>4 DEF Known, At, tables
  <2>7. Clean(o)'
    BY <1>1, <2>2, <2>4, InFlightIsWork DEF Clean, Known, tables
  <2>8. QED
    BY <2>5, <2>6, <2>7
<1>6. QED
  BY <1>1, <1>2, <1>3, <1>4, <1>5, OneOrder DEF Sound, At, tables, Offering

\* A thread takes the next step of its submission: what is left to show is
\* what the step makes of the record, the broker and the fills.
LEMMA SubmissionKeeps ==
  ASSUME IInv, NEW c \in Client, NEW o \in Order, Works(c, o), TypeOK',
         NEW step \in Submitting \ {"save"}, Goes(c, step),
         UNCHANGED <<overlapped, cut>>,
         \A p \in Order \ {o} : rec'[p] = rec[p] /\ fills'[p] = fills[p] /\ placed'[p] = placed[p],
         o \notin overlapped =>
           /\ rec'[o].status # "none"
           /\ placed'[o] <= 1 /\ fills'[o] <= 1
           /\ step = "place" => placed'[o] = 0
           /\ IF step = "settle" THEN fills'[o] = 1 ELSE fills'[o] = 0
           /\ o \notin cut => rec'[o].status = "accepted" /\ ~rec'[o].filled
  PROVE  IInv'
<1>1. /\ doing'[c].step = step /\ doing'[c].order = o
      /\ \A k \in Client \ {c} : doing'[k] = doing[k]
      /\ Busy'
  BY GoesOn DEF Works
<1>2. ASSUME o \notin overlapped
      PROVE  Sound(o)'
  <2>1. Alone(o) /\ Known(o) /\ (o \notin cut => Clean(o))
    BY <1>2 DEF IInv, Sound
  <2>2. \A k \in Client \ {c} : ~Works(k, o) /\ ~Works(k, o)' /\ (Cancels(k, o)' <=> Cancels(k, o))
    BY <1>1, <2>1 DEF Alone, Works, Cancels
  <2>3. Works(c, o)' /\ ~At(c, "save")' /\ ~Cancels(c, o)'
    BY <1>1 DEF Works, Cancels, At, Submitting, Cancelling
  <2>4. Alone(o)'
    BY <2>2, <2>3 DEF Alone
  <2>5. At(c, "settle")' <=> step = "settle"
    BY <1>1 DEF At
  <2>6. Known(o)'
    <3>1. \A k \in Client : Works(k, o)' =>
            /\ At(k, "save")' <=> rec'[o].status = "none"
            /\ doing'[k].step \in {"save", "place"} => placed'[o] = 0
            /\ IF At(k, "settle")' THEN fills'[o] = 1 ELSE fills'[o] = 0
      BY <1>1, <1>2, <2>2, <2>3, <2>5
    <3>2. QED
      BY <1>2, <3>1 DEF Known
  <2>7. o \notin cut => Clean(o)'
    <3>1. o \notin cut => \A k \in Client : ~Cancels(k, o)'
      BY <2>1, <2>2, <2>3, InFlightIsWork DEF Clean
    <3>2. QED
      BY <1>2, <2>2, <2>3, <3>1, InFlightIsWork DEF Clean
  <2>8. QED
    BY <2>4, <2>6, <2>7 DEF Sound
<1>3. Sound(o)'
  BY <1>2 DEF Sound
<1>4. QED
  BY <1>1, <1>3, OneOrder DEF Works

LEMMA SaveKeeps == ASSUME IInv, NEW c \in Client, Save(c) PROVE IInv'
<1>1. PICK o \in Order : Works(c, o) /\ At(c, "save")
  BY DEF IInv, Busy, Works, Save, At, Submitting
<1>2. /\ rec' = [rec EXCEPT ![o] = [status |-> "accepted", filled |-> FALSE]]
      /\ Goes(c, "place")
      /\ UNCHANGED <<service, fills, held, worth, delta, history>>
  BY <1>1 DEF Save, Works
<1>3. /\ rec' \in [Order -> [status : OrderStatus, filled : BOOLEAN]]
      /\ rec'[o] = [status |-> "accepted", filled |-> FALSE]
      /\ \A p \in Order \ {o} : rec'[p] = rec[p]
  BY <1>2 DEF IInv, TypeOK, ceiling, OrderStatus
<1>4. TypeOK'
  BY <1>1, <1>2, <1>3, GoesOn DEF IInv, TypeOK, ceiling, service, history, Works, Submitting
<1>5. o \notin overlapped => placed[o] = 0 /\ fills[o] = 0
  BY <1>1 DEF IInv, Sound, Known, Works, At
<1>6. QED
  BY <1>1, <1>2, <1>3, <1>4, <1>5, SubmissionKeeps DEF history, Submitting

\* A recorded order whose submission is not cut is accepted and uncounted.
LEMMA StillAccepted ==
  ASSUME IInv, NEW c \in Client, NEW o \in Order, Works(c, o), ~At(c, "save"), o \notin overlapped
  PROVE  rec[o].status # "none" /\ (o \notin cut => rec[o].status = "accepted" /\ ~rec[o].filled)
BY DEF IInv, Sound, Known, Clean

LEMMA PlaceKeeps == ASSUME IInv, NEW c \in Client, Place(c) PROVE IInv'
<1>1. PICK o \in Order : Works(c, o) /\ At(c, "place")
  BY DEF IInv, Busy, Works, Place, At, Submitting
<1>2. PICK step \in {"fill", "rest", "reject"} : Goes(c, step)
  BY DEF Place
<1>3. /\ placed' = [placed EXCEPT ![o] = @ + 1]
      /\ UNCHANGED <<service, tables, delta, overlapped, cut, behind, ceiling>>
  BY <1>1 DEF Place, Works
<1>4. TypeOK'
  BY <1>1, <1>2, <1>3, GoesOn DEF IInv, TypeOK, ceiling, service, tables, Works, Submitting
<1>5. o \notin overlapped => placed[o] = 0 /\ fills[o] = 0
  BY <1>1 DEF IInv, Sound, Known, Works, At
<1>6. o \notin overlapped => rec[o].status # "none"
                             /\ (o \notin cut => rec[o].status = "accepted" /\ ~rec[o].filled)
  BY <1>1, StillAccepted DEF At
<1>7. placed' \in [Order -> Nat] /\ placed'[o] = placed[o] + 1
      /\ \A p \in Order \ {o} : placed'[p] = placed[p]
  BY <1>3 DEF IInv, TypeOK, ceiling
<1>8. QED
  BY <1>1, <1>2, <1>3, <1>4, <1>5, <1>6, <1>7, SubmissionKeeps DEF tables, Submitting

\* What a filled contract costs, and what a position is worth, are amounts.
LEMMA ProductFacts ==
  /\ \A a, b \in Nat : a * b \in Nat
  /\ \A a, b, x \in Nat : a <= b => a * x <= b * x
<1>1. \A a, b \in Nat : a * b \in Nat
  OBVIOUS
<1>2. ASSUME NEW a \in Nat, NEW b \in Nat, NEW x \in Nat, a <= b
      PROVE  a * x <= b * x
  <2>1. PICK d \in Nat : b = a + d
    <3>1. b - a \in Nat /\ b = a + (b - a)
      BY <1>2
    <3> QED BY <3>1
  <2>2. (a + d) * x = a * x + d * x /\ d * x \in Nat /\ a * x \in Nat
    BY <1>1
  <2> QED BY <2>1, <2>2
<1> QED BY <1>1, <1>2

\* What a fill leaves a position worth is an amount of money.
LEMMA WorthIsNat ==
  ASSUME NEW h \in Int, NEW w \in Nat, NEW d \in OrderRecord,
         NEW v \in WorthAfter(h, w, d.size, Paid(d))
  PROVE  v \in Nat
<1>1. d.size \in Int /\ d.price \in Nat /\ (d.size # 0 => Slip < d.price) /\ Slip \in Nat
  BY FundAssumption DEF OrderRecord, Priced
<1>2. PICK n \in Int : n = d.size
  BY <1>1
<1>3. PICK paid \in Int : paid = Paid(d) /\ (n # 0 => paid \in Nat)
  BY <1>1, <1>2 DEF Paid
<1>4. v \in WorthAfter(h, w, n, paid)
  BY <1>2, <1>3
<1>5. CASE n = 0
  <2>1. Magnitude(n) * paid = 0
    BY <1>3, <1>5 DEF Magnitude
  <2> QED BY <1>4, <1>5, <2>1 DEF WorthAfter
<1>6. CASE n # 0
  <2>1. Magnitude(n) \in Nat /\ Magnitude(h + n) \in Nat
    BY DEF Magnitude
  <2>2. Magnitude(n) * paid \in Nat /\ Magnitude(h + n) * paid \in Nat
    BY <1>3, <1>6, <2>1, ProductFacts
  <2> QED BY <1>4, <2>2 DEF WorthAfter
<1> QED BY <1>5, <1>6

LEMMA AddFillKeeps == ASSUME IInv, NEW c \in Client, AddFill(c) PROVE IInv'
<1>1. PICK o \in Order : Works(c, o) /\ At(c, "fill")
  BY DEF IInv, Busy, Works, AddFill, At, Submitting
<1>2. PICK x : x = order[o].symbol
  OBVIOUS
<1>3. PICK v : /\ v \in WorthAfter(held[x], worth[x], order[o].size, Paid(order[o]))
               /\ worth' = [worth EXCEPT ![x] = v]
  BY <1>1, <1>2 DEF AddFill, Works
<1>4. /\ fills' = [fills EXCEPT ![o] = @ + 1]
      /\ held' = [held EXCEPT ![x] = @ + order[o].size]
      /\ Goes(c, "settle")
      /\ fresh' \subseteq fresh /\ behind' \subseteq Client /\ mixed' \in BOOLEAN
      /\ UNCHANGED <<service, rec, delta, placed, overlapped, cut>>
  BY <1>1, <1>2 DEF AddFill, Works
<1>5. /\ fills' \in [Order -> Nat] /\ fills'[o] = fills[o] + 1
      /\ \A p \in Order \ {o} : fills'[p] = fills[p]
  BY <1>4 DEF IInv, TypeOK
<1>6. order[o] \in OrderRecord /\ order[o].size \in Int /\ order[o].batch \in Nat
  BY DEF IInv, TypeOK, OrderRecord
<1>7. held' \in [Symbol -> Int] /\ worth' \in [Symbol -> Nat]
  <2>1. held \in [Symbol -> Int] /\ worth \in [Symbol -> Nat]
    BY DEF IInv, TypeOK
  <2>2. PICK n \in Int : n = order[o].size
    BY <1>6
  <2>3. held' = [s \in Symbol |-> IF s = x THEN held[s] + n ELSE held[s]]
    <3>1. held' = [held EXCEPT ![x] = held[x] + n]
      BY <1>4, <2>2
    <3> QED BY <2>1, <3>1
  <2>4. worth' = [s \in Symbol |-> IF s = x THEN v ELSE worth[s]]
    BY <1>3, <2>1
  <2>5. x \in Symbol => v \in Nat
    BY <1>3, <1>6, <2>1, WorthIsNat
  <2> QED BY <2>1, <2>3, <2>4, <2>5
<1>8. last' \in Nat /\ slipped' \in Nat
  <2>1. Slippage(order[o]) \in Nat
    <3>1. \A n \in Nat : n * Slip \in Nat
      BY FundAssumption, ProductFacts
    <3> QED BY <1>6, <3>1 DEF Slippage
  <2>2. slipped \in Nat
    BY DEF IInv, TypeOK
  <2>3. PICK k \in Nat : k = Slippage(order[o])
    BY <2>1
  <2>4. \/ last' = 0 /\ slipped' = 0
        \/ last' = order[o].batch /\ slipped' = k + (IF last = order[o].batch THEN slipped ELSE 0)
    BY <1>1, <2>3 DEF AddFill, Works
  <2> QED BY <1>6, <2>2, <2>4
<1>9. TypeOK'
  <2>1. doing' \in [Client -> [step : Step, order : 0..MaxOrders]]
    BY <1>1, <1>4, GoesOn DEF Works, Submitting
  <2> QED BY <1>4, <1>5, <1>7, <1>8, <2>1 DEF IInv, TypeOK, service
<1>10. o \notin overlapped => placed[o] <= 1 /\ fills[o] = 0
  BY <1>1 DEF IInv, Sound, Known, Works, At
<1>11. o \notin overlapped => rec[o].status # "none"
                              /\ (o \notin cut => rec[o].status = "accepted" /\ ~rec[o].filled)
  BY <1>1, StillAccepted DEF At
<1>12. QED
  BY <1>1, <1>4, <1>5, <1>9, <1>10, <1>11, SubmissionKeeps DEF Submitting

\* The last write of a submission, and the write of a cancel.
LEMMA RecordKeeps ==
  ASSUME IInv, NEW c \in Client, NEW status \in OrderStatus \ {"none"}, NEW filled \in BOOLEAN,
         Records(c, status, filled),
         \/ At(c, "settle") /\ status = "filled" /\ filled
         \/ doing[c].step \in {"rest", "reject", "mark"} /\ status # "filled" /\ ~filled
  PROVE  IInv'
<1>1. PICK o \in Order : doing[c].order = o
  BY DEF IInv, Busy, At, Submitting, Cancelling
<1>2. /\ rec' = [rec EXCEPT ![o] = [status |-> status, filled |-> filled]]
      /\ Ends(c)
      /\ UNCHANGED <<service, fills, held, worth, delta, history>>
  BY <1>1 DEF Records
<1>3. /\ rec' \in [Order -> [status : OrderStatus, filled : BOOLEAN]]
      /\ rec'[o] = [status |-> status, filled |-> filled]
      /\ \A p \in Order \ {o} : rec'[p] = rec[p]
  BY <1>2 DEF IInv, TypeOK, ceiling
<1>4. /\ doing'[c].step = "idle"
      /\ \A k \in Client \ {c} : doing'[k] = doing[k]
      /\ Busy'
  BY <1>2, IsOver
<1>5. TypeOK'
  BY <1>2, <1>3, IsOver DEF IInv, TypeOK, ceiling, service, history
<1>6. ASSUME o \notin overlapped
      PROVE  Sound(o)'
  <2>1. Alone(o) /\ Known(o) /\ (o \notin cut => Clean(o))
    BY <1>6 DEF IInv, Sound
  <2>2. /\ ~Works(c, o)' /\ ~Cancels(c, o)'
        /\ \A k \in Client \ {c} : /\ Works(k, o)' <=> Works(k, o)
                                   /\ Cancels(k, o)' <=> Cancels(k, o)
                                   /\ doing'[k].step = doing[k].step
    BY <1>4 DEF Works, Cancels, Submitting, Cancelling
  <2>3. Alone(o)'
    BY <2>1, <2>2 DEF Alone
  <2>4. rec'[o].status # "none" /\ rec[o].status # "none"
    BY <1>1, <1>3, <2>1 DEF Known, Works, Cancels, At, Submitting, Cancelling
  <2>5. Known(o)'
    <3>1. \A k \in Client : Works(k, o)' =>
            /\ ~At(k, "save")'
            /\ doing'[k].step \in {"save", "place"} => placed[o] = 0
            /\ IF At(k, "settle")' THEN fills[o] = 1 ELSE fills[o] = 0
      BY <2>1, <2>2, <2>4 DEF Known, At
    <3>2. placed' = placed /\ fills' = fills
      BY <1>2 DEF history
    <3>3. QED
      BY <2>1, <2>4, <3>1, <3>2 DEF Known
  <2>6. ASSUME o \notin cut
        PROVE  Clean(o)'
    <3>1. \A k \in Client : ~Works(k, o)'
      BY <1>1, <2>1, <2>2, <2>6, InFlightIsWork
         DEF Clean, Alone, Works, Cancels, At, Submitting, Cancelling
    <3>2. fills'[o] = (IF filled THEN 1 ELSE 0)
      BY <1>1, <1>2, <2>1, <2>6 DEF Clean, Known, Works, Cancels, At, Submitting, Cancelling
    <3>3. \A k \in Client : Cancels(k, o)' => fills'[o] = 0
      BY <1>2, <2>1, <2>2, <2>6 DEF Clean
    <3>4. QED
      BY <1>3, <3>1, <3>2, <3>3, InFlightIsWork DEF Clean
  <2>7. QED
    BY <1>2, <2>3, <2>5, <2>6 DEF Sound, history
<1>7. Sound(o)'
  BY <1>2, <1>6 DEF Sound, history
<1>8. QED
  BY <1>1, <1>2, <1>3, <1>4, <1>5, <1>7, OneOrder DEF history

LEMMA AskCancelKeeps == ASSUME IInv, NEW c \in Client, NEW o \in Order, AskCancel(c, o) PROVE IInv'
<1>1. /\ At(c, "idle") /\ Open(o)
      /\ doing' = [doing EXCEPT ![c] = [step |-> "cancel", order |-> o]]
      /\ cut' = IF InFlight(o) THEN cut \cup {o} ELSE cut
      /\ UNCHANGED <<service, tables, delta, placed, overlapped, behind, ceiling>>
  BY DEF AskCancel, Starts
<1>2. /\ doing'[c] = [step |-> "cancel", order |-> o]
      /\ \A k \in Client \ {c} : doing'[k] = doing[k]
      /\ doing' \in [Client -> [step : Step, order : 0..MaxOrders]]
  BY <1>1, FundAssumption DEF IInv, TypeOK, Step, Cancelling, Order
<1>3. TypeOK'
  BY <1>1, <1>2 DEF IInv, TypeOK, ceiling, service, tables
<1>4. Busy'
  BY <1>2 DEF IInv, Busy
<1>5. ASSUME o \notin overlapped
      PROVE  Sound(o)'
  <2>1. Alone(o) /\ Known(o) /\ (o \notin cut => Clean(o))
    BY <1>5 DEF IInv, Sound
  <2>2. /\ ~Works(c, o) /\ ~Works(c, o)' /\ Cancels(c, o)'
        /\ \A k \in Client \ {c} : /\ Works(k, o)' <=> Works(k, o)
                                   /\ Cancels(k, o)' <=> Cancels(k, o)
                                   /\ doing'[k].step = doing[k].step
    BY <1>1, <1>2 DEF Works, Cancels, At, Submitting, Cancelling
  <2>3. rec[o].status \in {"accepted", "working"}
    BY <1>1 DEF Open
  <2>4. Alone(o)'
    BY <2>1, <2>2 DEF Alone
  <2>5. Known(o)'
    BY <1>1, <2>1, <2>2, <2>3 DEF Known, At, tables
  <2>6. ASSUME o \notin cut'
        PROVE  Clean(o)'
    <3>1. o \notin cut /\ ~InFlight(o)
      BY <1>1, <2>6
    <3>2. \A k \in Client : ~Works(k, o) /\ ~Works(k, o)'
      BY <2>2, <3>1, InFlightIsWork
    <3>3. fills[o] = 0 /\ ~rec[o].filled
      BY <2>1, <2>3, <3>1 DEF Clean, Known, IInv, TypeOK, ceiling
    <3>4. fills' = fills /\ rec' = rec
      BY <1>1 DEF tables
    <3>5. QED
      BY <2>3, <3>2, <3>3, <3>4, InFlightIsWork DEF Clean
  <2>7. QED
    BY <1>1, <2>4, <2>5, <2>6 DEF Sound
<1>6. Sound(o)'
  BY <1>1, <1>5 DEF Sound
<1>7. QED
  BY <1>1, <1>2, <1>3, <1>4, <1>6, OneOrder DEF At, tables, Offering

LEMMA BrokerCancelsKeeps == ASSUME IInv, NEW c \in Client, BrokerCancels(c) PROVE IInv'
<1>1. PICK o \in Order : doing[c].order = o /\ At(c, "cancel")
  BY DEF IInv, Busy, BrokerCancels, At, Cancelling
<1>2. Goes(c, "mark") /\ UNCHANGED <<service, tables, delta, history>>
  BY DEF BrokerCancels
<1>3. /\ doing'[c].step = "mark" /\ doing'[c].order = o
      /\ \A k \in Client \ {c} : doing'[k] = doing[k]
      /\ Busy' /\ TypeOK'
  BY <1>1, <1>2, GoesOn DEF IInv, TypeOK, ceiling, service, tables, history, At, Cancelling
<1>4. \A k \in Client : /\ Works(k, o)' <=> Works(k, o)
                        /\ Cancels(k, o)' <=> Cancels(k, o)
                        /\ Works(k, o) => doing'[k].step = doing[k].step
  BY <1>1, <1>3 DEF Works, Cancels, At, Submitting, Cancelling
<1>5. Alone(o) => Alone(o)'
  BY <1>4 DEF Alone
<1>6. Known(o) => Known(o)'
  BY <1>2, <1>4 DEF Known, At, tables, history
<1>7. Clean(o) => Clean(o)'
  BY <1>2, <1>4, InFlightIsWork DEF Clean, tables
<1>8. Sound(o)'
  BY <1>2, <1>5, <1>6, <1>7 DEF IInv, Sound, history
<1>9. QED
  BY <1>1, <1>2, <1>3, <1>8, OneOrder DEF tables, history

\* A thread gives its order up, and the order counts as cut.
LEMMA GivenUp ==
  ASSUME NEW o \in Order, Sound(o), o \in cut',
         \A k \in Client : Works(k, o)' => Works(k, o) /\ doing'[k].step = doing[k].step,
         \A k \in Client : Cancels(k, o)' => Cancels(k, o),
         UNCHANGED <<tables, placed, overlapped>>
  PROVE  Sound(o)'
<1>1. Alone(o) => Alone(o)'
  BY DEF Alone
<1>2. Known(o) => Known(o)'
  BY DEF Known, At, tables
<1>3. QED
  BY <1>1, <1>2 DEF Sound

LEMMA FailsKeeps == ASSUME IInv, NEW c \in Client, Fails(c) PROVE IInv'
<1>1. PICK o \in Order : doing[c].order = o
  BY DEF IInv, Busy, Fails, Submitting, Cancelling
<1>2. /\ Ends(c) /\ cut' = cut \cup {o}
      /\ UNCHANGED <<service, tables, delta, placed, overlapped, behind, ceiling>>
  BY <1>1 DEF Fails
<1>3. /\ doing'[c].step = "idle"
      /\ \A k \in Client \ {c} : doing'[k] = doing[k]
      /\ Busy'
  BY <1>2, IsOver
<1>4. TypeOK'
  BY <1>2, IsOver DEF IInv, TypeOK, ceiling, service, tables
<1>5. /\ \A k \in Client : Works(k, o)' => Works(k, o) /\ doing'[k].step = doing[k].step
      /\ \A k \in Client : Cancels(k, o)' => Cancels(k, o)
  BY <1>3 DEF Works, Cancels, Submitting, Cancelling
<1>6. Sound(o)'
  BY <1>2, <1>5, GivenUp DEF IInv
<1>7. QED
  BY <1>1, <1>2, <1>3, <1>4, <1>6, OneOrder DEF tables

LEMMA CrashKeeps == ASSUME IInv, Crash PROVE IInv'
<1>1. /\ screened' = {} /\ doing' = [c \in Client |-> Idle]
      /\ delta' = [c \in Client |-> Nothing]
      /\ cut' = cut \cup {o \in Order : \E c \in Client : doing[c].order = o}
      /\ behind' = {}
      /\ UNCHANGED <<enabled, order, tables, placed, overlapped, ceiling>>
  BY DEF Crash
<1>2. /\ Idle \in [step : Step, order : 0..MaxOrders]
      /\ Idle.step \notin Submitting \cup Cancelling
  BY FundAssumption DEF Idle, Step, Submitting, Cancelling
<1>3. TypeOK'
  <2>1. Nothing \in [Symbol -> DeltaRecord]
    BY DEF Nothing, NoDelta, DeltaRecord, Priced
  <2>2. QED
    BY <1>1, <1>2, <2>1 DEF IInv, TypeOK, ceiling, tables
<1>4. Busy'
  BY <1>1, <1>2 DEF Busy
<1>5. \A o \in Order, k \in Client : ~Works(k, o)' /\ ~Cancels(k, o)'
  BY <1>1, <1>2 DEF Works, Cancels
<1>6. ASSUME NEW o \in Order
      PROVE  Sound(o)'
  <2>1. CASE o \in cut'
    BY <1>1, <1>5, <2>1, GivenUp DEF IInv
  <2>2. CASE o \notin cut'
    <3>1. o \notin cut /\ ~\E c \in Client : doing[c].order = o
      BY <1>1, <2>2
    <3>2. \A k \in Client : ~Works(k, o)
      BY <3>1 DEF Works
    <3>3. o \notin overlapped => Known(o) /\ Clean(o)
      BY <3>1 DEF IInv, Sound
    <3>4. UNCHANGED <<rec, fills, placed, overlapped>>
      BY <1>1 DEF tables
    <3>5. o \notin overlapped => Alone(o)' /\ Known(o)' /\ Clean(o)'
      BY <1>5, <3>2, <3>3, <3>4, InFlightIsWork DEF Alone, Known, Clean
    <3>6. QED
      BY <3>4, <3>5 DEF Sound
  <2>3. QED
    BY <2>1, <2>2
<1>7. QED
  BY <1>3, <1>4, <1>6 DEF IInv

LEMMA NextIInv == IInv /\ [Next]_vars => IInv'
<1> SUFFICES ASSUME IInv, [Next]_vars
             PROVE  IInv'
  OBVIOUS
<1>1. ASSUME NEW c \in Client, Submission(c)
      PROVE  IInv'
  <2>1. CASE Settle(c)
    BY <2>1, RecordKeeps DEF Settle, OrderStatus
  <2>2. CASE Rest(c)
    BY <2>2, RecordKeeps DEF Rest, At, OrderStatus
  <2>3. CASE Reject(c)
    BY <2>3, RecordKeeps DEF Reject, At, OrderStatus
  <2>4. QED
    BY <1>1, <2>1, <2>2, <2>3, SaveKeeps, PlaceKeeps, AddFillKeeps DEF Submission
<1>2. ASSUME NEW c \in Client, Cancellation(c)
      PROVE  IInv'
  <2>1. CASE MarkCancelled(c)
    BY <2>1, RecordKeeps DEF MarkCancelled, At, OrderStatus
  <2>2. QED
    BY <1>2, <2>1, BrokerCancelsKeeps DEF Cancellation
<1>3. ASSUME NEW c \in Client,
             \/ \E p \in Proposals, quote \in [Symbol -> Prices] : Prepare(c, p, quote)
             \/ Screen(c) \/ Remember(c)
             \/ \E o \in Order : Check(c, o) \/ AskCancel(c, o)
             \/ Fails(c)
      PROVE  IInv'
  BY <1>3, PrepareKeeps, ScreenKeeps, RememberKeeps, CheckKeeps, AskCancelKeeps, FailsKeeps
<1>4. CASE UNCHANGED vars
  <2>1. TypeOK'
    BY <1>4 DEF IInv, TypeOK, ceiling, vars, service, tables, threads, history
  <2>2. QED
    BY <1>4, <2>1, SameOrders DEF IInv, vars, threads, history
<1>5. QED
  BY <1>1, <1>2, <1>3, <1>4, SetSwitchKeeps, CrashKeeps DEF Next

LEMMA Invariance == Spec => []IInv
BY InitIInv, NextIInv, PTL DEF Spec

(* Every reachable state is well typed, whatever is proposed and however   *)
(* many orders and threads there are.                                      *)
THEOREM TypeCorrect == Spec => []TypeOK
BY Invariance, PTL DEF IInv

(* An order that two submissions did not both find unrecorded is placed at *)
(* most once, through any crashes, failed writes and cancels.              *)
THEOREM OrdersPlacedOnce == Spec => []PlacedOnce
<1>1. IInv => PlacedOnce
  BY DEF IInv, Sound, Known, PlacedOnce
<1>2. QED
  BY <1>1, Invariance, PTL

(* The record of an order and its fills agree once its submission is over, *)
(* outside the windows Reconciles names.                                   *)
THEOREM BookReconciles == Spec => []Reconciles
<1>1. IInv => Reconciles
  BY DEF IInv, Sound, Clean, Reconciles
<1>2. QED
  BY <1>1, Invariance, PTL

-----------------------------------------------------------------------------
(* The leverage ceiling.                                                   *)

\* What an order weighs at the gate, and the orders of a basket that may
\* still be filled under the screening that cleared them.
Cost == [o \in Order |-> Weight(order[o])]
Pending(b) == {o \in fresh : order[o].batch = b /\ order[o].cleared /\ fills[o] = 0}

\* What a basket paid above its reference prices so far.
Slack(b) == IF b = last THEN slipped ELSE 0

\* Orders and baskets are numbered in the order they were screened.
Numbered ==
  /\ \A o \in Order : order[o].batch <= Used /\ (order[o] # NoOrder => o <= Used)
  /\ \A o \in fresh : order[o] # NoOrder
  /\ last <= Used

\* What is submitted was cleared.
Passed == \A c \in Client, o \in Order : Works(c, o) => order[o].cleared

\* What was cleared of a rebalance fits the ceiling, symbol after symbol.
Adds(d) == IF d.cleared THEN Weight(d) ELSE 0
IsBudget(after, ds) ==
  /\ after[0] = Gross
  /\ \A n \in 0..Symbols : after[n] \in Int /\ after[n] <= MaxGross
  /\ \A n \in 1..Symbols : after[n] = after[n - 1] + Adds(ds[n])
Budgeted(ds) == (\E after : IsBudget(after, ds)) \/ \A s \in Symbol : ~ds[s].cleared

\* The ceiling holds but for what the last basket slipped: for the book, for
\* the book with all that may still be filled of a basket, and for a basket
\* whose decisions are about to be remembered.
Room ==
  ~mixed =>
    /\ Gross <= MaxGross + slipped
    /\ \A b \in Nat : Pending(b) # {} =>
         Gross + SumFunctionOnSet(Cost, Pending(b)) <= MaxGross + Slack(b)
    /\ \A c \in Client : At(c, "remember") /\ c \notin behind => Budgeted(delta[c])

LInv == Numbered /\ Passed /\ Room

LEMMA MagnitudeFacts ==
  /\ \A n \in Int : Magnitude(n) \in Nat
  /\ \A n, m \in Int : Magnitude(n + m) <= Magnitude(n) + Magnitude(m)
BY DEF Magnitude

LEMMA WeightIsNat ==
  /\ \A d \in DeltaRecord : Weight(d) \in Nat
  /\ \A d \in OrderRecord : Weight(d) \in Nat
<1>1. ASSUME NEW size \in Int, NEW price \in Nat
      PROVE  Magnitude(size) * price \in Nat
  BY MagnitudeFacts, ProductFacts
<1>2. \A d \in DeltaRecord : d.size \in Int /\ d.price \in Nat
  BY DEF DeltaRecord
<1>3. \A d \in OrderRecord : d.size \in Int /\ d.price \in Nat
  BY DEF OrderRecord
<1> QED BY <1>1, <1>2, <1>3 DEF Weight

\* What the sums are over.
LEMMA SumsAreNumbers ==
  ASSUME TypeOK
  PROVE  /\ IsFiniteSet(Symbol) /\ IsFiniteSet(Order)
         /\ Gross \in Int
         /\ \A o \in Order : Cost[o] = Weight(order[o]) /\ Cost[o] \in Nat
         /\ \A T \in SUBSET Order : IsFiniteSet(T) /\ SumFunctionOnSet(Cost, T) \in Nat
<1>1. IsFiniteSet(Symbol) /\ IsFiniteSet(Order)
  BY FundAssumption, FS_Interval DEF Symbol, Order
<1>2. Gross \in Int
  <2>1. \A s \in Symbol : worth[s] \in Int
    BY DEF TypeOK
  <2> QED BY <1>1, <2>1, SumTakesOut DEF Gross
<1>3. \A o \in Order : Cost[o] = Weight(order[o]) /\ Cost[o] \in Nat
  BY WeightIsNat DEF TypeOK, Cost
<1>4. ASSUME NEW T \in SUBSET Order
      PROVE  IsFiniteSet(T) /\ SumFunctionOnSet(Cost, T) \in Nat
  <2>1. IsFiniteSet(T)
    BY <1>1, FS_Subset
  <2>2. \A o \in T : Cost[o] \in Nat
    BY <1>3
  <2>3. SumFunctionOnSet(Cost, {}) <= SumFunctionOnSet(Cost, T)
    BY <2>1, <2>2, SumBelow
  <2>4. SumFunctionOnSet(Cost, T) \in Int
    BY <2>1, <2>2, SumTakesOut
  <2> QED BY <2>1, <2>3, <2>4, SumEmpty
<1> QED BY <1>1, <1>2, <1>3, <1>4

-----------------------------------------------------------------------------
(* The exposure screen_all accumulates over a basket.                      *)

Grown(ds, n, gross) == gross + (IF Allowed(n, ds[n], gross) THEN Weight(ds[n]) ELSE 0)
IsRunning(after, ds, m) ==
  after = [n \in 0..m |-> IF n = 0 THEN Gross ELSE Grown(ds, n, after[n - 1])]
Running(ds) == CHOOSE after : IsRunning(after, ds, Symbols)

LEMMA BeforeIsRunning == \A ds, s : GrossBefore(ds, s) = Running(ds)[s - 1]
BY Zenon DEF GrossBefore, Running, IsRunning, Grown

LEMMA RunningExists ==
  ASSUME NEW ds
  PROVE  \A m \in Nat : \E after : IsRunning(after, ds, m)
<1> DEFINE bad == {m \in Nat : ~\E after : IsRunning(after, ds, m)}
<1> SUFFICES ASSUME bad # {} PROVE FALSE
  OBVIOUS
<1>1. PICK m \in bad : \A k \in bad : m <= k
  BY LeastNat
<1>2. CASE m = 0
  <2> DEFINE after == [n \in 0..0 |-> Gross]
  <2>1. after = [n \in 0..0 |-> IF n = 0 THEN Gross ELSE Grown(ds, n, after[n - 1])]
    OBVIOUS
  <2> HIDE DEF after
  <2>2. IsRunning(after, ds, 0)
    BY <2>1 DEF IsRunning
  <2> QED BY <1>1, <1>2, <2>2
<1>3. CASE m # 0
  <2>1. m - 1 \in Nat
    BY <1>1, <1>3
  <2>2. PICK g : IsRunning(g, ds, m - 1)
    BY <1>1, <2>1
  <2> DEFINE after == [n \in 0..m |-> IF n = 0 THEN Gross ELSE Grown(ds, n, g[n - 1])]
  <2>3. \A n \in 0..(m - 1) : g[n] = IF n = 0 THEN Gross ELSE Grown(ds, n, g[n - 1])
    <3>1. g = [n \in 0..(m - 1) |-> IF n = 0 THEN Gross ELSE Grown(ds, n, g[n - 1])]
      BY <2>2 DEF IsRunning
    <3> QED BY <3>1
  <2>4. \A n \in 0..m : n # 0 => n - 1 \in 0..(m - 1) /\ n - 1 \in 0..m
    BY <1>1
  <2>5. \A n \in 0..(m - 1) : n \in 0..m
    BY <1>1
  <2>6. \A n \in 0..(m - 1) : after[n] = g[n]
    BY <2>3, <2>5
  <2>7. after = [n \in 0..m |-> IF n = 0 THEN Gross ELSE Grown(ds, n, after[n - 1])]
    BY <2>4, <2>6
  <2> HIDE DEF after
  <2>8. IsRunning(after, ds, m)
    BY <2>7 DEF IsRunning
  <2> QED BY <1>1, <2>8
<1> QED BY <1>2, <1>3

LEMMA RunningIs ==
  ASSUME NEW ds
  PROVE  /\ Running(ds)[0] = Gross
         /\ \A n \in 1..Symbols : Running(ds)[n] = Grown(ds, n, Running(ds)[n - 1])
<1>1. Symbols \in Nat
  BY FundAssumption
<1>2. IsRunning(Running(ds), ds, Symbols)
  BY <1>1, RunningExists DEF Running
<1>3. \A n \in 0..Symbols :
        Running(ds)[n] = IF n = 0 THEN Gross ELSE Grown(ds, n, Running(ds)[n - 1])
  <2> DEFINE r == Running(ds)
  <2>1. r = [n \in 0..Symbols |-> IF n = 0 THEN Gross ELSE Grown(ds, n, r[n - 1])]
    BY <1>2 DEF IsRunning
  <2> HIDE DEF r
  <2>2. \A n \in 0..Symbols : r[n] = IF n = 0 THEN Gross ELSE Grown(ds, n, r[n - 1])
    BY <2>1
  <2> QED BY <2>2 DEF r
<1> QED BY <1>1, <1>3

\* It never falls, and it keeps below the ceiling it started below.
LEMMA RunningWithin ==
  ASSUME TypeOK, NEW ds \in [Symbol -> DeltaRecord]
  PROVE  \A n \in 0..Symbols : /\ Running(ds)[n] \in Int /\ Gross <= Running(ds)[n]
                               /\ Gross <= MaxGross => Running(ds)[n] <= MaxGross
<1> DEFINE Fine(n) == /\ Running(ds)[n] \in Int /\ Gross <= Running(ds)[n]
                      /\ Gross <= MaxGross => Running(ds)[n] <= MaxGross
           bad == {n \in Nat : n <= Symbols /\ ~Fine(n)}
<1>1. Symbols \in Nat /\ MaxGross \in Nat /\ Gross \in Int
  BY FundAssumption, SumsAreNumbers
<1> SUFFICES ASSUME bad # {} PROVE FALSE
  BY <1>1
<1>2. PICK n \in bad : \A k \in bad : n <= k
  BY LeastNat
<1>3. n # 0
  BY <1>1, <1>2, RunningIs
<1>4. n \in 1..Symbols /\ n - 1 \in Nat
  BY <1>1, <1>2, <1>3
<1>5. Fine(n - 1)
  BY <1>1, <1>2, <1>4
<1>6. Running(ds)[n] = Grown(ds, n, Running(ds)[n - 1])
  BY <1>4, RunningIs
<1>7. Weight(ds[n]) \in Nat
  BY <1>4, WeightIsNat DEF Symbol
<1>8. Fine(n)
  BY <1>1, <1>5, <1>6, <1>7 DEF Grown, Allowed
<1> QED BY <1>2, <1>8

\* What the gate decides on a rebalance fits the ceiling.
LEMMA ScreenBudgets ==
  ASSUME IInv, NEW c \in Client, Screen(c)
  PROVE  Budgeted(delta[c])'
<1> DEFINE ds == delta[c]
           r == Running(ds)
           now == delta'[c]
<1>1. Symbols \in Nat /\ MaxGross \in Nat /\ Gross \in Int /\ Gross' = Gross
  BY FundAssumption, SumsAreNumbers DEF IInv, Screen, tables, Gross
<1>2. ds \in [Symbol -> DeltaRecord]
  BY DEF IInv, TypeOK
<1>3. now = [s \in Symbol |-> [ds[s] EXCEPT !.cleared = Allowed(s, ds[s], GrossBefore(ds, s))]]
  BY DEF IInv, TypeOK, Screen
<1>4. \A s \in Symbol : now[s].cleared = Allowed(s, ds[s], r[s - 1]) /\ Weight(now[s]) = Weight(ds[s])
  <2> SUFFICES ASSUME NEW s \in Symbol
               PROVE  now[s].cleared = Allowed(s, ds[s], r[s - 1]) /\ Weight(now[s]) = Weight(ds[s])
    OBVIOUS
  <2>1. now[s] = [ds[s] EXCEPT !.cleared = Allowed(s, ds[s], r[s - 1])]
    BY <1>3, BeforeIsRunning
  <2>2. ds[s] \in DeltaRecord
    BY <1>2
  <2> HIDE DEF ds, now, r
  <2> QED BY <2>1, <2>2 DEF DeltaRecord, Weight
<1>5. /\ r[0] = Gross
      /\ \A n \in 1..Symbols : r[n] = Grown(ds, n, r[n - 1])
      /\ \A n \in 0..Symbols : /\ r[n] \in Int /\ Gross <= r[n]
                               /\ Gross <= MaxGross => r[n] <= MaxGross
  BY <1>2, RunningIs, RunningWithin DEF IInv
<1> HIDE DEF ds, r, now
<1>6. CASE Gross <= MaxGross
  <2>1. \A n \in 1..Symbols : r[n] = r[n - 1] + Adds(now[n])
    BY <1>4, <1>5 DEF Grown, Adds, Symbol
  <2>2. PICK after : after = r
    OBVIOUS
  <2>3. /\ after[0] = Gross
        /\ \A n \in 0..Symbols : after[n] \in Int /\ after[n] <= MaxGross
        /\ \A n \in 1..Symbols : after[n] = after[n - 1] + Adds(now[n])
    BY <1>5, <1>6, <2>1, <2>2
  <2>4. IsBudget(after, delta[c])'
    BY <1>1, <2>3 DEF IsBudget, now, Adds, Weight
  <2> QED BY <2>4 DEF Budgeted
<1>7. CASE ~(Gross <= MaxGross)
  <2>1. ASSUME NEW s \in Symbol
        PROVE  ~now[s].cleared
    <3>1. s - 1 \in 0..Symbols /\ ds[s] \in DeltaRecord
      BY <1>1, <1>2, <2>1 DEF Symbol
    <3>2. r[s - 1] \in Int /\ Gross <= r[s - 1] /\ Weight(ds[s]) \in Nat
      BY <1>5, <3>1, WeightIsNat
    <3>3. ~(r[s - 1] + Weight(ds[s]) <= MaxGross)
      BY <1>1, <1>7, <3>2
    <3> QED BY <1>4, <2>1, <3>3 DEF Allowed
  <2> QED BY <2>1 DEF Budgeted, now
<1> QED BY <1>6, <1>7

-----------------------------------------------------------------------------
(* What a screening adds to the orders.                                    *)

\* The orders of a basket, each of another symbol, each as it was decided.
Remembered(c, new) ==
  /\ new \subseteq Order
  /\ fresh' = IF mixed \/ c \in behind THEN fresh ELSE fresh \cup new
  /\ \A o \in new : order[o] = NoOrder /\ o \notin 1..Used
  /\ \A o \in Order \ new : order'[o] = order[o]
  /\ \A o \in new : LET s == order'[o].symbol IN
       /\ s \in Symbol /\ order'[o].batch = Used + 1
       /\ Weight(order'[o]) = Weight(delta[c][s])
       /\ order'[o].cleared = delta[c][s].cleared
  /\ \A o, p \in new : order'[o].symbol = order'[p].symbol => o = p

LEMMA UsedIsNat == /\ Used \in Nat /\ Used' \in Nat
                   /\ IsFiniteSet({o \in Order : order[o] # NoOrder})
                   /\ IsFiniteSet({o \in Order : order'[o] # NoOrder})
<1>1. IsFiniteSet(Order)
  BY FS_Interval, FundAssumption DEF Order
<1>2. /\ {o \in Order : order[o] # NoOrder} \in SUBSET Order
      /\ {o \in Order : order'[o] # NoOrder} \in SUBSET Order
  OBVIOUS
<1>3. /\ IsFiniteSet({o \in Order : order[o] # NoOrder})
      /\ IsFiniteSet({o \in Order : order'[o] # NoOrder})
  BY <1>1, <1>2, FS_Subset
<1> QED BY <1>3, FS_CardinalityType DEF Used

LEMMA RememberAdds ==
  ASSUME IInv, Numbered, NEW c \in Client, Remember(c)
  PROVE  Numbered' /\ \E new : Remembered(c, new)
<1> DEFINE ds == delta[c]
           moved == {s \in Symbol : ds[s].size # 0}
           new == {IdOf(ds, s) : s \in moved}
           Of(o) == CHOOSE s \in moved : IdOf(ds, s) = o
           Decided(s) == [symbol |-> s, size |-> ds[s].size, price |-> ds[s].price,
                          cleared |-> ds[s].cleared, batch |-> Used + 1]
           Until(s) == {q \in 1..s : ds[q].size # 0}
<1>1. /\ new \subseteq Order
      /\ order' = [o \in Order |-> IF o \in new THEN Decided(Of(o)) ELSE order[o]]
      /\ fresh' = IF mixed \/ c \in behind THEN fresh ELSE fresh \cup new
      /\ last' = last
  BY DEF Remember
<1>2. Used \in Nat /\ Symbols \in Nat
  BY UsedIsNat, FundAssumption
<1>3. \A s \in Symbol : /\ IsFiniteSet(Until(s)) /\ Cardinality(Until(s)) \in Nat
                        /\ IdOf(ds, s) = Used + Cardinality(Until(s))
  <2> SUFFICES ASSUME NEW s \in Symbol
               PROVE  /\ IsFiniteSet(Until(s)) /\ Cardinality(Until(s)) \in Nat
                      /\ IdOf(ds, s) = Used + Cardinality(Until(s))
    OBVIOUS
  <2>1. IsFiniteSet(1..s) /\ Until(s) \in SUBSET (1..s)
    BY <1>2, FS_Interval DEF Symbol
  <2>2. IsFiniteSet(Until(s))
    BY <2>1, FS_Subset
  <2> QED BY <2>2, FS_CardinalityType DEF IdOf
<1>4. \A s, t \in moved : s < t => IdOf(ds, s) < IdOf(ds, t)
  <2> SUFFICES ASSUME NEW s \in moved, NEW t \in moved, s < t
               PROVE  IdOf(ds, s) < IdOf(ds, t)
    OBVIOUS
  <2>1. Until(s) \subseteq Until(t) /\ t \in Until(t) /\ t \notin Until(s)
    BY <1>2 DEF Symbol
  <2>2. Cardinality(Until(s)) <= Cardinality(Until(t)) /\ Cardinality(Until(s)) # Cardinality(Until(t))
    <3> HIDE DEF Until
    <3> QED BY <1>3, <2>1, FS_Subset
  <2> HIDE DEF Until
  <2> QED BY <1>2, <1>3, <2>2
<1>5. \A s, t \in moved : IdOf(ds, s) = IdOf(ds, t) => s = t
  <2> SUFFICES ASSUME NEW s \in moved, NEW t \in moved, IdOf(ds, s) = IdOf(ds, t), s # t
               PROVE  FALSE
    OBVIOUS
  <2>1. s < t \/ t < s
    BY <1>2 DEF Symbol
  <2>2. IdOf(ds, s) \in Int /\ IdOf(ds, t) \in Int
    <3> HIDE DEF Until
    <3> QED BY <1>2, <1>3
  <2>3. IdOf(ds, s) < IdOf(ds, t) \/ IdOf(ds, t) < IdOf(ds, s)
    BY <1>4, <2>1
  <2> QED BY <2>2, <2>3
<1>6. \A s \in moved : IdOf(ds, s) \in new /\ Of(IdOf(ds, s)) = s
  BY <1>5
<1>7. \A o \in new : Of(o) \in moved /\ IdOf(ds, Of(o)) = o
  OBVIOUS
<1>8. \A s \in moved : /\ IdOf(ds, s) > Used /\ IdOf(ds, s) <= Used + Cardinality(moved)
                       /\ Cardinality(moved) \in Nat
  <2> SUFFICES ASSUME NEW s \in moved
               PROVE  /\ IdOf(ds, s) > Used /\ IdOf(ds, s) <= Used + Cardinality(moved)
                      /\ Cardinality(moved) \in Nat
    OBVIOUS
  <2>1. s \in Until(s) /\ Until(s) \subseteq moved
    BY <1>2 DEF Symbol
  <2>2. IsFiniteSet(moved) /\ Cardinality(moved) \in Nat
    <3>1. moved \in SUBSET Symbol /\ IsFiniteSet(Symbol)
      BY <1>2, FS_Interval DEF Symbol
    <3> QED BY <3>1, FS_Subset, FS_CardinalityType
  <2> HIDE DEF Until, moved
  <2>3. Cardinality(Until(s)) <= Cardinality(moved)
    BY <2>1, <2>2, FS_Subset
  <2>4. s \in Symbol
    BY DEF moved
  <2>5. Cardinality(Until(s)) # 0
    BY <1>3, <2>1, <2>4, FS_EmptySet
  <2> QED BY <1>2, <1>3, <2>2, <2>3, <2>4, <2>5
<1> HIDE DEF Until, Decided, Of
<1>9. /\ IsFiniteSet(new) /\ Cardinality(new) = Cardinality(moved)
  <2>1. IsFiniteSet(moved)
    <3>1. moved \in SUBSET Symbol /\ IsFiniteSet(Symbol)
      BY <1>2, FS_Interval DEF Symbol
    <3> QED BY <3>1, FS_Subset
  <2> DEFINE f == [s \in moved |-> IdOf(ds, s)]
  <2>2. f \in Bijection(moved, new)
    <3>1. f \in [moved -> new]
      OBVIOUS
    <3>2. \A s, t \in moved : f[s] = f[t] => s = t
      BY <1>5
    <3>3. \A o \in new : \E s \in moved : f[s] = o
      OBVIOUS
    <3> HIDE DEF f, new, moved
    <3> QED BY <3>1, <3>2, <3>3 DEF Bijection, Injection, Surjection, IsInjective
  <2>3. ExistsBijection(moved, new)
    BY <2>2 DEF ExistsBijection
  <2> QED BY <2>1, <2>3, FS_Bijection
<1>10. \A o \in new : order[o] = NoOrder /\ o \notin 1..Used /\ o <= Used + Cardinality(new) /\ o > Used
  <2> SUFFICES ASSUME NEW o \in new
               PROVE  order[o] = NoOrder /\ o \notin 1..Used /\ o <= Used + Cardinality(new) /\ o > Used
    OBVIOUS
  <2>1. o > Used /\ o <= Used + Cardinality(new) /\ o \in Int /\ o \in Order
    BY <1>1, <1>7, <1>8, <1>9 DEF Order
  <2> QED BY <1>2, <2>1 DEF Numbered
<1> HIDE DEF new, moved
<1>11. \A o \in new : LET s == order'[o].symbol IN
         /\ s = Of(o) /\ s \in Symbol /\ order'[o].batch = Used + 1 /\ o = IdOf(ds, s)
         /\ Weight(order'[o]) = Weight(ds[s])
         /\ order'[o].cleared = ds[s].cleared
  <2> SUFFICES ASSUME NEW o \in new
               PROVE  /\ order'[o].symbol = Of(o) /\ Of(o) \in Symbol
                      /\ order'[o].batch = Used + 1 /\ o = IdOf(ds, Of(o))
                      /\ Weight(order'[o]) = Weight(ds[Of(o)])
                      /\ order'[o].cleared = ds[Of(o)].cleared
    OBVIOUS
  <2>1. order'[o] = Decided(Of(o))
    BY <1>1
  <2>2. Of(o) \in Symbol
    BY <1>7 DEF moved
  <2> QED BY <1>7, <2>1, <2>2 DEF Decided, Weight
<1>12. \A o \in Order \ new : order'[o] = order[o]
  BY <1>1
<1>13. \A o, p \in new : order'[o].symbol = order'[p].symbol => o = p
  BY <1>11
<1>14. Remembered(c, new)
  BY <1>1, <1>10, <1>11, <1>12, <1>13 DEF Remembered
<1>15. Used' = Used + Cardinality(new)
  <2> DEFINE old == {o \in Order : order[o] # NoOrder}
             now == {o \in Order : order'[o] # NoOrder}
  <2>1. \A o \in new : order'[o] # NoOrder
    <3>1. \A o \in new : order'[o].batch # NoOrder.batch
      BY <1>2, <1>11 DEF NoOrder
    <3> QED BY <3>1
  <2>2. now = old \cup new /\ old \cap new = {}
    BY <1>1, <1>10, <1>12, <2>1
  <2>3. IsFiniteSet(old) /\ Used = Cardinality(old) /\ Used' = Cardinality(now)
    BY UsedIsNat DEF Used
  <2> HIDE DEF old, now
  <2>4. Cardinality(old \cup new) = Cardinality(old) + Cardinality(new) - Cardinality(old \cap new)
    BY <1>9, <2>3, FS_Union
  <2>5. Cardinality(old \cap new) = 0
    BY <2>2, FS_EmptySet
  <2>6. Cardinality(new) \in Nat /\ Cardinality(old) \in Nat
    BY <1>9, <2>3, FS_CardinalityType
  <2> QED BY <2>2, <2>3, <2>4, <2>5, <2>6
<1>16. Numbered'
  <2>1. Cardinality(new) \in Nat
    BY <1>9, FS_CardinalityType
  <2>2. ASSUME NEW o \in Order
        PROVE  order'[o].batch <= Used' /\ (order'[o] # NoOrder => o <= Used')
    <3>1. CASE o \in new
      <4>1. Cardinality(new) # 0
        BY <1>9, <3>1, FS_EmptySet
      <4> QED BY <1>2, <1>10, <1>11, <1>15, <2>1, <3>1, <4>1
    <3>2. CASE o \notin new
      <4>1. order'[o] = order[o] /\ order[o].batch \in Nat /\ o \in Nat
        <5>1. order[o] \in OrderRecord
          BY DEF IInv, TypeOK
        <5>2. order[o].batch \in Nat /\ o \in Nat
          BY <5>1 DEF OrderRecord, Order
        <5> QED BY <1>12, <3>2, <5>2
      <4> QED BY <1>2, <1>15, <2>1, <4>1 DEF Numbered
    <3> QED BY <3>1, <3>2
  <2>3. ASSUME NEW o \in fresh'
        PROVE  order'[o] # NoOrder
    <3>1. CASE o \in new
      <4>1. order'[o].batch # NoOrder.batch
        BY <1>2, <1>11, <3>1 DEF NoOrder
      <4> QED BY <4>1
    <3>2. CASE o \notin new
      <4>1. o \in fresh /\ o \in Order
        BY <1>1, <2>3, <3>2 DEF IInv, TypeOK
      <4> QED BY <1>12, <3>2, <4>1 DEF Numbered
    <3> QED BY <3>1, <3>2
  <2>4. last' <= Used'
    <3>1. last \in Nat
      BY DEF IInv, TypeOK
    <3> QED BY <1>1, <1>2, <1>15, <2>1, <3>1 DEF Numbered
  <2> QED BY <2>2, <2>3, <2>4 DEF Numbered
<1> QED BY <1>14, <1>16

-----------------------------------------------------------------------------
(* The ceiling is kept.                                                    *)

\* What stays as it was: no order is decided, screened or filled.
LEMMA NothingFilled ==
  ASSUME LInv, UNCHANGED <<order, worth, fills, ceiling>>,
         \A c \in Client, o \in Order : Works(c, o)' => Works(c, o) \/ order[o].cleared,
         \A c \in Client : At(c, "remember")' /\ c \notin behind' =>
                             At(c, "remember") /\ c \notin behind /\ delta'[c] = delta[c]
  PROVE  LInv'
<1>1. Numbered'
  BY DEF LInv, Numbered, Used, ceiling
<1>2. Passed'
  BY DEF LInv, Passed
<1>3. /\ Gross' = Gross /\ Cost' = Cost /\ mixed' = mixed /\ slipped' = slipped
      /\ \A b : Pending(b)' = Pending(b) /\ Slack(b)' = Slack(b)
  BY DEF Gross, Cost, Pending, Slack, ceiling
<1>4. \A c \in Client : delta'[c] = delta[c] => (Budgeted(delta[c])' <=> Budgeted(delta[c]))
  BY <1>3 DEF Budgeted, IsBudget
<1>5. Room'
  BY <1>3, <1>4 DEF LInv, Room
<1> QED BY <1>1, <1>2, <1>5 DEF LInv

\* The part of a basket whose symbols come no later than n costs no more
\* than what the exposure grew by.
LEMMA BasketFits ==
  ASSUME IInv, TypeOK', NEW c \in Client, NEW new, Remembered(c, new),
         NEW after, IsBudget(after, delta[c])
  PROVE  LET cleared == {o \in new : order'[o].cleared}
         IN  Gross + SumFunctionOnSet(Cost', cleared) <= MaxGross
<1> DEFINE ds == delta[c]
           Part(n) == {o \in new : order'[o].cleared /\ order'[o].symbol <= n}
           Sum(T) == SumFunctionOnSet(Cost', T)
           Fits(n) == Gross + Sum(Part(n)) <= after[n]
           bad == {n \in Nat : n <= Symbols /\ ~Fits(n)}
<1>1. Symbols \in Nat /\ MaxGross \in Nat /\ Gross \in Int
  BY FundAssumption, SumsAreNumbers DEF IInv
<1>2. new \in SUBSET Order
  BY DEF Remembered
<1>3. /\ \A o \in Order : Cost'[o] = Weight(order'[o]) /\ Cost'[o] \in Nat
      /\ \A T \in SUBSET Order : IsFiniteSet(T) /\ Sum(T) \in Nat
  <2>1. \A o \in Order : Cost'[o] = Weight(order'[o]) /\ Cost'[o] \in Nat
    BY WeightIsNat DEF TypeOK, Cost
  <2>2. ASSUME NEW T \in SUBSET Order
        PROVE  IsFiniteSet(T) /\ Sum(T) \in Nat
    <3>1. IsFiniteSet(T)
      BY SumsAreNumbers DEF IInv
    <3>2. \A o \in T : Cost'[o] \in Nat
      BY <2>1
    <3>3. Sum({}) <= Sum(T)
      BY <3>1, <3>2, SumBelow
    <3>4. Sum(T) \in Int
      BY <3>1, <3>2, SumTakesOut
    <3>5. Sum({}) = 0
      BY SumEmpty
    <3> HIDE DEF Sum
    <3> QED BY <3>1, <3>3, <3>4, <3>5
  <2> QED BY <2>1, <2>2
<1>4. \A o \in new : LET s == order'[o].symbol IN
        /\ s \in 1..Symbols
        /\ Weight(order'[o]) = Weight(ds[s])
        /\ order'[o].cleared = ds[s].cleared
  BY DEF Remembered, Symbol
<1>5. \A o, p \in new : order'[o].symbol = order'[p].symbol => o = p
  BY DEF Remembered
<1>6. /\ after[0] = Gross
      /\ \A n \in 0..Symbols : after[n] \in Int /\ after[n] <= MaxGross
      /\ \A n \in 1..Symbols : after[n] = after[n - 1] + Adds(ds[n])
  BY DEF IsBudget
<1> HIDE DEF ds, Sum
<1>7. bad = {}
  <2> SUFFICES ASSUME bad # {} PROVE FALSE
    OBVIOUS
  <2>1. PICK n \in bad : \A k \in bad : n <= k
    <3>1. bad \in SUBSET Nat
      OBVIOUS
    <3> HIDE DEF bad
    <3> QED BY <3>1, LeastNat
  <2>2. n # 0
    <3>1. Part(0) = {}
      BY <1>4
    <3>2. Sum({}) = 0
      BY SumEmpty DEF Sum
    <3>3. Gross + 0 <= after[0]
      BY <1>1, <1>6
    <3>4. Sum(Part(0)) = 0
      <4> HIDE DEF Part
      <4> QED BY <3>1, <3>2
    <3> HIDE DEF Part
    <3> QED BY <2>1, <3>3, <3>4
  <2>3. n \in 1..Symbols /\ n - 1 \in 0..Symbols /\ n - 1 \notin bad /\ n \in 0..Symbols
    BY <1>1, <2>1, <2>2
  <2>4. Fits(n - 1)
    <3>1. n - 1 \in Nat /\ n - 1 <= Symbols
      BY <1>1, <2>3
    <3> HIDE DEF Fits
    <3> QED BY <2>3, <3>1
  <2>5. after[n] = after[n - 1] + Adds(ds[n])
    BY <1>6, <2>3
  <2>6. after[n - 1] \in Int /\ after[n] \in Int
    BY <1>6, <2>3
  <2>7. Part(n) \in SUBSET Order /\ Part(n - 1) \in SUBSET Order
    BY <1>2
  <2>8. CASE \E o \in new : order'[o].cleared /\ order'[o].symbol = n
    <3>1. PICK o \in new : order'[o].cleared /\ order'[o].symbol = n
      BY <2>8
    <3>2. Part(n) = Part(n - 1) \cup {o} /\ o \notin Part(n - 1)
      BY <1>4, <1>5, <2>3, <3>1
    <3>3. Sum(Part(n - 1) \cup {o}) = Cost'[o] + Sum(Part(n - 1))
      <4>1. IsFiniteSet(Part(n - 1)) /\ \A p \in Part(n - 1) \cup {o} : Cost'[p] \in Int
        BY <1>2, <1>3, <2>7, <3>1
      <4> HIDE DEF Part
      <4> QED BY <3>2, <4>1, SumAdds DEF Sum
    <3>4. Cost'[o] = Weight(ds[n]) /\ Cost'[o] \in Nat /\ ds[n].cleared
      BY <1>2, <1>3, <1>4, <3>1
    <3>5. after[n] = after[n - 1] + Cost'[o]
      BY <2>5, <3>4 DEF Adds
    <3>6. Sum(Part(n - 1)) \in Int
      BY <1>3, <2>7
    <3> HIDE DEF Part
    <3>7. Fits(n)
      BY <1>1, <2>4, <2>6, <3>2, <3>3, <3>4, <3>5, <3>6
    <3> QED BY <2>1, <3>7
  <2>9. CASE ~\E o \in new : order'[o].cleared /\ order'[o].symbol = n
    <3>1. Part(n) = Part(n - 1)
      BY <1>4, <2>3, <2>9
    <3>2. after[n - 1] <= after[n]
      <4>1. Weight(ds[n]) \in Nat
        <5>1. delta[c] \in [Symbol -> DeltaRecord] /\ n \in Symbol
          BY <2>3 DEF IInv, TypeOK, Symbol
        <5>2. delta[c][n] \in DeltaRecord
          BY <5>1
        <5> QED BY <5>2, WeightIsNat DEF ds
      <4> QED BY <2>5, <2>6, <4>1 DEF Adds
    <3>3. Sum(Part(n - 1)) \in Int
      BY <1>3, <2>7
    <3> HIDE DEF Part
    <3>4. Fits(n)
      BY <1>1, <2>4, <2>6, <3>1, <3>2, <3>3
    <3> QED BY <2>1, <3>4
  <2> QED BY <2>8, <2>9
<1>8. Fits(Symbols) /\ Symbols \in 0..Symbols
  <2> HIDE DEF Fits
  <2> QED BY <1>1, <1>7
<1>9. Part(Symbols) = {o \in new : order'[o].cleared}
  BY <1>1, <1>4
<1>10. Sum(Part(Symbols)) \in Int
  BY <1>2, <1>3
<1> HIDE DEF Part
<1>11. Gross + Sum(Part(Symbols)) <= MaxGross
  BY <1>1, <1>6, <1>8, <1>10
<1> QED BY <1>9, <1>11 DEF Sum

LEMMA RememberFits == ASSUME IInv, LInv, NEW c \in Client, Remember(c) PROVE LInv'
<1>1. Numbered'
  BY RememberAdds DEF LInv
<1>2. PICK new : Remembered(c, new)
  BY RememberAdds DEF LInv
<1>3. /\ UNCHANGED <<worth, fills, mixed, last, slipped>> /\ Ends(c) /\ new \subseteq Order
      /\ fresh' = IF mixed \/ c \in behind THEN fresh ELSE fresh \cup new
      /\ behind' = behind \ {c} /\ delta' = [delta EXCEPT ![c] = Nothing] /\ At(c, "remember")
      /\ \A o \in new : order[o] = NoOrder /\ order'[o].batch = Used + 1
      /\ \A o \in Order \ new : order'[o] = order[o]
  BY <1>2 DEF Remember, tables, Remembered
<1>4. TypeOK' /\ fresh \subseteq Order
  BY RememberKeeps DEF IInv, TypeOK
<1>5. ~NoOrder.cleared
  BY DEF NoOrder
<1>6. Passed'
  <2>1. ASSUME NEW k \in Client, NEW o \in Order, Works(k, o)'
        PROVE  order'[o].cleared
    <3>1. Works(k, o)
      BY <1>3, <2>1, IsOver DEF Works, Submitting
    <3>2. order[o].cleared
      BY <3>1 DEF LInv, Passed
    <3>3. o \notin new
      BY <1>3, <1>5, <3>2
    <3> QED BY <1>3, <3>2, <3>3
  <2> QED BY <2>1 DEF Passed
<1>7. Gross' = Gross /\ \A b : Slack(b)' = Slack(b)
  BY <1>3 DEF Gross, Slack
<1>8. \A o \in Order \ new : order[o].batch # Used + 1
  <2>1. \A o \in Order : order[o].batch <= Used /\ order[o].batch \in Nat
    BY DEF LInv, Numbered, IInv, TypeOK, OrderRecord
  <2> QED BY <2>1, UsedIsNat
<1>9. ASSUME ~mixed', NEW b \in Nat, Pending(b)' # {}
      PROVE  Gross + SumFunctionOnSet(Cost', Pending(b)') <= MaxGross + Slack(b)
  <2>1. CASE b = Used + 1
    <3> DEFINE cleared == {o \in new : order'[o].cleared}
    <3>1. Pending(b)' \subseteq cleared
      BY <1>3, <1>4, <1>8, <2>1 DEF Pending, TypeOK
    <3>2. c \notin behind
      <4>1. fresh \cap new = {}
        BY <1>3 DEF LInv, Numbered
      <4> HIDE DEF cleared
      <4> QED BY <1>3, <1>9, <3>1, <4>1 DEF cleared, Pending
    <3>3. Budgeted(delta[c])
      BY <1>3, <1>9, <3>2 DEF LInv, Room
    <3>4. \E o \in new : order'[o].cleared
      BY <1>9, <3>1
    <3>5. ~\A s \in Symbol : ~delta[c][s].cleared
      BY <1>2, <3>4 DEF Remembered
    <3>6. PICK after : IsBudget(after, delta[c])
      BY <3>3, <3>5 DEF Budgeted
    <3>7. Gross + SumFunctionOnSet(Cost', cleared) <= MaxGross
      BY <1>2, <1>4, <3>6, BasketFits
    <3>8. IsFiniteSet(cleared) /\ \A o \in cleared : Cost'[o] \in Nat
      <4>1. cleared \in SUBSET Order
        BY <1>3
      <4>2. \A o \in Order : Cost'[o] \in Nat
        BY <1>4, WeightIsNat DEF TypeOK, Cost
      <4> QED BY <4>1, <4>2, SumsAreNumbers DEF IInv
    <3> HIDE DEF cleared
    <3>9. SumFunctionOnSet(Cost', Pending(b)') <= SumFunctionOnSet(Cost', cleared)
      BY <3>1, <3>8, SumBelow
    <3>10. /\ SumFunctionOnSet(Cost', Pending(b)') \in Int
           /\ SumFunctionOnSet(Cost', cleared) \in Int
      <4>1. IsFiniteSet(Pending(b)') /\ \A o \in Pending(b)' : Cost'[o] \in Int
        BY <3>1, <3>8, FS_Subset
      <4> QED BY <3>8, <4>1, SumTakesOut
    <3>11. Gross \in Int /\ MaxGross \in Int /\ Slack(b) \in Nat
      BY SumsAreNumbers, FundAssumption DEF IInv, TypeOK, Slack
    <3> QED BY <3>7, <3>9, <3>10, <3>11
  <2>2. CASE b # Used + 1
    <3>1. Pending(b)' = Pending(b)
      <4>1. \A o \in new : order'[o].batch # b /\ ~order[o].cleared
        BY <1>3, <1>5, <2>2
      <4> QED BY <1>3, <1>4, <4>1 DEF Pending
    <3>2. Pending(b) \in SUBSET Order /\ IsFiniteSet(Pending(b))
      <4>1. Pending(b) \in SUBSET Order
        BY <1>4 DEF Pending
      <4> QED BY <4>1, SumsAreNumbers DEF IInv
    <3>3. \A o \in Pending(b) : Cost'[o] = Cost[o]
      <4>1. \A o \in Pending(b) : o \in Order \ new
        BY <1>3, <1>5, <3>2 DEF Pending
      <4> QED BY <1>3, <4>1 DEF Cost
    <3>4. SumFunctionOnSet(Cost', Pending(b)) = SumFunctionOnSet(Cost, Pending(b))
      BY <3>2, <3>3, SumAgrees
    <3>5. Gross + SumFunctionOnSet(Cost, Pending(b)) <= MaxGross + Slack(b)
      BY <1>3, <1>9, <3>1 DEF LInv, Room
    <3> QED BY <3>1, <3>4, <3>5
  <2> QED BY <2>1, <2>2
<1>10. ASSUME ~mixed', NEW k \in Client, At(k, "remember")', k \notin behind'
       PROVE  Budgeted(delta[k])'
  <2>1. k # c /\ doing'[k] = doing[k]
    BY <1>3, <1>10, IsOver DEF At
  <2>2. delta'[k] = delta[k]
    BY <1>3, <2>1 DEF IInv, TypeOK
  <2>3. Budgeted(delta[k])
    BY <1>3, <1>10, <2>1 DEF LInv, Room, At
  <2> QED BY <1>7, <2>2, <2>3 DEF Budgeted, IsBudget
<1>11. Room'
  BY <1>3, <1>7, <1>9, <1>10 DEF LInv, Room
<1> QED BY <1>1, <1>6, <1>11 DEF LInv

LEMMA ScreenFits == ASSUME IInv, LInv, NEW c \in Client, Screen(c) PROVE LInv'
<1>1. /\ UNCHANGED <<order, worth, fills, ceiling, behind>> /\ At(c, "screen") /\ Goes(c, "remember")
      /\ \A k \in Client \ {c} : delta'[k] = delta[k]
  BY DEF Screen, service, tables, history, IInv, TypeOK
<1>2. doing'[c].step = "remember" /\ \A k \in Client \ {c} : doing'[k] = doing[k]
  BY <1>1 DEF IInv, TypeOK, Goes
<1>3. Numbered'
  BY <1>1 DEF LInv, Numbered, Used, ceiling
<1>4. Passed'
  <2>1. \A k \in Client, o \in Order : Works(k, o)' => Works(k, o)
    BY <1>2 DEF Works, Submitting
  <2> QED BY <1>1, <2>1 DEF LInv, Passed
<1>5. /\ Gross' = Gross /\ Cost' = Cost /\ mixed' = mixed /\ slipped' = slipped
      /\ \A b : Pending(b)' = Pending(b) /\ Slack(b)' = Slack(b)
  BY <1>1 DEF Gross, Cost, Pending, Slack, ceiling
<1>6. ASSUME ~mixed, NEW k \in Client, At(k, "remember")', k \notin behind'
      PROVE  Budgeted(delta[k])'
  <2>1. CASE k = c
    BY <2>1, ScreenBudgets
  <2>2. CASE k # c
    <3>1. Budgeted(delta[k]) /\ delta'[k] = delta[k]
      BY <1>1, <1>2, <1>6, <2>2 DEF LInv, Room, At
    <3> QED BY <1>5, <3>1 DEF Budgeted, IsBudget
  <2> QED BY <2>1, <2>2
<1>7. Room'
  BY <1>5, <1>6 DEF LInv, Room
<1> QED BY <1>3, <1>4, <1>7 DEF LInv

\* A fill adds no more to what a position is worth than its order weighed at
\* the gate and what it slipped.
LEMMA WorthGrows ==
  ASSUME NEW h \in Int, NEW w \in Nat, NEW d \in OrderRecord,
         NEW v \in WorthAfter(h, w, d.size, Paid(d))
  PROVE  v <= w + Weight(d) + Slippage(d)
<1>1. PICK n \in Int, price \in Nat, slip \in Nat :
        /\ n = d.size /\ price = d.price /\ slip = Slip
        /\ n # 0 => slip < price
  BY FundAssumption DEF OrderRecord, Priced
<1>2. PICK paid \in Int : paid = Paid(d) /\ paid = (IF n > 0 THEN price + slip ELSE price - slip)
  BY <1>1 DEF Paid
<1>3. PICK size \in Nat : size = Magnitude(n) /\ (n > 0 => size = n)
  BY MagnitudeFacts DEF Magnitude
<1>4. PICK left \in Nat : left = Magnitude(h + n)
  BY MagnitudeFacts
<1>5. PICK weight \in Nat : weight = Weight(d) /\ weight = size * price
  BY <1>1, <1>3, ProductFacts DEF Weight
<1>6. PICK extra \in Nat : extra = Slippage(d) /\ extra = (IF n > 0 THEN size * slip ELSE 0)
  BY <1>1, <1>3, ProductFacts DEF Slippage
<1>7. size * paid \in Int /\ size * paid <= weight + extra
  <2>1. CASE n > 0
    <3>1. size * (price + slip) = size * price + size * slip
      OBVIOUS
    <3> QED BY <1>2, <1>5, <1>6, <2>1, <3>1
  <2>2. CASE ~(n > 0)
    <3>1. size * (price - slip) = size * price - size * slip /\ size * slip \in Nat
      BY ProductFacts
    <3> QED BY <1>2, <1>5, <1>6, <2>2, <3>1
  <2> QED BY <2>1, <2>2
<1>8. v \in WorthAfter(h, w, n, paid)
  BY <1>1, <1>2
<1>9. CASE (h >= 0 /\ n >= 0) \/ (h <= 0 /\ n <= 0)
  <2>1. v = w + size * paid
    BY <1>3, <1>8, <1>9 DEF WorthAfter
  <2> QED BY <1>5, <1>6, <1>7, <2>1
<1>10. CASE ~((h >= 0 /\ n >= 0) \/ (h <= 0 /\ n <= 0))
  <2>1. v \in 0..w \/ (~(size < Magnitude(h)) /\ v = left * paid)
    BY <1>3, <1>4, <1>8, <1>10 DEF WorthAfter
  <2>2. CASE v \in 0..w
    BY <1>5, <1>6, <2>2
  <2>3. CASE ~(size < Magnitude(h)) /\ v = left * paid
    <3>1. left <= size /\ n # 0
      BY <1>3, <1>4, <1>10, <2>3 DEF Magnitude
    <3>2. paid \in Nat
      BY <1>1, <1>2, <3>1
    <3>3. left * paid <= size * paid /\ left * paid \in Nat
      BY <3>1, <3>2, ProductFacts
    <3> QED BY <1>5, <1>6, <1>7, <2>3, <3>3
  <2> QED BY <2>1, <2>2, <2>3
<1> QED BY <1>9, <1>10

\* The book is worth at most what it was and what the order cost and slipped.
LEMMA FillCosts ==
  ASSUME IInv, NEW o \in Order, NEW x, x = order[o].symbol,
         NEW v \in WorthAfter(held[x], worth[x], order[o].size, Paid(order[o])),
         worth' = [worth EXCEPT ![x] = v]
  PROVE  Gross' \in Int /\ Gross' <= Gross + Cost[o] + Slippage(order[o])
<1>1. /\ IsFiniteSet(Symbol) /\ Gross \in Int
      /\ Cost[o] = Weight(order[o]) /\ Cost[o] \in Nat
  BY SumsAreNumbers DEF IInv
<1>2. order[o] \in OrderRecord /\ held \in [Symbol -> Int] /\ worth \in [Symbol -> Nat]
  BY DEF IInv, TypeOK
<1>3. Slippage(order[o]) \in Nat
  <2>1. \A n \in Nat : n * Slip \in Nat
    BY FundAssumption, ProductFacts
  <2> QED BY <1>2, <2>1 DEF Slippage, OrderRecord
<1>4. CASE x \notin Symbol
  <2>1. worth' = worth
    BY <1>2, <1>4
  <2>2. Gross' = Gross
    BY <2>1 DEF Gross
  <2> QED BY <1>1, <1>3, <2>2
<1>5. CASE x \in Symbol
  <2>1. v \in Nat /\ v <= worth[x] + Weight(order[o]) + Slippage(order[o])
    BY <1>2, <1>5, WorthIsNat, WorthGrows
  <2>2. worth'[x] = v /\ \A s \in Symbol : worth[s] \in Int /\ worth'[s] \in Int /\ (s # x => worth[s] = worth'[s])
    BY <1>2, <1>5, <2>1
  <2>3. Gross' = Gross - worth[x] + worth'[x]
    <3> DEFINE f == worth
               g == worth'
    <3>1. \A s \in Symbol : f[s] \in Int /\ g[s] \in Int /\ (s # x => f[s] = g[s])
      BY <2>2
    <3> HIDE DEF f, g
    <3>2. SumFunctionOnSet(g, Symbol) = SumFunctionOnSet(f, Symbol) - f[x] + g[x]
      BY <1>1, <1>5, <3>1, SumChanges
    <3> QED BY <3>2 DEF f, g, Gross
  <2> QED BY <1>1, <1>3, <1>5, <2>1, <2>2, <2>3
<1> QED BY <1>4, <1>5

LEMMA FillFits == ASSUME IInv, LInv, NEW c \in Client, AddFill(c) PROVE LInv'
<1>1. PICK o \in Order : Works(c, o) /\ At(c, "fill")
  BY DEF IInv, Busy, Works, AddFill, At, Submitting
<1>2. /\ fills' = [fills EXCEPT ![o] = @ + 1]
      /\ Goes(c, "settle")
      /\ fresh' \subseteq fresh
      /\ order' = order
  BY <1>1 DEF AddFill, Works, service
<1>3. PICK x : x = order[o].symbol
  OBVIOUS
<1>4. PICK v \in WorthAfter(held[x], worth[x], order[o].size, Paid(order[o])) :
        worth' = [worth EXCEPT ![x] = v]
  BY <1>1, <1>3 DEF AddFill, Works
<1>5. order[o].batch \in Nat /\ order[o] \in OrderRecord /\ slipped \in Nat
  BY DEF IInv, TypeOK, OrderRecord
<1>6. Numbered'
  <2>1. last' = order[o].batch \/ last' = 0
    BY <1>1 DEF AddFill, Works
  <2>2. last' <= Used
    BY <1>5, <2>1, UsedIsNat DEF LInv, Numbered
  <2> QED BY <1>2, <2>2 DEF LInv, Numbered, Used
<1>7. Passed'
  <2>1. ASSUME NEW k \in Client, NEW p \in Order, Works(k, p)'
        PROVE  Works(k, p)
    <3>1. /\ doing'[c].step = "settle" /\ doing'[c].order = doing[c].order
          /\ \A i \in Client \ {c} : doing'[i] = doing[i]
      BY <1>1, <1>2, GoesOn DEF Works, Submitting
    <3> QED BY <1>1, <2>1, <3>1 DEF Works
  <2> QED BY <1>2, <2>1 DEF LInv, Passed
<1>8. ASSUME ~mixed'
      PROVE  Room'
  <2> DEFINE batch == order[o].batch
             rest == Pending(batch) \ {o}
  <2>1. /\ ~mixed /\ o \in fresh /\ fills[o] = 0
        /\ fresh' = {p \in fresh : order[p].batch = batch}
        /\ behind' = {k \in Client : At(k, "remember")}
        /\ last' = batch /\ slipped' = Slippage(order[o]) + Slack(batch)
    BY <1>1, <1>8 DEF AddFill, Works, Slack
  <2>2. order[o].cleared
    BY <1>1 DEF LInv, Passed
  <2>3. Pending(batch) \in SUBSET Order /\ rest \in SUBSET Order /\ o \in Pending(batch)
    BY <2>1, <2>2 DEF IInv, TypeOK, Pending
  <2>4. Gross + SumFunctionOnSet(Cost, Pending(batch)) <= MaxGross + Slack(batch)
    <3>1. batch \in Nat /\ Pending(batch) # {}
      BY <1>5, <2>3
    <3> HIDE DEF batch
    <3> QED BY <2>1, <3>1 DEF LInv, Room
  <2>5. /\ SumFunctionOnSet(Cost, Pending(batch)) = Cost[o] + SumFunctionOnSet(Cost, rest)
        /\ SumFunctionOnSet(Cost, rest) \in Nat /\ Cost[o] \in Nat
    <3>1. /\ IsFiniteSet(Pending(batch)) /\ \A p \in Pending(batch) : Cost[p] \in Int
          /\ SumFunctionOnSet(Cost, rest) \in Nat /\ Cost[o] \in Nat
      BY <2>3, SumsAreNumbers DEF IInv
    <3> HIDE DEF batch
    <3> QED BY <2>3, <3>1, SumTakesOut
  <2>6. PICK extra \in Nat : extra = Slippage(order[o])
    <3>1. \A n \in Nat : n * Slip \in Nat
      BY FundAssumption, ProductFacts
    <3> QED BY <1>5, <3>1 DEF Slippage, OrderRecord
  <2>7. /\ Gross' \in Int /\ Gross' <= Gross + Cost[o] + extra
        /\ Gross \in Int /\ MaxGross \in Nat /\ Slack(batch) \in Nat
    BY <1>3, <1>4, <1>5, <2>6, FillCosts, SumsAreNumbers, FundAssumption DEF IInv, Slack
  <2>8. slipped' = extra + Slack(batch)
    BY <2>1, <2>6
  <2>9. Gross' + SumFunctionOnSet(Cost, rest) <= MaxGross + slipped' /\ Gross' <= MaxGross + slipped'
    <3> HIDE DEF rest, batch
    <3> QED BY <2>4, <2>5, <2>7, <2>8
  <2>10. Cost' = Cost
    BY <1>2 DEF Cost
  <2>11. ASSUME NEW b \in Nat, Pending(b)' # {}
         PROVE  Gross' + SumFunctionOnSet(Cost', Pending(b)') <= MaxGross + Slack(b)'
    <3>1. b = batch
      BY <1>2, <2>1, <2>11 DEF Pending
    <3>2. Pending(b)' = rest
      <4>1. fills'[o] # 0 /\ \A p \in Order \ {o} : fills'[p] = fills[p]
        BY <1>2, <2>1 DEF IInv, TypeOK
      <4>2. fresh \subseteq Order
        BY DEF IInv, TypeOK
      <4> QED BY <1>2, <2>1, <3>1, <4>1, <4>2 DEF Pending
    <3>3. Slack(b)' = slipped'
      BY <2>1, <3>1 DEF Slack
    <3> QED BY <2>9, <2>10, <3>2, <3>3
  <2>12. \A k \in Client : At(k, "remember")' => k \in behind'
    <3>1. \A k \in Client : At(k, "remember")' => At(k, "remember")
      BY <1>1, <1>2, GoesOn DEF Works, Submitting, At
    <3> QED BY <2>1, <3>1
  <2> QED BY <2>9, <2>11, <2>12 DEF Room
<1>9. Room'
  BY <1>8 DEF Room
<1> QED BY <1>6, <1>7, <1>9 DEF LInv

LEMMA InitLInv == Init => LInv
<1> SUFFICES ASSUME Init PROVE LInv
  OBVIOUS
<1>1. TypeOK
  BY InitIInv DEF IInv
<1>2. Numbered
  BY UsedIsNat DEF Init, Numbered, NoOrder
<1>3. Passed
  BY DEF Init, Passed, Works, Idle, Submitting
<1>4. Gross = 0
  <2>1. \A s \in Symbol : worth[s] = 0
    BY DEF Init, Flat
  <2>2. IsFiniteSet(Symbol)
    BY <1>1, SumsAreNumbers
  <2> QED BY <2>1, <2>2, SumOfZeros DEF Gross
<1>5. \A b : Pending(b) = {}
  BY DEF Init, Pending
<1>6. \A c \in Client : ~At(c, "remember")
  BY DEF Init, At, Idle
<1>7. Room
  BY <1>4, <1>5, <1>6, FundAssumption DEF Init, Room
<1> QED BY <1>2, <1>3, <1>7 DEF LInv

LEMMA NextLInv == IInv /\ LInv /\ [Next]_vars => LInv'
<1> SUFFICES ASSUME IInv, LInv, [Next]_vars PROVE LInv'
  OBVIOUS
<1>1. CASE SetSwitch \/ UNCHANGED vars
  <2>1. UNCHANGED <<order, worth, fills, ceiling, behind, doing, delta>>
    BY <1>1 DEF SetSwitch, vars, service, tables, threads, history
  <2> QED BY <2>1, NothingFilled DEF Works, At
<1>2. ASSUME NEW c \in Client, UNCHANGED <<order, worth, fills, ceiling, behind>>,
             \A k \in Client \ {c} : doing'[k] = doing[k] /\ delta'[k] = delta[k],
             doing'[c].step # "remember",
             \A o \in Order : Works(c, o)' => Works(c, o) \/ order[o].cleared
      PROVE  LInv'
  <2>1. \A k \in Client, o \in Order : Works(k, o)' => Works(k, o) \/ order[o].cleared
    BY <1>2 DEF Works
  <2>2. \A k \in Client : At(k, "remember")' /\ k \notin behind' =>
                            At(k, "remember") /\ k \notin behind /\ delta'[k] = delta[k]
    BY <1>2 DEF At
  <2> QED BY <1>2, <2>1, <2>2, NothingFilled
<1>3. ASSUME NEW c \in Client, NEW p \in Proposals, NEW quote \in [Symbol -> Prices], Prepare(c, p, quote)
      PROVE  LInv'
  <2>1. /\ UNCHANGED <<order, worth, fills, ceiling, behind>>
        /\ doing' = [doing EXCEPT ![c] = [step |-> "screen", order |-> 0]]
        /\ delta' = [delta EXCEPT ![c] = Rebalance(p, quote)]
    BY <1>3 DEF Prepare, Starts, service, tables, history
  <2>2. /\ doing'[c].step = "screen"
        /\ \A k \in Client \ {c} : doing'[k] = doing[k] /\ delta'[k] = delta[k]
    BY <2>1 DEF IInv, TypeOK
  <2>3. \A o \in Order : ~Works(c, o)'
    BY <2>2 DEF Works, Submitting
  <2> QED BY <1>2, <2>1, <2>2, <2>3
<1>4. ASSUME NEW c \in Client, NEW o \in Order, Check(c, o) \/ AskCancel(c, o)
      PROVE  LInv'
  <2>1. /\ UNCHANGED <<order, worth, fills, ceiling, behind, delta>>
        /\ \/ order[o].cleared /\ doing' = [doing EXCEPT ![c] = [step |-> "save", order |-> o]]
           \/ doing' = [doing EXCEPT ![c] = [step |-> "cancel", order |-> o]]
    BY <1>4 DEF Check, AskCancel, Starts, service, tables
  <2>2. /\ \A k \in Client \ {c} : doing'[k] = doing[k]
        /\ \/ order[o].cleared /\ doing'[c] = [step |-> "save", order |-> o]
           \/ doing'[c] = [step |-> "cancel", order |-> o]
    BY <2>1 DEF IInv, TypeOK
  <2>3. \A p \in Order : Works(c, p)' => order[p].cleared
    BY <2>2 DEF Works, Submitting
  <2> QED BY <1>2, <2>1, <2>2, <2>3
<1>5. ASSUME NEW c \in Client, Save(c) \/ Place(c) \/ BrokerCancels(c)
      PROVE  LInv'
  <2>1. UNCHANGED <<order, worth, fills, ceiling, behind, delta>>
    BY <1>5 DEF Save, Place, BrokerCancels, service, tables, history
  <2>2. PICK step \in Submitting \cup Cancelling :
          Goes(c, step) /\ (step \in Submitting => doing[c].step \in Submitting)
    BY <1>5 DEF Save, Place, BrokerCancels, At, Submitting, Cancelling
  <2>3. /\ doing'[c].step = step /\ doing'[c].order = doing[c].order
        /\ \A k \in Client \ {c} : doing'[k] = doing[k]
    BY <2>2 DEF IInv, TypeOK, Goes
  <2>4. \A p \in Order : Works(c, p)' => Works(c, p)
    BY <2>2, <2>3 DEF Works
  <2>5. doing'[c].step # "remember"
    BY <2>3 DEF Submitting, Cancelling
  <2> QED BY <1>2, <2>1, <2>3, <2>4, <2>5
<1>6. ASSUME NEW c \in Client, Settle(c) \/ Rest(c) \/ Reject(c) \/ MarkCancelled(c) \/ Fails(c)
      PROVE  LInv'
  <2>1. UNCHANGED <<order, worth, fills, ceiling, behind, delta>> /\ Ends(c)
    BY <1>6 DEF Settle, Rest, Reject, MarkCancelled, Records, Fails, service, tables, history
  <2>2. doing'[c].step = "idle" /\ \A k \in Client \ {c} : doing'[k] = doing[k]
    BY <2>1, IsOver
  <2>3. \A p \in Order : ~Works(c, p)'
    BY <2>2 DEF Works, Submitting
  <2> QED BY <1>2, <2>1, <2>2, <2>3
<1>7. CASE Crash
  <2>1. UNCHANGED <<order, worth, fills, ceiling>> /\ doing' = [c \in Client |-> Idle]
    BY <1>7 DEF Crash, tables
  <2>2. \A k \in Client, p \in Order : ~Works(k, p)'
    BY <2>1 DEF Works, Idle, Submitting
  <2>3. \A k \in Client : ~At(k, "remember")'
    BY <2>1 DEF At, Idle
  <2> QED BY <2>1, <2>2, <2>3, NothingFilled
<1> QED BY <1>1, <1>3, <1>4, <1>5, <1>6, <1>7, ScreenFits, RememberFits, FillFits
        DEF Next, Submission, Cancellation

(* What the book is worth keeps within the leverage ceiling and the        *)
(* slippage of the basket that was filled last, however many orders a      *)
(* basket holds, in whichever order they are submitted and filled and      *)
(* whatever the prices become, for as long as no order is filled on a      *)
(* screening that the book has left behind.                                *)
THEOREM BookWithinCeiling == Spec => []WithinCeiling
<1>1. LInv => WithinCeiling
  BY DEF LInv, Room, WithinCeiling
<1> QED BY <1>1, InitLInv, NextLInv, Invariance, PTL DEF Spec
=============================================================================
