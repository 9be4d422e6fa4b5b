-------------------------- MODULE PortfolioProofs --------------------------
(***************************************************************************)
(* Proofs about a portfolio and what keeps an eye on the platform, for any *)
(* number of reservations, symbols, prices, caps, alerts, threads and      *)
(* entrants: the kill switch and the books of a portfolio (PortfolioRisk), *)
(* the alerts and watches (PlatformAlerts), the daily digest (DailyDigest) *)
(* and the season of the arena (Arena). Each has an inductive invariant of *)
(* its own.                                                                *)
(***************************************************************************)
EXTENDS PortfolioRisk, PlatformAlerts, DailyDigest, Arena, SumTheorems

-----------------------------------------------------------------------------
(***************************************************************************)
(* The kill switch.                                                        *)
(***************************************************************************)
\* What the proof needs of the types: every row has a status column.
Shape ==
    /\ enabled \in BOOLEAN
    /\ DOMAIN reservation = Reservations
    /\ reservation = [r \in Reservations |-> reservation[r]]
    /\ \A r \in Reservations : "status" \in DOMAIN reservation[r]

\* The inductive invariant.
StopInv == Shape /\ StopMeansNoRisk

\* A new portfolio has no reservation.
LEMMA StopInit == Init => StopInv
  BY DEF Init, StopInv, Shape, StopMeansNoRisk, Active, NoReservation

\* Sweeping expired reservations keeps the rows' shape and activates none.
LEMMA SweptShape ==
    ASSUME Shape
    PROVE  \A r \in Reservations :
              /\ "status" \in DOMAIN SweptReservations[r]
              /\ SweptReservations[r].status = "active" => Active(r)
  BY DEF Shape, SweptReservations, Active

\* Each step of the service, and of time, keeps the invariant.
LEMMA StopStep == StopInv /\ [Next]_vars => StopInv'
<1> SUFFICES ASSUME StopInv, [Next]_vars
             PROVE  StopInv'
    OBVIOUS
<1> USE DEF StopInv
<1>1. ASSUME NEW r \in Reservations, NEW s \in Symbols, NEW side \in Sides,
             NEW q \in Quantities, NEW p \in Prices,
             EvaluateAndReserve(r, s, side, q, p)
      PROVE  StopInv'
  <2> DEFINE n == Approvable(s, side, q, p)
             row == [status |-> "active", symbol |-> s, side |-> side, qty |-> n,
                     notional |-> n * p, late |-> FALSE]
  <2>1. enabled' = enabled
      BY <1>1 DEF EvaluateAndReserve
  <2>2. CASE HardChecks(s, side, n, p)
    <3>1. enabled
        BY <2>2 DEF HardChecks
    <3>2. reservation' = [SweptReservations EXCEPT ![r] = row]
        BY <1>1, <2>2 DEF EvaluateAndReserve
    <3> HIDE DEF row
    <3>3. "status" \in DOMAIN row
        BY DEF row
    <3> QED
        BY <2>1, <3>1, <3>2, <3>3, SweptShape DEF Shape, StopMeansNoRisk, SweptReservations
  <2>3. CASE ~HardChecks(s, side, n, p)
    <3>1. reservation' = SweptReservations
        BY <1>1, <2>3 DEF EvaluateAndReserve
    <3> QED
        BY <2>1, <3>1, SweptShape DEF Shape, StopMeansNoRisk, SweptReservations, Active
  <2> QED
      BY <2>2, <2>3
<1>2. ASSUME NEW r \in Reservations, NEW f \in References, NEW p \in Prices,
             NEW fee \in Fees, ApplyFill(r, f, p, fee)
      PROVE  StopInv'
  <2>1. reservation' = [reservation EXCEPT ![r].status = "consumed"] /\ enabled' = enabled
      BY <1>2 DEF ApplyFill, Consumed
  <2> QED
      BY <2>1 DEF Shape, StopMeansNoRisk, Active
<1>3. ASSUME NEW r \in Reservations, ReleaseReservation(r)
      PROVE  StopInv'
    BY <1>3 DEF ReleaseReservation, Shape, StopMeansNoRisk, Active
<1>4. ASSUME NEW r \in Reservations, ReservationExpires(r)
      PROVE  StopInv'
    BY <1>4 DEF ReservationExpires, Shape, StopMeansNoRisk, Active
<1>5. ASSUME NEW on \in BOOLEAN, SetTradingEnabled(on)
      PROVE  StopInv'
    BY <1>5 DEF SetTradingEnabled, Stopped, Shape, StopMeansNoRisk, Active
<1>6. CASE NextDay \/ UNCHANGED vars
    BY <1>6 DEF NextDay, vars, Shape, StopMeansNoRisk, Active
<1> QED
    BY <1>1, <1>2, <1>3, <1>4, <1>5, <1>6 DEF Next

\* While the kill switch of portfolio_service is on, no reservation is active,
\* in whatever order it was thrown and orders were evaluated.
THEOREM KillSwitch == Spec => []StopMeansNoRisk
<1>1. Spec => []StopInv
    BY StopInit, StopStep, PTL DEF Spec
<1>2. StopInv => StopMeansNoRisk
    BY DEF StopInv
<1> QED
    BY <1>1, <1>2, PTL

\* While it is on, no fill moves cash or positions: what apply_fill never
\* checks itself follows from the reservations being gone.
THEOREM NothingMovesWhileStopped == Spec => NoFillWhileStopped
<1>1. StopInv /\ [Next]_vars => [~enabled => cash' = cash /\ position' = position]_vars
  <2> SUFFICES ASSUME StopInv, Next, ~enabled
               PROVE  cash' = cash /\ position' = position
      BY DEF vars
  <2>1. ASSUME NEW r \in Reservations, NEW f \in References, NEW p \in Prices,
               NEW fee \in Fees, ApplyFill(r, f, p, fee)
        PROVE  FALSE
      BY <2>1 DEF ApplyFill, Fillable, Live, StopInv, StopMeansNoRisk
  <2> QED
      BY <2>1 DEF Next, EvaluateAndReserve, ReleaseReservation, ReservationExpires,
                  SetTradingEnabled, NextDay
<1>2. Spec => []StopInv
    BY StopInit, StopStep, PTL DEF Spec
<1> QED
    BY <1>1, <1>2, PTL DEF Spec, NoFillWhileStopped

-----------------------------------------------------------------------------
(***************************************************************************)
(* The books: what is reserved for sale is held, what is reserved for      *)
(* purchase is paid for, and every position is the sum of what was filled. *)
(***************************************************************************)
\* What the sums add up.
QtyOf == [r \in Reservations |-> reservation[r].qty]
NotionalOf == [r \in Reservations |-> reservation[r].notional]

\* The reservations a position is made of.
FilledFor(side, s) ==
    {r \in Reservations : /\ reservation[r].status = "consumed"
                          /\ reservation[r].side = side /\ reservation[r].symbol = s}

\* A position is what was filled; a filled reservation was posted under one reference,
\* any other under none.
PositionsExplained ==
    \A s \in Symbols : position[s].qty = Quantity(FilledFor("BUY", s)) - Quantity(FilledFor("SELL", s))

PostedOnce ==
    \A r \in Reservations :
        IF reservation[r].status = "consumed"
        THEN \E f \in References : \A g \in References : ledger[g] = r <=> g = f
        ELSE \A f \in References : ledger[f] # r

\* The inductive invariant: the run's property, with the ledger taken reference by reference.
CoverInv == TypeOK /\ SellsCovered /\ BuysFunded /\ PositionsExplained /\ PostedOnce

\* A set of naturals that is not empty has its minimum.
LEMMA LeastOf ==
    ASSUME NEW S, S \subseteq Nat, S # {}
    PROVE  Min(S) \in S /\ \A y \in S : Min(S) <= y
<1>1. PICK m \in S : \A k \in S : ~(<<k, m>> \in OpToRel(<, Nat))
  BY NatLessThanWellFounded, WFMin
<1>2. \A k \in S : ~(k < m)
  BY <1>1 DEF OpToRel
<1>3. \E x \in S : \A y \in S : x <= y
  BY <1>2, m \in Nat
<1> QED
  BY <1>3 DEF Min

\* What is bought for at most x.
LEMMA WithinBudget ==
    ASSUME NEW x \in Int, NEW p \in Nat \ {0}, NEW n \in Nat, n > 0, n <= Positive(x) \div p
    PROVE  n * p <= x
<1>1. CASE x > 0
  <2> DEFINE k == x \div p
  <2>1. k \in Int /\ k * p <= x
    BY <1>1
  <2>2. n <= k
    BY <1>1 DEF Positive
  <2>3. n * p <= k * p
    <3>1. (k - n) \in Nat
      BY <2>1, <2>2
    <3>2. (k - n) * p >= 0
      BY <3>1
    <3>3. (k - n) * p = k * p - n * p
      BY <2>1
    <3>4. k * p \in Int /\ n * p \in Int
      BY <2>1
    <3> QED
      BY <3>2, <3>3, <3>4
  <2>4. k * p \in Int /\ n * p \in Int
    BY <2>1
  <2> QED
    BY <2>1, <2>3, <2>4
<1>2. CASE ~(x > 0)
  <2>1. Positive(x) \div p = 0
    BY <1>2 DEF Positive
  <2> QED
    BY <2>1
<1> QED
  BY <1>1, <1>2

\* The sums are over finite sets, of naturals.
LEMMA SumsAreNat ==
    ASSUME TypeOK, NEW R \in SUBSET Reservations
    PROVE  /\ IsFiniteSet(R)
           /\ Quantity(R) \in Nat /\ Notional(R) \in Nat
           /\ Quantity(R) = SumFunctionOnSet(QtyOf, R) /\ Notional(R) = SumFunctionOnSet(NotionalOf, R)
           /\ \A r \in Reservations : QtyOf[r] \in Nat /\ NotionalOf[r] \in Nat
<1>1. \A r \in Reservations : /\ QtyOf[r] \in Nat /\ NotionalOf[r] \in Nat
  BY DEF TypeOK, ReservationRows, QtyOf, NotionalOf
<1>2. IsFiniteSet(R)
  BY PRAssumption, FS_Subset
<1>3. Quantity(R) = SumFunctionOnSet(QtyOf, R) /\ Notional(R) = SumFunctionOnSet(NotionalOf, R)
  BY DEF Quantity, Notional, QtyOf, NotionalOf
<1> QED
  BY <1>1, <1>2, <1>3, SumIsNat

\* One more, and one less.
LEMMA OneLess ==
    ASSUME TypeOK, NEW R \in SUBSET Reservations, NEW r \in R
    PROVE  /\ Quantity(R) = reservation[r].qty + Quantity(R \ {r})
           /\ Notional(R) = reservation[r].notional + Notional(R \ {r})
<1>1. \A x \in R : QtyOf[x] \in Int /\ NotionalOf[x] \in Int
  BY SumsAreNat
<1>2. IsFiniteSet(R) /\ R \ {r} \in SUBSET Reservations
  BY SumsAreNat
<1>3. /\ SumFunctionOnSet(QtyOf, R) = QtyOf[r] + SumFunctionOnSet(QtyOf, R \ {r})
      /\ SumFunctionOnSet(NotionalOf, R) = NotionalOf[r] + SumFunctionOnSet(NotionalOf, R \ {r})
  BY <1>1, <1>2, SumTakes
<1>4. QtyOf[r] = reservation[r].qty /\ NotionalOf[r] = reservation[r].notional
  BY DEF QtyOf, NotionalOf
<1> QED
  BY <1>2, <1>3, <1>4, SumsAreNat

\* A sum over rows that keep their quantities keeps its value.
LEMMA SumsKeep ==
    ASSUME TypeOK, NEW R \in SUBSET Reservations,
           \A r \in R : /\ reservation'[r].qty = reservation[r].qty
                        /\ reservation'[r].notional = reservation[r].notional
    PROVE  /\ SumFunctionOnSet(QtyOf', R) = Quantity(R)
           /\ SumFunctionOnSet(NotionalOf', R) = Notional(R)
<1>1. \A r \in R : QtyOf[r] \in Int /\ NotionalOf[r] \in Int
  BY SumsAreNat
<1>2. \A r \in R : QtyOf'[r] = QtyOf[r] /\ NotionalOf'[r] = NotionalOf[r]
  BY DEF QtyOf, NotionalOf
<1>3. IsFiniteSet(R)
  BY SumsAreNat
<1>4. /\ SumFunctionOnSet(QtyOf', R) = SumFunctionOnSet(QtyOf, R)
      /\ SumFunctionOnSet(NotionalOf', R) = SumFunctionOnSet(NotionalOf, R)
  BY <1>1, <1>2, <1>3, SumAgrees
<1> QED
  BY <1>4, SumsAreNat

\* The numbers of an evaluation are integers.
LEMMA ProductsAreInt == \A a, b \in Int : a * b \in Int
OBVIOUS

LEMMA GrossIsInt == ASSUME TypeOK PROVE Gross \in Int /\ \A s \in Symbols : Value(s) \in Int
<1>1. \A s \in Symbols : Value(s) \in Int
  <2>1. \A s \in Symbols : position[s].qty \in Int /\ position[s].last \in Int
    BY DEF TypeOK, Positions
  <2> QED
    BY <2>1, ProductsAreInt DEF Value
<1> DEFINE v == [s \in Symbols |-> Value(s)]
<1>2. \A s \in Symbols : v[s] \in Int
  BY <1>1
<1>3. DOMAIN v = Symbols
  OBVIOUS
<1>4. SumFunctionOnSet(v, Symbols) \in Int
  <2> HIDE DEF v
  <2> QED
    BY <1>2, PRAssumption, SumIsInt
<1> QED
  BY <1>1, <1>3, <1>4 DEF Gross, SumFunction

\* What can be bought for what is left.
LEMMA SharesAreNat == \A x \in Int, p \in Nat \ {0} : Positive(x) \in Nat /\ Positive(x) \div p \in Nat
BY DEF Positive

\* An approval is within the cash and the stock that nothing else counts on.
LEMMA ApprovalIsCovered ==
    ASSUME TypeOK, NEW s \in Symbols, NEW side \in Sides, NEW q \in Quantities, NEW p \in Prices
    PROVE  LET n == Approvable(s, side, q, p)
           IN  /\ n \in Nat
               /\ n > 0 /\ side = "BUY" => n * p <= cash - Notional(LiveFor("BUY"))
               /\ n > 0 /\ side = "SELL" => n <= position[s].qty - Quantity(LiveForSymbol("SELL", s))
<1> DEFINE n == Approvable(s, side, q, p)
           reserved == Notional(LiveFor("BUY"))
           sold == Quantity(LiveForSymbol("SELL", s))
           B == {q, MaxOrder \div p, Positive(cash - reserved) \div p,
                 Positive(MaxGross - Gross - reserved) \div p, Positive(MaxSymbol - Value(s)) \div p}
           S == {q, Positive(position[s].qty - sold)}
<1>1. reserved \in Nat /\ sold \in Nat
  BY SumsAreNat DEF LiveFor, LiveForSymbol, ActiveFor, ActiveForSymbol
<1>2. cash \in Int /\ position[s].qty \in Int /\ Gross \in Int /\ Value(s) \in Int
  BY GrossIsInt DEF TypeOK, Positions
<1>3. q \in Nat /\ p \in Nat \ {0} /\ MaxOrder \in Nat /\ MaxGross \in Nat /\ MaxSymbol \in Nat
  BY PRAssumption
<1>4. CASE side = "BUY"
  <2>1. n = Min(B)
    BY <1>4 DEF Approvable
  <2>2. B \subseteq Nat /\ B # {}
    <3> HIDE DEF reserved
    <3>1. MaxOrder \div p \in Nat
      BY <1>3
    <3>2. cash - reserved \in Int /\ MaxGross - Gross - reserved \in Int /\ MaxSymbol - Value(s) \in Int
      BY <1>1, <1>2, <1>3
    <3> QED
      BY <1>3, <3>1, <3>2, SharesAreNat
  <2>3. n \in Nat /\ n <= Positive(cash - reserved) \div p
    <3> HIDE DEF n
    <3> QED
      BY <2>1, <2>2, LeastOf
  <2>4. cash - reserved \in Int
    BY <1>1, <1>2
  <2>5. n > 0 => n * p <= cash - reserved
    <3> HIDE DEF n, reserved
    <3> QED
      BY <1>3, <2>3, <2>4, WithinBudget
  <2> QED
    BY <1>4, <2>3, <2>5
<1>5. CASE side = "SELL"
  <2>1. n = Min(S)
    BY <1>5 DEF Approvable
  <2>2. S \subseteq Nat /\ S # {}
    <3> HIDE DEF sold
    <3> QED
      BY <1>1, <1>2, <1>3 DEF Positive
  <2>3. n \in Nat /\ n <= Positive(position[s].qty - sold)
    <3> HIDE DEF n
    <3> QED
      BY <2>1, <2>2, LeastOf
  <2>4. n > 0 => n <= position[s].qty - sold
    <3> HIDE DEF n, sold
    <3> QED
      BY <1>1, <1>2, <2>3 DEF Positive
  <2> QED
    BY <1>5, <2>3, <2>4
<1> QED
  BY <1>4, <1>5 DEF Sides

\* A new portfolio has positions of zero and nothing reserved.
LEMMA CoverInit == Init => CoverInv
<1> SUFFICES ASSUME Init PROVE CoverInv
  OBVIOUS
<1>1. NoReservation \in ReservationRows /\ NoReservation.status = "none"
  BY PRAssumption DEF NoReservation, ReservationRows, Sides
<1>2. \A r \in Reservations : reservation[r] = NoReservation
  BY DEF Init
<1>3. TypeOK
  <2> HIDE DEF NoReservation
  <2>1. reservation \in [Reservations -> ReservationRows]
    BY <1>1 DEF Init
  <2>2. position \in [Symbols -> Positions]
    BY DEF Init, Positions
  <2>3. cash \in Int /\ ledger \in [References -> Reservations \cup {NoRef}]
    BY PRAssumption DEF Init
  <2> QED
    BY <1>1, <1>2, <2>1, <2>2, <2>3 DEF Init, TypeOK
<1>4. /\ \A s \in Symbols : LiveForSymbol("SELL", s) = {} /\ FilledFor("BUY", s) = {} /\ FilledFor("SELL", s) = {}
      /\ LiveFor("BUY") = {}
  <2> HIDE DEF NoReservation
  <2> QED
    BY <1>1, <1>2 DEF LiveForSymbol, LiveFor, ActiveForSymbol, ActiveFor, Active, FilledFor
<1>5. Quantity({}) = 0 /\ Notional({}) = 0
  BY SumOfNone DEF Quantity, Notional
<1>0. cash >= 0 /\ \A s \in Symbols : position[s].qty = 0
  BY PRAssumption DEF Init
<1>8. /\ \A s \in Symbols : /\ Quantity(LiveForSymbol("SELL", s)) = 0
                            /\ Quantity(FilledFor("BUY", s)) = 0 /\ Quantity(FilledFor("SELL", s)) = 0
      /\ Notional(LiveFor("BUY")) = 0
  BY <1>4, <1>5, Zenon
<1>6. SellsCovered /\ BuysFunded /\ PositionsExplained
  BY <1>0, <1>3, <1>8 DEF SellsCovered, BuysFunded, PositionsExplained, TypeOK
<1>7. PostedOnce
  <2> HIDE DEF NoReservation
  <2>1. \A f \in References : ledger[f] \notin Reservations
    BY PRAssumption DEF Init
  <2> QED
    BY <1>1, <1>2, <2>1 DEF PostedOnce
<1> QED
  BY <1>3, <1>6, <1>7 DEF CoverInv

\* Live reservations are active ones, and no consumed reservation is live.
LEMMA WhoIsLive ==
    /\ \A side : LiveFor(side) = {r \in Reservations : Live(r) /\ reservation[r].side = side}
    /\ \A side, s : LiveForSymbol(side, s) =
          {r \in Reservations : Live(r) /\ reservation[r].side = side /\ reservation[r].symbol = s}
BY DEF LiveFor, LiveForSymbol, ActiveFor, ActiveForSymbol, Live, Active

\* The same of the next state.
LEMMA WhoIsLiveNext ==
    /\ \A side : LiveFor(side)' = {r \in Reservations : Live(r)' /\ reservation'[r].side = side}
    /\ \A side, s : LiveForSymbol(side, s)' =
          {r \in Reservations : Live(r)' /\ reservation'[r].side = side /\ reservation'[r].symbol = s}
BY DEF LiveFor, LiveForSymbol, ActiveFor, ActiveForSymbol, Live, Active

\* Fewer reservations hold less.
LEMMA FewerAreLess ==
    ASSUME TypeOK, NEW R \in SUBSET Reservations, NEW Q \in SUBSET R
    PROVE  Quantity(Q) <= Quantity(R) /\ Notional(Q) <= Notional(R)
<1>1. IsFiniteSet(R) /\ \A r \in R : QtyOf[r] \in Nat /\ NotionalOf[r] \in Nat
  BY SumsAreNat
<1>2. /\ SumFunctionOnSet(QtyOf, Q) <= SumFunctionOnSet(QtyOf, R)
      /\ SumFunctionOnSet(NotionalOf, Q) <= SumFunctionOnSet(NotionalOf, R)
  BY <1>1, SumOfPart
<1> QED
  BY <1>2, SumsAreNat

\* The books of a step that at most lets go of reservations: whoever is live was, and
\* the rows that count keep what they count for.
LEMMA LettingGo ==
    ASSUME CoverInv, TypeOK', UNCHANGED <<cash, position, ledger, slipped>>,
           \A r \in Reservations :
              /\ reservation'[r].side = reservation[r].side /\ reservation'[r].symbol = reservation[r].symbol
              /\ reservation'[r].qty = reservation[r].qty /\ reservation'[r].notional = reservation[r].notional
              /\ reservation'[r].status = "consumed" <=> reservation[r].status = "consumed"
              /\ Live(r)' => Live(r)
    PROVE  CoverInv'
<1>0. TypeOK /\ SellsCovered /\ BuysFunded /\ PositionsExplained /\ PostedOnce
  BY DEF CoverInv
<1>1. ASSUME NEW R1 \in SUBSET Reservations, NEW R2 \in SUBSET R1
      PROVE  /\ SumFunctionOnSet(QtyOf', R2) <= Quantity(R1)
             /\ SumFunctionOnSet(NotionalOf', R2) <= Notional(R1)
             /\ SumFunctionOnSet(QtyOf', R2) \in Int /\ SumFunctionOnSet(NotionalOf', R2) \in Int
             /\ Quantity(R1) \in Int /\ Notional(R1) \in Int
  <2>1. /\ SumFunctionOnSet(QtyOf', R2) = Quantity(R2)
        /\ SumFunctionOnSet(NotionalOf', R2) = Notional(R2)
    BY <1>0, SumsKeep
  <2>2. Quantity(R2) <= Quantity(R1) /\ Notional(R2) <= Notional(R1)
    BY <1>0, FewerAreLess
  <2>3. Quantity(R1) \in Nat /\ Notional(R1) \in Nat /\ Quantity(R2) \in Nat /\ Notional(R2) \in Nat
    BY <1>0, SumsAreNat
  <2> QED
    BY <2>1, <2>2, <2>3
<1>2. SellsCovered'
  <2> SUFFICES ASSUME NEW s \in Symbols
               PROVE  Quantity(LiveForSymbol("SELL", s))' <= position[s].qty
    BY DEF SellsCovered
  <2> DEFINE R1 == LiveForSymbol("SELL", s)
             R2 == {r \in Reservations : Live(r)' /\ reservation'[r].side = "SELL" /\ reservation'[r].symbol = s}
  <2>1. R1 \in SUBSET Reservations /\ R2 \in SUBSET R1
    BY WhoIsLive
  <2>2. Quantity(LiveForSymbol("SELL", s))' = SumFunctionOnSet(QtyOf', R2)
    BY WhoIsLiveNext DEF Quantity, QtyOf
  <2>3. Quantity(R1) <= position[s].qty /\ position[s].qty \in Int
    BY <1>0 DEF SellsCovered, TypeOK, Positions
  <2> HIDE DEF R1, R2
  <2> QED
    BY <1>1, <2>1, <2>2, <2>3
<1>3. BuysFunded'
  <2> SUFFICES ASSUME ~slipped
               PROVE  Notional(LiveFor("BUY"))' <= cash
    BY DEF BuysFunded
  <2> DEFINE R1 == LiveFor("BUY")
             R2 == {r \in Reservations : Live(r)' /\ reservation'[r].side = "BUY"}
  <2>1. R1 \in SUBSET Reservations /\ R2 \in SUBSET R1
    BY WhoIsLive
  <2>2. Notional(LiveFor("BUY"))' = SumFunctionOnSet(NotionalOf', R2)
    BY WhoIsLiveNext DEF Notional, NotionalOf
  <2>3. Notional(R1) <= cash /\ cash \in Int
    BY <1>0 DEF BuysFunded, TypeOK
  <2> HIDE DEF R1, R2
  <2> QED
    BY <1>1, <2>1, <2>2, <2>3
<1>4. ASSUME NEW side, NEW s
      PROVE  Quantity(FilledFor(side, s))' = Quantity(FilledFor(side, s))
  <2>1. FilledFor(side, s)' = FilledFor(side, s)
    BY DEF FilledFor
  <2>2. SumFunctionOnSet(QtyOf', FilledFor(side, s)) = Quantity(FilledFor(side, s))
    BY <1>0, SumsKeep DEF FilledFor
  <2>3. Quantity(FilledFor(side, s))' = SumFunctionOnSet(QtyOf', FilledFor(side, s)')
    BY DEF Quantity, QtyOf
  <2> QED
    BY <2>1, <2>2, <2>3, Zenon
<1>5. PositionsExplained'
  BY <1>0, <1>4 DEF PositionsExplained
<1>6. PostedOnce'
  BY <1>0 DEF PostedOnce
<1> QED
  BY <1>2, <1>3, <1>5, <1>6 DEF CoverInv

\* What one more reservation adds.
LEMMA OneMore ==
    ASSUME TypeOK, TypeOK', NEW R \in SUBSET Reservations, NEW r \in Reservations, r \notin R,
           \A x \in R : /\ reservation'[x].qty = reservation[x].qty
                        /\ reservation'[x].notional = reservation[x].notional
    PROVE  /\ SumFunctionOnSet(QtyOf', R \cup {r}) = reservation'[r].qty + Quantity(R)
           /\ SumFunctionOnSet(NotionalOf', R \cup {r}) = reservation'[r].notional + Notional(R)
<1>1. \A x \in Reservations : QtyOf'[x] \in Int /\ NotionalOf'[x] \in Int
  BY DEF TypeOK, ReservationRows, QtyOf, NotionalOf
<1>2. IsFiniteSet(R \cup {r}) /\ (R \cup {r}) \ {r} = R /\ R \cup {r} \in SUBSET Reservations
  BY PRAssumption, FS_Subset
<1>3. /\ SumFunctionOnSet(QtyOf', R \cup {r}) = QtyOf'[r] + SumFunctionOnSet(QtyOf', (R \cup {r}) \ {r})
      /\ SumFunctionOnSet(NotionalOf', R \cup {r}) = NotionalOf'[r] + SumFunctionOnSet(NotionalOf', (R \cup {r}) \ {r})
  BY <1>1, <1>2, SumTakes
<1>4. QtyOf'[r] = reservation'[r].qty /\ NotionalOf'[r] = reservation'[r].notional
  BY DEF QtyOf, NotionalOf
<1>5. /\ SumFunctionOnSet(QtyOf', R) = Quantity(R)
      /\ SumFunctionOnSet(NotionalOf', R) = Notional(R)
  BY SumsKeep
<1> QED
  BY <1>2, <1>3, <1>4, <1>5, Zenon

\* The sums of the next step are over its rows.
LEMMA NextSums ==
    /\ \A s : Quantity(LiveForSymbol("SELL", s))' = SumFunctionOnSet(QtyOf', LiveForSymbol("SELL", s)')
    /\ Notional(LiveFor("BUY"))' = SumFunctionOnSet(NotionalOf', LiveFor("BUY")')
    /\ \A side, s : Quantity(FilledFor(side, s))' = SumFunctionOnSet(QtyOf', FilledFor(side, s)')
BY DEF Quantity, Notional, QtyOf, NotionalOf

\* The sweep expires what is late and touches nothing else.
LEMMA SweepLetsGo ==
    ASSUME TypeOK
    PROVE  \A r \in Reservations :
              LET x == SweptReservations[r]
              IN  /\ x \in ReservationRows
                  /\ x.side = reservation[r].side /\ x.symbol = reservation[r].symbol /\ x.late = reservation[r].late
                  /\ x.qty = reservation[r].qty /\ x.notional = reservation[r].notional
                  /\ x.status = "consumed" <=> reservation[r].status = "consumed"
                  /\ x.status = "none" <=> reservation[r].status = "none"
                  /\ x.status = "active" /\ ~x.late <=> Live(r)
<1> SUFFICES ASSUME NEW r \in Reservations
             PROVE  LET x == SweptReservations[r]
                    IN  /\ x \in ReservationRows
                        /\ x.side = reservation[r].side /\ x.symbol = reservation[r].symbol /\ x.late = reservation[r].late
                        /\ x.qty = reservation[r].qty /\ x.notional = reservation[r].notional
                        /\ x.status = "consumed" <=> reservation[r].status = "consumed"
                        /\ x.status = "none" <=> reservation[r].status = "none"
                        /\ x.status = "active" /\ ~x.late <=> Live(r)
  OBVIOUS
<1>1. reservation[r] \in ReservationRows
  BY DEF TypeOK
<1>2. CASE Active(r) /\ reservation[r].late
  <2>1. SweptReservations[r] = [reservation[r] EXCEPT !.status = "expired"]
    BY <1>2 DEF SweptReservations
  <2> QED
    BY <1>1, <1>2, <2>1 DEF ReservationRows, Live, Active
<1>3. CASE ~(Active(r) /\ reservation[r].late)
  <2>1. SweptReservations[r] = reservation[r]
    BY <1>3 DEF SweptReservations
  <2> QED
    BY <1>1, <1>3, <2>1 DEF Live, Active, ReservationRows
<1> QED
  BY <1>2, <1>3

\* evaluate_and_reserve: what it grants is within what nothing else counts on.
LEMMA EvaluateKeeps ==
    ASSUME CoverInv, NEW r \in Reservations, NEW s \in Symbols, NEW side \in Sides,
           NEW q \in Quantities, NEW p \in Prices, EvaluateAndReserve(r, s, side, q, p)
    PROVE  CoverInv'
<1> DEFINE n == Approvable(s, side, q, p)
           row == [status |-> "active", symbol |-> s, side |-> side, qty |-> n, notional |-> n * p, late |-> FALSE]
<1>0. TypeOK /\ SellsCovered /\ BuysFunded /\ PositionsExplained /\ PostedOnce
  BY DEF CoverInv
<1>1. UNCHANGED <<cash, position, enabled, lossReached, ledger, slipped>> /\ reservation[r].status = "none"
  BY DEF EvaluateAndReserve
<1>2. \A x \in Reservations : reservation[x].status # "none" => reservation[x].qty > 0
  BY <1>0 DEF TypeOK
<1>3. CASE ~HardChecks(s, side, n, p)
  <2>1. reservation' = SweptReservations
    BY <1>3 DEF EvaluateAndReserve
  <2>2. reservation' \in [Reservations -> ReservationRows]
    BY <1>0, <2>1, SweepLetsGo DEF SweptReservations
  <2>3. \A x \in Reservations :
            /\ reservation'[x].side = reservation[x].side /\ reservation'[x].symbol = reservation[x].symbol
            /\ reservation'[x].qty = reservation[x].qty /\ reservation'[x].notional = reservation[x].notional
            /\ reservation'[x].status = "consumed" <=> reservation[x].status = "consumed"
            /\ reservation'[x].status = "none" <=> reservation[x].status = "none"
            /\ reservation'[x].status = "active" /\ ~reservation'[x].late <=> Live(x)
    BY <1>0, <2>1, SweepLetsGo
  <2>4. \A x \in Reservations : Live(x)' => Live(x)
    BY <2>3 DEF Live, Active
  <2>5. TypeOK'
    BY <1>0, <1>1, <1>2, <2>2, <2>3 DEF TypeOK
  <2> QED
    BY <1>1, <2>3, <2>4, <2>5, LettingGo
<1>4. CASE HardChecks(s, side, n, p)
  <2>1. n \in Nat /\ n > 0 /\ p \in Nat
    BY <1>0, <1>4, ApprovalIsCovered, PRAssumption DEF HardChecks
  <2>2. reservation' = [SweptReservations EXCEPT ![r] = row]
    BY <1>4 DEF EvaluateAndReserve
  <2>3. /\ row \in ReservationRows /\ row.status = "active" /\ row.symbol = s /\ row.side = side
        /\ row.qty = n /\ row.notional = n * p /\ ~row.late
    <3>1. n * p \in Nat
      BY <2>1
    <3> HIDE DEF n
    <3> QED
      BY <2>1, <3>1 DEF ReservationRows
  <2> HIDE DEF row
  <2>4. reservation'[r] = row /\ \A x \in Reservations : x # r => reservation'[x] = SweptReservations[x]
    BY <2>2 DEF SweptReservations
  <2>5. reservation' \in [Reservations -> ReservationRows]
    BY <1>0, <2>2, <2>3, SweepLetsGo DEF SweptReservations
  <2>6. \A x \in Reservations : x # r =>
            /\ reservation'[x].side = reservation[x].side /\ reservation'[x].symbol = reservation[x].symbol
            /\ reservation'[x].qty = reservation[x].qty /\ reservation'[x].notional = reservation[x].notional
            /\ reservation'[x].status = "consumed" <=> reservation[x].status = "consumed"
            /\ reservation'[x].status = "none" <=> reservation[x].status = "none"
            /\ reservation'[x].status = "active" /\ ~reservation'[x].late <=> Live(x)
    BY <1>0, <2>4, SweepLetsGo
  <2>7. TypeOK'
    <3> HIDE DEF n
    <3> QED
      BY <1>0, <1>1, <1>2, <2>1, <2>3, <2>4, <2>5, <2>6 DEF TypeOK
  <2>8. \A x \in Reservations : Live(x)' <=> Live(x) \/ x = r
    BY <2>3, <2>4, <2>6 DEF Live, Active
  <2>9. ~Live(r) /\ reservation[r].status # "consumed" /\ reservation'[r].status # "consumed"
    BY <1>1, <2>3, <2>4 DEF Live, Active
  <2>10. SellsCovered'
    <3> SUFFICES ASSUME NEW t \in Symbols
                 PROVE  Quantity(LiveForSymbol("SELL", t))' <= position[t].qty
      BY <1>1 DEF SellsCovered
    <3> DEFINE L == LiveForSymbol("SELL", t)
    <3>1. L \in SUBSET Reservations /\ r \notin L
      BY <2>9, WhoIsLive
    <3>2. Quantity(L) <= position[t].qty /\ position[t].qty \in Int /\ Quantity(L) \in Nat
      BY <1>0, <3>1, SumsAreNat DEF SellsCovered, TypeOK, Positions
    <3>3. CASE side = "SELL" /\ t = s
      <4>0. reservation'[r].side = "SELL" /\ reservation'[r].symbol = t
        BY <2>3, <2>4, <3>3
      <4>5. \A x \in Reservations :
               Live(x)' /\ reservation'[x].side = "SELL" /\ reservation'[x].symbol = t
               <=> (Live(x) /\ reservation[x].side = "SELL" /\ reservation[x].symbol = t) \/ x = r
        BY <2>6, <2>8, <4>0
      <4>1. LiveForSymbol("SELL", t)' = L \cup {r}
        BY <4>5, WhoIsLive, WhoIsLiveNext
      <4>2. SumFunctionOnSet(QtyOf', L \cup {r}) = n + Quantity(L)
        <5> HIDE DEF L, n
        <5> QED
          BY <1>0, <2>3, <2>4, <2>6, <2>7, <3>1, OneMore
      <4>3. n <= position[t].qty - Quantity(L)
        BY <1>0, <2>1, <3>3, ApprovalIsCovered
      <4>4. Quantity(LiveForSymbol("SELL", t))' = n + Quantity(L)
        BY <4>1, <4>2, NextSums, Zenon
      <4> HIDE DEF L, n
      <4> QED
        BY <2>1, <3>2, <4>3, <4>4
    <3>4. CASE ~(side = "SELL" /\ t = s)
      <4>0. ~(reservation'[r].side = "SELL" /\ reservation'[r].symbol = t)
        BY <2>3, <2>4, <3>4
      <4>4. \A x \in Reservations :
               Live(x)' /\ reservation'[x].side = "SELL" /\ reservation'[x].symbol = t
               <=> Live(x) /\ reservation[x].side = "SELL" /\ reservation[x].symbol = t
        BY <2>6, <2>8, <2>9, <4>0
      <4>1. LiveForSymbol("SELL", t)' = L
        BY <4>4, WhoIsLive, WhoIsLiveNext
      <4>2. SumFunctionOnSet(QtyOf', L) = Quantity(L)
        <5> HIDE DEF L
        <5> QED
          BY <1>0, <2>6, <3>1, SumsKeep
      <4>3. Quantity(LiveForSymbol("SELL", t))' = Quantity(L)
        BY <4>1, <4>2, NextSums, Zenon
      <4> QED
        BY <3>2, <4>3
    <3> QED
      BY <3>3, <3>4
  <2>11. BuysFunded'
    <3> SUFFICES ASSUME ~slipped
                 PROVE  Notional(LiveFor("BUY"))' <= cash
      BY <1>1 DEF BuysFunded
    <3> DEFINE L == LiveFor("BUY")
    <3>1. L \in SUBSET Reservations /\ r \notin L
      BY <2>9, WhoIsLive
    <3>2. Notional(L) <= cash /\ cash \in Int /\ Notional(L) \in Nat
      BY <1>0, <3>1, SumsAreNat DEF BuysFunded, TypeOK
    <3>3. CASE side = "BUY"
      <4>0. reservation'[r].side = "BUY"
        BY <2>3, <2>4, <3>3
      <4>6. \A x \in Reservations :
               Live(x)' /\ reservation'[x].side = "BUY" <=> (Live(x) /\ reservation[x].side = "BUY") \/ x = r
        BY <2>6, <2>8, <4>0
      <4>1. LiveFor("BUY")' = L \cup {r}
        BY <4>6, WhoIsLive, WhoIsLiveNext
      <4>2. SumFunctionOnSet(NotionalOf', L \cup {r}) = n * p + Notional(L)
        <5> HIDE DEF L, n
        <5> QED
          BY <1>0, <2>3, <2>4, <2>6, <2>7, <3>1, OneMore
      <4>3. n * p <= cash - Notional(L)
        BY <1>0, <2>1, <3>3, ApprovalIsCovered
      <4>5. n * p \in Int
        <5> HIDE DEF n
        <5> QED
          BY <2>1
      <4>4. Notional(LiveFor("BUY"))' = n * p + Notional(L)
        BY <4>1, <4>2, NextSums, Zenon
      <4> HIDE DEF L, n
      <4> QED
        BY <3>2, <4>3, <4>4, <4>5
    <3>4. CASE side # "BUY"
      <4>0. reservation'[r].side # "BUY"
        BY <2>3, <2>4, <3>4
      <4>4. \A x \in Reservations :
               Live(x)' /\ reservation'[x].side = "BUY" <=> Live(x) /\ reservation[x].side = "BUY"
        BY <2>6, <2>8, <2>9, <4>0
      <4>1. LiveFor("BUY")' = L
        BY <4>4, WhoIsLive, WhoIsLiveNext
      <4>2. SumFunctionOnSet(NotionalOf', L) = Notional(L)
        <5> HIDE DEF L
        <5> QED
          BY <1>0, <2>6, <3>1, SumsKeep
      <4>3. Notional(LiveFor("BUY"))' = Notional(L)
        BY <4>1, <4>2, NextSums, Zenon
      <4> QED
        BY <3>2, <4>3
    <3> QED
      BY <3>3, <3>4
  <2>12. PositionsExplained'
    <3>1. ASSUME NEW d, NEW t
          PROVE  Quantity(FilledFor(d, t))' = Quantity(FilledFor(d, t))
      <4>1. FilledFor(d, t)' = FilledFor(d, t) /\ r \notin FilledFor(d, t)
        BY <2>6, <2>9 DEF FilledFor
      <4>2. SumFunctionOnSet(QtyOf', FilledFor(d, t)) = Quantity(FilledFor(d, t))
        BY <1>0, <2>6, <4>1, SumsKeep DEF FilledFor
      <4> QED
        BY <4>1, <4>2, NextSums, Zenon
    <3> QED
      BY <1>0, <1>1, <3>1 DEF PositionsExplained
  <2>13. PostedOnce'
    BY <1>0, <1>1, <2>6, <2>9 DEF PostedOnce
  <2> QED
    BY <2>7, <2>10, <2>11, <2>12, <2>13 DEF CoverInv
<1> QED
  BY <1>3, <1>4

\* apply_fill: the reservation that is consumed frees what the fill takes.
LEMMA FillKeeps ==
    ASSUME CoverInv, NEW r \in Reservations, NEW f \in References, NEW p \in Prices,
           NEW fee \in Fees, ApplyFill(r, f, p, fee)
    PROVE  CoverInv'
<1> DEFINE s == reservation[r].symbol
           n == reservation[r].qty
<1>0. TypeOK /\ SellsCovered /\ BuysFunded /\ PositionsExplained /\ PostedOnce
  BY DEF CoverInv
<1>1. /\ Live(r) /\ ledger[f] = NoRef /\ ledger' = [ledger EXCEPT ![f] = r] /\ enabled' = enabled
      /\ reservation' = [reservation EXCEPT ![r].status = "consumed"]
      /\ slipped' = (slipped \/ cash' < cash - SetAside(r))
      /\ lossReached' \in BOOLEAN
  BY <1>0 DEF ApplyFill, Fillable, Consumed, TypeOK
<1>2. s \in Symbols /\ n \in Nat /\ p \in Nat /\ fee \in Nat /\ cash \in Int /\ p * n \in Nat
      /\ reservation[r].side \in Sides /\ reservation[r].notional \in Nat
  <2>1. s \in Symbols /\ n \in Nat /\ p \in Nat /\ fee \in Nat /\ cash \in Int
        /\ reservation[r].side \in Sides /\ reservation[r].notional \in Nat
    BY <1>0, PRAssumption DEF TypeOK, ReservationRows
  <2>2. p * n \in Nat
    BY <2>1
  <2> QED
    BY <2>1, <2>2
<1>3. /\ reservation'[r].side = reservation[r].side /\ reservation'[r].symbol = reservation[r].symbol
      /\ reservation'[r].qty = reservation[r].qty /\ reservation'[r].notional = reservation[r].notional
      /\ reservation'[r].late = reservation[r].late /\ reservation'[r].status = "consumed"
      /\ reservation'[r] \in ReservationRows
      /\ \A x \in Reservations : x # r => reservation'[x] = reservation[x]
      /\ reservation' \in [Reservations -> ReservationRows]
  BY <1>0, <1>1 DEF TypeOK, ReservationRows
<1>4. /\ position' \in [Symbols -> Positions] /\ cash' \in Int
      /\ \A t \in Symbols : t # s => position'[t].qty = position[t].qty
      /\ reservation[r].side = "BUY" => position'[s].qty = position[s].qty + n
      /\ reservation[r].side = "SELL" => position'[s].qty = position[s].qty - n
  <2>1. CASE /\ reservation[r].side = "BUY" /\ cash' = cash - (p * n + fee)
             /\ position' = [position EXCEPT ![s] = [qty |-> position[s].qty + n, last |-> p]]
    <3> HIDE DEF s, n
    <3>1. [qty |-> position[s].qty + n, last |-> p] \in Positions
      BY <1>0, <1>2 DEF TypeOK, Positions
    <3>2. position' \in [Symbols -> Positions]
      BY <1>0, <2>1, <3>1 DEF TypeOK
    <3>3. position'[s].qty = position[s].qty + n /\ \A t \in Symbols : t # s => position'[t].qty = position[t].qty
      BY <1>0, <1>2, <2>1 DEF TypeOK
    <3> QED
      BY <1>2, <2>1, <3>2, <3>3
  <2>2. CASE /\ reservation[r].side = "SELL" /\ cash' = cash + p * n - fee
             /\ position' = [position EXCEPT ![s] = [qty |-> position[s].qty - n, last |-> p]]
    <3> HIDE DEF s, n
    <3>1. [qty |-> position[s].qty - n, last |-> p] \in Positions
      BY <1>0, <1>2 DEF TypeOK, Positions
    <3>2. position' \in [Symbols -> Positions]
      BY <1>0, <2>2, <3>1 DEF TypeOK
    <3>3. position'[s].qty = position[s].qty - n /\ \A t \in Symbols : t # s => position'[t].qty = position[t].qty
      BY <1>0, <1>2, <2>2 DEF TypeOK
    <3> QED
      BY <1>2, <2>2, <3>2, <3>3
  <2> QED
    BY <2>1, <2>2 DEF ApplyFill
<1>5. \A x \in Reservations : Live(x)' <=> Live(x) /\ x # r
  BY <1>3 DEF Live, Active
<1>6. reservation[r].status = "active"
  BY <1>1 DEF Live, Active
<1> HIDE DEF s, n
<1>7. TypeOK'
  <2>1. ledger' \in [References -> Reservations \cup {NoRef}]
    BY <1>0, <1>1 DEF TypeOK
  <2>2. slipped' \in BOOLEAN
    BY <1>0, <1>1 DEF TypeOK
  <2>3. \A x \in Reservations : reservation'[x].status # "none" => reservation'[x].qty > 0
    BY <1>0, <1>3, <1>6 DEF TypeOK
  <2> QED
    BY <1>0, <1>1, <1>3, <1>4, <2>1, <2>2, <2>3 DEF TypeOK
<1>8. SellsCovered'
  <2> SUFFICES ASSUME NEW t \in Symbols
               PROVE  Quantity(LiveForSymbol("SELL", t))' <= position'[t].qty
    BY DEF SellsCovered
  <2> DEFINE L == LiveForSymbol("SELL", t)
  <2>1. L \in SUBSET Reservations
    BY WhoIsLive
  <2>2. Quantity(L) <= position[t].qty /\ position[t].qty \in Int /\ Quantity(L) \in Nat
    BY <1>0, <2>1, SumsAreNat DEF SellsCovered, TypeOK, Positions
  <2>3. LiveForSymbol("SELL", t)' = L \ {r}
    BY <1>3, <1>5, WhoIsLive, WhoIsLiveNext
  <2>4. SumFunctionOnSet(QtyOf', L \ {r}) = Quantity(L \ {r}) /\ Quantity(L \ {r}) \in Nat
    <3> HIDE DEF L
    <3>1. L \ {r} \in SUBSET Reservations
      BY <2>1
    <3> QED
      BY <1>0, <1>3, <3>1, SumsKeep, SumsAreNat
  <2>5. Quantity(LiveForSymbol("SELL", t))' = Quantity(L \ {r})
    BY <2>3, <2>4, NextSums, Zenon
  <2>6. CASE reservation[r].side = "SELL" /\ t = s
    <3>1. r \in L
      BY <1>1, <2>6, WhoIsLive DEF s
    <3>2. Quantity(L) = n + Quantity(L \ {r})
      BY <1>0, <2>1, <3>1, OneLess DEF n
    <3> HIDE DEF L
    <3> QED
      BY <1>2, <1>4, <2>2, <2>4, <2>5, <2>6, <3>2
  <2>7. CASE ~(reservation[r].side = "SELL" /\ t = s)
    <3>1. Quantity(L \ {r}) <= Quantity(L)
      <4> HIDE DEF L
      <4>1. L \ {r} \in SUBSET L
        OBVIOUS
      <4> QED
        BY <1>0, <2>1, <4>1, FewerAreLess
    <3>2. position[t].qty <= position'[t].qty /\ position'[t].qty \in Int
      BY <1>2, <1>4, <2>2, <2>7 DEF Sides, Positions
    <3> HIDE DEF L
    <3> QED
      BY <2>2, <2>4, <2>5, <3>1, <3>2
  <2> QED
    BY <2>6, <2>7
<1>9. BuysFunded'
  <2> SUFFICES ASSUME ~slipped'
               PROVE  Notional(LiveFor("BUY"))' <= cash'
    BY DEF BuysFunded
  <2> DEFINE L == LiveFor("BUY")
  <2>1. L \in SUBSET Reservations
    BY WhoIsLive
  <2>2. ~slipped /\ cash' >= cash - SetAside(r)
    <3>1. SetAside(r) \in Nat
      BY <1>2 DEF SetAside
    <3>2. ~(slipped \/ cash' < cash - SetAside(r))
      BY <1>1, Zenon
    <3>3. ~slipped /\ ~(cash' < cash - SetAside(r))
      BY <3>2, Zenon
    <3> QED
      BY <1>2, <1>4, <3>1, <3>3
  <2>3. Notional(L) <= cash /\ Notional(L) \in Nat
    BY <1>0, <2>1, <2>2, SumsAreNat DEF BuysFunded
  <2>4. LiveFor("BUY")' = L \ {r}
    BY <1>3, <1>5, WhoIsLive, WhoIsLiveNext
  <2>5. SumFunctionOnSet(NotionalOf', L \ {r}) = Notional(L \ {r}) /\ Notional(L \ {r}) \in Nat
    <3> HIDE DEF L
    <3>1. L \ {r} \in SUBSET Reservations
      BY <2>1
    <3> QED
      BY <1>0, <1>3, <3>1, SumsKeep, SumsAreNat
  <2>6. Notional(LiveFor("BUY"))' = Notional(L \ {r})
    BY <2>4, <2>5, NextSums, Zenon
  <2>7. CASE reservation[r].side = "BUY"
    <3>1. r \in L
      BY <1>1, <2>7, WhoIsLive
    <3>2. Notional(L) = reservation[r].notional + Notional(L \ {r})
      BY <1>0, <2>1, <3>1, OneLess
    <3>3. SetAside(r) = reservation[r].notional
      BY <2>7 DEF SetAside
    <3> HIDE DEF L
    <3> QED
      BY <1>2, <1>4, <2>2, <2>3, <2>5, <2>6, <3>2, <3>3
  <2>8. CASE reservation[r].side # "BUY"
    <3>1. Notional(L \ {r}) <= Notional(L)
      <4> HIDE DEF L
      <4>1. L \ {r} \in SUBSET L
        OBVIOUS
      <4> QED
        BY <1>0, <2>1, <4>1, FewerAreLess
    <3>2. SetAside(r) = 0
      BY <2>8 DEF SetAside
    <3> HIDE DEF L
    <3> QED
      BY <1>2, <1>4, <2>2, <2>3, <2>5, <2>6, <3>1, <3>2
  <2> QED
    BY <2>7, <2>8
<1>10. ASSUME NEW d \in Sides, NEW t \in Symbols
       PROVE  /\ Quantity(FilledFor(d, t))' =
                    IF d = reservation[r].side /\ t = s THEN n + Quantity(FilledFor(d, t))
                    ELSE Quantity(FilledFor(d, t))
              /\ Quantity(FilledFor(d, t)) \in Nat
  <2> DEFINE C == FilledFor(d, t)
  <2>1. C \in SUBSET Reservations /\ r \notin C
    BY <1>6 DEF FilledFor
  <2>2. CASE d = reservation[r].side /\ t = s
    <3>1. FilledFor(d, t)' = C \cup {r}
      BY <1>3, <2>2 DEF FilledFor, s
    <3>2. SumFunctionOnSet(QtyOf', C \cup {r}) = n + Quantity(C)
      <4> HIDE DEF C
      <4> QED
        BY <1>0, <1>3, <1>7, <2>1, OneMore DEF n
    <3>3. Quantity(FilledFor(d, t))' = n + Quantity(C)
      BY <3>1, <3>2, NextSums, Zenon
    <3> QED
      BY <1>0, <2>1, <2>2, <3>3, SumsAreNat
  <2>3. CASE ~(d = reservation[r].side /\ t = s)
    <3>1. FilledFor(d, t)' = C
      BY <1>3, <1>6, <2>3 DEF FilledFor, s
    <3>2. SumFunctionOnSet(QtyOf', C) = Quantity(C)
      <4> HIDE DEF C
      <4> QED
        BY <1>0, <1>3, <2>1, SumsKeep
    <3>3. Quantity(FilledFor(d, t))' = Quantity(C)
      BY <3>1, <3>2, NextSums, Zenon
    <3> QED
      BY <1>0, <2>1, <2>3, <3>3, SumsAreNat
  <2> QED
    BY <2>2, <2>3
<1>11. PositionsExplained'
  <2> SUFFICES ASSUME NEW t \in Symbols
               PROVE  position'[t].qty = Quantity(FilledFor("BUY", t))' - Quantity(FilledFor("SELL", t))'
    BY DEF PositionsExplained
  <2>1. position[t].qty = Quantity(FilledFor("BUY", t)) - Quantity(FilledFor("SELL", t))
    BY <1>0 DEF PositionsExplained
  <2>2. "BUY" \in Sides /\ "SELL" \in Sides /\ (reservation[r].side = "BUY" \/ reservation[r].side = "SELL")
    BY <1>2 DEF Sides
  <2> QED
    BY <1>2, <1>4, <1>10, <2>1, <2>2
<1>12. PostedOnce'
  <2>1. \A g \in References : IF g = f THEN ledger'[g] = r ELSE ledger'[g] = ledger[g]
    BY <1>0, <1>1 DEF TypeOK
  <2>2. \A g \in References : ledger[g] # r
    BY <1>0, <1>6 DEF PostedOnce
  <2>3. ASSUME NEW x \in Reservations, x # r
        PROVE  \A g \in References : ledger'[g] = x <=> ledger[g] = x
    BY <1>1, <2>1, <2>3, PRAssumption
  <2>4. ASSUME NEW x \in Reservations, x # r
        PROVE  IF reservation'[x].status = "consumed"
               THEN \E h \in References : \A g \in References : ledger'[g] = x <=> g = h
               ELSE \A h \in References : ledger'[h] # x
    BY <1>0, <1>3, <2>3, <2>4 DEF PostedOnce
  <2>5. \A g \in References : ledger'[g] = r <=> g = f
    BY <2>1, <2>2
  <2> QED
    BY <1>3, <2>4, <2>5 DEF PostedOnce
<1> QED
  BY <1>7, <1>8, <1>9, <1>11, <1>12 DEF CoverInv

\* The other steps let go of reservations, or leave them alone.
LEMMA OthersKeep ==
    ASSUME CoverInv,
           \/ \E r \in Reservations : ReleaseReservation(r) \/ ReservationExpires(r)
           \/ \E on \in BOOLEAN : SetTradingEnabled(on)
           \/ NextDay
           \/ UNCHANGED vars
    PROVE  CoverInv'
<1>0. TypeOK
  BY DEF CoverInv
<1>1. /\ UNCHANGED <<cash, position, ledger, slipped>>
      /\ enabled' \in BOOLEAN /\ lossReached' \in BOOLEAN
  BY <1>0 DEF TypeOK, ReleaseReservation, ReservationExpires, SetTradingEnabled, NextDay, vars
<1>2. ASSUME NEW r \in Reservations, NEW x, x \in {reservation[r],
                [reservation[r] EXCEPT !.status = "released"], [reservation[r] EXCEPT !.late = TRUE]},
             Active(r) \/ x = reservation[r]
      PROVE  /\ x \in ReservationRows
             /\ x.side = reservation[r].side /\ x.symbol = reservation[r].symbol
             /\ x.qty = reservation[r].qty /\ x.notional = reservation[r].notional
             /\ x.status = "consumed" <=> reservation[r].status = "consumed"
             /\ x.status = "none" <=> reservation[r].status = "none"
             /\ x.status = "active" /\ ~x.late => Live(r)
  BY <1>0, <1>2 DEF TypeOK, ReservationRows, Active, Live
<1>3. /\ reservation' = [r \in Reservations |-> reservation'[r]]
      /\ \A r \in Reservations :
            /\ reservation'[r] \in {reservation[r], [reservation[r] EXCEPT !.status = "released"],
                                   [reservation[r] EXCEPT !.late = TRUE]}
            /\ Active(r) \/ reservation'[r] = reservation[r]
  <2>1. CASE \E r \in Reservations : ReleaseReservation(r) \/ ReservationExpires(r)
    BY <1>0, <2>1 DEF ReleaseReservation, ReservationExpires, TypeOK, Live
  <2>2. CASE \E on \in BOOLEAN : SetTradingEnabled(on)
    BY <1>0, <2>2 DEF SetTradingEnabled, Stopped, TypeOK
  <2>3. CASE NextDay \/ UNCHANGED vars
    BY <1>0, <2>3 DEF NextDay, vars, TypeOK
  <2> QED
    BY <2>1, <2>2, <2>3
<1>4. \A r \in Reservations :
         /\ reservation'[r] \in ReservationRows
         /\ reservation'[r].side = reservation[r].side /\ reservation'[r].symbol = reservation[r].symbol
         /\ reservation'[r].qty = reservation[r].qty /\ reservation'[r].notional = reservation[r].notional
         /\ reservation'[r].status = "consumed" <=> reservation[r].status = "consumed"
         /\ reservation'[r].status = "none" <=> reservation[r].status = "none"
         /\ reservation'[r].status = "active" /\ ~reservation'[r].late => Live(r)
  BY <1>2, <1>3
<1>5. TypeOK'
  BY <1>0, <1>1, <1>3, <1>4 DEF TypeOK
<1>6. \A r \in Reservations : Live(r)' => Live(r)
  BY <1>4 DEF Live, Active
<1> QED
  BY <1>1, <1>4, <1>5, <1>6, LettingGo

\* So every step keeps it.
LEMMA CoverStep == CoverInv /\ [Next]_vars => CoverInv'
BY EvaluateKeeps, FillKeeps, OthersKeep DEF Next

\* ReservationsAreCovered: whatever is reserved, filled, released, swept or switched off,
\* and in whatever order, the stock and the cash that reservations count on are there and
\* the ledger explains the positions (portfolio_service.py).
THEOREM CoveredReservations == Spec => []ReservationsAreCovered
<1>1. CoverInv => ReservationsAreCovered
  <2> SUFFICES ASSUME CoverInv PROVE ReservationsAreCovered
    OBVIOUS
  <2>1. \A s \in Symbols : position[s].qty = Quantity(FilledFor("BUY", s)) - Quantity(FilledFor("SELL", s))
    BY DEF CoverInv, PositionsExplained
  <2>2. ASSUME NEW r \in Reservations
        PROVE  Cardinality({f \in References : ledger[f] = r}) = IF reservation[r].status = "consumed" THEN 1 ELSE 0
    <3>1. CASE reservation[r].status = "consumed"
      <4>1. PICK f \in References : \A g \in References : ledger[g] = r <=> g = f
        BY <3>1 DEF CoverInv, PostedOnce
      <4>2. {g \in References : ledger[g] = r} = {f}
        BY <4>1
      <4> QED
        BY <3>1, <4>2, FS_Singleton
    <3>2. CASE reservation[r].status # "consumed"
      <4>1. {g \in References : ledger[g] = r} = {}
        BY <3>2 DEF CoverInv, PostedOnce
      <4> QED
        BY <3>2, <4>1, FS_EmptySet
    <3> QED
      BY <3>1, <3>2
  <2>3. LedgerExplainsPositions
    BY <2>1, <2>2 DEF LedgerExplainsPositions, FilledFor
  <2> QED
    BY <2>3 DEF CoverInv, ReservationsAreCovered
<1> QED
  BY <1>1, CoverInit, CoverStep, PTL DEF Spec

-----------------------------------------------------------------------------
(***************************************************************************)
(* Alerts and watches. AlertsAreTrue is inductive itself; the alerts and   *)
(* the watches share no variable but the count of changes of the world.    *)
(***************************************************************************)
AlertRows == [rule : AlertRules, status : {"active", "acknowledged", "resolved"}]
WatchRows == [kind : Kinds, key : WatchKeys, status : {"active", "triggered", "removed"},
              value : {"unread", "met", "unmet"}]
Evaluations == [pc : {"idle", "backups", "commit"}, seen : SUBSET AlertRules]
Checks == [pc : {"idle", "checking"}, listed : SUBSET Nat]

\* The property in two halves, as the tables are two.
AlertsObserved ==
    /\ {alerts[i].rule : i \in {j \in DOMAIN alerts : alerts[j].status # "resolved"}} = lastSeen
    /\ \A i, j \in DOMAIN alerts : alerts[i].status # "resolved" /\ alerts[j].status # "resolved"
                                     /\ alerts[i].rule = alerts[j].rule => i = j

WatchesApart ==
    \A i, j \in DOMAIN watches : watches[i].status = "active" /\ watches[j].status = "active"
                                   /\ watches[i].kind = "watch" /\ watches[j].kind = "watch"
                                   /\ watches[i].key = watches[j].key => i = j

\* The two tables are apart: so are the halves of the property.
LEMMA TwoHalves == OpenAlertsAreObserved <=> AlertsObserved /\ WatchesApart
BY DEF OpenAlertsAreObserved, AlertsObserved, WatchesApart

LEMMA TwoHalvesNext == AlertsAreTrue' <=> AlertTypeOK' /\ AlertsObserved' /\ WatchesApart'
BY DEF AlertsAreTrue, OpenAlertsAreObserved, AlertsObserved, WatchesApart

\* The type invariant in named sets of rows.
LEMMA AlertTypes ==
    AlertTypeOK <=> /\ trouble \subseteq AlertRules /\ lastSeen \subseteq AlertRules
                    /\ alerts \in Seq(AlertRows) /\ evaluation \in [Evaluators -> Evaluations]
                    /\ check \in [Evaluators -> Checks]
                    /\ \A p \in Evaluators : check[p].listed \subseteq DOMAIN watches
                    /\ watches \in Seq(WatchRows) /\ met \subseteq WatchKeys /\ shifts \in 0..MaxShifts
BY DEF AlertTypeOK, AlertRows, WatchRows, Evaluations, Checks

LEMMA AlertTypesNext ==
    AlertTypeOK' <=> /\ trouble' \subseteq AlertRules /\ lastSeen' \subseteq AlertRules
                     /\ alerts' \in Seq(AlertRows) /\ evaluation' \in [Evaluators -> Evaluations]
                     /\ check' \in [Evaluators -> Checks]
                     /\ \A p \in Evaluators : check'[p].listed \subseteq DOMAIN watches'
                     /\ watches' \in Seq(WatchRows) /\ met' \subseteq WatchKeys /\ shifts' \in 0..MaxShifts
BY DEF AlertTypeOK, AlertRows, WatchRows, Evaluations, Checks

\* Every element of a finite set comes up once in the sequence made of it.
LEMMA EachOnce ==
    ASSUME NEW S, IsFiniteSet(S)
    PROVE  /\ Cardinality(S) \in Nat
           /\ SetToSeq(S) \in [1..Cardinality(S) -> S]
           /\ \A i, j \in 1..Cardinality(S) : SetToSeq(S)[i] = SetToSeq(S)[j] => i = j
           /\ \A x \in S : \E i \in 1..Cardinality(S) : SetToSeq(S)[i] = x
<1> DEFINE D == 1..Cardinality(S)
           f == SetToSeq(S)
<1>1. Cardinality(S) \in Nat /\ ExistsBijection(D, S)
  BY FS_CardinalityType
<1>2. \E g \in [D -> S] : IsInjective(g)
  BY <1>1 DEF ExistsBijection, Bijection, Injection
<1>3. f \in [D -> S] /\ IsInjective(f)
  BY <1>2 DEF SetToSeq
<1>4. f \in Injection(D, S)
  BY <1>3 DEF Injection
<1>5. Cardinality(D) = Cardinality(S)
  <2>1. Cardinality(1..Cardinality(S)) = Cardinality(S) - 1 + 1
    BY <1>1, FS_Interval
  <2> QED
    BY <1>1, <2>1
<1>6. f \in Surjection(D, S)
  BY <1>4, <1>5, FS_Injection
<1>7. /\ f \in [D -> S]
      /\ \A i, j \in D : f[i] = f[j] => i = j
      /\ \A x \in S : \E i \in D : f[i] = x
  <2> HIDE DEF f, D
  <2> QED
    BY <1>3, <1>6 DEF IsInjective, Surjection
<1> QED
  BY <1>1, <1>7

\* What a sequence made of two is, place by place.
LEMMA Joined ==
    ASSUME NEW S, NEW s \in Seq(S), NEW t \in Seq(S)
    PROVE  /\ s \o t \in Seq(S) /\ Len(s \o t) = Len(s) + Len(t)
           /\ \A i \in 1..Len(s) : (s \o t)[i] = s[i]
           /\ \A i \in 1..Len(t) : (s \o t)[Len(s) + i] = t[i]
OBVIOUS

LEMMA MaxOfOne == \A i \in Int : Max({i}) = i
BY DEF Max

\* Where a rule has at most one open alert, that one is its current one.
LEMMA CurrentIsTheOpenOne ==
    ASSUME AlertTypeOK, AlertsObserved, NEW rule
    PROVE  Current(rule) = {i \in DOMAIN alerts : alerts[i].rule = rule /\ alerts[i].status # "resolved"}
<1> DEFINE open == {i \in DOMAIN alerts : alerts[i].rule = rule /\ Open(alerts[i])}
           O == {i \in DOMAIN alerts : alerts[i].rule = rule /\ alerts[i].status # "resolved"}
<1>1. alerts \in Seq(AlertRows)
  BY AlertTypes
<1>2. open = O
  <2>1. \A i \in DOMAIN alerts : alerts[i] \in AlertRows
    BY <1>1
  <2>2. \A i \in DOMAIN alerts : Open(alerts[i]) <=> alerts[i].status # "resolved"
    BY <2>1 DEF Open, AlertRows
  <2> QED
    BY <2>2
<1>3. Current(rule) = IF open = {} THEN {} ELSE {Max(open)}
  BY DEF Current
<1>4. CASE O = {}
  BY <1>2, <1>3, <1>4
<1>5. CASE O # {}
  <2>1. PICK i \in O : TRUE
    BY <1>5
  <2>2. O = {i}
    BY <2>1 DEF AlertsObserved
  <2>3. i \in Int
    BY <1>1, <2>1
  <2>4. Max(O) = i
    <3> HIDE DEF O
    <3> QED
      BY <2>2, <2>3, MaxOfOne
  <2> HIDE DEF O, open
  <2>5. Current(rule) = {Max(open)}
    BY <1>2, <1>3, <1>5
  <2>6. Current(rule) = O
    BY <1>2, <2>2, <2>4, <2>5
  <2> QED
    BY <2>6 DEF O
<1> QED
  BY <1>4, <1>5

\* An empty platform has no alert and no watch.
LEMMA AlertsInit == AlertInit => AlertsAreTrue
<1> SUFFICES ASSUME AlertInit PROVE AlertsAreTrue
  OBVIOUS
<1>1. NotEvaluating \in Evaluations /\ NotChecking \in Checks /\ NotChecking.listed = {}
  BY DEF NotEvaluating, NotChecking, Evaluations, Checks
<1> HIDE DEF NotEvaluating, NotChecking
<1>2. evaluation \in [Evaluators -> Evaluations] /\ check \in [Evaluators -> Checks]
      /\ \A p \in Evaluators : check[p].listed = {}
  BY <1>1 DEF AlertInit
<1>3. AlertTypeOK
  BY <1>2, AlertTypes, PAAssumption DEF AlertInit
<1>4. AlertsObserved /\ WatchesApart
  BY DEF AlertInit, AlertsObserved, WatchesApart
<1> QED
  BY <1>3, <1>4, TwoHalves DEF AlertsAreTrue

\* The transaction over the rules.
LEMMA CommitKeeps ==
    ASSUME AlertsAreTrue, NEW p \in Evaluators, CommitEvaluation(p)
    PROVE  /\ alerts' \in Seq(AlertRows) /\ lastSeen' \subseteq AlertRules
           /\ AlertsObserved'
           /\ \A i \in DOMAIN alerts : /\ alerts[i].status = "resolved" => alerts'[i].status = "resolved"
                                       /\ alerts[i].status = "acknowledged" => alerts'[i].status # "active"
<1> DEFINE seen == evaluation[p].seen
           M == Missing(seen)
           R == Resolved(seen)
           order == SetToSeq(M)
           kept == [i \in DOMAIN alerts |-> IF i \in R THEN [alerts[i] EXCEPT !.status = "resolved"] ELSE alerts[i]]
           new == [i \in 1..Cardinality(M) |-> [rule |-> order[i], status |-> "active"]]
           n == Len(alerts)
           m == Cardinality(M)
<1>0. AlertTypeOK /\ AlertsObserved
  BY TwoHalves DEF AlertsAreTrue
<1>1. /\ alerts \in Seq(AlertRows) /\ seen \subseteq AlertRules /\ n \in Nat /\ DOMAIN alerts = 1..n
  BY <1>0, AlertTypes DEF Evaluations
<1>2. alerts' = kept \o new /\ lastSeen' = seen
  BY DEF CommitEvaluation
<1>3. /\ \A x : x \in R <=> x \in DOMAIN alerts /\ alerts[x].rule \notin seen /\ alerts[x].status # "resolved"
      /\ \A x : x \in M <=> x \in seen /\ x \notin lastSeen
  <2>1. \A rule : Current(rule) = {i \in DOMAIN alerts : alerts[i].rule = rule /\ alerts[i].status # "resolved"}
    BY <1>0, CurrentIsTheOpenOne
  <2>2. \A i \in DOMAIN alerts : alerts[i].rule \in AlertRules
    <3>1. \A i \in DOMAIN alerts : alerts[i] \in AlertRows
      BY <1>1
    <3> QED
      BY <3>1 DEF AlertRows
  <2>3. \A x : x \in R <=> x \in DOMAIN alerts /\ alerts[x].rule \notin seen /\ alerts[x].status # "resolved"
    BY <2>1, <2>2 DEF Resolved
  <2>4. \A x : x \in M <=> x \in seen /\ x \notin lastSeen
    <3>1. \A rule : Current(rule) = {} <=> rule \notin lastSeen
      BY <1>0, <2>1 DEF AlertsObserved
    <3> QED
      BY <3>1 DEF Missing
  <2> QED
    BY <2>3, <2>4
<1>4. /\ m \in Nat /\ order \in [1..m -> M]
      /\ \A i, j \in 1..m : order[i] = order[j] => i = j
      /\ \A x \in M : \E i \in 1..m : order[i] = x
  <2>1. IsFiniteSet(M)
    BY <1>1, <1>3, PAAssumption, FS_Subset
  <2> HIDE DEF M
  <2> QED
    BY <2>1, EachOnce
<1>5. /\ kept \in Seq(AlertRows) /\ Len(kept) = n
      /\ \A i \in 1..n : /\ kept[i].rule = alerts[i].rule
                         /\ kept[i].status # "resolved" <=> alerts[i].status # "resolved" /\ alerts[i].rule \in seen
                         /\ kept[i].status = "resolved" \/ kept[i].status = alerts[i].status
  <2>1. ASSUME NEW i \in 1..n
        PROVE  /\ kept[i] \in AlertRows
               /\ kept[i].rule = alerts[i].rule
               /\ kept[i].status # "resolved" <=> alerts[i].status # "resolved" /\ alerts[i].rule \in seen
               /\ kept[i].status = "resolved" \/ kept[i].status = alerts[i].status
    <3>1. alerts[i] \in AlertRows
      BY <1>1
    <3>2. CASE i \in R
      <4>1. kept[i] = [alerts[i] EXCEPT !.status = "resolved"]
        BY <1>1, <3>2
      <4>2. alerts[i].rule \notin seen
        BY <1>3, <3>2
      <4> HIDE DEF kept, R, seen
      <4> QED
        BY <3>1, <4>1, <4>2 DEF AlertRows
    <3>3. CASE i \notin R
      <4>1. kept[i] = alerts[i]
        BY <1>1, <3>3
      <4>2. alerts[i].rule \in seen \/ alerts[i].status = "resolved"
        BY <1>1, <1>3, <3>3
      <4> HIDE DEF kept, R, seen
      <4> QED
        BY <3>1, <4>1, <4>2
    <3> QED
      BY <3>2, <3>3
  <2>2. kept \in [1..n -> AlertRows]
    <3> HIDE DEF R
    <3> QED
      BY <1>1, <2>1
  <2> HIDE DEF kept, n
  <2> QED
    BY <1>1, <2>1, <2>2
<1>6. /\ new \in Seq(AlertRows) /\ Len(new) = m
      /\ \A i \in 1..m : new[i].rule = order[i] /\ new[i].status = "active"
  <2> HIDE DEF order, M, m
  <2>1. \A i \in 1..m : order[i] \in AlertRules
    BY <1>1, <1>3, <1>4
  <2>2. new \in [1..m -> AlertRows]
    BY <2>1 DEF AlertRows, m
  <2>3. new \in Seq(AlertRows) /\ Len(new) = m
    <3> HIDE DEF new
    <3> QED
      BY <1>4, <2>2
  <2> QED
    BY <2>3 DEF m
<1>7. /\ alerts' \in Seq(AlertRows) /\ Len(alerts') = n + m
      /\ \A i \in 1..n : alerts'[i] = kept[i]
      /\ \A i \in 1..m : alerts'[n + i] = new[i]
      /\ \A i \in 1..(n + m) : i \in 1..n \/ \E k \in 1..m : i = n + k
  <2> HIDE DEF kept, new, n, m
  <2>1. alerts' \in Seq(AlertRows) /\ Len(alerts') = n + m
    BY <1>2, <1>5, <1>6, Joined
  <2>2. \A i \in 1..n : alerts'[i] = kept[i]
    BY <1>2, <1>5, <1>6, Joined
  <2>3. \A i \in 1..m : alerts'[n + i] = new[i]
    BY <1>2, <1>5, <1>6, Joined
  <2>4. ASSUME NEW i \in 1..(n + m), i \notin 1..n PROVE \E k \in 1..m : i = n + k
    <3>1. i - n \in 1..m /\ i = n + (i - n)
      BY <1>1, <1>4, <2>4
    <3> QED
      BY <3>1
  <2> QED
    BY <2>1, <2>2, <2>3, <2>4
<1> HIDE DEF kept, new, order, M, R, seen
<1>8. DOMAIN alerts' = 1..(n + m)
  BY <1>7
<1>9. /\ \A i \in 1..n : /\ alerts'[i].rule = alerts[i].rule
                         /\ alerts'[i].status # "resolved" <=> alerts[i].status # "resolved" /\ alerts[i].rule \in seen
                         /\ alerts'[i].status = "resolved" \/ alerts'[i].status = alerts[i].status
      /\ \A i \in 1..m : alerts'[n + i].rule = order[i] /\ alerts'[n + i].status = "active"
  BY <1>5, <1>6, <1>7
<1>10. \A i, j \in DOMAIN alerts' : alerts'[i].status # "resolved" /\ alerts'[j].status # "resolved"
                                     /\ alerts'[i].rule = alerts'[j].rule => i = j
  <2> SUFFICES ASSUME NEW i \in 1..(n + m), NEW j \in 1..(n + m), alerts'[i].status # "resolved",
                      alerts'[j].status # "resolved", alerts'[i].rule = alerts'[j].rule
               PROVE  i = j
    BY <1>8
  <2>1. ASSUME NEW k \in 1..n, NEW l \in 1..m, alerts'[k].status # "resolved", alerts'[k].rule = order[l]
        PROVE  FALSE
    <3>1. alerts[k].status # "resolved" /\ alerts[k].rule = order[l] /\ k \in DOMAIN alerts
      BY <1>1, <1>9, <2>1
    <3>2. alerts[k].rule \in lastSeen
      BY <1>0, <3>1 DEF AlertsObserved
    <3>3. order[l] \in M
      BY <1>4
    <3> QED
      BY <1>3, <3>1, <3>2, <3>3
  <2>2. CASE i \in 1..n /\ j \in 1..n
    BY <1>0, <1>1, <1>9, <2>2 DEF AlertsObserved
  <2>3. CASE i \in 1..n /\ \E k \in 1..m : j = n + k
    BY <1>9, <2>1, <2>3
  <2>4. CASE j \in 1..n /\ \E k \in 1..m : i = n + k
    BY <1>9, <2>1, <2>4
  <2>5. CASE (\E k \in 1..m : i = n + k) /\ (\E k \in 1..m : j = n + k)
    BY <1>4, <1>9, <2>5
  <2> QED
    BY <1>7, <2>2, <2>3, <2>4, <2>5
<1>11. {alerts'[i].rule : i \in {j \in DOMAIN alerts' : alerts'[j].status # "resolved"}} = seen
  <2>1. ASSUME NEW i \in 1..(n + m), alerts'[i].status # "resolved"
        PROVE  alerts'[i].rule \in seen
    <3>1. CASE i \in 1..n
      BY <1>9, <2>1, <3>1
    <3>2. CASE \E k \in 1..m : i = n + k
      <4>1. PICK k \in 1..m : i = n + k
        BY <3>2
      <4>2. order[k] \in M
        BY <1>4
      <4> QED
        BY <1>3, <1>9, <4>1, <4>2
    <3> QED
      BY <1>7, <3>1, <3>2
  <2>2. ASSUME NEW x \in seen
        PROVE  \E i \in 1..(n + m) : alerts'[i].status # "resolved" /\ alerts'[i].rule = x
    <3>1. CASE x \in lastSeen
      <4>1. PICK i \in DOMAIN alerts : alerts[i].status # "resolved" /\ alerts[i].rule = x
        BY <1>0, <3>1 DEF AlertsObserved
      <4>2. i \in 1..n /\ i \in 1..(n + m)
        BY <1>1, <1>4
      <4> QED
        BY <1>9, <4>1, <4>2
    <3>2. CASE x \notin lastSeen
      <4>1. PICK k \in 1..m : order[k] = x
        BY <1>3, <1>4, <3>2
      <4>2. n + k \in 1..(n + m)
        BY <1>1, <1>4
      <4> QED
        BY <1>9, <4>1, <4>2
    <3> QED
      BY <3>1, <3>2
  <2> QED
    BY <1>8, <2>1, <2>2
<1>12. AlertsObserved'
  BY <1>2, <1>10, <1>11 DEF AlertsObserved
<1>13. \A i \in DOMAIN alerts : /\ alerts[i].status = "resolved" => alerts'[i].status = "resolved"
                                /\ alerts[i].status = "acknowledged" => alerts'[i].status # "active"
  BY <1>1, <1>9
<1> QED
  BY <1>1, <1>2, <1>7, <1>12, <1>13

\* The alerts move, the watches keep; what the alert actions leave alone.
LEMMA WatchesStill ==
    ASSUME AlertsAreTrue, UNCHANGED <<watches, met>>, UNCHANGED check
    PROVE  /\ check' \in [Evaluators -> Checks] /\ \A p \in Evaluators : check'[p].listed \subseteq DOMAIN watches'
           /\ watches' \in Seq(WatchRows) /\ met' \subseteq WatchKeys /\ WatchesApart'
           /\ watches' = watches
<1>1. AlertTypeOK /\ WatchesApart
  BY TwoHalves DEF AlertsAreTrue
<1> QED
  BY <1>1, AlertTypes DEF WatchesApart

\* Reading the tables and the files, or giving up, writes no alert.
LEMMA ObservationsKeep ==
    ASSUME AlertsAreTrue, NEW p \in Evaluators, ObserveTables(p) \/ ObserveBackups(p) \/ AbandonEvaluation(p)
    PROVE  AlertsAreTrue' /\ AlertsMoveOn /\ WatchesMoveOn
<1>1. AlertTypeOK /\ AlertsObserved
  BY TwoHalves DEF AlertsAreTrue
<1>2. /\ trouble \subseteq AlertRules /\ evaluation \in [Evaluators -> Evaluations]
      /\ alerts \in Seq(AlertRows) /\ lastSeen \subseteq AlertRules /\ shifts \in 0..MaxShifts
  BY <1>1, AlertTypes
<1>3. UNCHANGED <<trouble, alerts, lastSeen>> /\ UNCHANGED <<watches, met>> /\ UNCHANGED check /\ UNCHANGED shifts
  BY DEF ObserveTables, ObserveBackups, AbandonEvaluation, watchVars
<1>4. evaluation' \in [Evaluators -> Evaluations]
  <2>1. \E e \in Evaluations : evaluation' = [evaluation EXCEPT ![p] = e]
    <3>1. CASE ObserveTables(p)
      <4>1. [pc |-> "backups", seen |-> trouble \ {BackupRule}] \in Evaluations
        BY <1>2 DEF Evaluations
      <4> QED
        BY <3>1, <4>1 DEF ObserveTables
    <3>2. CASE ObserveBackups(p)
      <4> DEFINE e == [pc |-> "commit", seen |-> evaluation[p].seen \cup (trouble \cap {BackupRule})]
      <4>1. evaluation[p].seen \subseteq AlertRules
        BY <1>2 DEF Evaluations
      <4>2. e \in Evaluations
        BY <1>2, <4>1 DEF Evaluations
      <4>3. evaluation' = [evaluation EXCEPT ![p] = e]
        BY <1>2, <3>2 DEF ObserveBackups
      <4> QED
        BY <4>2, <4>3
    <3>3. CASE AbandonEvaluation(p)
      <4>1. NotEvaluating \in Evaluations
        BY DEF Evaluations, NotEvaluating
      <4> QED
        BY <3>3, <4>1 DEF AbandonEvaluation
    <3> QED
      BY <3>1, <3>2, <3>3
  <2> QED
    BY <1>2, <2>1
<1>5. AlertsObserved'
  BY <1>1, <1>3 DEF AlertsObserved
<1>6. AlertTypeOK' /\ WatchesApart'
  <2>1. /\ check' \in [Evaluators -> Checks] /\ \A q \in Evaluators : check'[q].listed \subseteq DOMAIN watches'
        /\ watches' \in Seq(WatchRows) /\ met' \subseteq WatchKeys /\ WatchesApart'
    BY <1>3, WatchesStill
  <2> QED
    BY <1>2, <1>3, <1>4, <2>1, AlertTypesNext
<1>7. AlertsMoveOn /\ WatchesMoveOn
  BY <1>3 DEF AlertsMoveOn, WatchesMoveOn
<1> QED
  BY <1>5, <1>6, <1>7, TwoHalvesNext

\* The transaction leaves the watches alone.
LEMMA CommitStep ==
    ASSUME AlertsAreTrue, NEW p \in Evaluators, CommitEvaluation(p)
    PROVE  AlertsAreTrue' /\ AlertsMoveOn /\ WatchesMoveOn
<1>1. AlertTypeOK
  BY DEF AlertsAreTrue
<1>2. trouble \subseteq AlertRules /\ evaluation \in [Evaluators -> Evaluations] /\ shifts \in 0..MaxShifts
  BY <1>1, AlertTypes
<1>3. UNCHANGED trouble /\ UNCHANGED <<watches, met>> /\ UNCHANGED check /\ UNCHANGED shifts
  BY DEF CommitEvaluation, watchVars
<1>4. evaluation' \in [Evaluators -> Evaluations]
  <2>1. NotEvaluating \in Evaluations
    BY DEF Evaluations, NotEvaluating
  <2> QED
    BY <1>2, <2>1 DEF CommitEvaluation
<1>5. alerts' \in Seq(AlertRows) /\ lastSeen' \subseteq AlertRules /\ AlertsObserved' /\ AlertsMoveOn
  BY CommitKeeps DEF AlertsMoveOn
<1>6. /\ check' \in [Evaluators -> Checks] /\ \A q \in Evaluators : check'[q].listed \subseteq DOMAIN watches'
      /\ watches' \in Seq(WatchRows) /\ met' \subseteq WatchKeys /\ WatchesApart' /\ watches' = watches
  BY <1>3, WatchesStill
<1>7. AlertTypeOK'
  BY <1>2, <1>3, <1>4, <1>5, <1>6, AlertTypesNext
<1>8. WatchesMoveOn
  BY <1>6 DEF WatchesMoveOn
<1> QED
  BY <1>5, <1>6, <1>7, <1>8, TwoHalvesNext

\* An acknowledged alert is open still, under the same rule.
LEMMA AcknowledgeStep ==
    ASSUME AlertsAreTrue, NEW i \in DOMAIN alerts, Acknowledge(i)
    PROVE  AlertsAreTrue' /\ AlertsMoveOn /\ WatchesMoveOn
<1>1. AlertTypeOK /\ AlertsObserved
  BY TwoHalves DEF AlertsAreTrue
<1>2. /\ trouble \subseteq AlertRules /\ evaluation \in [Evaluators -> Evaluations] /\ lastSeen \subseteq AlertRules
      /\ alerts \in Seq(AlertRows) /\ shifts \in 0..MaxShifts
  BY <1>1, AlertTypes
<1>3. /\ UNCHANGED <<trouble, evaluation, lastSeen>> /\ UNCHANGED <<watches, met>> /\ UNCHANGED check /\ UNCHANGED shifts
      /\ alerts[i].status = "active" /\ alerts' = [alerts EXCEPT ![i].status = "acknowledged"]
  BY DEF Acknowledge, watchVars, Acknowledgeable
<1>4. DOMAIN alerts = 1..Len(alerts) /\ alerts[i] \in AlertRows
  BY <1>2
<1> DEFINE row == [alerts[i] EXCEPT !.status = "acknowledged"]
<1>5. row \in AlertRows /\ row.rule = alerts[i].rule /\ row.status = "acknowledged"
  BY <1>4 DEF AlertRows
<1>6. alerts' = [alerts EXCEPT ![i] = row]
  BY <1>3
<1> HIDE DEF row
<1>7. /\ alerts' \in Seq(AlertRows) /\ DOMAIN alerts' = DOMAIN alerts /\ alerts'[i] = row
      /\ \A j \in DOMAIN alerts : j # i => alerts'[j] = alerts[j]
  BY <1>2, <1>5, <1>6
<1>8. \A j \in DOMAIN alerts : /\ alerts'[j].rule = alerts[j].rule
                               /\ alerts'[j].status # "resolved" <=> alerts[j].status # "resolved"
  BY <1>3, <1>5, <1>7
<1>9. AlertsObserved'
  <2>1. {alerts'[k].rule : k \in {j \in DOMAIN alerts' : alerts'[j].status # "resolved"}} =
        {alerts[k].rule : k \in {j \in DOMAIN alerts : alerts[j].status # "resolved"}}
    BY <1>7, <1>8
  <2>2. \A k, j \in DOMAIN alerts' : alerts'[k].status # "resolved" /\ alerts'[j].status # "resolved"
                                     /\ alerts'[k].rule = alerts'[j].rule => k = j
    BY <1>1, <1>7, <1>8 DEF AlertsObserved
  <2> QED
    BY <1>1, <1>3, <2>1, <2>2 DEF AlertsObserved
<1>10. /\ check' \in [Evaluators -> Checks] /\ \A q \in Evaluators : check'[q].listed \subseteq DOMAIN watches'
       /\ watches' \in Seq(WatchRows) /\ met' \subseteq WatchKeys /\ WatchesApart' /\ watches' = watches
  BY <1>3, WatchesStill
<1>11. AlertTypeOK'
  BY <1>2, <1>3, <1>7, <1>10, AlertTypesNext
<1>12. AlertsMoveOn
  BY <1>3, <1>5, <1>7 DEF AlertsMoveOn
<1>13. WatchesMoveOn
  BY <1>10 DEF WatchesMoveOn
<1> QED
  BY <1>9, <1>10, <1>11, <1>12, <1>13, TwoHalvesNext

\* The world changes under the alerts; they follow at the next evaluation.
LEMMA TroubleStep ==
    ASSUME AlertsAreTrue, NEW rule \in AlertRules, TroubleShifts(rule)
    PROVE  AlertsAreTrue' /\ AlertsMoveOn /\ WatchesMoveOn
<1>1. AlertTypeOK /\ AlertsObserved
  BY TwoHalves DEF AlertsAreTrue
<1>2. /\ trouble \subseteq AlertRules /\ evaluation \in [Evaluators -> Evaluations] /\ lastSeen \subseteq AlertRules
      /\ alerts \in Seq(AlertRows) /\ shifts \in 0..MaxShifts
  BY <1>1, AlertTypes
<1>3. UNCHANGED <<alerts, evaluation, lastSeen>> /\ UNCHANGED <<watches, met>> /\ UNCHANGED check
  BY DEF TroubleShifts, watchVars
<1>4. trouble' \subseteq AlertRules /\ shifts' \in 0..MaxShifts
  BY <1>2, PAAssumption DEF TroubleShifts
<1>5. /\ check' \in [Evaluators -> Checks] /\ \A q \in Evaluators : check'[q].listed \subseteq DOMAIN watches'
      /\ watches' \in Seq(WatchRows) /\ met' \subseteq WatchKeys /\ WatchesApart' /\ watches' = watches
  BY <1>3, WatchesStill
<1>6. AlertTypeOK'
  BY <1>2, <1>3, <1>4, <1>5, AlertTypesNext
<1>7. AlertsObserved' /\ AlertsMoveOn /\ WatchesMoveOn
  BY <1>1, <1>3 DEF AlertsObserved, AlertsMoveOn, WatchesMoveOn
<1> QED
  BY <1>5, <1>6, <1>7, TwoHalvesNext

\* The watches move, the alerts keep.
LEMMA AlertsStill ==
    ASSUME AlertsAreTrue, UNCHANGED <<trouble, alerts, evaluation, lastSeen>>
    PROVE  /\ trouble' \subseteq AlertRules /\ lastSeen' \subseteq AlertRules
           /\ alerts' \in Seq(AlertRows) /\ evaluation' \in [Evaluators -> Evaluations]
           /\ AlertsObserved' /\ AlertsMoveOn
<1>1. AlertTypeOK /\ AlertsObserved
  BY TwoHalves DEF AlertsAreTrue
<1> QED
  BY <1>1, AlertTypes DEF AlertsObserved, AlertsMoveOn

\* Rows that keep their kind and key, and never become active, keep the watches apart.
LEMMA RowsMoveOn ==
    ASSUME AlertsAreTrue, UNCHANGED <<trouble, alerts, evaluation, lastSeen>>,
           check' \in [Evaluators -> Checks], UNCHANGED <<met, shifts>>,
           \A p \in Evaluators : check'[p].listed \subseteq DOMAIN watches,
           watches' \in Seq(WatchRows), Len(watches') = Len(watches),
           \A i \in DOMAIN watches : /\ watches'[i].kind = watches[i].kind /\ watches'[i].key = watches[i].key
                                     /\ watches'[i].status = "active" => watches[i].status = "active"
                                     /\ watches[i].status = "removed" => watches'[i].status = "removed"
    PROVE  AlertsAreTrue' /\ AlertsMoveOn /\ WatchesMoveOn
<1>1. AlertTypeOK /\ WatchesApart
  BY TwoHalves DEF AlertsAreTrue
<1>2. watches \in Seq(WatchRows) /\ met \subseteq WatchKeys /\ shifts \in 0..MaxShifts
  BY <1>1, AlertTypes
<1>3. DOMAIN watches' = DOMAIN watches
  BY <1>2
<1>4. WatchesApart'
  BY <1>1, <1>3 DEF WatchesApart
<1>5. WatchesMoveOn
  BY DEF WatchesMoveOn
<1>6. AlertTypeOK' /\ AlertsObserved' /\ AlertsMoveOn
  BY <1>2, <1>3, AlertsStill, AlertTypesNext
<1> QED
  BY <1>4, <1>5, <1>6, TwoHalvesNext

\* A repeated watch is not stored twice.
LEMMA CreateStep ==
    ASSUME AlertsAreTrue, NEW kind \in Kinds, NEW key \in WatchKeys, CreateWatch(kind, key)
    PROVE  AlertsAreTrue' /\ AlertsMoveOn /\ WatchesMoveOn
<1> DEFINE row == [kind |-> kind, key |-> key, status |-> "active", value |-> "unread"]
           n == Len(watches)
<1>1. AlertTypeOK /\ WatchesApart
  BY TwoHalves DEF AlertsAreTrue
<1>2. /\ watches \in Seq(WatchRows) /\ met \subseteq WatchKeys /\ shifts \in 0..MaxShifts
      /\ check \in [Evaluators -> Checks] /\ \A p \in Evaluators : check[p].listed \subseteq DOMAIN watches
  BY <1>1, AlertTypes
<1>3. /\ UNCHANGED <<trouble, alerts, evaluation, lastSeen>> /\ UNCHANGED <<check, met, shifts>>
      /\ watches' = Append(watches, row) /\ ~(kind = "watch" /\ Watching(key))
  BY DEF CreateWatch, alertVars
<1>4. row \in WatchRows /\ row.kind = kind /\ row.key = key
  BY DEF WatchRows
<1> HIDE DEF row
<1>5. /\ watches' \in Seq(WatchRows) /\ n \in Nat /\ DOMAIN watches = 1..n /\ DOMAIN watches' = 1..(n + 1)
      /\ \A i \in 1..n : watches'[i] = watches[i]
      /\ watches'[n + 1] = row
  BY <1>2, <1>3, <1>4
<1>6. WatchesApart'
  <2>1. ASSUME NEW i \in 1..(n + 1), NEW j \in 1..(n + 1), watches'[i].status = "active", watches'[j].status = "active",
               watches'[i].kind = "watch", watches'[j].kind = "watch", watches'[i].key = watches'[j].key
        PROVE  i = j
    <3>1. \A k \in 1..(n + 1) : k \in 1..n \/ k = n + 1
      BY <1>5
    <3>2. ASSUME NEW k \in 1..n, watches[k].status = "active", watches[k].kind = "watch", watches[k].key = key,
                 kind = "watch"
          PROVE  FALSE
      BY <1>3, <1>5, <3>2 DEF Watching
    <3>3. CASE i \in 1..n /\ j \in 1..n
      BY <1>1, <1>5, <2>1, <3>3 DEF WatchesApart
    <3>4. CASE i \in 1..n /\ j = n + 1
      BY <1>4, <1>5, <2>1, <3>2, <3>4
    <3>5. CASE i = n + 1 /\ j \in 1..n
      BY <1>4, <1>5, <2>1, <3>2, <3>5
    <3> QED
      BY <3>1, <3>3, <3>4, <3>5
  <2> QED
    BY <1>5, <2>1 DEF WatchesApart
<1>7. \A p \in Evaluators : check'[p].listed \subseteq DOMAIN watches'
  BY <1>2, <1>3, <1>5
<1>8. AlertTypeOK' /\ AlertsObserved' /\ AlertsMoveOn
  BY <1>2, <1>3, <1>5, <1>7, AlertsStill, AlertTypesNext
<1>9. WatchesMoveOn
  <2>1. \A i \in DOMAIN watches : watches'[i] = watches[i]
    BY <1>5
  <2> QED
    BY <2>1 DEF WatchesMoveOn
<1> QED
  BY <1>6, <1>8, <1>9, TwoHalvesNext

\* One watch is removed, as any other row that only moves on.
LEMMA RemoveStep ==
    ASSUME AlertsAreTrue, NEW i \in DOMAIN watches, RemoveWatch(i)
    PROVE  AlertsAreTrue' /\ AlertsMoveOn /\ WatchesMoveOn
<1> DEFINE row == [watches[i] EXCEPT !.status = "removed"]
<1>1. AlertTypeOK
  BY DEF AlertsAreTrue
<1>2. /\ watches \in Seq(WatchRows) /\ check \in [Evaluators -> Checks]
      /\ \A p \in Evaluators : check[p].listed \subseteq DOMAIN watches
  BY <1>1, AlertTypes
<1>3. /\ UNCHANGED <<trouble, alerts, evaluation, lastSeen>> /\ UNCHANGED check /\ UNCHANGED <<met, shifts>>
      /\ watches' = [watches EXCEPT ![i] = row]
  BY DEF RemoveWatch, alertVars
<1>4. DOMAIN watches = 1..Len(watches) /\ watches[i] \in WatchRows
  BY <1>2
<1>5. row \in WatchRows /\ row.kind = watches[i].kind /\ row.key = watches[i].key /\ row.status = "removed"
  BY <1>4 DEF WatchRows
<1> HIDE DEF row
<1>6. /\ watches' \in Seq(WatchRows) /\ Len(watches') = Len(watches) /\ watches'[i] = row
      /\ \A j \in DOMAIN watches : j # i => watches'[j] = watches[j]
  BY <1>2, <1>3, <1>5
<1>7. \A j \in DOMAIN watches : /\ watches'[j].kind = watches[j].kind /\ watches'[j].key = watches[j].key
                                /\ watches'[j].status = "active" => watches[j].status = "active"
                                /\ watches[j].status = "removed" => watches'[j].status = "removed"
  BY <1>5, <1>6
<1> QED
  BY <1>2, <1>3, <1>6, <1>7, RowsMoveOn

\* All watches of the symbol are removed.
LEMMA RemoveSymbolStep ==
    ASSUME AlertsAreTrue, RemoveSymbol
    PROVE  AlertsAreTrue' /\ AlertsMoveOn /\ WatchesMoveOn
<1> DEFINE Row(i) == IF watches[i].kind = "watch" THEN [watches[i] EXCEPT !.status = "removed"] ELSE watches[i]
<1>1. AlertTypeOK
  BY DEF AlertsAreTrue
<1>2. /\ watches \in Seq(WatchRows) /\ check \in [Evaluators -> Checks]
      /\ \A p \in Evaluators : check[p].listed \subseteq DOMAIN watches
  BY <1>1, AlertTypes
<1>3. /\ UNCHANGED <<trouble, alerts, evaluation, lastSeen>> /\ UNCHANGED check /\ UNCHANGED <<met, shifts>>
      /\ watches' = [i \in DOMAIN watches |-> Row(i)]
  BY DEF RemoveSymbol, alertVars
<1>4. ASSUME NEW i \in DOMAIN watches
      PROVE  /\ Row(i) \in WatchRows /\ Row(i).kind = watches[i].kind /\ Row(i).key = watches[i].key
             /\ Row(i).status = watches[i].status \/ Row(i).status = "removed"
  <2>1. watches[i] \in WatchRows
    BY <1>2
  <2> QED
    BY <2>1 DEF WatchRows
<1> HIDE DEF Row
<1>5. DOMAIN watches = 1..Len(watches) /\ Len(watches) \in Nat
  BY <1>2
<1>6. watches' \in [1..Len(watches) -> WatchRows] /\ \A i \in DOMAIN watches : watches'[i] = Row(i)
  BY <1>3, <1>4, <1>5
<1>7. watches' \in Seq(WatchRows) /\ Len(watches') = Len(watches)
  BY <1>5, <1>6
<1>8. \A j \in DOMAIN watches : /\ watches'[j].kind = watches[j].kind /\ watches'[j].key = watches[j].key
                                /\ watches'[j].status = "active" => watches[j].status = "active"
                                /\ watches[j].status = "removed" => watches'[j].status = "removed"
  BY <1>4, <1>6
<1> QED
  BY <1>2, <1>3, <1>7, <1>8, RowsMoveOn

\* An evaluation updates the rows it had listed: what was removed meanwhile stays removed.
LEMMA CheckStep ==
    ASSUME AlertsAreTrue, NEW p \in Evaluators, CheckWatches(p)
    PROVE  AlertsAreTrue' /\ AlertsMoveOn /\ WatchesMoveOn
<1>1. AlertTypeOK
  BY DEF AlertsAreTrue
<1>2. /\ watches \in Seq(WatchRows) /\ check \in [Evaluators -> Checks]
      /\ \A q \in Evaluators : check[q].listed \subseteq DOMAIN watches
  BY <1>1, AlertTypes
<1>3. PICK unread \in SUBSET WatchKeys :
         watches' = [i \in DOMAIN watches |-> IF i \in check[p].listed THEN Checked(i, unread) ELSE watches[i]]
  BY DEF CheckWatches
<1> DEFINE Row(i) == IF i \in check[p].listed THEN Checked(i, unread) ELSE watches[i]
<1>4. /\ UNCHANGED <<trouble, alerts, evaluation, lastSeen>> /\ UNCHANGED <<met, shifts>>
      /\ check' = [check EXCEPT ![p] = NotChecking]
      /\ watches' = [i \in DOMAIN watches |-> Row(i)]
  BY <1>3 DEF CheckWatches, alertVars
<1>5. ASSUME NEW i \in DOMAIN watches
      PROVE  /\ Row(i) \in WatchRows /\ Row(i).kind = watches[i].kind /\ Row(i).key = watches[i].key
             /\ Row(i).status = "active" => watches[i].status = "active"
             /\ watches[i].status = "removed" => Row(i).status = "removed"
  <2>1. watches[i] \in WatchRows
    BY <1>2
  <2>2. /\ Checked(i, unread) \in WatchRows
        /\ Checked(i, unread).kind = watches[i].kind /\ Checked(i, unread).key = watches[i].key
        /\ Checked(i, unread).status = "active" => watches[i].status = "active"
        /\ watches[i].status = "removed" => Checked(i, unread).status = "removed"
    BY <2>1 DEF WatchRows, Checked
  <2> QED
    BY <2>1, <2>2
<1> HIDE DEF Row
<1>6. DOMAIN watches = 1..Len(watches) /\ Len(watches) \in Nat
  BY <1>2
<1>7. watches' \in [1..Len(watches) -> WatchRows] /\ \A i \in DOMAIN watches : watches'[i] = Row(i)
  BY <1>4, <1>5, <1>6
<1>8. watches' \in Seq(WatchRows) /\ Len(watches') = Len(watches)
  BY <1>6, <1>7
<1>9. \A j \in DOMAIN watches : /\ watches'[j].kind = watches[j].kind /\ watches'[j].key = watches[j].key
                                /\ watches'[j].status = "active" => watches[j].status = "active"
                                /\ watches[j].status = "removed" => watches'[j].status = "removed"
  BY <1>5, <1>7
<1>10. check' \in [Evaluators -> Checks] /\ \A q \in Evaluators : check'[q].listed \subseteq DOMAIN watches
  <2>1. NotChecking \in Checks /\ NotChecking.listed = {}
    BY DEF Checks, NotChecking
  <2> QED
    BY <1>2, <1>4, <2>1
<1> QED
  BY <1>4, <1>8, <1>9, <1>10, RowsMoveOn

\* Listing writes nothing, and lists rows that are there.
LEMMA ListStep ==
    ASSUME AlertsAreTrue, NEW p \in Evaluators, NEW kind \in Kinds, ListWatches(p, kind)
    PROVE  AlertsAreTrue' /\ AlertsMoveOn /\ WatchesMoveOn
<1>1. AlertTypeOK
  BY DEF AlertsAreTrue
<1>2. /\ watches \in Seq(WatchRows) /\ check \in [Evaluators -> Checks]
      /\ \A q \in Evaluators : check[q].listed \subseteq DOMAIN watches
  BY <1>1, AlertTypes
<1> DEFINE c == [pc |-> "checking", listed |-> ActiveListed(kind)]
<1>3. /\ UNCHANGED <<trouble, alerts, evaluation, lastSeen>> /\ UNCHANGED watches /\ UNCHANGED <<met, shifts>>
      /\ check' = [check EXCEPT ![p] = c]
  BY DEF ListWatches, alertVars
<1>4. ActiveListed(kind) \subseteq DOMAIN watches
  BY DEF ActiveListed, Newest, Rows
<1>5. DOMAIN watches \subseteq Nat
  BY <1>2
<1>6. c \in Checks /\ c.listed \subseteq DOMAIN watches
  BY <1>4, <1>5 DEF Checks
<1> HIDE DEF c
<1>7. check' \in [Evaluators -> Checks] /\ \A q \in Evaluators : check'[q].listed \subseteq DOMAIN watches
  BY <1>2, <1>3, <1>6
<1>8. \A j \in DOMAIN watches : /\ watches'[j].kind = watches[j].kind /\ watches'[j].key = watches[j].key
                                /\ watches'[j].status = "active" => watches[j].status = "active"
                                /\ watches[j].status = "removed" => watches'[j].status = "removed"
  BY <1>3
<1> QED
  BY <1>2, <1>3, <1>7, <1>8, RowsMoveOn

\* The market moves; the rows follow at the next evaluation.
LEMMA MarketStep ==
    ASSUME AlertsAreTrue, NEW key \in WatchKeys, MarketShifts(key)
    PROVE  AlertsAreTrue' /\ AlertsMoveOn /\ WatchesMoveOn
<1>1. AlertTypeOK /\ WatchesApart
  BY TwoHalves DEF AlertsAreTrue
<1>2. /\ watches \in Seq(WatchRows) /\ met \subseteq WatchKeys /\ shifts \in 0..MaxShifts
      /\ check \in [Evaluators -> Checks] /\ \A p \in Evaluators : check[p].listed \subseteq DOMAIN watches
  BY <1>1, AlertTypes
<1>3. UNCHANGED <<trouble, alerts, evaluation, lastSeen>> /\ UNCHANGED <<watches, check>>
  BY DEF MarketShifts, alertVars
<1>4. met' \subseteq WatchKeys /\ shifts' \in 0..MaxShifts
  BY <1>2, PAAssumption DEF MarketShifts
<1>5. AlertTypeOK' /\ AlertsObserved' /\ AlertsMoveOn
  BY <1>2, <1>3, <1>4, AlertsStill, AlertTypesNext
<1>6. WatchesApart' /\ WatchesMoveOn
  BY <1>1, <1>3 DEF WatchesApart, WatchesMoveOn
<1> QED
  BY <1>5, <1>6, TwoHalvesNext

\* Every step keeps the property, and moves the rows only on.
LEMMA NoticesStep ==
    ASSUME AlertsAreTrue, [AlertNext \/ WatchNext]_noticeVars
    PROVE  AlertsAreTrue' /\ AlertsMoveOn /\ WatchesMoveOn
<1>1. CASE AlertNext
  BY <1>1, ObservationsKeep, CommitStep, AcknowledgeStep, TroubleStep DEF AlertNext
<1>2. CASE WatchNext
  <2>1. ASSUME NEW kind \in Kinds, NEW key \in WatchKeys, CreateWatch(kind, key)
        PROVE  AlertsAreTrue' /\ AlertsMoveOn /\ WatchesMoveOn
    BY <2>1, CreateStep
  <2>2. ASSUME NEW p \in Evaluators, (\E kind \in Kinds : ListWatches(p, kind)) \/ CheckWatches(p)
        PROVE  AlertsAreTrue' /\ AlertsMoveOn /\ WatchesMoveOn
    BY <2>2, ListStep, CheckStep
  <2> QED
    BY <1>2, <2>1, <2>2, RemoveStep, RemoveSymbolStep, MarketStep DEF WatchNext
<1>3. CASE UNCHANGED noticeVars
  <2>1. UNCHANGED <<trouble, alerts, evaluation, lastSeen>> /\ UNCHANGED <<watches, check, met, shifts>>
    BY <1>3 DEF noticeVars, alertVars, watchVars
  <2>2. AlertTypeOK /\ WatchesApart
    BY TwoHalves DEF AlertsAreTrue
  <2>3. AlertTypeOK' /\ AlertsObserved' /\ AlertsMoveOn
    BY <2>1, <2>2, AlertsStill, AlertTypes, AlertTypesNext
  <2>4. WatchesApart' /\ WatchesMoveOn
    BY <2>1, <2>2 DEF WatchesApart, WatchesMoveOn
  <2> QED
    BY <2>3, <2>4, TwoHalvesNext
<1> QED
  BY <1>1, <1>2, <1>3

\* However many evaluations overlap, and whatever is acknowledged between their blocks:
\* the open alerts are, one for each, the rules the last evaluation to commit had found
\* violated, and no condition is watched twice.
THEOREM AlertsKeepTrue == AlertSpec => []AlertsAreTrue
<1>1. AlertsAreTrue /\ [AlertNext \/ WatchNext]_noticeVars => AlertsAreTrue'
  BY NoticesStep
<1> QED
  BY <1>1, AlertsInit, PTL DEF AlertSpec

\* A resolved alert stays resolved, an acknowledgement is not taken back, a watch that
\* fired is not active again and one that was removed does not come back.
THEOREM NoticesMoveOn == AlertSpec => NoticesOnlyMoveOn
<1>1. AlertsAreTrue /\ [AlertNext \/ WatchNext]_noticeVars => [AlertsMoveOn /\ WatchesMoveOn]_noticeVars
  BY NoticesStep
<1> QED
  BY <1>1, AlertsKeepTrue, PTL DEF AlertSpec, NoticesOnlyMoveOn

-----------------------------------------------------------------------------
(***************************************************************************)
(* The daily digest.                                                       *)
(***************************************************************************)
Flags == [kind : FlagKinds, open : BOOLEAN]
Digests == [pc : {"idle", "changed", "stale", "degraded", "write", "done"},
            changed : BOOLEAN, stale : BOOLEAN, degraded : BOOLEAN, unread : BOOLEAN,
            headline : {"none", "degraded", "stale", "none of them bad", "nothing to report"},
            before : SUBSET Nat]

DigestInv ==
    /\ DigestTypeOK
    /\ \A i \in digest.before : flags[i].kind \in BadNews
    /\ digest.pc \in {"write", "done"} /\ ~digest.unread /\ digest.before \cap Listed # {} => digest.degraded
    /\ digest.pc = "done" /\ digest.degraded => digest.headline = "degraded"

\* Before the first digest no flag is open.
LEMMA DigestInvInit == DigestInit => DigestInv
BY DigestAssumption DEF DigestInit, DigestInv, DigestTypeOK, NoDigest

\* While the digest is left alone a finding comes in at the end, or one is closed.
LEMMA FlagsMove ==
    ASSUME DigestInv, UNCHANGED digest, unreads' \in 0..MaxUnread, flags' \in Seq(Flags), Len(flags) <= Len(flags'),
           \A i \in DOMAIN flags : flags'[i].kind = flags[i].kind /\ (flags'[i].open => flags[i].open)
    PROVE  DigestInv'
<1>1. digest.before \subseteq DOMAIN flags /\ flags \in Seq(Flags)
  BY DEF DigestInv, DigestTypeOK, Flags
<1>2. DOMAIN flags = 1..Len(flags) /\ DOMAIN flags' = 1..Len(flags') /\ Len(flags) \in Nat /\ Len(flags') \in Nat
  BY <1>1
<1>3. DOMAIN flags \subseteq DOMAIN flags'
  BY <1>2
<1>4. digest.before \cap Listed' \subseteq digest.before \cap Listed
  <2> SUFFICES ASSUME NEW i \in digest.before, i \in Listed' PROVE i \in Listed
    OBVIOUS
  <2>1. i + Window > Len(flags') /\ flags'[i].open
    BY DEF Listed
  <2>2. i \in DOMAIN flags /\ i \in Nat
    BY <1>1, <1>2
  <2>3. i + Window > Len(flags)
    BY <1>2, <2>1, <2>2, DigestAssumption
  <2> QED
    BY <2>1, <2>2, <2>3 DEF Listed
<1>5. \A i \in digest.before : flags'[i].kind \in BadNews
  BY <1>1 DEF DigestInv
<1>6. DigestTypeOK'
  BY <1>1, <1>3 DEF DigestInv, DigestTypeOK, Flags
<1> QED
  BY <1>4, <1>5, <1>6 DEF DigestInv

\* While the findings are left alone the digest moves on.
LEMMA DigestMoves ==
    ASSUME DigestInv, UNCHANGED flags, unreads' \in 0..MaxUnread, digest' \in Digests,
           digest'.before = digest.before,
           digest'.pc \in {"write", "done"} /\ ~digest'.unread /\ digest.before \cap Listed # {} => digest'.degraded,
           digest'.pc = "done" /\ digest'.degraded => digest'.headline = "degraded"
    PROVE  DigestInv'
<1>1. Listed' = Listed
  BY DEF Listed
<1>2. DigestTypeOK'
  BY DEF DigestInv, DigestTypeOK, Digests
<1> QED
  BY <1>1, <1>2 DEF DigestInv

\* A reading by section.
LEMMA SectionsAreRead ==
    ASSUME DigestInv, NEW read, NEW pc \in {"changed", "stale", "degraded"}, ReadSection(pc, read),
           read \in Digests, read.before = digest.before, read.unread = digest.unread,
           read.pc \in {"stale", "degraded", "write"},
           read.pc = "write" /\ ~digest.unread /\ digest.before \cap Listed # {} => read.degraded
    PROVE  DigestInv'
<1>1. digest \in Digests /\ unreads \in 0..MaxUnread /\ UNCHANGED flags
  BY DEF DigestInv, DigestTypeOK, Digests, ReadSection
<1>2. CASE digest' = read /\ UNCHANGED unreads
  BY <1>1, <1>2, DigestMoves
<1>3. CASE /\ unreads < MaxUnread /\ unreads' = unreads + 1
           /\ digest' = [digest EXCEPT !.pc = read.pc, !.unread = TRUE]
  <2> DEFINE q == [digest EXCEPT !.pc = read.pc, !.unread = TRUE]
  <2>1. q \in Digests /\ q.unread /\ q.before = digest.before /\ q.pc = read.pc
    BY <1>1 DEF Digests
  <2>2. unreads' \in 0..MaxUnread
    BY <1>1, <1>3, DigestAssumption
  <2>3. digest' = q
    BY <1>3
  <2> HIDE DEF q
  <2> QED
    BY <1>1, <2>1, <2>2, <2>3, DigestMoves
<1> QED
  BY <1>2, <1>3 DEF ReadSection

\* Every step keeps the invariant.
LEMMA DigestInvNext == DigestInv /\ [DigestNext]_digestVars => DigestInv'
<1> SUFFICES ASSUME DigestInv, [DigestNext]_digestVars PROVE DigestInv'
  OBVIOUS
<1>0. /\ digest \in Digests /\ flags \in Seq(Flags) /\ unreads \in 0..MaxUnread
      /\ digest.before \subseteq DOMAIN flags
  BY DEF DigestInv, DigestTypeOK, Digests, Flags
<1>1. ASSUME NEW kind \in FlagKinds, Flag(kind) PROVE DigestInv'
  <2>1. [kind |-> kind, open |-> TRUE] \in Flags
    BY DEF Flags
  <2>2. /\ flags' \in Seq(Flags) /\ Len(flags') = Len(flags) + 1
        /\ \A i \in DOMAIN flags : flags'[i] = flags[i]
    BY <1>0, <1>1, <2>1 DEF Flag
  <2> QED
    BY <1>0, <1>1, <2>2, FlagsMove DEF Flag
<1>2. ASSUME NEW i \in DOMAIN flags, AcknowledgeFlag(i) PROVE DigestInv'
  <2>1. flags[i] \in Flags
    BY <1>0
  <2> DEFINE q == [flags[i] EXCEPT !.open = FALSE]
  <2>2. q \in Flags /\ q.kind = flags[i].kind /\ q.open = FALSE
    BY <2>1 DEF Flags
  <2>3. flags' = [flags EXCEPT ![i] = q]
    BY <1>2 DEF AcknowledgeFlag
  <2> HIDE DEF q
  <2>4. /\ flags' \in Seq(Flags) /\ Len(flags') = Len(flags)
        /\ \A j \in DOMAIN flags : flags'[j] = IF j = i THEN q ELSE flags[j]
    BY <1>0, <2>2, <2>3
  <2> QED
    BY <1>0, <1>2, <2>2, <2>4, FlagsMove DEF AcknowledgeFlag
<1>3. CASE StartDigest
  <2> DEFINE B == {i \in DOMAIN flags : flags[i].open /\ flags[i].kind \in BadNews}
             q == [NoDigest EXCEPT !.pc = "changed", !.before = B]
  <2>1. digest' = q /\ UNCHANGED <<flags, unreads>>
    BY <1>3 DEF StartDigest
  <2>2. B \in SUBSET Nat
    BY <1>0
  <2>3. q \in Digests /\ q.pc = "changed" /\ q.before = B
    <3> HIDE DEF B
    <3> QED
      BY <2>2 DEF NoDigest, Digests
  <2> HIDE DEF q
  <2> QED
    BY <1>0, <2>1, <2>3 DEF DigestInv, DigestTypeOK, Digests, Flags
<1>4. CASE WhatChanged
  <2> DEFINE q == [digest EXCEPT !.pc = "stale", !.changed = AnyListed(Interesting)]
  <2>1. q \in Digests /\ q.before = digest.before /\ q.unread = digest.unread /\ q.pc = "stale"
    BY <1>0 DEF Digests, AnyListed
  <2>2. ReadSection("changed", q)
    BY <1>4 DEF WhatChanged
  <2> HIDE DEF q
  <2> QED
    BY <2>1, <2>2, SectionsAreRead
<1>5. CASE WhatsStale
  <2> DEFINE q == [digest EXCEPT !.pc = "degraded", !.stale = AnyListed(Staleness)]
  <2>1. q \in Digests /\ q.before = digest.before /\ q.unread = digest.unread /\ q.pc = "degraded"
    BY <1>0 DEF Digests, AnyListed
  <2>2. ReadSection("stale", q)
    BY <1>5 DEF WhatsStale
  <2> HIDE DEF q
  <2> QED
    BY <2>1, <2>2, SectionsAreRead
<1>6. CASE WhatDegraded
  <2> DEFINE q == [digest EXCEPT !.pc = "write", !.degraded = AnyListed(BadNews)]
  <2>1. /\ q \in Digests /\ q.before = digest.before /\ q.unread = digest.unread /\ q.pc = "write"
        /\ q.degraded = AnyListed(BadNews)
    BY <1>0 DEF Digests, AnyListed
  <2>2. ReadSection("degraded", q)
    BY <1>6 DEF WhatDegraded
  <2>3. digest.before \cap Listed # {} => AnyListed(BadNews)
    BY DEF DigestInv, AnyListed
  <2> HIDE DEF q
  <2> QED
    BY <2>1, <2>2, <2>3, SectionsAreRead
<1>7. CASE WriteDigest
  <2> DEFINE q == [digest EXCEPT !.pc = "done", !.headline = Headline]
  <2>1. digest' = q /\ UNCHANGED <<flags, unreads>> /\ digest.pc = "write"
    BY <1>7 DEF WriteDigest
  <2>2. /\ Headline \in {"degraded", "stale", "none of them bad", "nothing to report"}
        /\ digest.degraded => Headline = "degraded"
    <3>1. CASE digest.degraded
      BY <3>1 DEF Headline
    <3>2. CASE ~digest.degraded /\ digest.stale
      BY <3>2 DEF Headline
    <3>3. CASE ~digest.degraded /\ ~digest.stale /\ digest.changed
      BY <3>3 DEF Headline
    <3>4. CASE ~digest.degraded /\ ~digest.stale /\ ~digest.changed
      BY <3>4 DEF Headline
    <3> QED
      BY <3>1, <3>2, <3>3, <3>4
  <2>3. /\ q \in Digests /\ q.before = digest.before /\ q.unread = digest.unread /\ q.pc = "done"
        /\ q.degraded = digest.degraded /\ q.headline = Headline
    BY <1>0, <2>2 DEF Digests
  <2>4. ~digest.unread /\ digest.before \cap Listed # {} => digest.degraded
    BY <2>1 DEF DigestInv
  <2> HIDE DEF q
  <2> QED
    BY <1>0, <2>1, <2>2, <2>3, <2>4, DigestMoves
<1>8. CASE UNCHANGED digestVars
  BY <1>0, <1>8, FlagsMove DEF digestVars
<1> QED
  BY <1>1, <1>2, <1>3, <1>4, <1>5, <1>6, <1>7, <1>8 DEF DigestNext

\* DigestLeadsWithTheWorst: bad news that was open when a digest was begun and still is
\* heads it, for any number of findings that come and are acknowledged while the three
\* sections are read (daily_digest_service.py).
THEOREM WorstLeads == DigestSpec => []DigestLeadsWithTheWorst
<1>1. DigestInv => DigestLeadsWithTheWorst
  BY DEF DigestInv, DigestLeadsWithTheWorst, BadNewsHeadsTheDigest
<1> QED
  BY <1>1, DigestInvInit, DigestInvNext, PTL DEF DigestSpec

-----------------------------------------------------------------------------
(***************************************************************************)
(* The arena: ticks of one season that overlap.                            *)
(***************************************************************************)
\* A snapshot of the entry on that day is in the season's table.
Taken(e, day) == \E s \in snapshots : s.entry = e /\ s.day = day
TakenNext(e, day) == \E s \in snapshots' : s.entry = e /\ s.day = day

\* What holds of one tick: it works on entries of the season on a day that came,
\* and, unless a process died, has left a snapshot of whatever it has done.
Fine(t) ==
    /\ t.entry \subseteq t.left /\ t.left \subseteq t.read /\ t.read \subseteq entries
    /\ t.pc \in {"entry", "snapshot"} => t.day \in 1..MaxDay
    /\ arenaDeaths = 0 => \A e \in t.read \ t.left : Taken(e, t.day)

ArenaInv ==
    /\ ArenaTypeOK
    /\ \A p \in ArenaThreads : Fine(ticker[p])
    /\ \A s \in snapshots : s.entry \in entries
    /\ SeasonIsSound

\* A thread that does not tick holds nothing.
LEMMA NoTickIsFine == NoTick \in TickRows /\ Fine(NoTick) /\ Fine(NoTick)'
<1>1. MaxDay \in Nat
  BY ArenaAssumption
<1>2. NoTick \in TickRows
  BY <1>1 DEF NoTick, TickRows
<1> QED
  BY <1>2 DEF NoTick, Fine

\* The standings are current because days are numbers and entries are unique.
LEMMA ArenaFair == ArenaInv => ArenaIsFair
<1> SUFFICES ASSUME ArenaInv PROVE StandingsAreCurrent
  BY DEF ArenaInv, ArenaIsFair
<1>1. \A s \in Ranked : s \in snapshots /\ \A t \in snapshots : t.entry = s.entry => t.day <= s.day
  BY DEF Ranked, Latest
<1>2. ASSUME NEW s \in Ranked, NEW t \in Ranked, s.entry.agent = t.entry.agent PROVE s = t
  <2>1. s \in snapshots /\ t \in snapshots
    BY <1>1
  <2>2. s.entry = t.entry
    BY <1>2, <2>1 DEF ArenaInv, SeasonIsSound
  <2>3. s.day \in Int /\ t.day \in Int
    BY <2>1, ArenaAssumption DEF ArenaInv, ArenaTypeOK, Snapshots
  <2>4. s.day <= t.day /\ t.day <= s.day
    BY <1>1, <2>1, <2>2
  <2>5. s.day = t.day
    BY <2>3, <2>4
  <2> QED
    BY <2>1, <2>2, <2>5 DEF ArenaInv, SeasonIsSound
<1> QED
  BY <1>1, <1>2 DEF StandingsAreCurrent

\* A season that is not opened has neither entries nor snapshots.
LEMMA ArenaInvInit == ArenaInit => ArenaInv
<1> SUFFICES ASSUME ArenaInit PROVE ArenaInv
  OBVIOUS
<1>1. ticker = [p \in ArenaThreads |-> NoTick]
  BY DEF ArenaInit
<1>2. ticker \in [ArenaThreads -> TickRows] /\ \A p \in ArenaThreads : Fine(ticker[p])
  BY <1>1, NoTickIsFine
<1>3. ArenaTypeOK
  <2>1. /\ opened \in BOOLEAN /\ entries \subseteq EntryRows /\ snapshots \subseteq Snapshots /\ data \subseteq Basket
        /\ ticked \subseteq (1..MaxDay) \X EntryRows
    BY DEF ArenaInit
  <2>2. today \in 1..MaxDay /\ arenaDeaths \in 0..MaxArenaDeaths
    BY ArenaAssumption DEF ArenaInit
  <2> QED
    BY <1>2, <2>1, <2>2 DEF ArenaTypeOK, Fine
<1> QED
  BY <1>2, <1>3 DEF ArenaInv, ArenaInit, SeasonIsSound

\* A step of one thread that leaves the tables alone: the tick it ends in is fine.
LEMMA OneTick ==
    ASSUME ArenaInv, NEW p \in ArenaThreads, NEW t \in TickRows, Fine(t), Ticks(p, t),
           UNCHANGED <<opened, entries, snapshots, today, data, arenaDeaths>>,
           ticked' \subseteq (1..MaxDay) \X EntryRows,
           arenaDeaths = 0 => \A done \in ticked' : Taken(done[2], done[1])
    PROVE  ArenaInv'
<1>1. ticker' = [ticker EXCEPT ![p] = t] /\ ticker \in [ArenaThreads -> TickRows]
  BY DEF Ticks, ArenaInv, ArenaTypeOK
<1>2. ticker' \in [ArenaThreads -> TickRows] /\ \A q \in ArenaThreads : Fine(ticker'[q])
  BY <1>1 DEF ArenaInv
<1>3. \A q \in ArenaThreads : Fine(ticker[q])'
  BY <1>2 DEF Fine, Taken
<1>4. ArenaTypeOK'
  BY <1>2 DEF ArenaInv, ArenaTypeOK, Fine
<1>5. SeasonIsSound'
  <2>1. arenaDeaths' = 0 => \A done \in ticked' : \E s \in snapshots' : s.entry = done[2] /\ s.day = done[1]
    BY DEF Taken
  <2> QED
    BY <2>1 DEF ArenaInv, SeasonIsSound
<1> QED
  BY <1>3, <1>4, <1>5 DEF ArenaInv

\* What the invariant says of one thread and of the ticks that ended.
LEMMA TickerKept ==
    ASSUME ArenaInv, NEW p \in ArenaThreads
    PROVE  /\ ticker[p] \in TickRows /\ Fine(ticker[p])
           /\ ticked \subseteq (1..MaxDay) \X EntryRows
           /\ arenaDeaths = 0 => \A done \in ticked : Taken(done[2], done[1])
BY DEF ArenaInv, ArenaTypeOK, SeasonIsSound, Taken

\* Looking up the datasets.
LEMMA ResolveKeeps ==
    ASSUME ArenaInv, NEW p \in ArenaThreads, NEW symbols \in {{Lead}, Basket}, Resolve(p, symbols)
    PROVE  ArenaInv'
<1> DEFINE t == [NoTick EXCEPT !.pc = "resolve", !.resolved = symbols \cap data]
<1>1. data \subseteq Basket
  BY DEF ArenaInv, ArenaTypeOK
<1>2. t \in TickRows /\ t.pc = "resolve" /\ t.read = {} /\ t.left = {} /\ t.entry = {}
  BY <1>1, NoTickIsFine DEF TickRows, NoTick
<1>3. Ticks(p, t) /\ UNCHANGED <<opened, entries, snapshots, today, data, arenaDeaths>> /\ UNCHANGED ticked
  BY DEF Resolve
<1> HIDE DEF t
<1>4. Fine(t)
  BY <1>2 DEF Fine
<1> QED
  BY <1>2, <1>3, <1>4, OneTick, TickerKept

\* The tick takes the entries there are and the day it is.
LEMMA ReadSeasonKeeps ==
    ASSUME ArenaInv, NEW p \in ArenaThreads, ReadSeason(p)
    PROVE  ArenaInv'
<1> DEFINE t == [ticker[p] EXCEPT !.pc = "entry", !.day = today, !.read = entries, !.left = entries]
<1>1. today \in 1..MaxDay /\ today \in 0..MaxDay /\ entries \subseteq EntryRows
  BY ArenaAssumption DEF ArenaInv, ArenaTypeOK
<1>2. ticker[p] \in TickRows
  BY TickerKept
<1>3. t \in TickRows /\ t.day = today /\ t.read = entries /\ t.left = entries /\ t.entry = ticker[p].entry
  BY <1>1, <1>2 DEF TickRows
<1>4. Ticks(p, t) /\ UNCHANGED <<opened, entries, snapshots, today, data, arenaDeaths>> /\ UNCHANGED ticked
  BY DEF ReadSeason
<1> HIDE DEF t
<1>5. Fine(t)
  BY <1>1, <1>3, TickerKept DEF Fine
<1> QED
  BY <1>3, <1>4, <1>5, OneTick, TickerKept

\* The return of an entry is a mean of legs with data, or none.
LEMMA RunLegsKeeps ==
    ASSUME ArenaInv, NEW p \in ArenaThreads, NEW e \in ticker[p].left, RunLegs(p, e)
    PROVE  ArenaInv'
<1>1. ticker[p] \in TickRows /\ Fine(ticker[p]) /\ ticker[p].pc = "entry"
  BY TickerKept DEF RunLegs, TickAt
<1>2. UNCHANGED <<opened, entries, snapshots, today, data, arenaDeaths>> /\ UNCHANGED ticked
  BY DEF RunLegs
<1>3. \E m \in Returns \cup {NoReturn} :
         Ticks(p, [ticker[p] EXCEPT !.pc = "snapshot", !.entry = {e}, !.return = m])
  <2>1. PICK ok \in SUBSET ticker[p].resolved :
          \/ ok = {} /\ Ticks(p, [ticker[p] EXCEPT !.pc = "snapshot", !.entry = {e}, !.return = NoReturn])
          \/ ok # {} /\ \E legs \in [ok -> LegReturns] :
                Ticks(p, [ticker[p] EXCEPT !.pc = "snapshot", !.entry = {e}, !.return = Mean(legs)])
    BY DEF RunLegs
  <2>2. CASE ok = {}
    BY <2>1, <2>2
  <2>3. CASE ok # {}
    <3>1. PICK legs \in [ok -> LegReturns] :
             Ticks(p, [ticker[p] EXCEPT !.pc = "snapshot", !.entry = {e}, !.return = Mean(legs)])
      BY <2>1, <2>3
    <3>2. ok \in (SUBSET Basket) \ {{}}
      BY <1>1, <2>3 DEF TickRows
    <3>3. legs \in UNION {[S -> LegReturns] : S \in (SUBSET Basket) \ {{}}}
      BY <3>1, <3>2
    <3>4. Mean(legs) \in Returns
      BY <3>3 DEF Returns
    <3> QED
      BY <3>1, <3>4
  <2> QED
    BY <2>2, <2>3
<1>4. PICK m \in Returns \cup {NoReturn} :
         Ticks(p, [ticker[p] EXCEPT !.pc = "snapshot", !.entry = {e}, !.return = m])
  BY <1>3
<1> DEFINE t == [ticker[p] EXCEPT !.pc = "snapshot", !.entry = {e}, !.return = m]
<1>5. e \in EntryRows
  BY <1>1 DEF TickRows
<1>6. /\ t \in TickRows /\ t.entry = {e} /\ t.left = ticker[p].left /\ t.read = ticker[p].read
      /\ t.day = ticker[p].day
  BY <1>1, <1>5 DEF TickRows
<1>7. Ticks(p, t)
  BY <1>4
<1> HIDE DEF t
<1>8. Fine(t)
  BY <1>1, <1>6 DEF Fine
<1> QED
  BY <1>2, <1>6, <1>7, <1>8, OneTick, TickerKept

\* When nothing is left, everything that was read has its snapshot.
LEMMA EndTickKeeps ==
    ASSUME ArenaInv, NEW p \in ArenaThreads, EndTick(p)
    PROVE  ArenaInv'
<1>1. ticker[p] \in TickRows /\ Fine(ticker[p]) /\ ticker[p].pc = "entry" /\ ticker[p].left = {}
  BY TickerKept DEF EndTick, TickAt
<1>2. /\ UNCHANGED <<opened, entries, snapshots, today, data, arenaDeaths>> /\ Ticks(p, NoTick)
      /\ ticked' = ticked \cup {<<ticker[p].day, e>> : e \in ticker[p].read}
  BY DEF EndTick
<1>3. ticker[p].day \in 1..MaxDay /\ ticker[p].read \subseteq EntryRows
  BY <1>1 DEF Fine, TickRows
<1>4. ticked' \subseteq (1..MaxDay) \X EntryRows
  BY <1>2, <1>3, TickerKept
<1>5. arenaDeaths = 0 => \A done \in ticked' : Taken(done[2], done[1])
  <2>1. arenaDeaths = 0 => \A e \in ticker[p].read : Taken(e, ticker[p].day)
    BY <1>1 DEF Fine
  <2> QED
    BY <1>2, <2>1, TickerKept
<1> QED
  BY <1>2, <1>4, <1>5, NoTickIsFine, OneTick

\* The day's row of the entry gives way to the new one; no other row is touched.
LEMMA SnapshotKeeps ==
    ASSUME ArenaInv, NEW p \in ArenaThreads, Snapshot(p)
    PROVE  ArenaInv'
<1>1. ticker[p] \in TickRows /\ Fine(ticker[p]) /\ ticker[p].pc = "snapshot"
  BY TickerKept DEF Snapshot, TickAt
<1> DEFINE day == ticker[p].day
<1>2. PICK e \in ticker[p].entry :
         /\ snapshots' = Others(e, day) \cup {[entry |-> e, day |-> day, return |-> ticker[p].return]}
         /\ Ticks(p, [ticker[p] EXCEPT !.pc = "entry", !.left = @ \ {e}, !.entry = {}, !.return = NoReturn])
  BY DEF Snapshot
<1>3. UNCHANGED <<opened, entries, today, data, ticked, arenaDeaths>>
  BY DEF Snapshot
<1> DEFINE row == [entry |-> e, day |-> day, return |-> ticker[p].return]
           t == [ticker[p] EXCEPT !.pc = "entry", !.left = ticker[p].left \ {e}, !.entry = {}, !.return = NoReturn]
<1>4. day \in 1..MaxDay /\ e \in entries /\ e \in EntryRows /\ e \in ticker[p].left /\ e \in ticker[p].read
  BY <1>1, <1>2 DEF Fine, TickRows
<1>5. row \in Snapshots /\ row.entry = e /\ row.day = day
  BY <1>1, <1>4 DEF Snapshots, TickRows
<1>6. /\ t \in TickRows /\ t.entry = {} /\ t.left = ticker[p].left \ {e} /\ t.read = ticker[p].read /\ t.day = day
      /\ ticker' = [ticker EXCEPT ![p] = t]
  BY <1>1, <1>2 DEF TickRows, Ticks
<1>7. \A s : s \in snapshots' <=> (s \in snapshots /\ ~(s.entry = e /\ s.day = day)) \/ s = row
  BY <1>2 DEF Others
<1> HIDE DEF t, row
<1>8. ASSUME NEW x, NEW d, Taken(x, d) PROVE TakenNext(x, d)
  <2>1. PICK s \in snapshots : s.entry = x /\ s.day = d
    BY <1>8 DEF Taken, TakenNext
  <2>2. CASE x = e /\ d = day
    BY <1>5, <1>7, <2>2 DEF Taken, TakenNext
  <2>3. CASE ~(x = e /\ d = day)
    BY <1>7, <2>1, <2>3 DEF Taken, TakenNext
  <2> QED
    BY <2>2, <2>3
<1>9. TakenNext(e, day)
  BY <1>5, <1>7 DEF Taken, TakenNext
<1>10. ticker' \in [ArenaThreads -> TickRows] /\ ticker'[p] = t
       /\ \A q \in ArenaThreads : q # p => ticker'[q] = ticker[q]
  BY <1>6 DEF ArenaInv, ArenaTypeOK
<1>11. ASSUME NEW q \in ArenaThreads PROVE Fine(ticker[q])'
  <2>1. CASE q = p
    <3>1. t.entry \subseteq t.left /\ t.left \subseteq t.read /\ t.read \subseteq entries /\ t.day \in 1..MaxDay
      BY <1>1, <1>4, <1>6 DEF Fine
    <3>2. arenaDeaths = 0 => \A x \in t.read \ t.left : TakenNext(x, t.day)
      <4>1. \A x \in t.read \ t.left : x = e \/ x \in ticker[p].read \ ticker[p].left
        BY <1>6
      <4>2. arenaDeaths = 0 => \A x \in ticker[p].read \ ticker[p].left : TakenNext(x, day)
        BY <1>1, <1>8 DEF Fine
      <4> QED
        BY <1>6, <1>9, <4>1, <4>2
    <3>3. ticker'[q] = t
      BY <1>10, <2>1
    <3> QED
      BY <1>3, <3>1, <3>2, <3>3 DEF Fine, Taken, TakenNext
  <2>2. CASE q # p
    <3>1. Fine(ticker[q]) /\ ticker'[q] = ticker[q]
      BY <1>10, <2>2, TickerKept
    <3>2. arenaDeaths = 0 => \A x \in ticker[q].read \ ticker[q].left : TakenNext(x, ticker[q].day)
      BY <1>8, <3>1 DEF Fine
    <3> QED
      BY <1>3, <3>1, <3>2 DEF Fine, Taken, TakenNext
  <2> QED
    BY <2>1, <2>2
<1>12. ArenaTypeOK'
  <2>1. snapshots' \subseteq Snapshots
    BY <1>5, <1>7 DEF ArenaInv, ArenaTypeOK
  <2> QED
    BY <1>3, <1>10, <1>11, <2>1 DEF ArenaInv, ArenaTypeOK, Fine
<1>13. \A s \in snapshots' : s.entry \in entries'
  BY <1>3, <1>4, <1>5, <1>7 DEF ArenaInv
<1>14. SeasonIsSound'
  <2>1. \A s, u \in snapshots' : s.entry = u.entry /\ s.day = u.day => s = u
    BY <1>5, <1>7 DEF ArenaInv, SeasonIsSound
  <2>2. arenaDeaths = 0 => \A done \in ticked : TakenNext(done[2], done[1])
    BY <1>8, TickerKept
  <2> QED
    BY <1>3, <2>1, <2>2 DEF ArenaInv, SeasonIsSound, TakenNext
<1> QED
  BY <1>11, <1>12, <1>13, <1>14 DEF ArenaInv

\* A death may lose a snapshot, and is counted.
LEMMA ArenaDiesKeeps ==
    ASSUME ArenaInv, ArenaDies
    PROVE  ArenaInv'
<1>1. /\ arenaDeaths < MaxArenaDeaths /\ arenaDeaths' = arenaDeaths + 1
      /\ ticker' = [p \in ArenaThreads |-> NoTick] /\ UNCHANGED <<opened, entries, today, data, ticked>>
  BY DEF ArenaDies
<1>2. snapshots' \subseteq snapshots
  BY DEF ArenaDies, Others
<1>3. arenaDeaths' \in 0..MaxArenaDeaths /\ arenaDeaths' # 0
  BY <1>1, ArenaAssumption DEF ArenaInv, ArenaTypeOK
<1>4. ticker' \in [ArenaThreads -> TickRows] /\ \A p \in ArenaThreads : ticker'[p] = NoTick
  BY <1>1, NoTickIsFine
<1>5. \A p \in ArenaThreads : Fine(ticker[p])'
  BY <1>4, NoTickIsFine DEF Fine, Taken
<1>6. ArenaTypeOK'
  BY <1>1, <1>2, <1>3, <1>4, <1>5 DEF ArenaInv, ArenaTypeOK, Fine
<1>7. SeasonIsSound' /\ \A s \in snapshots' : s.entry \in entries'
  BY <1>1, <1>2, <1>3 DEF ArenaInv, SeasonIsSound
<1> QED
  BY <1>5, <1>6, <1>7 DEF ArenaInv

\* An agent that has no entry gets its first.
LEMMA EnrollKeeps ==
    ASSUME ArenaInv, NEW a \in Entrants, Enroll(a)
    PROVE  ArenaInv'
<1>1. /\ ~Enrolled(a) /\ entries' = entries \cup {EntryOf(a)}
      /\ UNCHANGED <<opened, snapshots, today, data, ticker, ticked, arenaDeaths>>
  BY DEF Enroll
<1>2. EntryOf(a) = [agent |-> a, n |-> 1]
  BY <1>1 DEF Enrolled, EntryOf
<1>3. EntryOf(a) \in EntryRows /\ EntryOf(a).agent = a
  BY <1>2 DEF EntryRows
<1>4. entries \subseteq entries'
  BY <1>1
<1>5. \A p \in ArenaThreads : Fine(ticker[p])'
  BY <1>1, <1>4 DEF ArenaInv, Fine, Taken
<1>6. ArenaTypeOK'
  BY <1>1, <1>3, <1>4 DEF ArenaInv, ArenaTypeOK
<1>7. \A d, e \in entries' : d.agent = e.agent => d = e
  BY <1>1, <1>3 DEF Enrolled, ArenaInv, SeasonIsSound
<1>8. SeasonIsSound' /\ \A s \in snapshots' : s.entry \in entries'
  BY <1>1, <1>4, <1>7 DEF ArenaInv, SeasonIsSound
<1> QED
  BY <1>5, <1>6, <1>8 DEF ArenaInv

\* Every step keeps the invariant.
LEMMA ArenaInvNext == ArenaInv /\ [ArenaNext]_arenaVars => ArenaInv'
<1> SUFFICES ASSUME ArenaInv, [ArenaNext]_arenaVars PROVE ArenaInv'
  OBVIOUS
<1>1. ASSUME UNCHANGED <<entries, snapshots, ticker, ticked, arenaDeaths>>,
             opened' \in BOOLEAN, today' \in 1..MaxDay, data' \subseteq Basket
      PROVE  ArenaInv'
  BY <1>1 DEF ArenaInv, ArenaTypeOK, Fine, Taken, SeasonIsSound
<1>2. opened \in BOOLEAN /\ today \in 1..MaxDay /\ data \subseteq Basket
  BY DEF ArenaInv, ArenaTypeOK
<1>3. CASE CreateSeason
  BY <1>1, <1>2, <1>3 DEF CreateSeason
<1>4. CASE \E s \in Basket \ data : DataComes(s)
  BY <1>1, <1>2, <1>4 DEF DataComes
<1>5. CASE ArenaNextDay
  <2>1. today' \in 1..MaxDay
    BY <1>2, <1>5, ArenaAssumption DEF ArenaNextDay
  <2> QED
    BY <1>1, <1>2, <1>5, <2>1 DEF ArenaNextDay
<1>6. CASE UNCHANGED arenaVars
  BY <1>1, <1>2, <1>6 DEF arenaVars
<1>7. ASSUME NEW p \in ArenaThreads,
             \/ \E symbols \in {{Lead}, Basket} : Resolve(p, symbols)
             \/ ReadSeason(p)
             \/ \E e \in ticker[p].left : RunLegs(p, e)
             \/ Snapshot(p) \/ EndTick(p)
      PROVE  ArenaInv'
  BY <1>7, ResolveKeeps, ReadSeasonKeeps, RunLegsKeeps, SnapshotKeeps, EndTickKeeps
<1> QED
  BY <1>3, <1>4, <1>5, <1>6, <1>7, EnrollKeeps, ArenaDiesKeeps DEF ArenaNext

\* However ticks overlap, and wherever a process dies: one snapshot of an entry and day,
\* one entry of an agent, no snapshot that a finished tick took is lost unless a process
\* died between the two statements of one, and nobody is ranked on an older day or twice.
THEOREM ArenaStaysFair == ArenaSpec => []ArenaIsFair
BY ArenaInvInit, ArenaInvNext, ArenaFair, PTL DEF ArenaSpec
=============================================================================
