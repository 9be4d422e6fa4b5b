--------------------------- MODULE PortfolioRisk ---------------------------
(***************************************************************************)
(* Risk reservations of a virtual portfolio: services/portfolio_service.py. *)
(*                                                                         *)
(* evaluate_and_reserve, apply_fill, release_reservation and               *)
(* set_trading_enabled are one database transaction each, so every one is  *)
(* one action; what is hard is their order: reservations outlive the       *)
(* prices, positions and switches they were granted under.                 *)
(***************************************************************************)
EXTENDS Integers, FiniteSets, FiniteSetsExt, Functions

CONSTANTS
    Reservations,   \* reservation ids the service may draw
    References,     \* reference ids callers give their fills
    Symbols,
    Quantities, Prices, Fees,       \* what callers pass
    StartingCash,
    MaxOrder, MaxGross, MaxSymbol,  \* PortfolioRiskPolicy
    ConcentrationFrom,              \* concentration_activation_value
    NoRef

ASSUME PRAssumption ==
    /\ IsFiniteSet(Reservations) /\ IsFiniteSet(Symbols) /\ Symbols # {}
    /\ NoRef \notin Reservations
    /\ Quantities \subseteq Nat \ {0} /\ Prices \subseteq Nat \ {0} /\ Fees \subseteq Nat
    /\ StartingCash \in Nat \ {0}
    /\ {MaxOrder, MaxGross, MaxSymbol, ConcentrationFrom} \subseteq Nat \ {0}

VARIABLES
    cash,           \* portfolios.cash_balance
    position,       \* portfolio_positions: quantity and last price
    reservation,    \* risk_reservations
    enabled,        \* risk_control_state.trading_enabled
    lossReached,    \* today's realised losses have reached max_daily_loss
    ledger,         \* the reservation each fill reference was posted for
    slipped         \* history: has a fill been dearer than what was reserved?

vars == <<cash, position, reservation, enabled, lossReached, ledger, slipped>>

Sides == {"BUY", "SELL"}

\* late: expires_at has passed.
ReservationRows ==
    [status : {"none", "active", "consumed", "released", "expired"},
     symbol : Symbols, side : Sides, qty : Nat, notional : Nat, late : BOOLEAN]
Positions == [qty : Int, last : Nat]

NoReservation == [status |-> "none", symbol |-> CHOOSE s \in Symbols : TRUE,
                  side |-> "BUY", qty |-> 0, notional |-> 0, late |-> FALSE]

Active(r) == reservation[r].status = "active"
ActiveFor(side) == {r \in Reservations : Active(r) /\ reservation[r].side = side}
ActiveForSymbol(side, s) == {r \in ActiveFor(side) : reservation[r].symbol = s}

Notional(R) == SumFunctionOnSet([r \in Reservations |-> reservation[r].notional], R)
Quantity(R) == SumFunctionOnSet([r \in Reservations |-> reservation[r].qty], R)

\* Market value at the last fill's price.
Value(s) == position[s].qty * position[s].last
Gross == SumFunction([s \in Symbols |-> Value(s)])

Positive(x) == IF x > 0 THEN x ELSE 0

Init ==
    /\ cash = StartingCash
    /\ position = [s \in Symbols |-> [qty |-> 0, last |-> 0]]
    /\ reservation = [r \in Reservations |-> NoReservation]
    /\ enabled = TRUE
    /\ lossReached = FALSE
    /\ ledger = [f \in References |-> NoRef]
    /\ slipped = FALSE

-----------------------------------------------------------------------------
(* evaluate_and_reserve *)

\* A reservation that still counts once the expired ones are swept.
Live(r) == Active(r) /\ ~reservation[r].late

LiveFor(side) == {r \in ActiveFor(side) : Live(r)}
LiveForSymbol(side, s) == {r \in ActiveForSymbol(side, s) : Live(r)}

\* The UPDATE at the head of evaluate_and_reserve.
SweptReservations ==
    [r \in Reservations |-> IF Active(r) /\ reservation[r].late
                            THEN [reservation[r] EXCEPT !.status = "expired"]
                            ELSE reservation[r]]

\* Mutants of Approvable: what is reserved is not set aside; nor is the stock
\* other sell reservations count on.
MutApprovableCash(s, side, q, p) ==
    IF side = "BUY" THEN Min({q, MaxOrder \div p, Positive(cash) \div p})
                    ELSE Min({q, Positive(position[s].qty -
                                          Quantity(LiveForSymbol("SELL", s)))})
MutApprovableStock(s, side, q, p) ==
    IF side = "BUY" THEN Min({q, MaxOrder \div p, Positive(cash) \div p})
                    ELSE Min({q, Positive(position[s].qty)})

\* approved_quantity before the hard checks: the order is cut to what the
\* caps, the cash and the position leave over what is already reserved.
Approvable(s, side, q, p) ==
    LET reserved == Notional(LiveFor("BUY")) IN
    IF side = "BUY"
    THEN Min({q, MaxOrder \div p,
              Positive(cash - reserved) \div p,
              Positive(MaxGross - Gross - reserved) \div p,
              Positive(MaxSymbol - Value(s)) \div p})
    ELSE Min({q, Positive(position[s].qty - Quantity(LiveForSymbol("SELL", s)))})

\* At most 60 per cent of the portfolio in one symbol, once it is large.
Concentrated(s, side, n, p) ==
    LET sym == IF side = "BUY"
               THEN Value(s) + Notional(LiveForSymbol("BUY", s)) + n * p
               ELSE Positive(Value(s) - n * p)
        gross == IF side = "BUY" THEN Gross + Notional(LiveFor("BUY")) + n * p
                                 ELSE Positive(Gross - n * p)
    IN  gross >= ConcentrationFrom /\ 5 * sym > 3 * gross

\* Mutants of HardChecks: the kill switch is not looked at; an order cut to
\* nothing passes.
MutHardChecks(s, side, n, p) ==
    ~lossReached /\ n > 0 /\ ~Concentrated(s, side, n, p)
MutHardChecksZero(s, side, n, p) ==
    enabled /\ ~lossReached /\ ~Concentrated(s, side, n, p)

HardChecks(s, side, n, p) ==
    /\ enabled
    /\ ~lossReached
    /\ n > 0
    /\ ~Concentrated(s, side, n, p)

EvaluateAndReserve(r, s, side, q, p) ==
    LET n == Approvable(s, side, q, p) IN
    /\ reservation[r].status = "none"
    /\ reservation' =
         IF HardChecks(s, side, n, p)
         THEN [SweptReservations EXCEPT ![r] =
                 [status |-> "active", symbol |-> s, side |-> side, qty |-> n,
                  notional |-> n * p, late |-> FALSE]]
         ELSE SweptReservations
    /\ UNCHANGED <<cash, position, enabled, lossReached, ledger, slipped>>

-----------------------------------------------------------------------------
(* apply_fill.  A reference that is already in the ledger, a reservation   *)
(* that is not active, and a fill the cash or the position does not cover  *)
(* leave everything as it was (ROLLBACK).  A fee is a realised loss, and a *)
(* sale may be one.                                                        *)

Fillable(r) == Live(r)

\* Mutant of Consumed: the reservation stays active.
MutConsumed(r) == reservation

Consumed(r) == [reservation EXCEPT ![r].status = "consumed"]

SetAside(r) == IF reservation[r].side = "BUY" THEN reservation[r].notional ELSE 0

ApplyFill(r, f, p, fee) ==
    LET s == reservation[r].symbol
        n == reservation[r].qty
    IN  /\ ledger[f] = NoRef
        /\ Fillable(r)
        /\ \/ /\ reservation[r].side = "BUY"
              /\ cash >= p * n + fee
              /\ cash' = cash - (p * n + fee)
              /\ position' = [position EXCEPT ![s] = [qty |-> @.qty + n, last |-> p]]
           \/ /\ reservation[r].side = "SELL"
              /\ n <= position[s].qty
              /\ cash' = cash + p * n - fee
              /\ position' = [position EXCEPT ![s] = [qty |-> @.qty - n, last |-> p]]
        /\ ledger' = [ledger EXCEPT ![f] = r]
        /\ reservation' = Consumed(r)
        /\ slipped' = (slipped \/ cash' < cash - SetAside(r))
        /\ lossReached' \in {lossReached, fee > 0 \/ reservation[r].side = "SELL" \/ lossReached}
        /\ UNCHANGED enabled

ReleaseReservation(r) ==
    /\ Active(r)
    /\ reservation' = [reservation EXCEPT ![r].status = "released"]
    /\ UNCHANGED <<cash, position, enabled, lossReached, ledger, slipped>>

\* Mutant of Stopped: the switch leaves the reservations active.
MutStopped(on) == reservation

\* Turning the switch off releases every active reservation.
Stopped(on) ==
    [r \in Reservations |-> IF Active(r) /\ ~on
                            THEN [reservation[r] EXCEPT !.status = "released"]
                            ELSE reservation[r]]

SetTradingEnabled(on) ==
    /\ enabled' = on
    /\ reservation' = Stopped(on)
    /\ UNCHANGED <<cash, position, lossReached, ledger, slipped>>

\* reservation_ttl_seconds pass.
ReservationExpires(r) ==
    /\ Live(r)
    /\ reservation' = [reservation EXCEPT ![r].late = TRUE]
    /\ UNCHANGED <<cash, position, enabled, lossReached, ledger, slipped>>

\* CURRENT_DATE moves on; the losses counted are today's.
NextDay ==
    /\ lossReached
    /\ lossReached' = FALSE
    /\ UNCHANGED <<cash, position, reservation, enabled, ledger, slipped>>

-----------------------------------------------------------------------------
Next ==
    \/ \E r \in Reservations, s \in Symbols, side \in Sides,
          q \in Quantities, p \in Prices : EvaluateAndReserve(r, s, side, q, p)
    \/ \E r \in Reservations, f \in References, p \in Prices, fee \in Fees :
          ApplyFill(r, f, p, fee)
    \/ \E r \in Reservations : ReleaseReservation(r) \/ ReservationExpires(r)
    \/ \E on \in BOOLEAN : SetTradingEnabled(on)
    \/ NextDay

Spec == Init /\ [][Next]_vars

-----------------------------------------------------------------------------
(* Properties *)

\* The type invariant.  Nothing is ever reserved for a quantity of zero.
TypeOK ==
    /\ cash \in Int
    /\ position \in [Symbols -> Positions]
    /\ reservation \in [Reservations -> ReservationRows]
    /\ \A r \in Reservations : reservation[r].status # "none" => reservation[r].qty > 0
    /\ enabled \in BOOLEAN /\ lossReached \in BOOLEAN /\ slipped \in BOOLEAN
    /\ ledger \in [References -> Reservations \cup {NoRef}]

\* While the kill switch is on nothing is reserved, so that no fill can be
\* applied either.
StopMeansNoRisk == enabled \/ \A r \in Reservations : ~Active(r)

\* No cash or position moves while trading is stopped, whatever was approved
\* before.
NoFillWhileStopped ==
    [][~enabled => cash' = cash /\ position' = position]_vars

\* The stock pending sell orders count on is there: no sequence of fills,
\* releases and expiries leaves a granted sell uncovered.
SellsCovered ==
    \A s \in Symbols : Quantity(LiveForSymbol("SELL", s)) <= position[s].qty

\* The cash pending buys count on is there, as long as no fill cost more than
\* was reserved for it: reservations prevent double spending.
BuysFunded == ~slipped => Notional(LiveFor("BUY")) <= cash

\* Each position is what the consumed reservations add up to, and each
\* consumed reservation was posted under exactly one reference.
LedgerExplainsPositions ==
    LET consumed(side, s) == {r \in Reservations :
            /\ reservation[r].status = "consumed"
            /\ reservation[r].side = side /\ reservation[r].symbol = s}
    IN  /\ \A s \in Symbols :
             position[s].qty = Quantity(consumed("BUY", s)) - Quantity(consumed("SELL", s))
        /\ \A r \in Reservations :
             Cardinality({f \in References : ledger[f] = r})
                = IF reservation[r].status = "consumed" THEN 1 ELSE 0

\* Whatever is reserved, filled, released or expires, and in whatever order,
\* reserved stock and cash are there and the ledger explains the positions.
ReservationsAreCovered ==
    TypeOK /\ SellsCovered /\ BuysFunded /\ LedgerExplainsPositions

\* No approval takes a symbol over max_symbol_exposure, counting what is
\* already reserved for it.
SymbolExposureCapped ==
    [][\A s \in Symbols :
        Notional(LiveForSymbol("BUY", s))' > Notional(LiveForSymbol("BUY", s))
        => Value(s)' + Notional(LiveForSymbol("BUY", s))' <= MaxSymbol]_vars
=============================================================================
