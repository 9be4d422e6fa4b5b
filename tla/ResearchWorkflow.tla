-------------------------- MODULE ResearchWorkflow --------------------------
(***************************************************************************)
(* What one backtest does between its manifest and its summary:            *)
(* _execute_research_workflow of backtest_service.py with RiskService,     *)
(* OrderService and ResearchLedger.  Every signal is stored, sized by the  *)
(* risk policy, turned into an order, simulated in memory and recorded,    *)
(* one block of the database after the other; the thread may stop between  *)
(* any two.  Prices are whole units and slippage is Slip of them a share;  *)
(* fees and profits are hundredths, so that a fee of FeePct percent of the *)
(* turnover is exact.  A share's assumed loss at its stop is StopPct       *)
(* percent of its price.                                                   *)
(***************************************************************************)
EXTENDS Integers, Sequences, SequencesExt

CONSTANTS
    Modes,              \* execution modes a run may be started in
    Prices,             \* market prices
    RequestedQuantity,
    MaxSignals,         \* bound: signals of a run
    FeePct, Slip,
    MaxQuantity, MaxOrderValue, MaxLossPerTrade, MaxDailyLoss, StopPct

ASSUME RWAssumption ==
    /\ Modes \subseteq {"research", "sandbox", "semi_auto", "live"}
    /\ Prices \subseteq Nat \ {0}
    /\ RequestedQuantity \in Nat /\ MaxSignals \in Nat
    /\ FeePct \in Nat /\ Slip \in Nat /\ \A p \in Prices : Slip <= p
    /\ {MaxQuantity, MaxOrderValue, MaxLossPerTrade, MaxDailyLoss, StopPct} \subseteq Nat

VARIABLES
    config,     \* [mode, allowLive]: the run's execution mode, allow_live_trading
    pc,         \* the next block
    sig,        \* the signal at hand
    seen,       \* signals stored
    approved,   \* quantity the risk decision on it grants
    verdicts,   \* risk decisions: [yes, no]
    orders,     \* order_events of the run, oldest first
    trail,      \* order_state_events of each order
    ledger,     \* ResearchLedger, in memory
    fill,       \* the fill it returned
    fills,      \* trade_fills of the run
    summary     \* its row of performance_summaries

workflowVars == <<config, pc, sig, seen, approved, verdicts, orders, trail, ledger, fill,
          fills, summary>>

-----------------------------------------------------------------------------
(* ResearchLedger *)

EmptyLedger == [qty |-> 0, side |-> "long", entry |-> 0, entryFee |-> 0,
                pnl |-> 0, fees |-> 0, closed |-> <<>>]

NoFill == [price |-> 0, fees |-> 0, pnl |-> 0]

\* The side of the position a signal opens or closes.
ActiveSide == IF sig.type = "entry" THEN sig.side ELSE ledger.side

\* Slippage is paid by whoever trades.
FillPrice ==
    IF (sig.type = "entry") = (ActiveSide = "short")
    THEN sig.price - Slip ELSE sig.price + Slip

\* process acts on an entry when flat and on an exit when not.
Processable == (sig.type = "entry") = (ledger.qty = 0)

Entered(quantity) ==
    LET fee == FillPrice * quantity * FeePct IN
    [ledger |-> [ledger EXCEPT !.qty = quantity, !.side = ActiveSide,
                               !.entry = FillPrice, !.entryFee = fee,
                               !.fees = @ + fee, !.pnl = @ - fee],
     fill   |-> [price |-> FillPrice, fees |-> fee, pnl |-> -fee]]

Exited(quantity) ==
    LET fee == FillPrice * quantity * FeePct
        gross == 100 * (FillPrice - ledger.entry) * ledger.qty
                 * (IF ledger.side = "long" THEN 1 ELSE -1)
    IN [ledger |-> [EmptyLedger EXCEPT
                       !.pnl = ledger.pnl + gross - fee,
                       !.fees = ledger.fees + fee,
                       !.closed = Append(ledger.closed, gross - ledger.entryFee - fee)],
        fill   |-> [price |-> FillPrice, fees |-> fee, pnl |-> gross - fee]]

Processed(quantity) ==
    IF sig.type = "entry" THEN Entered(quantity) ELSE Exited(quantity)

-----------------------------------------------------------------------------
(* RiskService *)

Least(m, n) == IF m <= n THEN m ELSE n

\* SUM(-realized_pnl) over the losing fills of the run.
Losses == [i \in DOMAIN fills |-> IF fills[i].pnl < 0 THEN -fills[i].pnl ELSE 0]
RealizedLoss == SumFunction(Losses)

ModeAllowed == config.mode # "live" \/ config.allowLive

LossPerShare100 == sig.price * StopPct

\* Mutant of Sized: the loss at the stop does not count.
MutSized == Least(RequestedQuantity, Least(MaxQuantity, MaxOrderValue \div sig.price))

\* The quantity an entry is cut to.
Sized ==
    Least(Least(RequestedQuantity, MaxQuantity),
          Least(MaxOrderValue \div sig.price,
                IF LossPerShare100 > 0
                THEN (100 * MaxLossPerTrade) \div LossPerShare100 ELSE 0))

\* Mutants of EntryRefused: the loss must exceed the limit before it bites; an
\* order cut to nothing passes.
MutEntryRefused ==
    RequestedQuantity = 0 \/ ~sig.fit \/ RealizedLoss > 100 * MaxDailyLoss \/ Sized = 0
MutEntryRefusedNil ==
    RequestedQuantity = 0 \/ ~sig.fit \/ RealizedLoss >= 100 * MaxDailyLoss

EntryRefused ==
    RequestedQuantity = 0 \/ ~sig.fit \/ RealizedLoss >= 100 * MaxDailyLoss \/ Sized = 0

Refused == ~ModeAllowed \/ (sig.type = "entry" /\ EntryRefused)

-----------------------------------------------------------------------------
NoSignal == [type |-> "none", side |-> "long", price |-> 0, fit |-> TRUE]
NoSummary == [trades |-> -1, pnl |-> 0, fees |-> 0, signals |-> 0, yes |-> 0, no |-> 0]

WorkflowInit ==
    /\ config \in [mode : Modes, allowLive : BOOLEAN]
    /\ pc = "signal" /\ sig = NoSignal /\ seen = 0 /\ approved = 0
    /\ verdicts = [yes |-> 0, no |-> 0]
    /\ orders = <<>> /\ trail = <<>>
    /\ ledger = EmptyLedger /\ fill = NoFill /\ fills = <<>>
    /\ summary = NoSummary

\* _store_signal, for the next signal the strategy generated; it is fit if the
\* policy admits its symbol and its confidence.
StoreSignal(type, side, price, fit) ==
    /\ pc = "signal" /\ seen < MaxSignals
    /\ seen' = seen + 1
    /\ sig' = [type |-> type, side |-> side, price |-> price, fit |-> fit]
    /\ pc' = "risk"
    /\ UNCHANGED <<config, approved, verdicts, orders, trail, ledger, fill, fills, summary>>

\* Mutant of GrantedQuantity: exits are sized like entries.
MutGrantedQuantity == IF sig.type = "exit" THEN RequestedQuantity ELSE Sized

\* An exit is granted the whole position, whatever the policy says of sizes.
GrantedQuantity == IF sig.type = "exit" THEN ledger.qty ELSE Sized

\* evaluate: the decision is stored, and an exit from nothing goes no further.
Evaluate ==
    /\ pc = "risk"
    /\ IF Refused
       THEN /\ verdicts' = [verdicts EXCEPT !.no = @ + 1]
            /\ approved' = 0
            /\ pc' = "signal"
       ELSE /\ verdicts' = [verdicts EXCEPT !.yes = @ + 1]
            /\ approved' = GrantedQuantity
            /\ pc' = IF sig.type = "exit" /\ ledger.qty = 0 THEN "signal" ELSE "order"
    /\ UNCHANGED <<config, sig, seen, orders, trail, ledger, fill, fills, summary>>

OrderSide ==
    IF sig.type = "entry" THEN IF sig.side = "short" THEN "SELL" ELSE "BUY"
    ELSE IF ledger.side = "short" THEN "BUY" ELSE "SELL"

\* create_order: the decision is new, so no order has its key.
CreateOrder ==
    /\ pc = "order"
    /\ orders' = Append(orders,
          [type |-> sig.type, side |-> OrderSide, qty |-> approved, price |-> sig.price,
           status |-> IF config.mode = "semi_auto" THEN "pending_approval" ELSE "created"])
    /\ trail' = Append(trail, <<>>)
    /\ pc' = "created"
    /\ UNCHANGED <<config, sig, seen, approved, verdicts, ledger, fill, fills, summary>>

Latest == Len(orders)
Record == [trail EXCEPT ![Latest] = Append(@, orders[Latest].status)]
Move(to) == [orders EXCEPT ![Latest].status = to]

\* The order's first event; then, in memory, the ledger is asked for a fill.
\* Semi-automatic and live orders are left to the approval queue, and so, as
\* created, is an entry while a position is open.
OpenOrder ==
    /\ pc = "created"
    /\ trail' = Record
    /\ IF config.mode \in {"semi_auto", "live"} \/ ~Processable
       THEN /\ pc' = "signal"
            /\ UNCHANGED <<ledger, fill>>
       ELSE /\ ledger' = Processed(approved).ledger
            /\ fill' = Processed(approved).fill
            /\ pc' = "submit"
    /\ UNCHANGED <<config, sig, seen, approved, verdicts, orders, fills, summary>>

\* record_simulated_fill: submitted, its event, the fill, filled, its event.
Submit ==
    /\ pc = "submit"
    /\ orders' = Move("submitted")
    /\ pc' = "submitted"
    /\ UNCHANGED <<config, sig, seen, approved, verdicts, trail, ledger, fill, fills, summary>>

RecordSubmit ==
    /\ pc = "submitted"
    /\ trail' = Record
    /\ pc' = "fill"
    /\ UNCHANGED <<config, sig, seen, approved, verdicts, orders, ledger, fill, fills, summary>>

InsertFill ==
    /\ pc = "fill"
    /\ fills' = Append(fills, [order |-> Latest, type |-> sig.type,
                               side |-> orders[Latest].side, qty |-> orders[Latest].qty,
                               price |-> fill.price, fees |-> fill.fees, pnl |-> fill.pnl])
    /\ pc' = "filling"
    /\ UNCHANGED <<config, sig, seen, approved, verdicts, orders, trail, ledger, fill, summary>>

FillOrder ==
    /\ pc = "filling"
    /\ orders' = Move("filled")
    /\ pc' = "filled"
    /\ UNCHANGED <<config, sig, seen, approved, verdicts, trail, ledger, fill, fills, summary>>

\* Mutant of RecordFill: the event is left out.
MutRecordFill ==
    /\ pc = "filled"
    /\ pc' = "signal"
    /\ UNCHANGED <<config, sig, seen, approved, verdicts, orders, trail, ledger, fill, fills, summary>>

RecordFill ==
    /\ pc = "filled"
    /\ trail' = Record
    /\ pc' = "signal"
    /\ UNCHANGED <<config, sig, seen, approved, verdicts, orders, ledger, fill, fills, summary>>

\* Mutant of StorePerformance: open positions are counted as trades.
MutStorePerformance ==
    /\ pc = "signal"
    /\ summary' = [trades |-> Len(ledger.closed) + (IF ledger.qty > 0 THEN 1 ELSE 0),
                   pnl |-> ledger.pnl, fees |-> ledger.fees,
                   signals |-> seen, yes |-> verdicts.yes, no |-> verdicts.no]
    /\ pc' = "done"
    /\ UNCHANGED <<config, sig, seen, approved, verdicts, orders, trail, ledger, fill, fills>>

\* No signal is left: _store_performance writes what the ledger adds up to.
StorePerformance ==
    /\ pc = "signal"
    /\ summary' = [trades |-> Len(ledger.closed), pnl |-> ledger.pnl, fees |-> ledger.fees,
                   signals |-> seen, yes |-> verdicts.yes, no |-> verdicts.no]
    /\ pc' = "done"
    /\ UNCHANGED <<config, sig, seen, approved, verdicts, orders, trail, ledger, fill, fills>>

\* A block raises or the process dies: what is stored stays as it is.
Stop ==
    /\ pc \notin {"done", "stopped"}
    /\ pc' = "stopped"
    /\ UNCHANGED <<config, sig, seen, approved, verdicts, orders, trail, ledger, fill,
                   fills, summary>>

WorkflowNext ==
    \/ \E p \in Prices :
          \/ \E side \in {"long", "short"}, fit \in BOOLEAN : StoreSignal("entry", side, p, fit)
          \/ StoreSignal("exit", "long", p, TRUE)
    \/ Evaluate \/ CreateOrder \/ OpenOrder \/ Submit \/ RecordSubmit
    \/ InsertFill \/ FillOrder \/ RecordFill \/ StorePerformance \/ Stop

WorkflowSpec == WorkflowInit /\ [][WorkflowNext]_workflowVars

-----------------------------------------------------------------------------
(* Properties *)

PCs == {"signal", "risk", "order", "created", "submit", "submitted", "fill",
        "filling", "filled", "done", "stopped"}
OrderStatuses == {"created", "pending_approval", "submitted", "filled"}
SignalRows == [type : {"none", "entry", "exit"}, side : {"long", "short"}, price : Prices \cup {0}, fit : BOOLEAN]
OrderRows == [type : {"entry", "exit"}, side : {"BUY", "SELL"}, qty : Nat \ {0}, price : Prices,
              status : OrderStatuses]
FillRows == [order : Nat \ {0}, type : {"entry", "exit"}, side : {"BUY", "SELL"}, qty : Nat \ {0},
             price : Nat, fees : Nat, pnl : Int]
LedgerRows == [qty : Nat, side : {"long", "short"}, entry : Nat, entryFee : Nat, pnl : Int, fees : Nat,
               closed : Seq(Int)]

\* The type invariant.
WorkflowTypeOK ==
    /\ config \in [mode : Modes, allowLive : BOOLEAN] /\ pc \in PCs /\ seen \in 0..MaxSignals
    /\ sig \in SignalRows /\ approved \in Nat /\ verdicts \in [yes : Nat, no : Nat]
    /\ orders \in Seq(OrderRows) /\ trail \in Seq(Seq(OrderStatuses)) /\ Len(trail) = Len(orders)
    /\ ledger \in LedgerRows /\ fill \in [price : Nat, fees : Nat, pnl : Int] /\ fills \in Seq(FillRows)
    /\ summary \in [trades : Int, pnl : Int, fees : Nat, signals : Nat, yes : Nat, no : Nat]

Pnl == SumFunction([i \in DOMAIN fills |-> fills[i].pnl])
Fees == SumFunction([i \in DOMAIN fills |-> fills[i].fees])
Signed(side, qty) == IF side = "BUY" THEN qty ELSE -qty
Shares == SumFunction([i \in DOMAIN fills |-> Signed(fills[i].side, fills[i].qty)])

\* The summary of a run is what its stored fills add up to: reports that read
\* trade_fills and reports that read performance_summaries agree.
SummaryExplained ==
    summary # NoSummary =>
        /\ summary.pnl = Pnl /\ summary.fees = Fees
        /\ 2 * summary.trades = Len(fills) - (IF Shares = 0 THEN 0 ELSE 1)
        /\ summary.yes + summary.no = summary.signals

\* Fills come in round trips: an entry, then the exit that closes all of it
\* and nothing more, on the other side.
RoundTrips ==
    \A i \in DOMAIN fills :
        IF i % 2 = 1 THEN fills[i].type = "entry"
        ELSE /\ fills[i].type = "exit"
             /\ fills[i].qty = fills[i-1].qty /\ fills[i].side # fills[i-1].side

\* No order of a run is larger than the policy allows at the signal's price.
OrdersWithinPolicy ==
    \A i \in DOMAIN orders : orders[i].type = "entry" =>
        /\ orders[i].qty <= MaxQuantity
        /\ orders[i].qty * orders[i].price <= MaxOrderValue
        /\ orders[i].qty * orders[i].price * StopPct <= 100 * MaxLossPerTrade

\* No position is opened once the run has lost what the policy allows.
NoEntryAfterLossLimit ==
    \A i \in DOMAIN fills :
        fills[i].type = "entry" => SumFunctionOnSet(Losses, 1..(i - 1)) < 100 * MaxDailyLoss

\* An order has one fill if it is filled, none if it was never submitted, and
\* its events tell its path, but for the one in flight.
OrdersTellTheirStory ==
    \A i \in DOMAIN orders :
        LET made == {k \in DOMAIN fills : fills[k].order = i} IN
        /\ \A k, l \in made : k = l /\ fills[k].qty = orders[i].qty
        /\ orders[i].status = "filled" => made # {}
        /\ made # {} => orders[i].status \in {"submitted", "filled"}
        /\ i < Latest \/ pc \in {"signal", "done"} =>
              trail[i] = CASE orders[i].status = "filled" -> <<"created", "submitted", "filled">>
                           [] OTHER -> <<orders[i].status>>

\* Fills are round trips and the summary is what they add up to.
SummaryTellsTheFills == WorkflowTypeOK /\ SummaryExplained /\ RoundTrips

\* Orders keep to the policy and to the loss limit, and their rows, fills and
\* events tell one story wherever the run stopped.
OrdersKeepToPolicy ==
    OrdersWithinPolicy /\ NoEntryAfterLossLimit /\ OrdersTellTheirStory
=============================================================================
