-------------------------- MODULE StrategySignals --------------------------
(***************************************************************************)
(* The position machine of RuleSpecStrategy.generate, bar by bar, and of   *)
(* the built-in strategies, which are the same machine for a long position *)
(* with a stop or none.  Whether a rule passes at a bar is the indicators' *)
(* business and arbitrary here; prices and the three controls are numbers, *)
(* percentages of the price.  What the signals become is ResearchWorkflow. *)
(***************************************************************************)
EXTENDS Naturals, Sequences, FiniteSetsExt, SequencesExt

CONSTANTS
    BarPrices,      \* prices of a bar
    Percents,       \* values of stop_loss_pct, take_profit_pct, trailing_stop_pct
    NoControl,      \* a control that is not set
    MaxBars         \* bound: bars after the warm-up

ASSUME SGAssumption ==
    BarPrices \subseteq Nat \ {0} /\ Percents \subseteq 1..100 /\ NoControl = 0
    /\ MaxBars \in Nat

VARIABLES
    side,           \* position_side
    controls,       \* risk of the spec
    seen,           \* prices of the bars so far
    held,           \* in_position
    entryPrice, extreme,
    emitted,        \* the signals, with the bar each was made at
    finished        \* has generate returned?

signalVars == <<side, controls, seen, held, entryPrice, extreme, emitted, finished>>

Signal(type, bar) == [type |-> type, bar |-> bar]

SignalsInit ==
    /\ side \in {"long", "short"}
    /\ controls \in [stop : Percents \union {NoControl}, target : Percents \union {NoControl},
                     trail : Percents \union {NoControl}]
    /\ seen = <<>> /\ held = FALSE /\ entryPrice = 0 /\ extreme = 0
    /\ emitted = <<>> /\ finished = FALSE

\* The price has moved against a position by the percentage, or in its favour.
Against(price, base, pct) ==
    pct # NoControl /\ IF side = "long" THEN 100 * price <= base * (100 - pct)
                                        ELSE 100 * price >= base * (100 + pct)
InFavour(price, base, pct) ==
    pct # NoControl /\ IF side = "long" THEN 100 * price >= base * (100 + pct)
                                        ELSE 100 * price + base * pct <= base * 100

\* Mutant of Furthest: the extreme is the highest price on either side.
MutFurthest(a, b) == Max({a, b})

Furthest(a, b) == IF side = "long" THEN Max({a, b}) ELSE Min({a, b})

\* Mutant of Hit: the trailing stop is taken from the entry price.
MutHit(price, best) ==
    \/ Against(price, entryPrice, controls.stop)
    \/ InFavour(price, entryPrice, controls.target)
    \/ Against(price, entryPrice, controls.trail)

Hit(price, best) ==
    \/ Against(price, entryPrice, controls.stop)
    \/ InFavour(price, entryPrice, controls.target)
    \/ Against(price, best, controls.trail)

\* Mutant of MayEnter: a bar that closes a position may open the next.
MutMayEnter(passes) == passes

MayEnter(passes) == passes /\ ~held

\* One bar: an entry only when flat, an exit only of a position held before it.
Bar(price, entryPasses, exitPasses) ==
    LET best == IF held THEN Furthest(extreme, price) ELSE extreme
        bar == Len(seen) + 1
    IN /\ ~finished /\ Len(seen) < MaxBars
       /\ seen' = Append(seen, price)
       /\ IF MayEnter(entryPasses)
          THEN /\ held' = TRUE /\ entryPrice' = price /\ extreme' = price
               /\ emitted' = Append(emitted, Signal("entry", bar))
          ELSE IF held /\ (Hit(price, best) \/ exitPasses)
               THEN /\ held' = FALSE /\ extreme' = best
                    /\ emitted' = Append(emitted, Signal("exit", bar))
                    /\ UNCHANGED entryPrice
               ELSE extreme' = best /\ UNCHANGED <<held, entryPrice, emitted>>
       /\ UNCHANGED <<side, controls, finished>>

\* _force_exit: a position is squared off at the last bar, even its own.
ForceExit ==
    /\ ~finished /\ seen # <<>>
    /\ finished' = TRUE
    /\ emitted' = IF held THEN Append(emitted, Signal("exit", Len(seen))) ELSE emitted
    /\ UNCHANGED <<side, controls, seen, held, entryPrice, extreme>>

SignalsNext ==
    \/ \E price \in BarPrices, entryPasses, exitPasses \in BOOLEAN :
           Bar(price, entryPasses, exitPasses)
    \/ ForceExit

SignalsSpec == SignalsInit /\ [][SignalsNext]_signalVars

-----------------------------------------------------------------------------
(* Properties *)

\* The round trip the signals at n and n + 1 are, and what its controls say of
\* the prices, from their definition instead of bar by bar: the loss and the
\* gain are taken from the price of the entry, the trailing stop from the best
\* price since.
Overrun(first, bar) ==
    LET since == {seen[k] : k \in first..bar}
        best == IF side = "long" THEN Max(since) ELSE Min(since)
    IN \/ Against(seen[bar], seen[first], controls.stop)
       \/ InFavour(seen[bar], seen[first], controls.target)
       \/ Against(seen[bar], best, controls.trail)

\* The signals are round trips in time order, closed when generate returns; a
\* position is never carried past the first bar at which one of its controls,
\* by definition, is reached.
SignalsHonourControls ==
    /\ \A n \in 1..Len(emitted) :
           /\ emitted[n].type = IF n % 2 = 1 THEN "entry" ELSE "exit"
           /\ n > 1 => emitted[n].bar >= emitted[n - 1].bar
           /\ n % 2 = 1 /\ n > 1 => emitted[n].bar > emitted[n - 1].bar
    /\ finished => Len(emitted) % 2 = 0
    /\ held /\ ~finished => Len(emitted) % 2 = 1
    /\ \A n \in {k \in 1..Len(emitted) : k % 2 = 1} :
           LET first == emitted[n].bar
               last == IF n = Len(emitted) THEN Len(seen) + 1 ELSE emitted[n + 1].bar
           IN \A bar \in (first + 1)..(last - 1) : ~Overrun(first, bar)
=============================================================================
