-------------------------- MODULE UniverseBackfill --------------------------
(***************************************************************************)
(* UniverseBackfillService.run: take the next symbols without history,     *)
(* import each, and note the outcome per symbol.  The scheduler's job and  *)
(* the endpoint may fill the same universe at the same time, and a filler  *)
(* may die between two blocks.  What one import does to the catalogue is   *)
(* MarketData.                                                             *)
(***************************************************************************)
EXTENDS Naturals, FiniteSets, Sequences, SequencesExt

CONSTANTS
    Universe,       \* the symbols, in the order of the tuple
    Unknown,        \* symbols the broker never has history for
    Fillers,        \* calls of run that may overlap
    Scheduled,      \* the one the hourly job makes
    MaxSymbols,     \* max_symbols of a call
    MaxFillFaults,  \* bound: imports and records that fail for the moment
    MaxFillDeaths   \* bound: deaths of a filler

ASSUME UBAssumption ==
    /\ Universe \in Seq(STRING) /\ Unknown \subseteq ToSet(Universe)
    /\ Scheduled \in Fillers /\ MaxSymbols \in Nat \ {0} /\ MaxFillFaults \in Nat /\ MaxFillDeaths \in Nat

VARIABLES
    outcome,    \* universe_backfill_status, by symbol; "pending" when there is no row
    stored,     \* the symbols whose history is in the catalogue
    filler,     \* per call: the symbols it has left, and what it is about to do
    fillFaults, fillDeaths

fillVars == <<outcome, stored, filler, fillFaults, fillDeaths>>

Idle == [todo |-> <<>>, at |-> "idle"]

FillInit ==
    /\ outcome = [s \in ToSet(Universe) |-> "pending"]
    /\ stored = {}
    /\ filler = [f \in Fillers |-> Idle]
    /\ fillFaults = 0 /\ fillDeaths = 0

\* Mutant of Needed: a symbol that failed once is left out.
MutNeeded(s) == outcome[s] = "pending"

\* _pending with retry_failed, as both callers leave it.
Needed(s) == outcome[s] # "ok"

Pending == SelectSeq(Universe, Needed)

StartFill(f) ==
    /\ filler[f].at = "idle" /\ Pending # <<>>
    /\ filler' = [filler EXCEPT ![f] =
           [todo |-> SubSeq(Pending, 1, IF Len(Pending) < MaxSymbols THEN Len(Pending)
                                                                     ELSE MaxSymbols),
            at |-> "import"]]
    /\ UNCHANGED <<outcome, stored, fillFaults, fillDeaths>>

ImportSymbol(f) ==
    /\ filler[f].at = "import" /\ Head(filler[f].todo) \notin Unknown
    /\ stored' = stored \union {Head(filler[f].todo)}
    /\ filler' = [filler EXCEPT ![f].at = "ok"]
    /\ UNCHANGED <<outcome, fillFaults, fillDeaths>>

ImportFails(f) ==
    /\ filler[f].at = "import"
    /\ \/ Head(filler[f].todo) \in Unknown /\ UNCHANGED fillFaults
       \/ fillFaults < MaxFillFaults /\ fillFaults' = fillFaults + 1
    /\ filler' = [filler EXCEPT ![f].at = "failed"]
    /\ UNCHANGED <<outcome, stored, fillDeaths>>

\* The next symbol, or the end of the call.
Onward(f) ==
    IF Len(filler[f].todo) = 1 THEN Idle
    ELSE [todo |-> Tail(filler[f].todo), at |-> "import"]

\* Mutant of Noted: every attempt is noted as done.
MutNoted(f) == "ok"

Noted(f) == filler[f].at

\* _record: the old row is deleted and the new one inserted.
RecordOutcome(f) ==
    /\ filler[f].at \in {"ok", "failed"}
    /\ outcome' = [outcome EXCEPT ![Head(filler[f].todo)] = Noted(f)]
    /\ filler' = [filler EXCEPT ![f] = Onward(f)]
    /\ UNCHANGED <<stored, fillFaults, fillDeaths>>

\* The two statements are no transaction: it may raise before or between
\* them.  Inside the try it is noted as a failure; in the handler it ends run.
OutcomeRaises(f) ==
    /\ filler[f].at \in {"ok", "failed"} /\ fillFaults < MaxFillFaults
    /\ fillFaults' = fillFaults + 1
    /\ \E was \in {outcome[Head(filler[f].todo)], "pending"} :
           outcome' = [outcome EXCEPT ![Head(filler[f].todo)] = was]
    /\ filler' = [filler EXCEPT
           ![f] = IF filler[f].at = "ok" THEN [filler[f] EXCEPT !.at = "failed"] ELSE Idle]
    /\ UNCHANGED <<stored, fillDeaths>>

FillerDies(f) ==
    /\ filler[f].at # "idle" /\ fillDeaths < MaxFillDeaths
    /\ fillDeaths' = fillDeaths + 1
    /\ filler' = [filler EXCEPT ![f] = Idle]
    /\ UNCHANGED <<outcome, stored, fillFaults>>

FillOn(f) == ImportSymbol(f) \/ ImportFails(f) \/ RecordOutcome(f)

FillNext ==
    \E f \in Fillers : StartFill(f) \/ FillOn(f) \/ OutcomeRaises(f) \/ FillerDies(f)

\* The job is registered to run every hour, and a call that runs goes on.
FillFairness ==
    /\ WF_fillVars(StartFill(Scheduled))
    /\ \A f \in Fillers : WF_fillVars(FillOn(f))

FillSpec == FillInit /\ [][FillNext]_fillVars /\ FillFairness

-----------------------------------------------------------------------------
(* Properties *)

\* Resumable: as long as fewer symbols than one call takes have no history, every
\* other symbol is imported in the end and stays so, whatever failed, overlapped
\* or died on the way; and imported means that its history is stored.
UniverseIsFilled ==
    Cardinality(Unknown) < MaxSymbols =>
        <>[](\A s \in ToSet(Universe) \ Unknown : outcome[s] = "ok" /\ s \in stored)

\* universe_backfill_service.py:17: a failure for one symbol never aborts the
\* rest.  It does not hold: when the first max_symbols pending symbols have no
\* history, every call takes the same ones again.
NoSymbolStarves == \A s \in ToSet(Universe) \ Unknown : <>(outcome[s] = "ok")
=============================================================================
