---------------------------- MODULE BacktestRuns ----------------------------
(***************************************************************************)
(* The life of rows of strategy_runs: BacktestService.run as the API's     *)
(* threads, the command line and the task worker call it, and              *)
(* reconcile_interrupted_runs, which create_app calls when the API starts. *)
(* What a run computes between its manifest and its summary is             *)
(* ResearchWorkflow; here it takes one step and may raise.                 *)
(***************************************************************************)
EXTENDS Naturals

CONSTANTS
    Runs,           \* run ids
    Processes,      \* processes that run backtests
    API,            \* the process that reconciles when it starts
    NoProcess,
    MaxFaults,      \* bound: blocks that raise because the file is busy
    MaxDeaths       \* bound: deaths of a process

ASSUME BRAssumption ==
    /\ API \in Processes /\ NoProcess \notin Processes
    /\ MaxFaults \in Nat /\ MaxDeaths \in Nat

VARIABLES
    status,     \* strategy_runs.status; "none" before the row is there
    hasSummary, \* is there a row of performance_summaries?
    stage,      \* how far run has come, in its process
    owner,      \* the process that called run
    up,         \* the processes that are running
    faults, deaths

runsVars == <<status, hasSummary, stage, owner, up, faults, deaths>>

Statuses == {"none", "running", "completed", "failed", "interrupted"}
Final == {"completed", "failed", "interrupted"}
Stages == {"idle", "manifest", "working", "completing", "failing", "over"}
Active == {"manifest", "working", "completing", "failing"}

RunsInit ==
    /\ status = [r \in Runs |-> "none"]
    /\ hasSummary = [r \in Runs |-> FALSE]
    /\ stage = [r \in Runs |-> "idle"]
    /\ owner = [r \in Runs |-> NoProcess]
    /\ up = Processes
    /\ faults = 0 /\ deaths = 0

-----------------------------------------------------------------------------
(* run *)

\* _start_run: the row is there before the work begins.
StartBacktest(r, p) ==
    /\ stage[r] = "idle" /\ p \in up
    /\ stage' = [stage EXCEPT ![r] = "manifest"]
    /\ owner' = [owner EXCEPT ![r] = p]
    /\ status' = [status EXCEPT ![r] = "running"]
    /\ UNCHANGED <<hasSummary, up, faults, deaths>>

\* _store_experiment_manifest.
StoreManifest(r) ==
    /\ stage[r] = "manifest"
    /\ stage' = [stage EXCEPT ![r] = "working"]
    /\ UNCHANGED <<status, hasSummary, owner, up, faults, deaths>>

\* It is called outside the try: nobody closes the row when it raises.
ManifestRaises(r) ==
    /\ stage[r] = "manifest" /\ faults < MaxFaults
    /\ faults' = faults + 1
    /\ stage' = [stage EXCEPT ![r] = "over"]
    /\ UNCHANGED <<status, hasSummary, owner, up, deaths>>

\* Mutant of StoreSummary: the row is closed before the summary is written.
MutStoreSummary(r) ==
    /\ stage[r] = "working"
    /\ stage' = [stage EXCEPT ![r] = "completing"]
    /\ UNCHANGED <<status, hasSummary, owner, up, faults, deaths>>

\* The signals are worked off and _store_performance inserts the summary.
StoreSummary(r) ==
    /\ stage[r] = "working"
    /\ hasSummary' = [hasSummary EXCEPT ![r] = TRUE]
    /\ stage' = [stage EXCEPT ![r] = "completing"]
    /\ UNCHANGED <<status, owner, up, faults, deaths>>

\* The strategy, a signal or the summary raises.
WorkRaises(r) ==
    /\ stage[r] = "working"
    /\ stage' = [stage EXCEPT ![r] = "failing"]
    /\ UNCHANGED <<status, hasSummary, owner, up, faults, deaths>>

\* Mutant of Outcome: the stage instead of the status.
MutOutcome(r) == stage[r]

Outcome(r) == IF stage[r] = "completing" THEN "completed" ELSE "failed"

\* _finish_run, whatever the row says by then.
FinishBacktest(r) ==
    /\ stage[r] \in {"completing", "failing"}
    /\ status' = [status EXCEPT ![r] = Outcome(r)]
    /\ stage' = [stage EXCEPT ![r] = "over"]
    /\ UNCHANGED <<hasSummary, owner, up, faults, deaths>>

FinishRaises(r) ==
    /\ stage[r] \in {"completing", "failing"} /\ faults < MaxFaults
    /\ faults' = faults + 1
    /\ stage' = [stage EXCEPT ![r] = "over"]
    /\ UNCHANGED <<status, hasSummary, owner, up, deaths>>

-----------------------------------------------------------------------------
(* Processes *)

\* A backtest lives in its process and ends with it.
Die(p) ==
    /\ p \in up /\ deaths < MaxDeaths
    /\ deaths' = deaths + 1
    /\ up' = up \ {p}
    /\ stage' = [r \in Runs |-> IF owner[r] = p /\ stage[r] \in Active
                                THEN "over" ELSE stage[r]]
    /\ UNCHANGED <<status, hasSummary, owner, faults>>

\* Mutants of Reconciled: rows without a summary only; every row.
MutReconciledNone(r) == IF status[r] = "running" /\ hasSummary[r] THEN "interrupted" ELSE status[r]
MutReconciledAll(r) == IF status[r] # "none" THEN "interrupted" ELSE status[r]

\* reconcile_interrupted_runs.
Reconciled(r) == IF status[r] = "running" THEN "interrupted" ELSE status[r]

\* A process comes back; the API closes every row that is still running.
Restart(p) ==
    /\ p \notin up
    /\ up' = up \cup {p}
    /\ status' = IF p = API THEN [r \in Runs |-> Reconciled(r)] ELSE status
    /\ UNCHANGED <<hasSummary, stage, owner, faults, deaths>>

-----------------------------------------------------------------------------
RunStep(r) ==
    \/ StoreManifest(r) \/ ManifestRaises(r)
    \/ StoreSummary(r) \/ WorkRaises(r)
    \/ FinishBacktest(r) \/ FinishRaises(r)

RunsNext ==
    \/ \E r \in Runs : RunStep(r) \/ \E p \in Processes : StartBacktest(r, p)
    \/ \E p \in Processes : Die(p) \/ Restart(p)

RunsSpec == RunsInit /\ [][RunsNext]_runsVars

(* A thread that runs a backtest goes on, and whoever operates the API     *)
(* starts it again.                                                        *)
RunsFairness ==
    /\ \A r \in Runs : WF_runsVars(RunStep(r))
    /\ WF_runsVars(Restart(API))

FairRunsSpec == RunsSpec /\ RunsFairness

-----------------------------------------------------------------------------
(* Properties *)

\* The type invariant.
RunsTypeOK ==
    /\ status \in [Runs -> Statuses]
    /\ hasSummary \in [Runs -> BOOLEAN]
    /\ stage \in [Runs -> Stages]
    /\ owner \in [Runs -> Processes \cup {NoProcess}]
    /\ up \subseteq Processes
    /\ faults \in 0..MaxFaults /\ deaths \in 0..MaxDeaths

\* A run is reported as completed only with the summary its reports read.
CompletedHasSummary == \A r \in Runs : status[r] = "completed" => hasSummary[r]

\* While the API is up a running row is a backtest some thread is at work on;
\* if no block has raised, that is, and the API alone runs backtests.
RunningIsAlive ==
    API \in up /\ faults = 0 => \A r \in Runs : status[r] = "running" => stage[r] \in Active

\* What the rows say of a run is so: a completed one has its summary, and a
\* running one a thread.
RunsAreAccounted == RunsTypeOK /\ CompletedHasSummary /\ RunningIsAlive

\* A run never leaves its final status ("a run cannot outlive the process
\* that owned it"): what was shown of a run stays true.
FinalForEver ==
    [][\A r \in Runs : status[r] \in Final => status'[r] = status[r]]_runsVars

\* No run is shown as running for ever, unless a block raised where nobody
\* closes the row.
EveryRunCloses ==
    \A r \in Runs : status[r] = "running" ~> status[r] # "running" \/ faults > 0
=============================================================================
