--------------------------- MODULE MCResearchRuns ---------------------------
(***************************************************************************)
(* The scheduled jobs, the backfill that one of them runs, the life of a   *)
(* backtest and what happens inside one.  Their models share no state: a   *)
(* behaviour is of the part it starts in, and the fairness of the others,  *)
(* where nothing is under way, asks nothing of it.                         *)
(***************************************************************************)
EXTENDS JobScheduler, BacktestRuns, ResearchWorkflow, UniverseBackfill, TLC

CONSTANTS j1, w1, w2, q1, r1, r2, api

VARIABLE part

FourSymbols == <<"a", "b", "c", "d">>

AllInit ==
    /\ part \in {"jobs", "runs", "workflow", "universe"}
    /\ Init /\ RunsInit /\ WorkflowInit /\ FillInit
    /\ part # "workflow" => config = [mode |-> "research", allowLive |-> FALSE]

AllNext ==
    /\ UNCHANGED part
    /\ \/ /\ part = "jobs" /\ Next
          /\ UNCHANGED <<runsVars, workflowVars, fillVars>>
       \/ /\ part = "runs" /\ RunsNext
          /\ UNCHANGED <<vars, workflowVars, fillVars>>
       \/ /\ part = "workflow" /\ WorkflowNext
          /\ UNCHANGED <<vars, runsVars, fillVars>>
       \/ /\ part = "universe" /\ FillNext
          /\ UNCHANGED <<vars, runsVars, workflowVars>>

\* FillFairness, in the behaviours of the backfill.
UniverseFairness ==
    /\ WF_fillVars(part = "universe" /\ StartFill(Scheduled))
    /\ \A f \in Fillers : WF_fillVars(part = "universe" /\ FillOn(f))

AllSpec ==
    /\ AllInit /\ [][AllNext]_<<part, vars, runsVars, workflowVars, fillVars>>
    /\ Fairness /\ RunsFairness /\ UniverseFairness

\* What UniverseBackfill promises, in its own behaviours: whatever failed,
\* overlapped or died, every symbol that has a history is imported in the end.
BackfillCompletes == part = "universe" => UniverseIsFilled
=============================================================================
