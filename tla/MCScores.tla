------------------------------ MODULE MCScores ------------------------------
(***************************************************************************)
(* The leaderboard, the supervisor that sweeps the agents, and the         *)
(* strategies they run.  Their models share no state: a behaviour is of    *)
(* the part it starts in.                                                  *)
(***************************************************************************)
EXTENDS MCAgentScores, Supervisor, StrategySpecs, StrategySignals

VARIABLE part

OneSwept == <<"agent">>
OneDataset == <<"dataset">>

AllInit ==
    /\ part \in {"scores", "supervisor", "specs", "signals"}
    /\ Init /\ SuperInit /\ SpecsInit /\ SignalsInit
    /\ part # "signals" => side = "long" /\ controls = [stop |-> NoControl, target |-> NoControl, trail |-> NoControl]

AllNext ==
    /\ UNCHANGED part
    /\ \/ /\ part = "scores" /\ Next
          /\ UNCHANGED <<superVars, specVars, signalVars>>
       \/ /\ part = "supervisor" /\ SuperNext
          /\ UNCHANGED <<vars, specVars, signalVars>>
       \/ /\ part = "specs" /\ SpecsNext
          /\ UNCHANGED <<vars, superVars, signalVars>>
       \/ /\ part = "signals" /\ SignalsNext
          /\ UNCHANGED <<vars, superVars, specVars>>

AllSpec == AllInit /\ [][AllNext]_<<part, vars, superVars, specVars, signalVars>>
=============================================================================
