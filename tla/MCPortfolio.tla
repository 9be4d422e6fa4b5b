---------------------------- MODULE MCPortfolio ----------------------------
(***************************************************************************)
(* The portfolio, and what keeps an eye on the platform: the alerts, the   *)
(* digest and the arena.  They share no table: a behaviour is of the part  *)
(* it starts in.                                                           *)
(***************************************************************************)
EXTENDS MCPortfolioRisk, PlatformAlerts, DailyDigest, Arena

CONSTANTS p1, p2

VARIABLE part

AllInit ==
    /\ part \in {"portfolio", "alerts", "watches", "digest", "arena"}
    /\ Init /\ AlertInit /\ DigestInit /\ ArenaInit

AllNext ==
    /\ UNCHANGED part
    /\ \/ /\ part = "portfolio" /\ Next
          /\ UNCHANGED <<noticeVars, digestVars, arenaVars>>
       \/ /\ part = "alerts" /\ AlertNext
          /\ UNCHANGED <<vars, digestVars, arenaVars>>
       \/ /\ part = "watches" /\ WatchNext
          /\ UNCHANGED <<vars, digestVars, arenaVars>>
       \/ /\ part = "digest" /\ DigestNext
          /\ UNCHANGED <<vars, noticeVars, arenaVars>>
       \/ /\ part = "arena" /\ ArenaNext
          /\ UNCHANGED <<vars, noticeVars, digestVars>>

AllSpec == AllInit /\ [][AllNext]_<<part, vars, noticeVars, digestVars, arenaVars>>

\* Threads are alike too, whichever service they are in.
SymmetryAll == Permutations(Reservations) \cup Permutations(Evaluators)
=============================================================================
