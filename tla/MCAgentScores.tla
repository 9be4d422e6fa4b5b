--------------------------- MODULE MCAgentScores ---------------------------
(* Instances of AgentScores for TLC; the cfg files say what each is for. *)
EXTENDS AgentScores, TLC

CONSTANTS a1, a2, t1, t2, c1

\* Two rules that rank the outcomes of a run the other way round.
TwoRules == [o \in Outcomes |->
                CASE o = "good" -> <<2, 1>> [] o = "poor" -> <<1, 2>> [] OTHER -> <<0, 0>>]

Symmetry == Permutations(Agents) \cup Permutations(Threads)
=============================================================================
