-------------------------- MODULE MCOrderExecution --------------------------
(* Instances of OrderExecution for TLC; the cfg files say what each is for. *)
EXTENDS OrderExecution, TLC

CONSTANTS i1, i2, d1, d2, p1, p2, p3, b1, b2

TwoApproved == [d \in Decisions |-> 2]
PaperApproved == {[live |-> FALSE, approval |-> TRUE]}
AnyConfig == [live : BOOLEAN, approval : BOOLEAN]

\* Ids are generated and threads are alike: no action tells them apart.
Symmetry == Permutations(Intents) \cup Permutations(Procs) \cup Permutations(Brokers)
=============================================================================
