-------------------------- MODULE MCPortfolioRisk --------------------------
(* Instances of PortfolioRisk for TLC. *)
EXTENDS PortfolioRisk, TLC

CONSTANTS r1, r2, r3, r4, f1, f2, f3, f4, s1, s2

\* Ids are drawn at random and references are opaque.  (Symbols are not
\* permuted: NoReservation chooses one.)
Symmetry == Permutations(Reservations) \cup Permutations(References)
=============================================================================
