--------------------------- MODULE MCHistoryScreen ---------------------------
(* Two wallets of up to two transactions and pages of one: another page to *)
(* scroll for, and two loads that overtake each other.                     *)
EXTENDS HistoryScreen, TLC

Symmetry == Permutations(Wallets)
==============================================================================
