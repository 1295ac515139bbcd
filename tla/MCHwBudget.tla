----------------------------- MODULE MCHwBudget -----------------------------
(* Jobs of four units on a machine of at most 24: one job, several, and none. *)
EXTENDS HwBudget

MCTotals == {5, 24}
MCSizes == {0, 5, 12, 23}
MCCores == {1, 8}
=============================================================================
