------------------------------ MODULE MCHookRuns ------------------------------
(***************************************************************************)
(* Two commands' worth of processes, two hooks, two generations of the     *)
(* configuration and two commits.                                          *)
(***************************************************************************)
EXTENDS HookRuns, TLC

CONSTANTS p1, p2

MCProcs == {p1, p2}
MCSymmetry == Permutations(MCProcs)
================================================================================
