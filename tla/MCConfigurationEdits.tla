-------------------------- MODULE MCConfigurationEdits --------------------------
(***************************************************************************)
(* Two commands, two branches, one hook definition or none in each file.   *)
(***************************************************************************)
EXTENDS ConfigurationEdits, TLC

CONSTANTS p1, p2, b1, b2, h1, h2

MCProcs == {p1, p2}
MCBranches == {b1, b2}
MCHooks == {h1, h2}
MCSymmetry == Permutations(MCProcs) \cup Permutations(MCHooks)
================================================================================
