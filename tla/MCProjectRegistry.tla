--------------------------- MODULE MCProjectRegistry ---------------------------
(***************************************************************************)
(* Two commands, two project ids and three places: a base checkout with a  *)
(* release lock, a group of checkouts without a project, and an empty      *)
(* place, so that every command has somewhere to work and every pair can   *)
(* meet at a place or at an id.                                            *)
(***************************************************************************)
EXTENDS ProjectRegistry, TLC

CONSTANTS p1, p2

MCProcs == {p1, p2}
MCSymmetry == Permutations(MCProcs)
================================================================================
