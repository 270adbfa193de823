---------------------------- MODULE MCDoctorRepair ----------------------------
(***************************************************************************)
(* Two top-level repositories, a child below the first, and a worktree of  *)
(* the second that belongs to another workspace.                           *)
(***************************************************************************)
EXTENDS DoctorRepair

CONSTANTS a, b, k, e

MCOrder == <<a, b, k>>
MCParent == (a :> None) @@ (b :> None) @@ (k :> a)
MCRepoOf == (e :> b)
MCMounted == (a :> <<1>>) @@ (b :> <<2>>) @@ (k :> <<1, 1>>)
================================================================================
