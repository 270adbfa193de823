------------------------ MODULE MCUpdateTransaction ------------------------
(***************************************************************************)
(* Instances of UpdateTransaction for TLC: a plan that fast-forwards the   *)
(* base repository and adds one, and two of the four files.                *)
(***************************************************************************)
EXTENDS UpdateTransaction

MCEffects == <<"root", "added">>
MCAdditions == {"added"}
MCTargets == <<"config", "registry">>

\* The registry alone: the file that other projects write.
MCRegistry == <<"registry">>
=============================================================================
