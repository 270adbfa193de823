--------------------------- MODULE MCCompanionUpdate ---------------------------
(***************************************************************************)
(* Two workspaces, the first of which may have the baseline checked out;   *)
(* the fetch finds the planned commit or one above it.                     *)
(***************************************************************************)
EXTENDS CompanionUpdate

CONSTANTS default, feature, old, new, mine, above

MCOrder == <<default, feature>>
MCParent == [c \in {old, new, mine, above} |-> CASE c = old -> None [] c = above -> new [] OTHER -> old]
================================================================================
