------------------------- MODULE MCWorkspaceLifecycle -------------------------
(***************************************************************************)
(* A forest of one root and one companion mounted below it, two wtree      *)
(* processes and one workspace name.                                       *)
(***************************************************************************)
EXTENDS WorkspaceLifecycle

CONSTANTS root, child, p1, p2

MCRepos == {root, child}
MCRepoOrder == <<root, child>>
MCParent == [r \in MCRepos |-> IF r = child THEN root ELSE NoParent]
MCProcs == {p1, p2}
MCOneProc == {p1}
MCCompanions == {child}
MCNobodysBaseline == {}
MCSharedBaseline == {child}

MCUserMoves == {"edit", "commit", "switch", "delete", "occupy", "branch"}
MCNoUserMoves == {}
=============================================================================
