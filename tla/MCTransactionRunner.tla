------------------------- MODULE MCTransactionRunner -------------------------
(***************************************************************************)
(* Five steps of every kind the callers build: 1 reversible, partly failing*)
(* and without cleanup (create_branch); 2 reversible with a cleanup that may*)
(* overlook the effect (add_worktree); 3 with a cleanup that sees it       *)
(* (prepare_grouping); 4 not reversible but with cleanup (a forced         *)
(* remove_worktree); 5 neither.                                            *)
(***************************************************************************)
EXTENDS TransactionRunner

MCReversible == {1, 2, 3}
MCCleans == {2, 3, 4}
MCPartial == {1, 2, 3, 4}
MCOverlooks == {2}
=============================================================================
