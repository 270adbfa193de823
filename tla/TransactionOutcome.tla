--------------------------- MODULE TransactionOutcome ---------------------------
(***************************************************************************)
(* What a multi-repository mutation promises its caller, stated without    *)
(* steps, order or rollback: while it is pending any subset of its effects *)
(* may be visible, and it ends in one of three ways.  It commits with all  *)
(* of them; it aborts with none of them; or it gives up and then reports a *)
(* set of effects that contains every one it leaves behind.  Where an      *)
(* operation can fail after its effect and give nobody a way to see it,    *)
(* that one effect may be left besides, and no second one.                 *)
(*                                                                         *)
(* The prose of this promise is docs/spec/wtree.spec.md section 83 (no     *)
(* partially updated logical workspace, or recovery metadata) and the      *)
(* comment of Result.RollbackComplete in                                   *)
(* src/internal/transaction/transaction.go:49.                             *)
(***************************************************************************)
CONSTANTS
    Steps,                  \* the mutation's effects
    Escaping                \* those a failing operation can leave unseen

VARIABLES
    outcome,                \* "pending", "committed", "aborted", "incomplete"
    visible,                \* the effects present in the repositories now
    reported                \* the effects named as not reverted

vars == <<outcome, visible, reported>>

Init ==
    /\ outcome = "pending"
    /\ visible = {}
    /\ reported = {}

\* Effects appear and disappear, and are reported, while it is pending.
Progress ==
    /\ outcome = "pending"
    /\ visible' \in SUBSET Steps
    /\ reported' \in SUBSET Steps
    /\ UNCHANGED outcome

\* named holds all that is visible, but for at most one escaped effect.
Accounted(named) ==
    \E escaped \in {{}} \cup {{e} : e \in Escaping} :
        visible \subseteq named \cup escaped

\* All of it is there.
Commit ==
    /\ outcome = "pending"
    /\ visible = Steps
    /\ reported = {}
    /\ outcome' = "committed"
    /\ UNCHANGED <<visible, reported>>

Abort ==
    /\ outcome = "pending"
    /\ reported = {}
    /\ Accounted({})
    /\ outcome' = "aborted"
    /\ UNCHANGED <<visible, reported>>

GiveUp ==
    /\ outcome = "pending"
    /\ reported # {}
    /\ Accounted(reported)
    /\ outcome' = "incomplete"
    /\ UNCHANGED <<visible, reported>>

Next == Progress \/ Commit \/ Abort \/ GiveUp

Spec == Init /\ [][Next]_vars
=============================================================================
