------------------------ MODULE MCWorkspaceCommands ------------------------
(***************************************************************************)
(* A base repository and a companion, complete, without the companion and  *)
(* with a detached base; every form of the commands that differs in what   *)
(* it does.                                                                *)
(***************************************************************************)
EXTENDS WorkspaceCommands

CONSTANTS base, kit

MCOrder == <<base, kit>>
MCWorkspaces == {[absent |-> {}, detached |-> {}], [absent |-> {kit}, detached |-> {}],
                 [absent |-> {}, detached |-> {base}]}
Invocation(name, scope, reverse, dry, human) ==
    [name |-> name, scope |-> scope, reverse |-> reverse, dry |-> dry, human |-> human]
MCCommands == {Invocation("exec", "all", TRUE, FALSE, TRUE),
               Invocation("exec", "ordinary", FALSE, FALSE, FALSE),
               Invocation("exec", kit, FALSE, TRUE, TRUE),
               Invocation("fetch", "all", FALSE, FALSE, TRUE),
               Invocation("fetch", "all", FALSE, TRUE, FALSE),
               Invocation("push", "all", FALSE, FALSE, TRUE),
               Invocation("push", "all", FALSE, FALSE, FALSE)}
============================================================================
