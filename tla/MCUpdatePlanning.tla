--------------------------- MODULE MCUpdatePlanning ----------------------------
EXTENDS UpdatePlanning, TLC

CONSTANTS root, kit, lib, app

MCOrder == <<root, kit, lib, app>>
MCForward == {<<1, 2>>, <<1, 4>>}

Repository(parent, companion) ==
    [parent |-> parent, mount |-> "here", branch |-> "main", companion |-> companion, source |-> "a"]

\* A base with a companion and an ordinary repository; the other manifest has
\* another one instead.
MA == [base |-> root, repos |-> root :> Repository(None, FALSE) @@ kit :> Repository(root, TRUE) @@ lib :> Repository(root, FALSE)]
MB == [base |-> root, repos |-> root :> Repository(None, FALSE) @@ kit :> Repository(root, TRUE) @@ app :> Repository(root, FALSE)]

\* Commit 3 has no manifest and is not ahead of anything.
MCTracked == <<MA, MB, NoManifest, MA>>
MCCandidates == {MA, MB}
================================================================================
