----------------------------- MODULE GitWorkspace -----------------------------
(***************************************************************************)
(* The world a workspace command acts on: for one workspace name, the      *)
(* branch of that name in every repository of the project, the worktree    *)
(* mounted for it, and the directory that holds them.  wtree is not alone  *)
(* there: a person, an editor or another tool works in the same checkouts, *)
(* takes no lock, and acts between any two steps of a command.             *)
(*                                                                         *)
(* Git is external: its operations are what internal/git/adapter.go runs   *)
(* and service code relies on.  A commit is "base", the one the workspace  *)
(* was planned from and merged by definition, or "user", made since.       *)
(***************************************************************************)
EXTENDS Naturals, Sequences, FiniteSets

CONSTANTS
    Repos,          \* the project's repositories
    RepoOrder,      \* a sequence of them, parents first (Project.ParentFirst)
    Parent,         \* [Repos -> Repos \cup {NoParent}], the nesting of mounts
    NoParent,
    Procs,          \* wtree processes: who created a worktree
    Nobody,
    UserMoves,      \* what the user may do, names of actions below
    MaxUserMoves    \* bound on how often

ASSUME WorldAssumption ==
    /\ Nobody \notin Procs
    /\ NoParent \notin Repos
    /\ MaxUserMoves \in Nat

VARIABLES
    branch,         \* [Repos -> {"none", "base", "user"}]: refs/heads/<name>
    tree,           \* [Repos -> Tree]: the mount path and Git's registration
    grouping,       \* does the directory that contains the workspace exist
    touched,        \* repositories the user has acted on
    moves,          \* number of user actions so far
    baselines       \* repositories whose baseline branch has the workspace's name

world == <<branch, tree, grouping>>
userVars == <<touched, moves, baselines>>

Heads == {"base", "user"}

\* dir: what is at the path; reg: is a worktree registered there; id: who made
\* the directory (os.SameFile identity); on: is the branch its HEAD; dirt: what
\* git status shows, "ignore" being exactly the automatic .gitignore edit.
Tree == [dir : {"none", "checkout", "foreign"}, reg : BOOLEAN,
         id : Procs \cup {Nobody}, on : BOOLEAN,
         dirt : {"clean", "ignore", "user"}]

NoTree == [dir |-> "none", reg |-> FALSE, id |-> Nobody, on |-> FALSE,
           dirt |-> "clean"]

NewTree(p) == [dir |-> "checkout", reg |-> TRUE, id |-> p, on |-> TRUE,
               dirt |-> "clean"]

GitTypeOK ==
    /\ branch \in [Repos -> {"none"} \cup Heads]
    /\ tree \in [Repos -> Tree]
    /\ grouping \in BOOLEAN
    /\ touched \subseteq Repos
    /\ moves \in 0..MaxUserMoves
    /\ baselines \subseteq Repos

Ancestors[r \in Repos] ==
    IF Parent[r] = NoParent THEN {} ELSE {Parent[r]} \cup Ancestors[Parent[r]]

Below(r) == {s \in Repos : r \in Ancestors[s]}
Children(r) == {s \in Repos : Parent[s] = r}

-----------------------------------------------------------------------------
(* Git                                                                      *)

CheckedOut(r) == tree[r].reg /\ tree[r].on

\* git branch <name> <base>
BranchCreatable(r) == branch[r] = "none"

\* git branch -d, or -D with force: refused while checked out, -d when unmerged
BranchDeletable(r, force) ==
    /\ branch[r] # "none"
    /\ ~CheckedOut(r)
    /\ force \/ branch[r] = "base"

\* git worktree add <path> <name>
WorktreeAddable(r) ==
    /\ branch[r] # "none"
    /\ tree[r].dir = "none"
    /\ ~tree[r].reg

\* git worktree remove [--force] <path>
WorktreeRemovable(r, force) ==
    /\ tree[r].dir = "checkout"
    /\ tree[r].reg
    /\ force \/ tree[r].dirt = "clean"

\* Deleting a directory takes everything mounted below it, but no registration.
Emptied(t) == [t EXCEPT !.dir = "none", !.dirt = "clean"]

WithoutTree(r, gone) ==
    [s \in Repos |-> CASE s = r -> gone
                       [] s \in Below(r) -> Emptied(tree[s])
                       [] OTHER -> tree[s]]

\* git status --ignored: a child mounted below shows as an ignored entry.
CleanIncludingIgnored(r) ==
    /\ tree[r].dir = "checkout"
    /\ tree[r].dirt = "clean"
    /\ \A c \in Children(r) : tree[c].dir = "none"

-----------------------------------------------------------------------------
(* The user                                                                 *)

UserMove(name, repos) ==
    /\ name \in UserMoves
    /\ moves < MaxUserMoves
    /\ moves' = moves + 1
    /\ UNCHANGED baselines
    /\ touched' = touched \cup repos
    /\ UNCHANGED grouping

\* Edits files without committing them.
UserEdits(r) ==
    /\ UserMove("edit", {r})
    /\ tree[r].dir = "checkout"
    /\ tree' = [tree EXCEPT ![r].dirt = "user"]
    /\ UNCHANGED branch

\* Commits everything on the workspace branch.
UserCommits(r) ==
    /\ UserMove("commit", {r})
    /\ tree[r].dir = "checkout" /\ tree[r].on
    /\ branch' = [branch EXCEPT ![r] = "user"]
    /\ tree' = [tree EXCEPT ![r].dirt = "clean"]

\* Switches the checkout to another branch, taking edits along.
UserSwitches(r) ==
    /\ UserMove("switch", {r})
    /\ tree[r].dir = "checkout" /\ tree[r].on
    /\ tree' = [tree EXCEPT ![r].on = FALSE]
    /\ UNCHANGED branch

\* rm -rf of the mount; Git still has the registration.
UserDeletes(r) ==
    /\ UserMove("delete", {r} \cup Below(r))
    /\ tree[r].dir # "none"
    /\ tree' = WithoutTree(r, Emptied(tree[r]))
    /\ UNCHANGED branch

\* Creates an unrelated directory at the mount path.
UserOccupies(r) ==
    /\ UserMove("occupy", {r})
    /\ tree[r].dir = "none"
    /\ grouping
    /\ Parent[r] # NoParent => tree[Parent[r]].dir # "none"
    /\ tree' = [tree EXCEPT ![r].dir = "foreign"]
    /\ UNCHANGED branch

\* Creates a branch of the workspace's name.
UserCreatesBranch(r) ==
    /\ UserMove("branch", {r})
    /\ BranchCreatable(r)
    /\ branch' = [branch EXCEPT ![r] = "user"]
    /\ UNCHANGED tree

UserActs ==
    \E r \in Repos :
        \/ UserEdits(r)
        \/ UserCommits(r)
        \/ UserSwitches(r)
        \/ UserDeletes(r)
        \/ UserOccupies(r)
        \/ UserCreatesBranch(r)
=============================================================================
