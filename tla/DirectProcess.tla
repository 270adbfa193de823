---------------------------- MODULE DirectProcess ----------------------------
(***************************************************************************)
(* The programs the commands wait for.  One program run for exec           *)
(* (aggregate.go RunDirectProcess and the waits below it): it is started   *)
(* in a process group of its own with two pipes, the pipes are read until  *)
(* every holder of a write end is gone, and a cancelled context kills the  *)
(* group.  And a call of Git (adapter.go run): a cancelled context kills   *)
(* Git alone, and the call waits for its output without a limit.           *)
(*                                                                         *)
(* The two pipes are one here, open while the program or a descendant of   *)
(* it holds a write end.  What is read, its bounds and its redaction are   *)
(* left out.                                                               *)
(***************************************************************************)
VARIABLES
    canceled,   \* the command's context has been cancelled (interrupt)
    child,      \* the program: "none", "running" or "ended"
    code,       \* its exit status, once it ended by itself
    pipes,      \* whether somebody holds a write end: "none", "open", "closed"
    holder,     \* a descendant with the pipes: "none", in the "group", "outside" it
    waiter,     \* what RunDirectProcess is waiting for
    leaked,     \* it returned with the cleanup error of the timer
    held        \* a helper Git started (a transport) holds the output of the call

child_vars == <<child, code, pipes, holder>>
process_vars == <<canceled, child, code, pipes, holder, waiter, leaked, held>>

Fresh == child' = "none" /\ code' = "none" /\ pipes' = "none" /\ holder' = "none"

ProcessInit ==
    /\ canceled = FALSE
    /\ child = "none" /\ code = "none" /\ pipes = "none" /\ holder = "none"
    /\ waiter = "idle" /\ leaked = FALSE /\ held = FALSE

-----------------------------------------------------------------------------
(* The operating system and the program.                                   *)

\* An interrupt: the context of the command is cancelled and stays so.
Cancel == ~canceled /\ canceled' = TRUE /\ UNCHANGED <<child_vars, waiter, leaked, held>>

\* The program starts a descendant that inherits the pipes, in its own process
\* group or (a daemon) outside it.
ChildForks ==
    /\ child = "running" /\ pipes = "open" /\ holder = "none"
    /\ holder' \in {"group", "outside"}
    /\ UNCHANGED <<canceled, child, code, pipes, waiter, leaked, held>>

\* The program closes or redirects its output and goes on working.
ChildCloses ==
    /\ child = "running" /\ pipes = "open" /\ holder = "none"
    /\ pipes' = "closed"
    /\ UNCHANGED <<canceled, child, code, holder, waiter, leaked, held>>

ChildEnds ==
    /\ child = "running"
    /\ child' = "ended" /\ code' \in {"zero", "other"}
    /\ pipes' = IF holder = "none" THEN "closed" ELSE pipes
    /\ UNCHANGED <<canceled, holder, waiter, leaked, held>>

HolderEnds ==
    /\ holder # "none" /\ holder' = "none"
    /\ pipes' = IF child = "ended" THEN "closed" ELSE pipes
    /\ UNCHANGED <<canceled, child, code, waiter, leaked, held>>

\* A helper of Git inherits the output of the call; killing Git leaves it.
HelperHolds == ~canceled /\ ~held /\ held' = TRUE /\ UNCHANGED <<canceled, child_vars, waiter, leaked>>

HelperEnds == held /\ held' = FALSE /\ UNCHANGED <<canceled, child_vars, waiter, leaked>>

ProgramStep == ChildForks \/ ChildCloses \/ ChildEnds \/ HolderEnds

-----------------------------------------------------------------------------
(* RunDirectProcess.                                                       *)

StartChild ==
    /\ waiter = "idle" /\ ~canceled
    /\ child' = "running" /\ code' = "none" /\ pipes' = "open" /\ holder' = "none"
    /\ waiter' = "reading" /\ leaked' = FALSE
    /\ UNCHANGED <<canceled, held>>

\* Both captures reported the end of their stream.
Drained ==
    /\ waiter = "reading" /\ pipes = "closed"
    /\ waiter' = "waiting"
    /\ UNCHANGED <<canceled, child_vars, leaked, held>>

\* command.Wait after the streams ended: nothing here looks at the context.
Reaped ==
    /\ waiter = "waiting" /\ child = "ended"
    /\ waiter' = "returned"
    /\ UNCHANGED <<canceled, child_vars, leaked, held>>

\* stopDirectProcess: the process group is killed.
KillGroup ==
    /\ waiter = "reading" /\ canceled
    /\ waiter' = "stopping"
    /\ child' = "ended" /\ code' = IF child = "ended" THEN code ELSE "killed"
    /\ holder' = IF holder = "group" THEN "none" ELSE holder
    /\ pipes' = IF holder' = "none" THEN "closed" ELSE pipes
    /\ UNCHANGED <<canceled, leaked, held>>

\* The group cannot be signalled (every member has ended, or may not be killed).
KillFails ==
    /\ waiter = "reading" /\ canceled
    /\ waiter' = "stopping"
    /\ UNCHANGED <<canceled, child_vars, leaked, held>>

Stopped ==
    /\ waiter = "stopping" /\ child = "ended" /\ pipes = "closed"
    /\ waiter' = "returned"
    /\ UNCHANGED <<canceled, child_vars, leaked, held>>

\* Mutant: without the timer the call waits for whoever holds the pipes.
NoTimer == FALSE /\ UNCHANGED process_vars

\* The timer of directProcessCleanupTimeout: the readers are closed and the call
\* returns without the process or its output.
TimerFires ==
    /\ waiter = "stopping"
    /\ waiter' = "returned" /\ leaked' = TRUE
    /\ UNCHANGED <<canceled, child_vars, held>>

WaiterStep == Drained \/ Reaped \/ KillGroup \/ KillFails \/ Stopped \/ TimerFires

\* The call has returned and its result is taken; what the program left running
\* outside is no longer looked at.
TakeResult == waiter = "returned" /\ waiter' = "idle" /\ Fresh /\ leaked' = FALSE /\ UNCHANGED <<canceled, held>>

\* It waits for a program that has let go of both streams and is still running.
Deaf == waiter = "waiting" /\ child = "running"
=============================================================================
