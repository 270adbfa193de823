---------------------------- MODULE UpdateJournal ----------------------------
(***************************************************************************)
(* The private journal of `wtree update` (service/update_execute.go): what *)
(* it may say, and what the executor does to it as a value.  Digests,      *)
(* identities, diagnostics and the backup metadata are left out: a journal *)
(* of this model is one the operation wrote, with its plan.                *)
(*                                                                         *)
(* An entry's receipt is what an inverse needs.  For a fast-forward it     *)
(* holds the generation the tracking ref had before the fetch; for an      *)
(* addition and a published file, that it is bound at all.                 *)
(***************************************************************************)
EXTENDS Naturals, Sequences

\* A generation of a ref, a checkout or a file: the one the plan was made from,
\* the one the update produces, or anybody else's.
Generations == {"before", "after", "theirs"}

EntryStates == {"started", "prepared", "completed", "rolled-back", "unreverted"}
JournalStates == {"active", "rolling-back", "cleaning", "incomplete"}
Outcomes == {"none", "success", "rolled-back"}

\* The two entries that no effect of the plan has.
Synthetic == {"recovery-retained", "terminal-cleanup"}

Entry(name, state, receipt) == [name |-> name, state |-> state, receipt |-> receipt]

NoJournal == [state |-> "absent", outcome |-> "none", progress |-> <<>>]
NewJournal == [state |-> "active", outcome |-> "none", progress |-> <<>>]

StatesOf(journal) == {journal.progress[i].state : i \in DOMAIN journal.progress}

\* UpdateJournal.Validate: nothing invalid is ever written or read.
Valid(journal) ==
    LET progress == journal.progress
        states == StatesOf(journal)
    IN /\ \A i, j \in DOMAIN progress : progress[i].name = progress[j].name => i = j
       /\ \A i \in DOMAIN progress :
             /\ progress[i].state \in {"started", "prepared"} => i = Len(progress)
             /\ progress[i].state = "prepared" => progress[i].receipt # "none"
       /\ \/ /\ journal.state = "active" /\ journal.outcome = "none"
             /\ states \cap {"unreverted", "rolled-back"} = {}
          \/ journal.state = "rolling-back" /\ journal.outcome = "none"
          \/ /\ journal.state = "cleaning"
             /\ states \cap {"started", "unreverted"} = {}
             /\ \/ journal.outcome = "success" /\ "rolled-back" \notin states
                \/ journal.outcome = "rolled-back" /\ states \subseteq {"rolled-back"}
          \/ /\ journal.state = "incomplete" /\ "unreverted" \in states
             /\ journal.outcome # "none" =>
                   \A i \in DOMAIN progress :
                      IF progress[i].name = "terminal-cleanup"
                      THEN progress[i].state = "unreverted"
                      ELSE progress[i].state \in {"completed", "rolled-back"}

Append1(journal, entry) == [journal EXCEPT !.progress = Append(@, entry)]

Started(journal, name) == Append1(journal, Entry(name, "started", "none"))

\* The transition of one entry, and of the entry being executed, with its receipt.
Mark(journal, i, state) == [journal EXCEPT !.progress[i].state = state]

WithReceipt(journal, state, receipt) ==
    [journal EXCEPT !.progress[Len(journal.progress)].state = state,
                    !.progress[Len(journal.progress)].receipt = receipt]

\* recoveryIncomplete: the last entry that is not rolled back is the evidence; if
\* there is none, one is made up.
LastPending(journal, i) ==
    /\ i \in DOMAIN journal.progress
    /\ journal.progress[i].state # "rolled-back"
    /\ \A j \in DOMAIN journal.progress :
          j > i => journal.progress[j].state = "rolled-back"

RecoveryIncomplete(journal) ==
    LET pending == {i \in DOMAIN journal.progress : LastPending(journal, i)}
        marked == IF pending = {}
                  THEN Append1(journal, Entry("recovery-retained", "unreverted", "none"))
                  ELSE Mark(journal, CHOOSE i \in pending : TRUE, "unreverted")
    IN [marked EXCEPT !.state = "incomplete"]

\* The journal names a terminal outcome: only private cleanup is left to do.
Terminal(journal) ==
    \/ journal.state = "cleaning"
    \/ journal.state = "incomplete" /\ journal.outcome # "none"

\* terminalCleanupJournal: the entry of a cleanup that failed before is dropped.
IsEffect(entry) == entry.name # "terminal-cleanup"

CleaningJournal(journal, outcome) ==
    [state |-> "cleaning", outcome |-> outcome,
     progress |-> IF Terminal(journal) /\ journal.state = "incomplete"
                  THEN SelectSeq(journal.progress, IsEffect)
                  ELSE journal.progress]

\* terminalCleanupIncomplete.
CleanupIncomplete(journal) ==
    [Append1(journal, Entry("terminal-cleanup", "unreverted", "none"))
        EXCEPT !.state = "incomplete"]
=============================================================================
