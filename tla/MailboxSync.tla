---------------------------- MODULE MailboxSync ----------------------------
(***************************************************************************)
(* What the sync pipeline promises to a mailbox, whatever happens to       *)
(* requests, messages, workers and locks: its synchronisations run one at  *)
(* a time, and a job is executed at most once - it starts, or it is        *)
(* dropped, and then it is never taken up again.                           *)
(***************************************************************************)
EXTENDS Naturals

CONSTANTS Mailboxes, Jobs, NoJob

VARIABLES
    waiting,   \* the jobs whose execution may still start
    running    \* the job being executed for a mailbox, or NoJob

vars == <<waiting, running>>

Init ==
    /\ waiting = Jobs
    /\ running = [m \in Mailboxes |-> NoJob]

Start(m, j) ==
    /\ j \in waiting
    /\ running[m] = NoJob
    /\ waiting' = waiting \ {j}
    /\ running' = [running EXCEPT ![m] = j]

\* The execution ends: succeeded, failed, or lost with its process.
Finish(m) ==
    /\ running[m] # NoJob
    /\ running' = [running EXCEPT ![m] = NoJob]
    /\ UNCHANGED waiting

\* The job fails or is forgotten before its execution starts.
Drop(j) ==
    /\ j \in waiting
    /\ waiting' = waiting \ {j}
    /\ UNCHANGED running

Next ==
    \/ \E m \in Mailboxes, j \in Jobs : Start(m, j)
    \/ \E m \in Mailboxes : Finish(m)
    \/ \E j \in Jobs : Drop(j)

Spec == Init /\ [][Next]_vars
=============================================================================
