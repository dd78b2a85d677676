----------------------------- MODULE ReadState ------------------------------
(***************************************************************************)
(* The read flag of the e-mails of one mailbox: requests mark e-mails read *)
(* or unread at the provider and in emails.is_read and leave an audit row  *)
(* in user_actions, syncs copy the flag of the provider, and the user's    *)
(* other mail clients change it there.                                     *)
(*                                                                         *)
(* isRead holds the committed rows.  A session writes the column only when *)
(* the value it assigns differs from the one it loaded: the UPDATE of an   *)
(* unchanged attribute leaves it out, though last_synced_at always makes   *)
(* an UPDATE that takes the row.  A sync waits for the row of the mailbox  *)
(* while another one is past its first flush, so there is one at a time.   *)
(***************************************************************************)
EXTENDS Naturals, FiniteSets

CONSTANTS
    Emails,       \* the messages of the mailbox
    Marks,        \* requests to mark-read or mark-unread, one e-mail each
    Sync,         \* the session of the sync that runs
    Crashing,     \* the sessions that may die before their commit
    MaxToggles,   \* bound: changes made by other mail clients
    None          \* no e-mail, no session

Sessions == Marks \cup {Sync}
Flags == {"read", "unread"}
ASSUME SessionAssumption ==
    Sync \notin Marks /\ None \notin Sessions \cup Emails /\ Crashing \subseteq Sessions
ASSUME ToggleAssumption == MaxToggles \in Nat

VARIABLES
    remote,   \* the flag at the provider (the UNREAD label of Gmail)
    today,    \* the e-mails that are of today in the user's time zone
    isRead,   \* emails.is_read of the committed rows; "absent": no row
    rowLock,  \* the session that has updated a row and not committed
    toggles,  \* changes by other clients so far
    pc,       \* the point a session has reached
    target, wanted,  \* the e-mail and the flag a request is about
    loaded,   \* the is_read a session read, per e-mail; "none": not yet
    window,   \* the e-mails in the window the sync began with
    fetched,  \* what the sync got from the provider, per e-mail
    accepted, \* the provider has carried out the request
    audit,    \* action_status of the committed user_actions row of a request
    answer    \* what the client of a request has been told

worldVars == <<remote, today, toggles>>
rowVars   == <<isRead, rowLock>>
markVars  == <<target, wanted, accepted, audit, answer>>
readVars  == <<loaded, window, fetched>>
vars == <<worldVars, rowVars, pc, markVars, readVars>>

Points == {"idle", "call", "record", "update", "respond", "ended",
           "fetch", "load", "flush", "commit"}
Nothing == [e \in Emails |-> "none"]

Init ==
    /\ remote   \in [Emails -> Flags]
    /\ today    = Emails
    /\ isRead   = [e \in Emails |-> "absent"]
    /\ rowLock  = [e \in Emails |-> None]
    /\ toggles  = 0
    /\ pc       = [p \in Sessions |-> "idle"]
    /\ target   = [p \in Marks |-> None]
    /\ wanted   = [p \in Marks |-> "read"]
    /\ loaded   = [p \in Sessions |-> Nothing]
    /\ window   = {}
    /\ fetched  = Nothing
    /\ accepted = [p \in Marks |-> FALSE]
    /\ audit    = [p \in Marks |-> "none"]
    /\ answer   = [p \in Marks |-> "none"]
-----------------------------------------------------------------------------
(* Helpers.  The definition after an "and" in a comment is the same code with a
   plausible mistake; nothing uses it but the mutation of the properties. *)

Goto(p, point) == pc' = [pc EXCEPT ![p] = point]

\* The column after p's UPDATE of e with the flag f, as SQLAlchemy writes it.
Written(p, e, f) == IF loaded[p][e] = f THEN isRead[e] ELSE f

\* What upsert_email_messages leaves in a row; and if it filled new rows only.
UpsertedNew(e) == IF loaded[Sync][e] = "absent" THEN fetched[e] ELSE isRead[e]
Upserted(e) == Written(Sync, e, fetched[e])

\* The rows a session gives back when it ends; and of one never closed.
KeepRows(p) == UNCHANGED rowLock
FreeRows(p) == rowLock' = [e \in Emails |-> IF rowLock[e] = p THEN None ELSE rowLock[e]]

\* The audit row of a request the provider failed: mark_email_read commits it
\* before it raises; and when get_db rolls it back.
RolledBack(p) == audit[p]
FailureRecord(p) == "failed"

\* The answers a provider that has, or has not, done it may give: the status
\* is checked before the body is read.
Answers(done, result) == result \in {"success", "unreadable"} => done

Reset(p) == loaded' = [loaded EXCEPT ![p] = Nothing]
-----------------------------------------------------------------------------
(* POST /emails/{id}/mark-read and mark-unread. *)

\* get_owned_email finds the row; the mailbox may be written.  Otherwise the
\* request is refused and does nothing.
Open(p, e, f) ==
    /\ pc[p] = "idle"
    /\ isRead[e] # "absent"
    /\ target' = [target EXCEPT ![p] = e]
    /\ wanted' = [wanted EXCEPT ![p] = f]
    /\ loaded' = [loaded EXCEPT ![p][e] = isRead[e]]
    /\ Goto(p, "call")
    /\ UNCHANGED <<worldVars, rowVars, window, fetched, accepted, audit, answer>>

\* The call of the provider: it carries out the request or not, and the answer
\* is a success, an error or a time-out, or one that cannot be read.  The last
\* raises what nobody handles: a 500 and a rollback.
Call(p, done, result) ==
    /\ pc[p] = "call"
    /\ Answers(done, result)
    /\ remote' = IF done THEN [remote EXCEPT ![target[p]] = wanted[p]] ELSE remote
    /\ accepted' = [accepted EXCEPT ![p] = done]
    /\ Goto(p, CASE result = "success" -> "update"
                 [] result = "error" -> "record"
                 [] result = "unreadable" -> "ended")
    /\ UNCHANGED <<today, toggles, rowVars, target, wanted, audit, answer, readVars>>

\* record_failed_action, the commit of the handler, and its answer.
RecordFailure(p) ==
    /\ pc[p] = "record"
    /\ audit' = [audit EXCEPT ![p] = FailureRecord(p)]
    /\ answer' = [answer EXCEPT ![p] = "error"]
    /\ Goto(p, "ended")
    /\ Reset(p)
    /\ UNCHANGED <<worldVars, rowVars, target, wanted, window, fetched, accepted>>

\* The flush of the UPDATE and of the executed action, once the row is free.
UpdateRow(p) ==
    /\ pc[p] = "update"
    /\ rowLock[target[p]] = None
    /\ rowLock' = [rowLock EXCEPT ![target[p]] = p]
    /\ Goto(p, "respond")
    /\ UNCHANGED <<worldVars, isRead, markVars, readVars>>

\* The answer leaves before get_db commits.
Respond(p) ==
    /\ pc[p] = "respond"
    /\ answer' = [answer EXCEPT ![p] = "ok"]
    /\ Goto(p, "commit")
    /\ UNCHANGED <<worldVars, rowVars, target, wanted, accepted, audit, readVars>>

CommitMark(p) ==
    /\ p \in Marks /\ pc[p] = "commit"
    /\ isRead' = [isRead EXCEPT ![target[p]] = Written(p, target[p], wanted[p])]
    /\ audit' = [audit EXCEPT ![p] = "executed"]
    /\ FreeRows(p)
    /\ Goto(p, "ended")
    /\ Reset(p)
    /\ UNCHANGED <<worldVars, target, wanted, accepted, answer, window, fetched>>
-----------------------------------------------------------------------------
(* A sync of the mailbox, from the listing of today's messages on. *)

Begin ==
    /\ pc[Sync] = "idle"
    /\ window' = today
    /\ Goto(Sync, "fetch")
    /\ UNCHANGED <<worldVars, rowVars, markVars, loaded, fetched>>

\* The details of one message of the window.
Fetch(e) ==
    /\ pc[Sync] = "fetch"
    /\ e \in window /\ fetched[e] = "none"
    /\ fetched' = [fetched EXCEPT ![e] = remote[e]]
    /\ UNCHANGED <<worldVars, rowVars, pc, markVars, loaded, window>>

Fetched ==
    /\ pc[Sync] = "fetch"
    /\ \A e \in window : fetched[e] # "none"
    /\ Goto(Sync, "load")
    /\ UNCHANGED <<worldVars, rowVars, markVars, readVars>>

\* upsert_email_messages reads the rows one by one ...
Load(e) ==
    /\ pc[Sync] = "load"
    /\ fetched[e] # "none" /\ loaded[Sync][e] = "none"
    /\ loaded' = [loaded EXCEPT ![Sync][e] = isRead[e]]
    /\ UNCHANGED <<worldVars, rowVars, pc, markVars, window, fetched>>

Loaded ==
    /\ pc[Sync] = "load"
    /\ \A e \in Emails : fetched[e] # "none" => loaded[Sync][e] # "none"
    /\ Goto(Sync, "flush")
    /\ UNCHANGED <<worldVars, rowVars, markVars, readVars>>

\* ... and flushes all of them at the end, each when its row is free.
Flush(e) ==
    /\ pc[Sync] = "flush"
    /\ fetched[e] # "none" /\ rowLock[e] = None
    /\ rowLock' = [rowLock EXCEPT ![e] = Sync]
    /\ UNCHANGED <<worldVars, isRead, pc, markVars, readVars>>

Flushed ==
    /\ pc[Sync] = "flush"
    /\ \A e \in Emails : fetched[e] # "none" => rowLock[e] = Sync
    /\ Goto(Sync, "commit")
    /\ UNCHANGED <<worldVars, rowVars, markVars, readVars>>

CommitSync ==
    /\ pc[Sync] = "commit"
    /\ isRead' = [e \in Emails |-> IF fetched[e] = "none" THEN isRead[e] ELSE Upserted(e)]
    /\ FreeRows(Sync)
    /\ Goto(Sync, "idle")
    /\ fetched' = Nothing /\ window' = {}
    /\ Reset(Sync)
    /\ UNCHANGED <<worldVars, markVars>>
-----------------------------------------------------------------------------
(* The rest of the world. *)

\* A session dies, or a call of the database or of the provider of a sync
\* fails: everything is rolled back.
Crash(p) ==
    /\ p \in Crashing
    /\ pc[p] \notin {"idle", "ended"}
    /\ Goto(p, IF p = Sync THEN "idle" ELSE "ended")
    /\ FreeRows(p)
    /\ fetched' = IF p = Sync THEN Nothing ELSE fetched
    /\ window'  = IF p = Sync THEN {} ELSE window
    /\ Reset(p)
    /\ UNCHANGED <<worldVars, isRead, markVars>>

\* The user opens or restores a message in another mail client.
Toggle(e, f) ==
    /\ toggles < MaxToggles
    /\ f # remote[e]
    /\ remote' = [remote EXCEPT ![e] = f]
    /\ toggles' = toggles + 1
    /\ UNCHANGED <<today, rowVars, pc, markVars, readVars>>

\* Midnight: an e-mail is of today no longer.
Midnight ==
    /\ today # {}
    /\ today' = {}
    /\ UNCHANGED <<remote, toggles, rowVars, pc, markVars, readVars>>

MarkStep(p) == \/ \E done \in BOOLEAN, result \in {"success", "error", "unreadable"} :
                     Call(p, done, result)
               \/ RecordFailure(p)
               \/ UpdateRow(p)
               \/ Respond(p)
               \/ CommitMark(p)
SyncStep == \/ \E e \in Emails : Fetch(e) \/ Load(e) \/ Flush(e)
            \/ Fetched
            \/ Loaded
            \/ Flushed
            \/ CommitSync

Next == \/ \E p \in Marks, e \in Emails, f \in Flags : Open(p, e, f)
        \/ \E p \in Marks : MarkStep(p)
        \/ Begin
        \/ SyncStep
        \/ \E p \in Sessions : Crash(p)
        \/ \E e \in Emails, f \in Flags : Toggle(e, f)
        \/ Midnight

Spec == Init /\ [][Next]_vars

\* Every call has a time-out, and PostgreSQL serves the waiters of a row.
FairSpec == Spec /\ WF_vars(SyncStep) /\ \A p \in Marks : WF_vars(MarkStep(p))
-----------------------------------------------------------------------------
(* Properties. *)

\* A row is locked by a session past its UPDATE, and by no other.
TypeOK ==
    /\ remote \in [Emails -> Flags] /\ today \subseteq Emails /\ window \subseteq Emails
    /\ isRead \in [Emails -> Flags \cup {"absent"}]
    /\ rowLock \in [Emails -> Sessions \cup {None}]
    /\ toggles \in 0..MaxToggles
    /\ pc \in [Sessions -> Points]
    /\ target \in [Marks -> Emails \cup {None}] /\ wanted \in [Marks -> Flags]
    /\ loaded \in [Sessions -> [Emails -> Flags \cup {"absent", "none"}]]
    /\ fetched \in [Emails -> Flags \cup {"none"}]
    /\ accepted \in [Marks -> BOOLEAN]
    /\ audit \in [Marks -> {"none", "executed", "failed"}]
    /\ answer \in [Marks -> {"none", "ok", "error"}]
    /\ \A e \in Emails : rowLock[e] # None =>
         pc[rowLock[e]] \in (IF rowLock[e] = Sync THEN {"flush", "commit"}
                                                  ELSE {"respond", "commit"})

\* user_actions tells what the provider did: the change of a request that was
\* answered with an error has a failed action, that of one answered with success
\* an executed one, unless its session died when the commit was still to come;
\* and no action is executed that the provider has not carried out.
EffectAudited ==
    /\ \A p \in Marks \ Crashing : pc[p] = "ended" /\ accepted[p] /\ answer[p] # "none" =>
          audit[p] = IF answer[p] = "ok" THEN "executed" ELSE "failed"
    /\ \A p \in Marks : audit[p] = "executed" => accepted[p]

\* As long as syncs keep completing, the row of an e-mail that stays in the
\* window agrees with the provider in the end: neither a mark that was recorded
\* over a newer flag nor a sync that fetched before a mark is there to stay.
Agrees(e) == isRead[e] = remote[e]
Converges ==
    []<><<CommitSync>>_vars =>
        \A e \in Emails : <>(e \notin today) \/ <>[]Agrees(e)
=============================================================================
