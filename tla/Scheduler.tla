----------------------------- MODULE Scheduler ------------------------------
(***************************************************************************)
(* The passes of the scheduler over the active mailboxes of all users      *)
(* (app.jobs.scheduled_email_sync and scheduled_digest): each queues one   *)
(* job per mailbox and local day, beside users who sync by hand, connect   *)
(* and disconnect, and workers that end the jobs.  The inside of a         *)
(* dispatch and of a job is in SyncJobs and DigestJobs.                    *)
(*                                                                         *)
(* Passes for syncs and for digests read and write different jobs, so a    *)
(* behaviour has passes of one kind.  Every mailbox has a user and a time  *)
(* zone of its own: its days begin, and its hour comes, when they come.    *)
(***************************************************************************)
EXTENDS Naturals, FiniteSets

CONSTANTS
    NMailboxes,  \* how many mailboxes there are
    MaxDays,     \* bound: local days
    MaxNights,   \* bound: mailboxes that reach the last day
    MaxEvents,   \* bound: connections, disconnections, jobs by hand and crashes
    Passes       \* passes that may be under way at a time

Mailboxes == 1..NMailboxes   \* in the order of _active_mailboxes
Days == 1..MaxDays
Keys == Mailboxes \X Days    \* scheduled_<kind>:<mailbox>:<local date>

ASSUME SchedulerAssumption == /\ NMailboxes \in Nat /\ MaxDays \in Nat \ {0}
                              /\ MaxNights \in Nat /\ MaxEvents \in Nat

VARIABLES
    kind,      \* what the passes queue: "sync" or "digest"
    active,    \* user and mailbox are active
    events,    \* connections, disconnections, jobs by hand and crashes so far
    day,       \* the local date of a mailbox
    due,       \* digest_generate_time has come on that day
    job,       \* the last job with a scheduled key; "ended": any final status
    manual,    \* a sync job of the mailbox without such a key is active
    digest,    \* the mailboxes and days with a current digest
    pass       \* the passes under way

clockVars == <<kind, active, events, day, due>>
jobVars   == <<job, manual, digest>>
vars == <<clockVars, jobVars, pass>>

\* left: the mailboxes still to visit, each with its day as of the pass's now, and
\* whether there was a job with its key when the pass began; committed: it has
\* committed since; open: the one it visits is active, as far as it knows.
Idle == [at |-> "idle", left |-> {}, committed |-> FALSE, open |-> TRUE]

Init ==
    /\ kind    \in {"sync", "digest"}
    /\ active  = [m \in Mailboxes |-> TRUE]
    /\ events  = 0
    /\ day     = [m \in Mailboxes |-> 1]
    /\ due     = [m \in Mailboxes |-> FALSE]
    /\ job     = [k \in Keys |-> "none"]
    /\ manual  = [m \in Mailboxes |-> FALSE]
    /\ digest  = {}
    /\ pass    = [p \in Passes |-> Idle]
-----------------------------------------------------------------------------
(* Helpers.  The definition after an "and" in a comment is the same code with a
   plausible mistake; nothing uses it but the mutation of the properties. *)

\* The mailboxes are visited in the order of the query.
First(left) == CHOOSE v \in left : \A w \in left : v.mailbox <= w.mailbox
Visit(p) == First(pass[p].left)
Visited(p) == Visit(p).mailbox
Key(p) == <<Visited(p), Visit(p).day>>

\* _local_date, _user_zone: the date where the user is; and that of the server,
\* which is where the first user is.
ServerDay(m) == day[1]
LocalDay(m) == day[m]

\* ACTIVE_SYNC_STATUSES, and the predicate of sync_jobs_active_job_key_uq; and
\* both without the jobs that are not queued yet.
QueuedOnly(s) == s = "queued"
Active(s) == s \in {"pending", "queued"}

\* _job_key_exists, whatever became of the job; and if only active ones counted.
KeyActive(k) == Active(job[k])
KeyExists(k) == job[k] # "none"

\* find_active_email_sync_job.
SyncActive(m) == manual[m] \/ \E d \in Days : Active(job[<<m, d>>])

\* The mailbox p visits has what it needs.
Needed(p) ==
    IF kind = "sync" THEN ~SyncActive(Visited(p)) ELSE Key(p) \notin digest

\* A row of _active_mailboxes whose local_now has reached scheduled_time.
Visitable(m) == active[m] /\ (kind = "digest" => due[m])

\* continue goes on with the next mailbox; and break.
NoRest(left, v) == {}
Rest(left, v) == left \ {v}

Goto(p, point) == pass' = [pass EXCEPT ![p].at = point]
Abort(p) == pass' = [pass EXCEPT ![p] = Idle]
Continue(p) ==
    LET left == Rest(pass[p].left, Visit(p))
    IN  IF left = {} THEN Abort(p)
        ELSE pass' = [pass EXCEPT ![p].at = "next", ![p].left = left, ![p].open = TRUE]
-----------------------------------------------------------------------------
(* A pass.  Its task is triggered from outside; with digest_auto_generate off a
   pass for digests does nothing. *)

\* now is read once, so whether digest_generate_time has come is settled here.
Start(p) ==
    /\ pass[p] = Idle
    /\ LET left == {[mailbox |-> m, day |-> LocalDay(m),
                     known |-> job[<<m, LocalDay(m)>>] # "none"] :
                        m \in {n \in Mailboxes : Visitable(n)}}
       IN  /\ left # {}
           /\ pass' = [pass EXCEPT ![p].at = "next", ![p].left = left]
    /\ UNCHANGED <<clockVars, jobVars>>

Skip(p) ==
    /\ pass[p].at = "next"
    /\ KeyExists(Key(p)) \/ ~Needed(p)
    /\ Continue(p)
    /\ UNCHANGED <<clockVars, jobVars>>

\* The mailbox needs a job.  A commit has expired what the session had loaded
\* of it; before the first one it counts as active.
Decide(p) ==
    /\ pass[p].at = "next"
    /\ ~KeyExists(Key(p)) /\ Needed(p)
    /\ pass' = [pass EXCEPT ![p].at = IF kind = "sync" THEN "create" ELSE "insert",
                            ![p].open = pass[p].committed => active[Visited(p)]]
    /\ UNCHANGED <<clockVars, jobVars>>

\* enqueue_sync_today_job raises EmailSyncError, which ends the pass.
Refuse(p) ==
    /\ pass[p].at = "create" /\ ~pass[p].open
    /\ Abort(p)
    /\ UNCHANGED <<clockVars, jobVars>>

\* It finds a job that has become active since.
Reuse(p) ==
    /\ pass[p].at = "create" /\ pass[p].open
    /\ SyncActive(Visited(p))
    /\ Continue(p)
    /\ UNCHANGED <<clockVars, jobVars>>

Create(p) ==
    /\ pass[p].at = "create" /\ pass[p].open
    /\ ~SyncActive(Visited(p))
    /\ Goto(p, "insert")
    /\ UNCHANGED <<clockVars, jobVars>>

\* The flush, and the first commit of dispatch_pending_job.
Insert(p) ==
    /\ pass[p].at = "insert" /\ ~Active(job[Key(p)])
    /\ job' = [job EXCEPT ![Key(p)] = "pending"]
    /\ pass' = [pass EXCEPT ![p].at = "dispatch", ![p].committed = TRUE]
    /\ UNCHANGED <<clockVars, manual, digest>>

\* sync_jobs_active_job_key_uq: the IntegrityError ends the pass.
InsertConflict(p) ==
    /\ pass[p].at = "insert" /\ Active(job[Key(p)])
    /\ Abort(p)
    /\ UNCHANGED <<clockVars, jobVars>>

\* The rest of dispatch_pending_job: queued, or dispatch_failed.
Dispatch(p, sent) ==
    /\ pass[p].at = "dispatch"
    /\ job' = [job EXCEPT ![Key(p)] = IF sent THEN "queued" ELSE "ended"]
    /\ Continue(p)
    /\ UNCHANGED <<clockVars, manual, digest>>

\* The worker dies, or the database fails: what was committed stays.
Crash(p) ==
    /\ pass[p] # Idle /\ events < MaxEvents
    /\ events' = events + 1
    /\ Abort(p)
    /\ UNCHANGED <<kind, active, day, due, jobVars>>
-----------------------------------------------------------------------------
(* Everything else. *)

\* A job is executed, or fails as stale; a digest is for the day of its
\* execution, whatever the job's target_date.
JobEnds(k, succeeded) ==
    /\ job[k] = "queued"
    /\ job' = [job EXCEPT ![k] = "ended"]
    /\ digest' = IF kind = "digest" /\ succeeded THEN digest \cup {<<k[1], day[k[1]]>>} ELSE digest
    /\ UNCHANGED <<clockVars, manual, pass>>

\* A user syncs, or generates a digest, by hand.
ManualSync(m) ==
    /\ kind = "sync" /\ active[m] /\ ~SyncActive(m)
    /\ events < MaxEvents /\ events' = events + 1
    /\ manual' = [manual EXCEPT ![m] = TRUE]
    /\ UNCHANGED <<kind, active, day, due, job, digest, pass>>

ManualEnds(m) ==
    /\ manual[m]
    /\ manual' = [manual EXCEPT ![m] = FALSE]
    /\ UNCHANGED <<clockVars, job, digest, pass>>

ManualDigest(m) ==
    /\ kind = "digest" /\ active[m]
    /\ events < MaxEvents /\ events' = events + 1
    /\ digest' = digest \cup {<<m, day[m]>>}
    /\ UNCHANGED <<kind, active, day, due, job, manual, pass>>

\* The mailbox is connected, disconnected, or loses its authorisation.
Change(m) ==
    /\ events < MaxEvents
    /\ events' = events + 1
    /\ active' = [active EXCEPT ![m] = ~@]
    /\ UNCHANGED <<kind, day, due, jobVars, pass>>

HourComes(m) ==
    /\ kind = "digest" /\ ~due[m]
    /\ due' = [due EXCEPT ![m] = TRUE]
    /\ UNCHANGED <<kind, active, events, day, jobVars, pass>>

Midnight(m) ==
    /\ day[m] < MaxDays
    /\ Cardinality({n \in Mailboxes : day[n] = MaxDays /\ n # m}) < MaxNights
    /\ day' = [day EXCEPT ![m] = @ + 1]
    /\ due' = [due EXCEPT ![m] = FALSE]
    /\ UNCHANGED <<kind, active, events, jobVars, pass>>

PassStep(p) ==
    \/ Start(p)
    \/ Skip(p)
    \/ Decide(p)
    \/ Refuse(p)
    \/ Reuse(p)
    \/ Create(p)
    \/ Insert(p)
    \/ InsertConflict(p)
    \/ \E sent \in BOOLEAN : Dispatch(p, sent)

Next ==
    \/ \E p \in Passes : PassStep(p) \/ Crash(p)
    \/ \E k \in Keys, succeeded \in BOOLEAN : JobEnds(k, succeeded)
    \/ \E m \in Mailboxes : ManualSync(m) \/ ManualEnds(m) \/ ManualDigest(m)
    \/ \E m \in Mailboxes : Change(m) \/ HourComes(m) \/ Midnight(m)

Spec == Init /\ [][Next]_vars

\* Something outside triggers the tasks again and again, and their calls end.
FairSpec == Spec /\ \A p \in Passes : WF_vars(PassStep(p))
-----------------------------------------------------------------------------
(* Properties. *)

Points == {"idle", "next", "create", "insert", "dispatch"}
TypeOK ==
    /\ kind \in {"sync", "digest"} /\ active \in [Mailboxes -> BOOLEAN]
    /\ events \in 0..MaxEvents
    /\ day \in [Mailboxes -> Days] /\ due \in [Mailboxes -> BOOLEAN]
    /\ job \in [Keys -> {"none", "pending", "queued", "ended"}]
    /\ manual \in [Mailboxes -> BOOLEAN] /\ digest \subseteq Keys
    /\ \A p \in Passes :
         /\ pass[p].at \in Points
         /\ \A v \in pass[p].left : v.mailbox \in Mailboxes /\ v.day \in Days
         /\ pass[p].at # "idle" => pass[p].left # {}
         /\ pass[p].at = "dispatch" => job[Key(p)] = "pending"

\* A mailbox gets one scheduled job per local day: a pass never repeats a job
\* that was there when the pass began, however that job has ended.  (Two passes
\* side by side can, when the job of one ends before the other inserts.)
OncePerDay ==
    [][\A p \in Passes : Insert(p) => ~Visit(p).known]_vars

\* No job is made for a day that has not begun where its user is, and no digest
\* before the hour of that day.
NeverEarly ==
    \A k \in Keys : job[k] # "none" =>
        \/ k[2] < day[k[1]]
        \/ k[2] = day[k[1]] /\ (kind = "digest" => due[k[1]])

\* No mailbox is forgotten: one that stays active is again and again in a state
\* in which the scheduler has nothing to do for it, though a conflict over, or
\* the disconnection of, another mailbox ends the pass before its turn.
Served(m) ==
    \/ job[<<m, day[m]>>] # "none"
    \/ kind = "sync" /\ SyncActive(m)
    \/ kind = "digest" /\ (~due[m] \/ <<m, day[m]>> \in digest)
EverybodyServed == \A m \in Mailboxes : <>[]active[m] => []<>Served(m)
=============================================================================
