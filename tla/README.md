# MailMind: a formal model of the backend

This directory is a TLA+ development of the MailMind e-mail copilot (`src/backend`,
FastAPI + SQLAlchemy + Celery + PostgreSQL + Redis, and `src/frontend`, Next.js). It
models the two job pipelines of the backend - e-mail synchronisation and digest
generation - with the scheduler that feeds them, what a synchronisation fetches and a
generation writes, the read flag that syncs and users both write, and the accounts,
sessions and mailbox connections everything runs under. TLC checks them on small
instances, and TLAPS proves every safety property of the passing runs, and that the two
pipelines implement their abstract specifications, for every value of the constants.

## 1. The system

| component | state | operations | interacts through |
|---|---|---|---|
| Job dispatch (`services/job_dispatch_service.py`) | `sync_jobs.status`, `celery_task_id` | commit, re-read, `send_task`, commit `queued` or `dispatch_failed` | database, Celery queue |
| E-mail sync (`services/email_sync_service.py`, `api/mailboxes.py`) | `sync_jobs`, `mailboxes`, `emails` | enqueue, direct sync, worker execution, stale recovery, sync status | database, queue, Redis lock, provider |
| Mailbox lock (`MailboxSyncLock`) | Redis key `sync:mailbox:<id>` naming a job | SET NX EX, compare-and-delete, expiry | workers |
| Celery tasks (`jobs/`) | message queue | deliver, acknowledge when taken, commit or rollback | queue, database |
| Job queries and retry (`services/job_service.py`, `api/jobs.py`) | `sync_jobs` | list, get, retry a failed job | database, queue |
| Digest generation (`services/digest_service.py`, `api/digests.py`) | `daily_digests`, `digest_items`, `ai_runs`, `sync_jobs` | generate, refresh, enqueue, execute, switch the current digest | database, queue, LLM |
| Scheduler (`services/scheduled_job_service.py`) | none of its own | one pass over the active mailboxes for syncs, one for digests | database, queue |
| Digest parser (`ai/parsers/`), prompt (`ai/prompts/`) | none | LLM text to items; e-mails to text | digest generation |
| LLM providers (`ai/`) | none | retry, fallback | digest generation |
| Mail providers (`providers/`) | none of their own; messages and flags are remote | list the messages of a window, message details, change labels | sync pipeline, read state |
| E-mail read state (`services/email_service.py`, `api/emails.py`) | `emails.is_read` | mark read or unread at the provider and locally | provider, database |
| User actions (`services/user_action_service.py`, `api/actions.py`) | `user_actions` | audit of the marks, actions on digest items | database |
| AI runs (`services/ai_run_service.py`) | `ai_runs.status` | create, succeed, fail | digest generation |
| Mailbox connection (`gmail_oauth_service.py`, `imap_mailbox_service.py`) | `mailboxes.status`, credentials, OAuth states | consent, callback, IMAP form, disconnect | sync pipeline, browser |
| Accounts and sessions (`auth_service.py`, `session_service.py`, `api/deps.py`) | users, sessions, cookies | register, log in, log out, authenticate | all requests |
| Frontend job polling (`components/jobs/use-job-polling.ts`) | job shown, `polling` | poll, stop, notify | jobs API |

`PROJECT.json` lists every component with what is modelled of it.

### What makes it hard

* **Sessions.** A request or a task is one database session under READ COMMITTED with
  `autoflush=False`. What it read may be stale when it writes; an UPDATE by primary key
  waits for the row and then overwrites whatever is there; what it flushed nobody else
  sees before the commit, which for most requests is the last thing that happens
  (`api/deps.py:24`).
* **Two commits around a broker call.** `dispatch_pending_job` commits, sends, commits
  again. A worker can be faster than the second commit, the process can die in between,
  and `send_task` can raise after the broker took the message. A retry sends before its
  only commit.
* **Early acknowledgement.** A message is acknowledged when it is taken
  (`task_acks_late` is not set): a task that crashes or raises is lost.
* **A lock with a time to live** that is released before the transaction it protects
  commits, and that direct syncs do not take.
* **Unique indexes as the only serialisation** of digest versions, job keys, accounts
  and mailbox addresses.
* **Unchanged columns.** SQLAlchemy leaves a column out of an UPDATE when the value
  assigned is the one the session had loaded, so an assignment can have no effect on a
  row that has changed since.
* **Answers before commits.** `get_db` commits after the response has left.
* **A remote side that moves.** Messages arrive between two pages of a listing, a folder
  is renumbered, another mail client changes a flag, a provider carries out what it
  answers with a time-out, a language model answers anything.

The states a correct system may reach are stated per component below; every hazard is
listed in `PROJECT.json` at the line where it bites, with the properties about it.

## 2. Modules

| module | what it is |
|---|---|
| `SyncJobs` | the sync pipeline: requests, workers, queue, lock, rows, crashes |
| `MailboxSync` | what the sync pipeline promises (abstract specification) |
| `SyncJobsProofs`, `DigestJobsProofs`, `SchedulerProofs`, `MailFetchProofs`, `DigestReviewProofs`, `ReadStateProofs`, `ConnectionsProofs` | TLAPS proofs about the module they are named after |
| `SyncJobsRefinement` | TLAPS proof that `SyncJobs` implements `MailboxSync` |
| `DigestJobs` | digest generation: requests, scheduler, workers, versions |
| `DigestHistory` | what digest generation promises (abstract specification) |
| `Scheduler` | the two scheduled passes over all mailboxes, days and time zones |
| `MailFetch` | what a sync gets from Gmail or IMAP and leaves in `emails` |
| `DigestContent` | one generation: e-mails, providers, parser, constraints of the items |
| `DigestReview` | `DigestContent` and the actions of the user on its items |
| `ReadState` | the read flag: requests, syncs, other mail clients, the audit rows |
| `Accounts` | registration, login, logout, sessions and cookies |
| `Connections` | `Accounts` and the mailboxes, credentials and OAuth states |
| `SyncJobsDocs`, `DigestJobsDocs`, `ReadStateDocs` | what a document says and the code does not do |
| `MC...` | model values for TLC |

The modules meet where the code does. `SyncJobs` treats the work of a sync as one step
with an outcome: `MailFetch` is the inside of that step for the messages, `ReadState` for
the flag, `Connections` for the authorisation. The step `Generate` of `DigestJobs` is
`DigestContent`, and the rows `Scheduler` inserts are dispatched as in `SyncJobs`. What an
inner module assumes of the outer one - one sync of a mailbox at a time, one generation
that commits - is what the outer one is checked, or proved, to ensure.

### SyncJobs

Variables hold the *committed* rows (`status`, `connected`, `mailboxOf`, `retryOf`,
`retryCount`), the queue (`tasks`), the Redis keys (`syncLock`), the row locks of open
transactions (`mailboxRow`, `jobRow`), and per process where its session is (`pc`), its
job (`cur`), the stale job it will fail (`victim`) and the outcome it has flushed
(`wrote`). A handler is cut exactly where another session can interfere: reads whose
result is used later, UPDATEs that wait for a row, calls of Redis, broker or provider,
commits. So `enqueue_sync_today_job` is `EnqueueRead; Publish; Send | SendFails; Mark`,
a worker is `TakeTask; AcquireLock; FlushMailbox; FlushJob; Synchronise; ReleaseLock;
Commit`, and every other return of a handler is an action (`IgnoreTask`,
`AcquireFails; LockConflict`) or, when it writes nothing, no step at all.

Time is `aged`: jobs up to that number were created over five minutes ago. It drives the
staleness of queued jobs and the expiry of the lock; that a lock lives 20 minutes is
weakened to "at least until its job is old", which allows more behaviours. A committed
row is never `running` (see the findings), so the 20-minute rule for running jobs never
applies; `TypeOK` says so. `Crash` covers a process that dies and a database error that
rolls its session back. E-mails are abstracted to the outcome of a sync. The `job_key`
of a sync job is left out: manual jobs have none, direct syncs of a mailbox are already
serialised by its row, and a scheduled pass that the index refuses ends like a crashed
request.

### DigestJobs

A digest is a version of a *scope* - one mailbox, or all mailboxes of a user - on one
local day. `digest`, `current` and `digestOf` are the committed rows; `version`,
`cleared` and `wrote` what a session has flushed. The unique index on (scope, date,
version) makes an INSERT wait for an uncommitted equal one and then refuses it
(`Insert`, `InsertConflict`); the partial unique index on `job_key` does the same for
active jobs (`Publish`, `PublishConflict`, `FlushRunning`, `FlushConflict`). A direct
request and a task share `Insert; Generate; Commit`. Staleness is a choice here: any
queued job may be five minutes old. Mailboxes are connected and disconnected by others,
so whether a scope has an active mailbox is a choice wherever the code asks
(`ScopeGone`).

### MailFetch

`inbox` is the mailbox at the provider, `listed` what is still to be fetched, `batch` what
will be upserted and `rows` the table by `external_id`. A listing of Gmail is a request
per page (`ListPage`, with the loop over its messages in `Found`), and a page token stands
for a position in a list whose front grows; an IMAP search is one step, and UIDs are fixed
while the folder is selected. An id of Gmail is the message; that of IMAP is its UID under
the `UIDVALIDITY` the server announces, or under `unknown`. The errors differ as in the
code: a Gmail message that fails ends the sync (`Gone`, `Fail`), an IMAP one is left out
(`Skip`). The window is the day of the user, but both providers are asked for UTC dates:
Gmail reads `after:` and `before:` in a zone of its own, and an IMAP server compares
`SINCE` and `BEFORE` with its local `INTERNALDATE`. So `stamp` is chosen freely for each
message: "today" is in the window and returned, "other" is returned and not in the window,
"missed" is not returned, whether it is in the window or not. `Returned` is what the query
returns; pages (`Page`) and searches (`SearchUids`) list that and not the mailbox. A stamp
does not change, so a behaviour covers syncs of one local day and one UTC date. Assumed of
Gmail, and not known: how page tokens behave when messages arrive; deletions during a
listing are excluded.

### DigestContent and DigestReview

A generation is `CreateRun`, the requests to the providers in turn, the answer of the
model item by item (`ParseItem`, `RejectItem`), the flush of the items under the CHECK
constraints and the unique index of `digest_items`, and the commit. `RawItems` is every
combination of the fields that decide what becomes of an item: e-mail, type, section,
mailbox, whether the confidence is a number, and `text`: whether the database can store the
title, the summary and the reason, which the parser passes on as they are (a NUL or an
unpaired surrogate it cannot). The labels the parser replaces by allowed values are left
out. `storable` is the same for what the last flush writes: the overview, the `mail_count`
and the token counts. `outcome` is what is committed.
Two ways out leave nothing: a flush that is refused rolls the session back, and the
commit of the handler's note of the failure then raises (`InsertRefused`,
`FinishRefused`). `DigestReview` adds what a client may ask for: the buttons of an item
(`ItemRequest`), and `POST /actions` with any combination of mailbox, digest, item and
e-mail.

### ReadState

`remote` is the flag at the provider, `isRead` the committed column. A mark is
`Open; Call; UpdateRow; Respond; CommitMark`, or `Call; RecordFailure`; a sync fetches each
message, loads each row, flushes each row when it is free, and commits. `Written` is what
an UPDATE leaves in the column: nothing new if the session assigns what it had loaded.
The provider may carry out a request whatever it answers (`Answers`).

### Accounts and Connections

A request is a record: its kind, the point it has reached, the session row it was
authenticated by and the user. All commit last, after `Respond`. `Available` is the unique
index of `users.email` with its wait for an uncommitted row. `Connections` adds the
mailbox rows (`status`, `cred`, `rowLock`), the OAuth states that are out (`flows`) and
what a session has loaded (`work`). A credential is named after the user who gave it,
which is all the properties need. `address` is the committed `email_address`, which each
connection assigns anew from the form or from Google: a reconnection may change it.
`AddressFree` and `AddressTaken` are the unique constraint on user, provider and address,
which the migration declares and the model class does not: it makes the INSERT or the
UPDATE of a connection wait for an uncommitted row (`Bears`) and then refuses it. No
handler catches that; the request ends with a 500 (`MailboxConflict`). A sync appears as
far as it reads a credential and may set `reauth_required`.

### Scheduler

`pass[p].left` is the set of mailboxes a pass has still to visit, each with its day at the
`now` of the pass; mailboxes are numbered in the order of the query, and `First` is the
next. `Decide` is the check for a key and for what the mailbox needs, `Insert` the flush
up to the first commit of the dispatch, `Dispatch` the rest. What ends a pass is `Refuse`
(the mailbox was disconnected since the pass last committed), `InsertConflict` and
`Crash`. Days begin, and the hour of the digest comes, for each mailbox on its own.

## 3. Runs

| run | instance | shows |
|---|---|---|
| `sync_safety` | 1 request, 2 workers, all may crash, 1 mailbox, 3 jobs | `TypeOK`, `SyncMutex`, `LockCoversSync`, `OrphansAreRetries`, `LifeCycle`, and `SerialOnce`: the pipeline implements `MailboxSync` (serial executions, no job executed twice) |
| `sync_liveness` | 2 requests, 2 workers, 2 jobs, fair, no crashes | `SessionsEnd`, `QueuedMessageServed` |
| `digest_safety` | 1 request, 2 workers, all may crash, 1 scope, 3 jobs | `TypeOK`, `OneGenerator`, `CurrentIsLatest`, `SucceededHasDigest`, and `VersionedHistory`: the digests implement `DigestHistory` |
| `digest_liveness` | 2 requests, 2 workers, 2 jobs, fair, no crashes | `SessionsEnd` |
| `scheduler` | 2 passes, 2 mailboxes, 2 days, 1 disturbance | `TypeOK`, `NeverEarly`, `OncePerDay`, `EverybodyServed`: a pass that ends early is made up for by the next one |
| `mail_fetch` | 3 messages, pages of 1, 1 renumbering, Gmail or IMAP with or without `UIDVALIDITY` | `TypeOK`, `BatchDistinct`, `StableIdentity`, `CompleteSync`, `SyncEnds` |
| `digest_review` | 2 mailboxes, 3 e-mails, 2 external ids, 2 providers of 2 tries, 2 items, 1 action | `ReviewTypeOK`, `ItemsInScope`, `ParserMeetsSchema`, `AllProvidersTried`, `ActionsAgree`, `ItemsActionable` |
| `read_state` | 1 e-mail, 2 marks, syncs without bound, 1 change elsewhere, a mark and the sync may crash | `TypeOK`, `EffectAudited`, `Converges`: in the end the row agrees with the provider |
| `connections` | 2 users, 2 session rows, 1 browser, 2 requests at a time, 1 Gmail account, 2 IMAP accounts and 2 addresses for them | `TypeOK`, `RegisteredOnce`, `RevokedForever`, `GrantedByOwner`, `AddressOnce`, `QuietConnectWorks`, `QuietDisconnectForgets` |
| `doc_sweep`, `doc_digest_key`, `doc_executed_stored` | 1-2 jobs; 1 mark | a statement of a document that the code contradicts |

Bounds. `MaxJobs` bounds the rows a behaviour creates. Three are enough for a job, the
job that replaces or duplicates it and a retry of either, which is what each hazard
needs; the proofs of section 5 hold for every bound. `MaxRetries` is 1 instead of 3 so
that the limit is reached. One mailbox (or scope) is enough for the safety runs because
mailboxes share nothing but the queue and the processes; `doc_digest_key` has two users.
Three messages and pages of one make an arrival between any two pages of a listing of
three; one renumbering gives a UID to a second message. Two external ids for three
e-mails of two mailboxes make two e-mails of different mailboxes share one. Two items are
what a duplicate needs. Two marks, one of them the opposite of the other, and a sync race
for one row; messages of a mailbox share nothing else. Two requests at a time are every
race of a pair; `MaxMailboxes = 1` stops further INSERTs once a mailbox is committed, and
the two requests may still insert two at once. The scheduler has one disturbance
(`MaxEvents`), one mailbox that sees midnight (`MaxNights`), and two passes.
`SYMMETRY` is used in runs without liveness only.

Fairness. `FairSpec` has weak fairness on the steps of a session that has begun (every
call has a time-out of seconds, and PostgreSQL queues waiters of a row), on the delivery
of messages to some worker, and on time (`Age`, `ExpireLock`). Nothing is fair about
requests, connection changes or crashes, and the liveness runs of the pipelines have no
crashes: what a crash can leave behind for ever is shown by `doc_sweep`. `Converges` takes
as its premise that syncs keep completing, which users or the scheduler must see to.
`Scheduler` also has weak fairness on the beginning of passes: the repository contains the
tasks and no schedule for them, so this stands for whatever triggers them again and again.

The models of the job pipelines, of a digest and of the connections stop when the bounded
jobs, actions or rows are used up, so their runs do not look for deadlock; those of
`mail_fetch`, `read_state` and `scheduler` do: a sync or a pass can always begin.

Every property of a passing run has a mutant of the model - a plausible mistake in the
code - that violates it. The mistakes stand beside the definitions they mutate and
nothing else uses them.

## 4. Findings

Each `doc_*` run refutes one sentence of the repository's documents; `PROJECT.json`
quotes the sentence and the line of the code:

* a process that dies between the two commits of a dispatch leaves `pending_dispatch` for
  ever, and every later sync of the mailbox returns that job (`doc_sweep`);
* the key of an all-mailboxes digest job does not name the user, so a job of one user
  refuses that of another (`doc_digest_key`);
* a mark that is executed need not be stored: the request leaves out the column when it
  had loaded the value it assigns, though a sync has committed the other one since
  (`doc_executed_stored`); the next sync repairs the row (`Converges`).

Others were met while modelling. The models contain the behaviour, and no run is spent
on it:

* a worker that is faster than the second commit of the dispatch drops the message, and
  the job is then queued without one until it is stale (`IgnoreTask` of `SyncJobs`);
* a retry is sent before its row is committed (`OrphansAreRetries`);
* stale recovery and a working worker overwrite each other, because `running` is never
  committed (`LifeCycle` allows failed to succeeded for that reason);
* two digest tasks that read one version number: the second is rolled back and its job
  stays queued without a message (`InsertConflict` of `DigestJobs`). So does a generation
  whose items, overview or counts the database refuses (`InsertRefused` and
  `FinishRefused` of `DigestContent`);
* `docs/ai/AI_PIPELINE.md:148` allows an AI task three attempts in all, with a pause of 5 s
  before the third. The code makes `max_retries + 1` attempts at each configured provider
  and never pauses, six at two providers (`AllProvidersTried`, which is about the code);
* a scheduled digest that waited replaces a fresh one; two passes side by side can make
  the job of a day twice, when the first has ended before the second inserts;
* no item of a digest of all mailboxes can be marked done, dismissed or snoozed, because
  such a digest has no `mailbox_id` (`Consistent` of `DigestReview`);
* an IMAP message without a Date header is received after the window has closed and is
  never stored; without `UIDVALIDITY` a renumbered folder gives the row of one message to
  another (`ReceivedAt`, `Announced` of `MailFetch`);
* `docs/engineering/TASK_BREAKDOWN.md:23` and `docs/api/CURRENT_API_SUMMARY.md:106` speak of
  the messages of today. A message of today that the query by UTC dates does not return is
  not stored, and the sync succeeds (`Returned` of `MailFetch`). `CompleteSync` is about
  what the query returns;
* `docs/contracts/v0.5/provider-mailbox.contract.md:88` identifies an IMAP mailbox by host,
  port and lower-cased user name, and promises a new mailbox to every other account. The
  constraint on the address (`docs/database/DATABASE_DESIGN.md:377`) refuses a second
  account of one address, and a reconnection with the address of another mailbox, with a
  500 that nothing handles (`AddressOnce`). The user name is not lower-cased either.

Some hazards of `PROJECT.json` have properties about what they cannot lead to, while what
they do lead to passes every property, because it is what the code does: a job that waits
over midnight, the item about the wrong one of two e-mails with one external id, duplicate
jobs, the queued job of a disconnected mailbox, the races between connections,
disconnections and syncs until the next quiet one, a retry sent before its commit, the
unlimited retries of one failed job, two passes side by side, and actions on the items of
a digest of all mailboxes. The notes in `PROJECT.json` say so hazard by hazard.

## 5. Proofs

A theorem holds for every value of the constants that the module's assumption allows. Each
is proved from an inductive invariant that TLC has checked on the instance of section 3.

### The sync pipeline

`SyncJobsProofs` proves, for any sets of mailboxes, requests and workers, any set of
crashing processes and any number of jobs and retries:

* `TypeCorrect == Spec => []TypeOK`
* `MutualExclusion == Spec => []SyncMutex`
* `LockCovers == Spec => []LockCoversSync`
* `Orphans == Spec => []OrphansAreRetries`
* `Lives == Spec => LifeCycle`

They use the assumptions of `SyncJobs` only: requests and workers are different, `None`
is neither a process nor a mailbox, the bounds are natural numbers.

None of the properties is inductive: that two sessions past the flush have different
mailboxes rests on who holds the row lock of the mailbox, `LockCoversSync` on no two
sessions working on one job, `LifeCycle` on what each point of a session implies of the
committed status. The inductive invariant is

    IInv == TypeOK /\ Built /\ Sole /\ RowHeld /\ LockCoversSync /\ Stage /\ Retrying

* `Built`: a job exists exactly below `next`, with a mailbox; every message, session and
  victim names a built job, and a session has a job unless it is idle or recovering one.
* `Sole`: the job of a session in a `Private` point is named by no message, and no other
  session has it but the request that is about to mark or commit it (`Sharing`).
* `RowHeld`: the row of a mailbox is locked exactly by the session between the flush of
  `last_sync_at` and its commit, which yields `SyncMutex` since a row has one owner.
* `Stage`: the committed status of the job of each session. The row of a request is not
  committed before its commit, `pending_dispatch` between the two commits of a dispatch;
  the job of a worker is `queued`, or `failed` by a stale recovery; a victim was `queued`
  and has at most finished since. `LifeStep` derives the steps of `LifeCycle` from it.
* `Retrying`: a request that sends before it commits works on a retry.

There is a lemma for each part (`TypeStep`, `BuiltStep`, `SoleStep`, `RowStep`,
`LockStep`, `StageStep`, `RetryingStep`), with one step per action that can disturb it;
`InvStep` combines them and the theorems follow with PTL.

### Digest generation

`DigestJobsProofs` proves, for any scopes, requests and workers, any set of crashing
processes and any number of jobs and retries:

* `TypeCorrect == Spec => []TypeOK`
* `SoleGenerator == Spec => []OneGenerator`
* `LatestIsCurrent == Spec => []CurrentIsLatest`
* `OwnDigest == Spec => []SucceededHasDigest`
* `RefinesHistory == Spec => VersionedHistory`

The inductive invariant is

    IInv == TypeOK /\ Built /\ Day /\ SucceededHasDigest
    Day  == Numbers /\ Working /\ OneGenerator /\ CurrentIsLatest

`OneGenerator` alone is not inductive: why is the version another session has read the one
the first has inserted? `Numbers` says that the committed versions of a scope are 1, 2, ...
without a gap, and `Working` what a session knows while it generates: all versions below its
own are committed, its own is not, and the switch of `is_current` it has flushed is still
what is committed. Two sessions past the INSERT then have the same version of the same
scope, which the unique index excludes. `CurrentIsLatest` needs the same facts, since the
session that commits writes to the row it had read as current.

The refinement maps the committed rows of a scope to the sequence of its versions. A
sequence is what `Numbers` makes of a function; a commit appends to it (`Recorded`), and
every other step leaves it alone.

### The sync pipeline implements MailboxSync

`SyncJobsRefinement` proves `RefinesPromise == Spec => SerialOnce` from the `IInv` of
`SyncJobsProofs`. What still may start is what is not built, in the queue, or with a
session that has not started it (`Waiting`); what runs for a mailbox is the job of the
session that has its row and is past `FlushJob` (`Running`). Every action starts, finishes
or drops one job, or is a stutter. `RowHeld` makes the running job the only one of its
mailbox, and `Sole` keeps a job that has been started out of `Waiting`, for a message or
another session would have to bring it back.

### Scheduler

`SchedulerProofs` proves, for any number of mailboxes, days and passes, and any disturbances:

* `TypeCorrect == Spec => []TypeOK`
* `NotEarly == Spec => []NeverEarly`
* `NotRepeated == Spec => OncePerDay`

from `SchedulerInv == Types /\ (\A p \in Passes : PassInv(p)) /\ Exclusive /\ NeverEarly`.
`NeverEarly` speaks of jobs; `PassInv` adds what a pass carries until it makes them: the
day of each mailbox it has still to visit has begun, a job it knew of is still there, it
does not insert one it knew of, and the job it sends is pending. `Exclusive` is why nobody
else changes that job: two passes never send jobs of one key. That there is a first
mailbox to visit is the well-ordering of the natural numbers (`LeastNumber`).

### MailFetch

`MailFetchProofs` proves, for any number of messages, pages of any size and any number of
renumberings:

* `TypeCorrect == Spec => []TypeOK`
* `BatchOnce == Spec => []BatchDistinct`
* `Stable == Spec => StableIdentity`
* `Complete == Spec => CompleteSync`

The invariant has a part for each question:

    FetchInv == Types /\ Folder /\ Numbered /\ Listing /\ Identified /\ Named /\ Covered

* `Folder`: the inbox names nobody twice, and the message at position i has i - 1 newer ones.
* `Numbered`: a UID other than 0 names one message, and none that has not arrived. So a
  renumbering, which counts what is left, stays below the next UID.
* `Listing`: what is still to be fetched is named once and is not in the batch.
* `Identified`: the ids in the batch are those the messages have *now*, as a folder is not
  renumbered while it is selected. `BatchDistinct` follows with `Numbered`.
* `Named`: a row has the id its message has now, or one of an earlier epoch. Without the
  second half `StableIdentity` would not survive `Rebuild`.
* `Covered`: of what the query returns (`Returned`), a message that was there when the sync
  began and stands before the position of the token is listed; an arrival moves at most the
  rest back (`ReturnedGrows`), and only what is new comes in front. When the listing ends
  this is every such message, and each of them stays listed, skipped or in the batch until
  `Store`. `Complete` says nothing of a message the query misses.

What the loop over a page computes (`FoundIs`) is proved by induction on the messages of
the page. The induction principle is itself a lemma about sets of natural numbers
(`Induction`), because the provers cannot use the library's theorems with an operator
parameter; with it the recursive functions are shown to exist: the loop (`LoopRuns`) and
the filter in `Returned` (`FilterRuns`).

### Accounts and connections

`ConnectionsProofs` proves, for any users, session rows, browsers, requests and addresses:

* `TypeCorrect == Spec => []TypeOK`
* `OneRegistration == Spec => []RegisteredOnce`
* `Revoked == Spec => RevokedForever`
* `Granted == Spec => []GrantedByOwner`
* `OneAddress == Spec => []AddressOnce`
* `QuietConnect == Spec => QuietConnectWorks`
* `QuietDisconnect == Spec => QuietDisconnectForgets`

from

    ConnectionInv == AccountInv /\ RowTypes /\ (\A r \in Requests : Knows(r))
                     /\ Locks /\ Distinct /\ NoRowNoCred /\ GrantedByOwner

`AccountInv` is about `Accounts`: how far each kind of request gets (`Stage`), and that
the session row a registration or a login has flushed is its own and still free, while any
other request has found a committed one (`Sessioned`): a late commit opens no session that
was revoked meanwhile. `Knows` says what a session has loaded: while it is `quiet`, nobody
having interfered since, what it loaded is what is committed, so that its UPDATE, which
leaves out unchanged columns, still writes what it must; and a credential it is about to
store was given by the user of the row. `Locks` says that a row is locked by the session
that has flushed it, and `NoRowNoCred` that a mailbox nobody has committed has neither
credential nor address. `Distinct` is the strengthening of `AddressOnce`: no two mailboxes
of a user at a provider share an address, be it committed or flushed by the session that
holds the row (`Bears`). A commit then only makes an address of the row the only one, and
a flush adds one that no rival bears, because `AddressFree` asked of a reconnection what
it asks of a new row.

### Read state

`ReadStateProofs` proves, for any e-mails, marks and syncs and any set of crashing
processes,

* `TypeCorrect == Spec => []TypeOK`
* `EffectsAudited == Spec => []EffectAudited`

from `AuditInv == TypeOK /\ Audited /\ EffectAudited`. `EffectAudited` looks at a mark that
has ended, and a mark may end at any point; `Audited` says what each point before implies:
there is no audit row before the commit and no answer before `Respond`, and a mark that
updates the row has been accepted by the provider.

### The contents of a digest

`DigestReviewProofs` proves every property the run `digest_review` checks, for any
finite set of mailboxes, any e-mails and external ids, and any number of providers, tries
and items:

* `ReviewTypeCorrect == ReviewSpec => []ReviewTypeOK`
* `ScopeKept == ReviewSpec => []ItemsInScope`
* `SchemaMet == ReviewSpec => ParserMeetsSchema`
* `GivenUpLast == ReviewSpec => []AllProvidersTried`
* `ReferencesAgree == ReviewSpec => []ActionsAgree`
* `ButtonsWork == ReviewSpec => []ItemsActionable`

It uses that `MailboxOf` gives each e-mail a mailbox, that the mailboxes are finitely many,
that there is a provider and a try, and that `None` is none of the values. The invariant is
`ReviewInv == Inputs /\ Asking /\ Parsing /\ Stored /\ Recorded`. Its core is `Sound`, what
`ParserSound` shows of every item the parser accepts, whatever the answer says: its type and
section fit, an e-mail item has an e-mail, its mailbox is of the digest and that of its
e-mail. `Parsing` and `Stored` carry that through the generation to the committed items,
and `Recorded` from there to the actions (`NormalisedAgrees`), which need that a digest
does not change once it is done (`DoneIsEnd`). `Asking` counts: the providers before the one
that is asked have had all their tries, those after it none.

### What is only model-checked

Liveness: `SessionsEnd`, `QueuedMessageServed`, `EverybodyServed`, `SyncEnds` and
`Converges`. Each needs fairness and `ENABLED`, which the prover does not reason about.
Every other property of the passing runs is a theorem. `RECURSIVE` operators are out of
reach too; the modules have none. The `doc_*` runs are refutations, for which an instance
is enough.

## 6. Plan

1. done: `SyncJobs`, `MailboxSync`, their runs, and `SyncJobsProofs`
2. done: `DigestJobs`, `DigestHistory` and their runs
3. done: `Scheduler`, `MailFetch`, `DigestContent` and `DigestReview`, `ReadState`, `Accounts`
   and `Connections`, and their runs; `ReadStateProofs` and `DigestReviewProofs`
4. done: `DigestJobsProofs`, `SchedulerProofs`, `MailFetchProofs`, `ConnectionsProofs`
5. done: the refinements of `MailboxSync` (`SyncJobsRefinement`) and `DigestHistory`
   (`DigestJobsProofs`)
6. next: fewer and shorter steps where two proofs repeat an argument; theorems that are no
   property of a run, such as what the lemmas about `Written` and about the row locks say of any
   session

## 7. Not modelled

* Text: the prompt, redaction, cleaning, the replacement of labels by allowed ones. Pure
  functions of strings that no property depends on; that the database may refuse a text
  is modelled.
* The wire protocols of Gmail, IMAP and the language models, cryptography of credentials
  and passwords: outcomes of a step.
* The Outlook provider, which is a stub; the registry, a table.
* Expiry of a session or of an OAuth state as time: `FlowEnds` may happen at any moment,
  and an expired session only has its requests refused.
* Migrations from one version of the schema to the next: each runs once, alone.
* The frontend, the desktop wrapper, scripts and deployment. The polling hook can show a
  late answer of an earlier poll; that is the state of one page, and no state of the
  system depends on it.

The status of every component is in `PROJECT.json`.
