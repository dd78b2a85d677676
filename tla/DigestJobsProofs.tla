-------------------------- MODULE DigestJobsProofs --------------------------
(***************************************************************************)
(* Proofs about DigestJobs, for any number of scopes, requests, workers,   *)
(* jobs and retries.                                                       *)
(***************************************************************************)
EXTENDS DigestJobs, FiniteSetTheorems, SequenceTheorems, TLAPS

\* A row is committed, sent or worked on only after it was built for a scope,
\* and a session works on a row exactly while it is not idle.
Built ==
    /\ \A j \in Jobs : scopeOf[j] \in Scopes <=> j < next
    /\ \A j \in Jobs : status[j] # "absent" => j < next
    /\ \A j \in tasks : j < next
    /\ \A p \in Procs : cur[p] < next
    /\ \A p \in Procs : pc[p] = "idle" <=> cur[p] = NoJob

\* The committed versions of a scope are 1, 2, ... without a gap.
Numbers ==
    \A s \in Scopes : \E n \in 0..MaxJobs :
        \A u \in Versions : digest[s][u] # "none" <=> u <= n

\* The points of _generate_digest.
Numbering == {"insert", "generate", "commit"}

\* What a session knows of the digests while it generates one: every version
\* before its own is committed; its own is not, from its INSERT to its commit;
\* and the switch it has flushed is still the committed is_current.
Knows(p) ==
    /\ pc[p] \in {"insert", "generate"} => version[p] # 0
    /\ pc[p] \notin Numbering => version[p] = 0
    /\ pc[p] # "commit" => wrote[p] = "failed"
    /\ pc[p] = "commit" /\ wrote[p] = "succeeded"
       => version[p] # 0 /\ cleared[p] = current[scopeOf[cur[p]]]
    /\ version[p] # 0 =>
         \A u \in Versions : u < version[p] => digest[scopeOf[cur[p]]][u] # "none"
    /\ Generating(p) => digest[scopeOf[cur[p]]][version[p]] = "none"
Working == \A p \in Procs : Knows(p)

\* The values the actions write are of their types.
LEMMA Members ==
    /\ {"idle", "publish", "send", "mark", "markFailed", "retrySend", "retryCommit",
        "recover", "flush", "version", "insert", "generate", "commit"} \subseteq Points
    /\ {"absent", "pending_dispatch", "queued", "succeeded", "failed", "dispatch_failed"}
        \subseteq Statuses \ {"running"}
BY DEF Points, Statuses, ActiveStatuses

LEMMA Base == TypeOK =>
    /\ Apis \subseteq Procs /\ Workers \subseteq Procs
    /\ NoJob \notin Jobs /\ Jobs \subseteq Nat /\ NoJob = 0
    /\ Versions = Jobs /\ 0..MaxJobs = Jobs \cup {0}
    /\ next \in Nat /\ next <= MaxJobs + 1 /\ MaxJobs \in Nat
    /\ None \notin Scopes /\ None \notin Procs
BY ProcessAssumption, BoundAssumption DEF TypeOK, Procs, Jobs, NoJob, Versions

LEMMA TypeInit == Init => TypeOK /\ Built
<1> SUFFICES ASSUME Init PROVE TypeOK /\ Built
    OBVIOUS
<1>1. TypeOK
    BY Members, BoundAssumption DEF Init, TypeOK, Jobs, NoJob, Kinds, Versions
<1>2. Built
    BY ProcessAssumption, BoundAssumption DEF Init, Built, Jobs, NoJob, Scopes
<1> QED BY <1>1, <1>2

LEMMA TypeStep == TypeOK /\ Built /\ [Next]_vars => TypeOK'
<1> SUFFICES ASSUME TypeOK, Built, [Next]_vars PROVE TypeOK'
    OBVIOUS
<1> USE DEF jobVars, newVars, dayVars, workVars, procVars
<1>0. /\ Apis \subseteq Procs /\ Workers \subseteq Procs /\ Jobs \subseteq Nat
      /\ \A p \in Procs : pc[p] # "idle" => cur[p] \in Jobs /\ scopeOf[cur[p]] \in Scopes
    BY Base DEF TypeOK, Built
\* What a session that ends, goes to another point or frees its rows leaves.
<1>end. ASSUME NEW p \in Procs, EndSession(p)
      PROVE  /\ pc' \in [Procs -> Points] /\ cur' \in [Procs -> Jobs \cup {NoJob}]
             /\ version' \in [Procs -> 0..MaxJobs] /\ cleared' \in [Procs -> SUBSET Versions]
             /\ wrote' \in [Procs -> {"succeeded", "failed"}]
    BY <1>end, Members, BoundAssumption DEF EndSession, TypeOK
<1>go. ASSUME NEW p \in Procs, NEW point \in Points, Goto(p, point)
      PROVE  pc' \in [Procs -> Points]
    BY <1>go DEF Goto, TypeOK
<1>free. ASSUME NEW p \in Procs, FreeRows(p) PROVE jobRow' \in [Jobs -> Procs \cup {None}]
    BY <1>free DEF FreeRows, TypeOK
<1>put. ASSUME NEW j \in Jobs, NEW x \in Statuses \ {"running"},
             status' = [status EXCEPT ![j] = x]
      PROVE  status' \in [Jobs -> Statuses \ {"running"}]
    BY <1>put DEF TypeOK
\* A request builds a job.
<1>1. ASSUME NEW a \in Procs, NEW s \in Scopes, NEW k \in Kinds, NEW h \in BOOLEAN,
             NEW orig \in Jobs \cup {NoJob}, orig # NoJob => MayRetry(orig),
             BuildJob(a, s, k, h, orig)
      PROVE  /\ next \in Jobs /\ next' \in 1..(MaxJobs + 1)
             /\ scopeOf' \in [Jobs -> Scopes \cup {None}]
             /\ kindOf' \in [Jobs -> Kinds] /\ keyed' \in [Jobs -> BOOLEAN]
             /\ retryCount' \in [Jobs -> 0..MaxRetries]
             /\ cur' \in [Procs -> Jobs \cup {NoJob}]
  <2>1. next \in Jobs /\ next' \in 1..(MaxJobs + 1)
      BY <1>1, BoundAssumption DEF BuildJob, Jobs, TypeOK
  <2>2. retryCount' \in [Jobs -> 0..MaxRetries]
      BY <1>1, <2>1, BoundAssumption DEF BuildJob, MayRetry, TypeOK
  <2> QED BY <1>1, <2>1, <2>2 DEF BuildJob, TypeOK
<1>2. ASSUME NEW a \in Apis, NEW s \in Scopes, NEW k \in Kinds, EnqueueRead(a, s, k)
      PROVE TypeOK'
    BY <1>0, <1>1, <1>2, <1>go, Members DEF EnqueueRead, TypeOK
<1>3. ASSUME NEW a \in Apis, NEW s \in Scopes, ScheduleRead(a, s) PROVE TypeOK'
    BY <1>0, <1>1, <1>3, <1>go, Members DEF ScheduleRead, Kinds, TypeOK
<1>4. ASSUME NEW a \in Apis, NEW s \in Scopes, NEW k \in Kinds, DirectRead(a, s, k)
      PROVE TypeOK'
  <2>1. version' \in [Procs -> 0..MaxJobs]
      BY <1>4, Base DEF DirectRead, TypeOK
  <2> QED BY <1>0, <1>1, <1>4, <1>go, <2>1, Members DEF DirectRead, TypeOK
<1>5. ASSUME NEW a \in Apis, NEW j \in Jobs, RetryRead(a, j) PROVE TypeOK'
  <2>1. scopeOf[j] \in Scopes /\ kindOf[j] \in Kinds
      BY <1>5 DEF RetryRead, MayRetry, Built, TypeOK
  <2>2. digestOf' \in [Jobs -> 0..MaxJobs]
      BY <1>5 DEF RetryRead, TypeOK
  <2> QED BY <1>0, <1>1, <1>5, <1>go, <2>1, <2>2, Members DEF RetryRead, TypeOK
<1>6. ASSUME NEW a \in Apis, NEW j \in Jobs, StatusRead(a, j) PROVE TypeOK'
    BY <1>0, <1>6, <1>go, Members DEF StatusRead, TypeOK
<1>7. ASSUME NEW a \in Apis, ApiStep(a) PROVE TypeOK'
  <2>0. pc[a] # "idle" /\ cur[a] \in Jobs
      BY <1>0, <1>7 DEF ApiStep, Publish, PublishConflict, Send, Mark,
                        RetrySend, RetrySendFails, RetryCommit, Recover
  <2>1. CASE Publish(a)
      BY <1>0, <1>go, <1>put, <2>0, <2>1, Members DEF Publish, TypeOK
  <2>2. CASE PublishConflict(a)
      BY <1>0, <1>end, <2>2 DEF PublishConflict, TypeOK
  <2>3. CASE Send(a)
      BY <1>0, <1>go, <2>0, <2>3, Members DEF Send, TypeOK
  <2>4. CASE Mark(a)
      BY <1>0, <1>end, <1>put, <2>0, <2>4, Members DEF Mark, TypeOK
  <2>5. CASE RetrySend(a)
      BY <1>0, <1>go, <2>0, <2>5, Members DEF RetrySend, TypeOK
  <2>6. CASE RetrySendFails(a)
      BY <1>0, <1>end, <2>0, <2>6 DEF RetrySendFails, TypeOK
  <2>7. CASE RetryCommit(a)
      BY <1>0, <1>end, <1>put, <2>0, <2>7, Members DEF RetryCommit, TypeOK
  <2>8. CASE Recover(a)
      BY <1>0, <1>end, <1>put, <2>0, <2>8, Members DEF Recover, TypeOK
  <2> QED BY <1>7, <2>1, <2>2, <2>3, <2>4, <2>5, <2>6, <2>7, <2>8 DEF ApiStep
<1>8. ASSUME NEW w \in Workers, NEW j \in Jobs, IgnoreTask(w, j) \/ TakeTask(w, j)
      PROVE TypeOK'
  <2>1. CASE IgnoreTask(w, j)
      BY <2>1 DEF IgnoreTask, TypeOK
  <2>2. CASE TakeTask(w, j)
      BY <1>0, <1>go, <2>2, Members DEF TakeTask, TypeOK
  <2> QED BY <1>8, <2>1, <2>2
<1>9. ASSUME NEW w \in Workers, WorkerStep(w) PROVE TypeOK'
  <2>1. CASE FlushRunning(w)
      BY <1>0, <1>go, <2>1, Members DEF FlushRunning, TypeOK
  <2>2. CASE FlushConflict(w)
      BY <1>0, <1>end, <2>2 DEF FlushConflict, TypeOK
  <2>3. CASE ReadVersion(w)
    <3>1. version' \in [Procs -> 0..MaxJobs]
        BY <2>3, Base DEF ReadVersion, TypeOK
    <3> QED BY <1>0, <1>go, <2>3, <3>1, Members DEF ReadVersion, TypeOK
  <2>4. CASE ScopeGone(w)
      BY <1>0, <1>go, <2>4, Members DEF ScopeGone, TypeOK
  <2> QED BY <1>9, <2>1, <2>2, <2>3, <2>4 DEF WorkerStep
<1>10. ASSUME NEW p \in Procs, Insert(p) \/ InsertConflict(p) \/ Crash(p) PROVE TypeOK'
  <2>1. CASE Insert(p)
      BY <1>go, <2>1, Members DEF Insert, TypeOK
  <2>2. CASE InsertConflict(p) \/ Crash(p)
      BY <1>end, <1>free, <2>2 DEF InsertConflict, Crash, TypeOK
  <2> QED BY <1>10, <2>1, <2>2
<1>11. ASSUME NEW p \in Procs, NEW o \in {"succeeded", "failed"}, Generate(p, o)
       PROVE TypeOK'
  <2>1. cleared' \in [Procs -> SUBSET Versions] /\ wrote' \in [Procs -> {"succeeded", "failed"}]
      BY <1>0, <1>11 DEF Generate, TypeOK
  <2> QED BY <1>go, <1>11, <2>1, Members DEF Generate, TypeOK
<1>12. ASSUME NEW p \in Procs, Commit(p) PROVE TypeOK'
  <2>0. cur[p] \in Jobs /\ scopeOf[cur[p]] \in Scopes /\ wrote[p] \in {"succeeded", "failed"}
      BY <1>0, <1>12 DEF Commit, TypeOK
  <2>1. /\ status' \in [Jobs -> Statuses \ {"running"}]
        /\ jobRow' \in [Jobs -> Procs \cup {None}]
      BY <1>12, <1>free, <1>put, <2>0, Members DEF Commit, JobOutcome
  <2>2. /\ digest' \in [Scopes -> [Versions -> {"none", "fresh", "failed"}]]
        /\ current' \in [Scopes -> SUBSET Versions] /\ digestOf' \in [Jobs -> 0..MaxJobs]
    <3>1. CASE version[p] = 0
        BY <1>12, <3>1 DEF Commit, TypeOK
    <3>2. CASE version[p] # 0
      <4>1. version[p] \in Versions
          BY <3>2, Base DEF TypeOK
      <4>2. Switched(p, current[scopeOf[cur[p]]]) \in SUBSET Versions
          BY <2>0, <4>1 DEF Switched, TypeOK
      <4>3. /\ digest' = [digest EXCEPT
                  ![scopeOf[cur[p]]][version[p]] =
                      IF wrote[p] = "succeeded" THEN "fresh" ELSE "failed"]
            /\ current' = [current EXCEPT
                  ![scopeOf[cur[p]]] = Switched(p, current[scopeOf[cur[p]]])]
            /\ digestOf' = [digestOf EXCEPT ![cur[p]] = version[p]]
          BY <1>12, <2>0, <3>2 DEF Commit, TypeOK
      <4> QED BY <2>0, <4>1, <4>2, <4>3 DEF TypeOK
    <3> QED BY <3>1, <3>2
  <2> QED BY <1>12, <1>end, <2>1, <2>2 DEF Commit, TypeOK
<1>13. CASE UNCHANGED vars
    BY <1>13 DEF vars, TypeOK
<1> QED
    BY <1>2, <1>3, <1>4, <1>5, <1>6, <1>7, <1>8, <1>9, <1>10, <1>11, <1>12, <1>13
       DEF Next, Request, Deliver, GenerateStep

LEMMA BuiltStep == TypeOK /\ TypeOK' /\ Built /\ [Next]_vars => Built'
<1> SUFFICES ASSUME TypeOK, TypeOK', Built, [Next]_vars PROVE Built'
    OBVIOUS
<1> USE DEF jobVars, newVars, dayVars, workVars, procVars
<1>0. /\ Apis \subseteq Procs /\ Workers \subseteq Procs /\ Jobs \subseteq Nat
      /\ NoJob = 0 /\ NoJob \notin Jobs /\ next \in Nat \ {0} /\ tasks \subseteq Jobs
      /\ pc \in [Procs -> Points] /\ cur \in [Procs -> Jobs \cup {NoJob}]
      /\ status \in [Jobs -> Statuses \ {"running"}]
      /\ \A p \in Procs : pc[p] # "idle" => cur[p] \in Jobs /\ cur[p] < next
    BY Base DEF TypeOK, Built
\* A session goes on with its job.
<1>1. ASSUME NEW p \in Procs, NEW point \in Points, point # "idle", pc[p] # "idle", Goto(p, point),
             UNCHANGED <<scopeOf, next, cur>>,
             tasks' \subseteq tasks \cup {cur[p]},
             \A j \in Jobs : status'[j] # "absent" => status[j] # "absent" \/ j = cur[p]
      PROVE  Built'
    BY <1>0, <1>1 DEF Built, Goto
\* A session ends.
<1>2. ASSUME NEW p \in Procs, pc[p] # "idle", EndSession(p),
             UNCHANGED <<scopeOf, next>>,
             tasks' \subseteq tasks \cup {cur[p]},
             \A j \in Jobs : status'[j] # "absent" => status[j] # "absent" \/ j = cur[p]
      PROVE  Built'
    BY <1>0, <1>2 DEF Built, EndSession
\* A request builds a job.
<1>3. ASSUME NEW a \in Procs, NEW s \in Scopes, NEW k, NEW h, NEW orig,
             NEW point \in Points, point # "idle",
             BuildJob(a, s, k, h, orig), Goto(a, point), UNCHANGED <<status, tasks>>
      PROVE  Built'
  <2>1. /\ next \in Jobs /\ next' = next + 1
        /\ scopeOf' = [scopeOf EXCEPT ![next] = s]
        /\ cur' = [cur EXCEPT ![a] = next]
        /\ pc' = [pc EXCEPT ![a] = point]
      BY <1>3, BoundAssumption DEF BuildJob, Goto, Jobs, TypeOK
  <2>2. scopeOf \in [Jobs -> Scopes \cup {None}]
      BY DEF TypeOK
  <2>3. \A j \in Jobs : scopeOf'[j] \in Scopes <=> j < next'
      BY <1>0, <2>1, <2>2 DEF Built
  <2>4. \A j \in Jobs : status'[j] # "absent" => j < next'
      BY <1>0, <1>3, <2>1 DEF Built
  <2>5. \A j \in tasks' : j < next'
      BY <1>0, <1>3, <2>1 DEF Built
  <2>6. ASSUME NEW p \in Procs
        PROVE  cur'[p] < next' /\ (pc'[p] = "idle" <=> cur'[p] = NoJob)
    <3>1. CASE p = a
        BY <1>0, <1>3, <2>1, <3>1
    <3>2. CASE p # a
      <4>1. cur'[p] = cur[p] /\ pc'[p] = pc[p]
          BY <1>0, <2>1, <3>2
      <4>2. cur[p] \in Nat
          BY Base DEF TypeOK
      <4> QED BY <1>0, <2>1, <4>1, <4>2 DEF Built
    <3> QED BY <3>1, <3>2
  <2> QED BY <2>3, <2>4, <2>5, <2>6 DEF Built
\* A session that is idle takes a job.
<1>4. ASSUME NEW p \in Procs, NEW j \in Jobs, j < next, NEW point \in Points, point # "idle",
             Goto(p, point), cur' = [cur EXCEPT ![p] = j],
             UNCHANGED <<status, scopeOf, next>>, tasks' \subseteq tasks
      PROVE  Built'
    BY <1>0, <1>4 DEF Built, Goto
<1>5. ASSUME NEW a \in Apis, Request(a) PROVE Built'
  <2>1. ASSUME NEW s \in Scopes, NEW k \in Kinds, EnqueueRead(a, s, k) PROVE Built'
      BY <1>0, <1>3, <2>1, Members DEF EnqueueRead
  <2>2. ASSUME NEW s \in Scopes, NEW k \in Kinds, DirectRead(a, s, k) PROVE Built'
      BY <1>0, <1>3, <2>2, Members DEF DirectRead
  <2>3. ASSUME NEW s \in Scopes, ScheduleRead(a, s) PROVE Built'
      BY <1>0, <1>3, <2>3, Members DEF ScheduleRead
  <2>4. ASSUME NEW j \in Jobs, RetryRead(a, j) PROVE Built'
    <3>1. scopeOf[j] \in Scopes
        BY <2>4 DEF RetryRead, MayRetry, Built
    <3> QED BY <1>0, <1>3, <2>4, <3>1, Members DEF RetryRead
  <2>5. ASSUME NEW j \in Jobs, StatusRead(a, j) PROVE Built'
    <3>1. j < next
        BY <2>5 DEF StatusRead, Built
    <3> QED BY <1>0, <1>4, <2>5, <3>1, Members DEF StatusRead
  <2> QED BY <1>5, <2>1, <2>2, <2>3, <2>4, <2>5 DEF Request
<1>6. ASSUME NEW a \in Apis, ApiStep(a) PROVE Built'
  <2>0. a \in Procs /\ pc[a] # "idle"
      BY <1>0, <1>6 DEF ApiStep, Publish, PublishConflict, Send, Mark,
                        RetrySend, RetrySendFails, RetryCommit, Recover
  <2>1. CASE Publish(a)
      BY <1>0, <1>1, <2>0, <2>1, Members DEF Publish
  <2>2. CASE PublishConflict(a)
      BY <1>2, <2>0, <2>2 DEF PublishConflict
  <2>3. CASE Send(a)
    <3>1. PICK point \in {"mark", "markFailed"} : Goto(a, point)
        BY <2>3 DEF Send
    <3> QED BY <1>1, <2>0, <2>3, <3>1, Members DEF Send
  <2>4. CASE Mark(a)
      BY <1>0, <1>2, <2>0, <2>4 DEF Mark
  <2>5. CASE RetrySend(a)
      BY <1>1, <2>0, <2>5, Members DEF RetrySend
  <2>6. CASE RetrySendFails(a)
      BY <1>2, <2>0, <2>6 DEF RetrySendFails
  <2>7. CASE RetryCommit(a) \/ Recover(a)
      BY <1>0, <1>2, <2>0, <2>7 DEF RetryCommit, Recover
  <2> QED BY <1>6, <2>1, <2>2, <2>3, <2>4, <2>5, <2>6, <2>7 DEF ApiStep
<1>7. ASSUME NEW w \in Workers, NEW j \in Jobs, IgnoreTask(w, j) \/ TakeTask(w, j)
      PROVE Built'
  <2>1. CASE IgnoreTask(w, j)
      BY <2>1 DEF IgnoreTask, Built
  <2>2. CASE TakeTask(w, j)
    <3>1. j < next
        BY <2>2 DEF TakeTask, Built
    <3> QED BY <1>0, <1>4, <2>2, <3>1, Members DEF TakeTask
  <2> QED BY <1>7, <2>1, <2>2
<1>8. ASSUME NEW w \in Workers, WorkerStep(w) PROVE Built'
  <2>1. CASE FlushRunning(w)
      BY <1>0, <1>1, <2>1, Members DEF FlushRunning
  <2>2. CASE FlushConflict(w)
      BY <1>0, <1>2, <2>2 DEF FlushConflict
  <2>3. CASE ReadVersion(w) \/ ScopeGone(w)
      BY <1>0, <1>1, <2>3, Members DEF ReadVersion, ScopeGone
  <2> QED BY <1>8, <2>1, <2>2, <2>3 DEF WorkerStep
<1>9. ASSUME NEW p \in Procs, GenerateStep(p) \/ Crash(p) PROVE Built'
  <2>1. CASE Insert(p)
      BY <1>1, <2>1, Members DEF Insert
  <2>2. CASE InsertConflict(p) \/ Crash(p)
      BY <1>2, <2>2 DEF InsertConflict, Crash
  <2>3. ASSUME NEW o \in {"succeeded", "failed"}, Generate(p, o) PROVE Built'
      BY <1>1, <2>3, Members DEF Generate
  <2>4. CASE Commit(p)
      BY <1>0, <1>2, <2>4 DEF Commit
  <2> QED BY <1>9, <2>1, <2>2, <2>3, <2>4 DEF GenerateStep
<1>10. CASE UNCHANGED vars
    BY <1>10 DEF vars, Built
<1> QED
    BY <1>5, <1>6, <1>7, <1>8, <1>9, <1>10 DEF Next, Deliver

-----------------------------------------------------------------------------
Day == Numbers /\ Working /\ OneGenerator /\ CurrentIsLatest

\* The versions a session may read: NextVersion is the one after the committed.
LEMMA NextIsNext ==
    ASSUME TypeOK, Numbers, NEW s \in Scopes, NEW v \in Versions, NextVersion(s, v)
    PROVE  \A u \in Versions : digest[s][u] # "none" <=> u < v
<1>0. v \in Nat \ {0} /\ Versions = 1..MaxJobs /\ MaxJobs \in Nat
    BY BoundAssumption DEF Versions
<1>1. PICK n \in 0..MaxJobs : \A u \in Versions : digest[s][u] # "none" <=> u <= n
    BY DEF Numbers
<1>2. n < v
  <2>1. CASE n = 0
      BY <1>0, <2>1
  <2>2. CASE n # 0
      BY <1>0, <1>1, <2>2 DEF NextVersion
  <2> QED BY <2>1, <2>2
<1>3. n >= v - 1
    BY <1>0, <1>1 DEF NextVersion
<1> QED BY <1>0, <1>1, <1>2, <1>3

\* What the commit of a digest does: its version is the one after the committed
\* ones, and if it is completed it alone is current.
LEMMA CommitDigest ==
    ASSUME TypeOK, Built, Day, NEW p \in Procs, Commit(p), version[p] # 0
    PROVE  LET s == scopeOf[cur[p]]
               v == version[p] IN
           /\ s \in Scopes /\ v \in Versions /\ cur[p] \in Jobs /\ Generating(p)
           /\ digest' = [digest EXCEPT
                 ![s] = [@ EXCEPT ![v] = IF wrote[p] = "succeeded" THEN "fresh" ELSE "failed"]]
           /\ current' = [current EXCEPT ![s] = IF wrote[p] = "succeeded" THEN {v} ELSE @]
           /\ digestOf' = [digestOf EXCEPT ![cur[p]] = v]
           /\ \A u \in Versions : digest[s][u] # "none" <=> u < v
<1> DEFINE s == scopeOf[cur[p]]
           v == version[p]
<1>0. /\ Versions = 1..MaxJobs /\ MaxJobs \in Nat /\ v \in 0..MaxJobs
      /\ digest \in [Scopes -> [Versions -> {"none", "fresh", "failed"}]]
      /\ current \in [Scopes -> SUBSET Versions]
    BY Base DEF TypeOK, Versions
<1>1. pc[p] = "commit" /\ cur[p] \in Jobs /\ s \in Scopes
    BY Base DEF Commit, Built, TypeOK
<1>2. Knows(p) /\ Generating(p) /\ v \in Versions /\ digest[s][v] = "none"
    BY <1>0, <1>1 DEF Day, Working, Knows, Generating
<1>3. /\ digest' = [digest EXCEPT
            ![s][v] = IF wrote[p] = "succeeded" THEN "fresh" ELSE "failed"]
      /\ current' = [current EXCEPT ![s] = Switched(p, @)]
      /\ digestOf' = [digestOf EXCEPT ![cur[p]] = v]
    BY DEF Commit
<1>4. Switched(p, current[s]) = IF wrote[p] = "succeeded" THEN {v} ELSE current[s]
    BY <1>1, <1>2 DEF Switched, Knows
<1>5. \A u \in Versions : digest[s][u] # "none" <=> u < v
  <2>1. PICK n \in 0..MaxJobs : \A u \in Versions : digest[s][u] # "none" <=> u <= n
      BY <1>1 DEF Day, Numbers
  <2>2. n < v
      BY <1>0, <1>2, <2>1
  <2>3. v - 1 <= n
    <3>1. CASE v = 1
        BY <2>1, <3>1
    <3>2. CASE v # 1
      <4>1. v - 1 \in Versions /\ v - 1 < v
          BY <1>0, <1>2, <3>2
      <4> QED BY <1>2, <2>1, <4>1 DEF Knows
    <3> QED BY <3>1, <3>2
  <2> QED BY <1>0, <1>2, <2>1, <2>2, <2>3
<1> QED BY <1>0, <1>1, <1>2, <1>3, <1>4, <1>5

LEMMA DayStep == TypeOK /\ TypeOK' /\ Built /\ Day /\ [Next]_vars => Day'
<1> SUFFICES ASSUME TypeOK, TypeOK', Built, Day, [Next]_vars PROVE Day'
    OBVIOUS
<1> USE DEF jobVars, newVars, dayVars, workVars, procVars
<1>0. /\ Apis \subseteq Procs /\ Workers \subseteq Procs /\ Jobs \subseteq Nat
      /\ NoJob = 0 /\ NoJob \notin Jobs /\ next \in Nat \ {0}
      /\ Versions = 1..MaxJobs /\ MaxJobs \in Nat
      /\ pc \in [Procs -> Points] /\ cur \in [Procs -> Jobs \cup {NoJob}]
      /\ scopeOf \in [Jobs -> Scopes \cup {None}]
      /\ version \in [Procs -> 0..MaxJobs]
      /\ wrote \in [Procs -> {"succeeded", "failed"}]
      /\ cleared \in [Procs -> SUBSET Versions]
    BY Base DEF TypeOK, Built, Versions
<1>1. ASSUME NEW p \in Procs, pc[p] # "idle"
      PROVE  cur[p] \in Jobs /\ cur[p] < next /\ scopeOf[cur[p]] \in Scopes
    BY <1>0, <1>1 DEF Built
\* A session another step leaves alone, and what it still knows.
<1>2. ASSUME NEW q \in Procs,
             pc'[q] = pc[q], cur'[q] = cur[q], version'[q] = version[q],
             cleared'[q] = cleared[q], wrote'[q] = wrote[q],
             \A j \in Jobs : j < next => scopeOf'[j] = scopeOf[j],
             \A s \in Scopes, u \in Versions : digest[s][u] # "none" => digest'[s][u] # "none",
             Generating(q) =>
                 LET s == scopeOf[cur[q]] IN
                 digest'[s][version[q]] = digest[s][version[q]] /\ current'[s] = current[s]
      PROVE  Knows(q)'
  <2>1. Knows(q)
      BY DEF Day, Working
  <2>2. CASE pc[q] \in Numbering
    <3>1. /\ scopeOf[cur[q]] \in Scopes /\ scopeOf'[cur'[q]] = scopeOf[cur[q]]
        BY <1>1, <1>2, <2>2 DEF Numbering
    <3>2. Generating(q)' <=> Generating(q)
        BY <1>2 DEF Generating
    <3>3. pc[q] = "commit" /\ wrote[q] = "succeeded" => Generating(q)
        BY <2>1 DEF Knows, Generating
    <3> QED BY <1>2, <2>1, <3>1, <3>2, <3>3 DEF Knows
  <2>3. CASE pc[q] \notin Numbering
      BY <1>2, <2>1, <2>3 DEF Knows, Generating, Numbering
  <2> QED BY <2>2, <2>3
\* A step of one session that commits no digest.
<1>3. ASSUME NEW p \in Procs, UNCHANGED <<digest, current>>,
             \A j \in Jobs : j < next => scopeOf'[j] = scopeOf[j],
             \A q \in Procs \ {p} :
                 /\ pc'[q] = pc[q] /\ cur'[q] = cur[q] /\ version'[q] = version[q]
                 /\ cleared'[q] = cleared[q] /\ wrote'[q] = wrote[q],
             Knows(p)',
             Generating(p)' =>
                 \A q \in Procs \ {p} : Generating(q) => scopeOf[cur[q]] # scopeOf'[cur'[p]]
      PROVE  Day'
  <2>1. Numbers' /\ CurrentIsLatest'
      BY <1>3 DEF Day, Numbers, CurrentIsLatest
  <2>2. \A q \in Procs \ {p} : Knows(q)'
      BY <1>2, <1>3
  <2>3. ASSUME NEW q \in Procs \ {p}, Generating(q)'
        PROVE  Generating(q) /\ scopeOf'[cur'[q]] = scopeOf[cur[q]]
      BY <1>1, <1>3, <2>3 DEF Generating
  <2>4. OneGenerator'
      BY <1>3, <2>3 DEF Day, OneGenerator
  <2> QED BY <1>3, <2>1, <2>2, <2>4 DEF Day, Working
\* A session outside _generate_digest goes on, ends or begins.
<1>4. ASSUME NEW p \in Procs, UNCHANGED <<digest, current>>,
             \A j \in Jobs : j < next => scopeOf'[j] = scopeOf[j],
             pc'[p] \notin Numbering, version'[p] = 0, wrote'[p] = "failed",
             \A q \in Procs \ {p} :
                 /\ pc'[q] = pc[q] /\ cur'[q] = cur[q] /\ version'[q] = version[q]
                 /\ cleared'[q] = cleared[q] /\ wrote'[q] = wrote[q]
      PROVE  Day'
  <2>1. ~Generating(p)' /\ Knows(p)'
      BY <1>4 DEF Generating, Knows, Numbering
  <2> QED BY <1>3, <1>4, <2>1
\* The same where a session ends, or goes on with what it has.
<1>5. ASSUME NEW p \in Procs, EndSession(p), UNCHANGED <<digest, current, scopeOf>>
      PROVE  Day'
  <2>1. /\ pc'[p] = "idle" /\ version'[p] = 0 /\ wrote'[p] = "failed"
        /\ \A q \in Procs \ {p} :
                 /\ pc'[q] = pc[q] /\ cur'[q] = cur[q] /\ version'[q] = version[q]
                 /\ cleared'[q] = cleared[q] /\ wrote'[q] = wrote[q]
      BY <1>5 DEF EndSession, TypeOK
  <2> QED BY <1>4, <1>5, <2>1 DEF Numbering
<1>6. ASSUME NEW p \in Procs, NEW point \in Points, NEW j, pc[p] \notin Numbering, point \notin Numbering,
             Goto(p, point), cur' = [cur EXCEPT ![p] = j],
             \A i \in Jobs : i < next => scopeOf'[i] = scopeOf[i],
             UNCHANGED <<digest, current, workVars>>
      PROVE  Day'
  <2>1. /\ version[p] = 0 /\ wrote[p] = "failed"
      BY <1>6 DEF Day, Working, Knows, Numbering
  <2>2. /\ pc'[p] = point /\ version'[p] = 0 /\ wrote'[p] = "failed"
        /\ \A q \in Procs \ {p} :
                 /\ pc'[q] = pc[q] /\ cur'[q] = cur[q] /\ version'[q] = version[q]
                 /\ cleared'[q] = cleared[q] /\ wrote'[q] = wrote[q]
      BY <1>0, <1>6, <2>1 DEF Goto
  <2> QED BY <1>4, <1>6, <2>2
\* A request builds a job.
<1>7. ASSUME NEW a \in Procs, NEW s, NEW k, NEW h, NEW orig, BuildJob(a, s, k, h, orig)
      PROVE  /\ cur' = [cur EXCEPT ![a] = next] /\ next \in Jobs /\ scopeOf'[next] = s
             /\ \A j \in Jobs : j < next => scopeOf'[j] = scopeOf[j]
    BY <1>0, <1>7 DEF BuildJob, Jobs
\* A session reads the number of its version.
<1>8. ASSUME NEW p \in Procs, NEW s \in Scopes, NEW v \in Versions, NextVersion(s, v),
             pc[p] \notin Numbering, Goto(p, "insert"),
             version' = [version EXCEPT ![p] = v],
             scopeOf'[cur'[p]] = s, \A q \in Procs \ {p} : cur'[q] = cur[q],
             \A j \in Jobs : j < next => scopeOf'[j] = scopeOf[j],
             UNCHANGED <<digest, current, cleared, wrote>>
      PROVE  Day'
  <2>1. \A u \in Versions : digest[s][u] # "none" <=> u < v
      BY <1>8, NextIsNext DEF Day
  <2>2. pc'[p] = "insert" /\ version'[p] = v /\ wrote'[p] = wrote[p] /\ wrote[p] = "failed"
      BY <1>0, <1>8 DEF Goto, Day, Working, Knows, Numbering
  <2>3. Knows(p)' /\ ~Generating(p)'
      BY <1>0, <1>8, <2>1, <2>2 DEF Knows, Generating, Numbering
  <2>4. \A q \in Procs \ {p} :
                 /\ pc'[q] = pc[q] /\ cur'[q] = cur[q] /\ version'[q] = version[q]
                 /\ cleared'[q] = cleared[q] /\ wrote'[q] = wrote[q]
      BY <1>0, <1>8 DEF Goto
  <2> QED BY <1>3, <1>8, <2>3, <2>4
<1>9. ASSUME NEW a \in Apis, Request(a) PROVE Day'
  <2>1. ASSUME NEW s \in Scopes, NEW k \in Kinds, EnqueueRead(a, s, k) PROVE Day'
      BY <1>0, <1>6, <1>7, <2>1, Members DEF EnqueueRead, Numbering
  <2>2. ASSUME NEW s \in Scopes, NEW k \in Kinds, DirectRead(a, s, k) PROVE Day'
    <3>1. PICK v \in Versions : NextVersion(s, v) /\ version' = [version EXCEPT ![a] = v]
        BY <2>2 DEF DirectRead
    <3>2. /\ cur' = [cur EXCEPT ![a] = next] /\ scopeOf'[next] = s
          /\ \A j \in Jobs : j < next => scopeOf'[j] = scopeOf[j]
          /\ pc[a] = "idle" /\ Goto(a, "insert")
          /\ UNCHANGED <<digest, current, cleared, wrote>>
        BY <1>0, <1>7, <2>2 DEF DirectRead
    <3>3. scopeOf'[cur'[a]] = s /\ \A q \in Procs \ {a} : cur'[q] = cur[q]
        BY <1>0, <3>2
    <3> QED BY <1>0, <1>8, <3>1, <3>2, <3>3 DEF Numbering
  <2>3. ASSUME NEW s \in Scopes, ScheduleRead(a, s) PROVE Day'
      BY <1>0, <1>6, <1>7, <2>3, Members DEF ScheduleRead, Numbering
  <2>4. ASSUME NEW j \in Jobs, RetryRead(a, j) PROVE Day'
      BY <1>0, <1>6, <1>7, <2>4, Members DEF RetryRead, Numbering
  <2>5. ASSUME NEW j \in Jobs, StatusRead(a, j) PROVE Day'
      BY <1>0, <1>6, <2>5, Members DEF StatusRead, Numbering
  <2> QED BY <1>9, <2>1, <2>2, <2>3, <2>4, <2>5 DEF Request
<1>10. ASSUME NEW a \in Apis, ApiStep(a) PROVE Day'
  <2>1. cur' = cur => cur' = [cur EXCEPT ![a] = cur[a]]
      BY <1>0
  <2>2. CASE Publish(a)
      BY <1>0, <1>6, <2>1, <2>2, Members DEF Publish, Numbering
  <2>3. CASE Send(a)
    <3>1. PICK point \in {"mark", "markFailed"} : Goto(a, point)
        BY <2>3 DEF Send
    <3> QED BY <1>0, <1>6, <2>1, <2>3, <3>1, Members DEF Send, Numbering
  <2>4. CASE RetrySend(a)
      BY <1>0, <1>6, <2>1, <2>4, Members DEF RetrySend, Numbering
  <2>5. CASE \/ PublishConflict(a) \/ Mark(a) \/ RetrySendFails(a) \/ RetryCommit(a)
             \/ Recover(a)
      BY <1>0, <1>5, <2>5 DEF PublishConflict, Mark, RetrySendFails, RetryCommit, Recover
  <2> QED BY <1>10, <2>2, <2>3, <2>4, <2>5 DEF ApiStep
<1>11. ASSUME NEW w \in Workers, NEW j \in Jobs, IgnoreTask(w, j) \/ TakeTask(w, j)
       PROVE Day'
  <2>1. CASE IgnoreTask(w, j)
      BY <2>1 DEF IgnoreTask, Day, Numbers, Working, Knows, OneGenerator, Generating,
                  CurrentIsLatest
  <2>2. CASE TakeTask(w, j)
      BY <1>0, <1>6, <2>2, Members DEF TakeTask, Numbering
  <2> QED BY <1>11, <2>1, <2>2
<1>12. ASSUME NEW w \in Workers, WorkerStep(w) PROVE Day'
  <2>1. cur' = cur => cur' = [cur EXCEPT ![w] = cur[w]]
      BY <1>0
  <2>2. CASE FlushRunning(w)
      BY <1>0, <1>6, <2>1, <2>2, Members DEF FlushRunning, Numbering
  <2>3. CASE FlushConflict(w)
      BY <1>0, <1>5, <2>3 DEF FlushConflict
  <2>4. CASE ReadVersion(w)
    <3>1. PICK v \in Versions : /\ NextVersion(scopeOf[cur[w]], v)
                                /\ version' = [version EXCEPT ![w] = v]
        BY <2>4 DEF ReadVersion
    <3>2. scopeOf[cur[w]] \in Scopes /\ pc[w] = "version"
        BY <1>0, <1>1, <2>4 DEF ReadVersion
    <3> QED BY <1>0, <1>8, <2>4, <3>1, <3>2 DEF ReadVersion, Numbering
  <2>5. CASE ScopeGone(w)
    <3>1. version[w] = 0 /\ wrote[w] = "failed"
        BY <1>0, <2>5 DEF ScopeGone, Day, Working, Knows, Numbering
    <3>2. Knows(w)' /\ ~Generating(w)'
        BY <1>0, <2>5, <3>1 DEF ScopeGone, Goto, Knows, Generating, Numbering
    <3>3. w \in Procs /\ \A q \in Procs \ {w} : pc'[q] = pc[q]
        BY <1>0, <2>5 DEF ScopeGone, Goto
    <3> QED BY <1>3, <2>5, <3>2, <3>3 DEF ScopeGone
  <2> QED BY <1>12, <2>2, <2>3, <2>4, <2>5 DEF WorkerStep
\* The INSERT waits for a session with the same version, and two sessions
\* whose versions no row has yet have the same one.
<1>13. ASSUME NEW p \in Procs, Insert(p) PROVE Day'
  <2> DEFINE s == scopeOf[cur[p]]
             v == version[p]
  <2>1. /\ pc[p] = "insert" /\ pc' = [pc EXCEPT ![p] = "generate"]
        /\ UNCHANGED <<digest, current, scopeOf, cur, version, cleared, wrote>>
        /\ digest[s][v] = "none" /\ ~Clashing(p)
      BY <1>13 DEF Insert, Goto
  <2>2. s \in Scopes /\ Knows(p) /\ v # 0 /\ v \in Versions
      BY <1>0, <1>1, <2>1 DEF Day, Working, Knows
  <2>3. Knows(p)'
      BY <1>0, <2>1, <2>2 DEF Knows, Generating, Numbering
  <2>4. ASSUME NEW q \in Procs \ {p}, Generating(q), scopeOf[cur[q]] = s PROVE FALSE
    <3>1. version[q] \in Versions /\ digest[s][version[q]] = "none"
        BY <1>0, <2>4 DEF Generating, Day, Working, Knows
    <3>2. \A u \in Versions : u < version[q] => digest[s][u] # "none"
        BY <2>4 DEF Generating, Day, Working, Knows
    <3>3. ~(v < version[q])
        BY <2>1, <2>2, <3>2
    <3>4. ~(version[q] < v)
        BY <2>2, <3>1 DEF Knows
    <3>5. version[q] = v
        BY <1>0, <2>2, <3>1, <3>3, <3>4
    <3> QED BY <2>1, <2>4, <3>5 DEF Clashing
  <2>5. \A q \in Procs \ {p} : pc'[q] = pc[q]
      BY <1>0, <2>1
  <2>6. \A q \in Procs \ {p} : Generating(q) => scopeOf[cur[q]] # scopeOf'[cur'[p]]
      BY <2>1, <2>4
  <2> QED BY <1>3, <2>1, <2>3, <2>5, <2>6
<1>14. ASSUME NEW p \in Procs, InsertConflict(p) \/ Crash(p) PROVE Day'
    BY <1>5, <1>14 DEF InsertConflict, Crash
<1>15. ASSUME NEW p \in Procs, NEW o \in {"succeeded", "failed"}, Generate(p, o) PROVE Day'
  <2>1. /\ pc[p] = "generate" /\ pc'[p] = "commit" /\ wrote'[p] = o
        /\ o = "succeeded" => cleared'[p] = current[scopeOf[cur[p]]]
        /\ UNCHANGED <<digest, current, scopeOf, cur, version>>
        /\ \A q \in Procs \ {p} :
                 pc'[q] = pc[q] /\ cleared'[q] = cleared[q] /\ wrote'[q] = wrote[q]
      BY <1>0, <1>15 DEF Generate, Goto
  <2>2. Knows(p) /\ Generating(p)
      BY <2>1 DEF Day, Working, Knows, Generating
  <2>3. Knows(p)'
      BY <2>1, <2>2 DEF Knows, Generating, Numbering
  <2>4. \A q \in Procs \ {p} : Generating(q) => scopeOf[cur[q]] # scopeOf'[cur'[p]]
      BY <2>1, <2>2 DEF Day, OneGenerator
  <2> QED BY <1>3, <2>1, <2>3, <2>4
<1>16. ASSUME NEW p \in Procs, Commit(p) PROVE Day'
  <2> DEFINE s == scopeOf[cur[p]]
             v == version[p]
             x == IF wrote[p] = "succeeded" THEN "fresh" ELSE "failed"
  <2>0. /\ pc[p] = "commit" /\ s \in Scopes /\ Knows(p)
        /\ EndSession(p) /\ UNCHANGED scopeOf
        /\ pc'[p] = "idle" /\ version'[p] = 0 /\ wrote'[p] = "failed"
        /\ \A q \in Procs \ {p} :
                 /\ pc'[q] = pc[q] /\ cur'[q] = cur[q] /\ version'[q] = version[q]
                 /\ cleared'[q] = cleared[q] /\ wrote'[q] = wrote[q]
      BY <1>0, <1>1, <1>16 DEF Commit, EndSession, Day, Working
  <2>1. CASE v = 0
      BY <1>5, <1>16, <2>0, <2>1 DEF Commit
  <2>2. CASE v # 0
    <3>1. /\ digest' = [digest EXCEPT ![s] = [@ EXCEPT ![v] = x]]
          /\ current' = [current EXCEPT ![s] = IF wrote[p] = "succeeded" THEN {v} ELSE @]
          /\ v \in Versions /\ Generating(p)
          /\ \A u \in Versions : digest[s][u] # "none" <=> u < v
        BY <1>16, <2>2, CommitDigest
    <3>2. /\ digest \in [Scopes -> [Versions -> {"none", "fresh", "failed"}]]
          /\ current \in [Scopes -> SUBSET Versions]
        BY DEF TypeOK
    <3>3. /\ digest'[s][v] = x /\ \A u \in Versions \ {v} : digest'[s][u] = digest[s][u]
          /\ \A t \in Scopes \ {s} : digest'[t] = digest[t] /\ current'[t] = current[t]
          /\ current'[s] = IF wrote[p] = "succeeded" THEN {v} ELSE current[s]
          /\ x # "none"
        BY <2>0, <3>1, <3>2
    <3> HIDE DEF x
    <3>5. Numbers'
      <4>1. ASSUME NEW u \in Versions PROVE digest'[s][u] # "none" <=> u <= v
        <5>1. CASE u = v
            BY <1>0, <3>1, <3>3, <5>1
        <5>2. CASE u # v
          <6>1. digest'[s][u] = digest[s][u] /\ (digest[s][u] # "none" <=> u < v)
              BY <3>1, <3>3, <5>2
          <6> QED BY <1>0, <3>1, <5>2, <6>1
        <5> QED BY <5>1, <5>2
      <4>2. v \in 0..MaxJobs
          BY <1>0
      <4>3. \A t \in Scopes \ {s} : \E n \in 0..MaxJobs :
                \A u \in Versions : digest'[t][u] # "none" <=> u <= n
          BY <3>3 DEF Day, Numbers
      <4> QED BY <4>1, <4>2, <4>3 DEF Numbers
    <3>6. CurrentIsLatest'
      <4>1. ASSUME NEW t \in Scopes, t # s
            PROVE  current'[t] = {i \in Versions : /\ digest'[t][i] = "fresh"
                      /\ \A u \in Versions : digest'[t][u] = "fresh" => u <= i}
          BY <3>3, <4>1 DEF Day, CurrentIsLatest
      <4>2. current[s] = {i \in Versions : /\ digest[s][i] = "fresh"
                      /\ \A u \in Versions : digest[s][u] = "fresh" => u <= i}
          BY <2>0 DEF Day, CurrentIsLatest
      <4>3. current'[s] = {i \in Versions : /\ digest'[s][i] = "fresh"
                      /\ \A u \in Versions : digest'[s][u] = "fresh" => u <= i}
        <5>1. CASE wrote[p] = "succeeded"
          <6>1. current'[s] = {v}
              BY <3>3, <5>1
          <6>2. digest'[s][v] = "fresh"
              BY <3>3, <5>1 DEF x
          <6>3. ASSUME NEW u \in Versions, digest'[s][u] = "fresh" PROVE u <= v
            <7>1. CASE u # v
              <8>1. digest[s][u] = "fresh"
                  BY <3>3, <6>3, <7>1
              <8> QED BY <1>0, <3>1, <8>1
            <7> QED BY <1>0, <3>1, <7>1
          <6> QED BY <1>0, <3>1, <6>1, <6>2, <6>3
        <5>2. CASE wrote[p] # "succeeded"
          <6>1. current'[s] = current[s]
              BY <3>3, <5>2
          <6>2. digest[s][v] = "none" /\ digest'[s][v] = "failed"
              BY <1>0, <3>1, <3>2, <3>3, <5>2 DEF x
          <6>3. \A u \in Versions : digest'[s][u] = "fresh" <=> digest[s][u] = "fresh"
              BY <3>3, <6>2
          <6> QED BY <4>2, <6>1, <6>3
        <5> QED BY <5>1, <5>2
      <4> QED BY <4>1, <4>3 DEF CurrentIsLatest
    <3>7. ASSUME NEW q \in Procs \ {p}, Generating(q) PROVE scopeOf[cur[q]] # s
        BY <3>1, <3>7 DEF Day, OneGenerator
    <3>8. \A q \in Procs \ {p} : Knows(q)'
      <4> SUFFICES ASSUME NEW q \in Procs \ {p} PROVE Knows(q)'
          OBVIOUS
      <4>1. Generating(q) => scopeOf[cur[q]] \in Scopes
          BY <1>1 DEF Generating
      <4>2. \A t \in Scopes, u \in Versions : digest[t][u] # "none" => digest'[t][u] # "none"
          BY <3>3
      <4> QED BY <1>2, <2>0, <3>3, <3>7, <4>1, <4>2
    <3>9. Knows(p)'
        BY <2>0 DEF Knows, Generating, Numbering
    <3>10. OneGenerator'
      <4>1. \A q \in Procs : Generating(q)' => q # p /\ Generating(q) /\ cur'[q] = cur[q]
          BY <2>0 DEF Generating
      <4> QED BY <2>0, <4>1 DEF OneGenerator, Day
    <3> QED BY <3>5, <3>6, <3>8, <3>9, <3>10 DEF Day, Working
  <2> QED BY <2>1, <2>2
<1>17. CASE UNCHANGED vars
    BY <1>17 DEF vars, Day, Numbers, Working, Knows, OneGenerator, Generating, CurrentIsLatest
<1> QED
    BY <1>9, <1>10, <1>11, <1>12, <1>13, <1>14, <1>15, <1>16, <1>17
       DEF Next, Deliver, GenerateStep

-----------------------------------------------------------------------------
LEMMA SucceededStep ==
    TypeOK /\ Built /\ Day /\ SucceededHasDigest /\ [Next]_vars => SucceededHasDigest'
<1> SUFFICES ASSUME TypeOK, Built, Day, SucceededHasDigest, [Next]_vars
             PROVE  SucceededHasDigest'
    OBVIOUS
<1> USE DEF jobVars, newVars, dayVars, workVars, procVars
<1>0. /\ Apis \subseteq Procs /\ Workers \subseteq Procs /\ Jobs \subseteq Nat
      /\ NoJob = 0 /\ NoJob \notin Jobs /\ next \in Nat \ {0}
      /\ cur \in [Procs -> Jobs \cup {NoJob}]
      /\ status \in [Jobs -> Statuses \ {"running"}]
      /\ scopeOf \in [Jobs -> Scopes \cup {None}] /\ digestOf \in [Jobs -> 0..MaxJobs]
      /\ \A j \in Jobs : status[j] # "absent" => j < next /\ scopeOf[j] \in Scopes
    BY Base DEF TypeOK, Built
\* No job succeeds.
<1>1. ASSUME UNCHANGED digest,
             \A j \in Jobs : status'[j] = "succeeded" => status[j] = "succeeded",
             \A j \in Jobs : j < next => scopeOf'[j] = scopeOf[j] /\ digestOf'[j] = digestOf[j]
      PROVE  SucceededHasDigest'
    BY <1>0, <1>1 DEF SucceededHasDigest
<1>2. ASSUME NEW x, NEW j, status' = [status EXCEPT ![j] = x], x # "succeeded"
      PROVE  \A i \in Jobs : status'[i] = "succeeded" => status[i] = "succeeded"
    BY <1>0, <1>2
<1>3. ASSUME NEW a, NEW s, NEW k, NEW h, NEW orig, BuildJob(a, s, k, h, orig)
      PROVE  \A j \in Jobs : j < next => scopeOf'[j] = scopeOf[j]
    BY <1>0, <1>3 DEF BuildJob
<1>4. ASSUME NEW a \in Apis, Request(a) PROVE SucceededHasDigest'
  <2>1. ASSUME NEW s \in Scopes, NEW k \in Kinds, EnqueueRead(a, s, k) \/ DirectRead(a, s, k)
        PROVE  SucceededHasDigest'
      BY <1>1, <1>3, <2>1 DEF EnqueueRead, DirectRead
  <2>2. ASSUME NEW s \in Scopes, ScheduleRead(a, s) PROVE SucceededHasDigest'
      BY <1>1, <1>3, <2>2 DEF ScheduleRead
  <2>3. ASSUME NEW j \in Jobs, RetryRead(a, j) PROVE SucceededHasDigest'
    <3>1. \A i \in Jobs : i < next => digestOf'[i] = digestOf[i]
        BY <1>0, <2>3 DEF RetryRead
    <3> QED BY <1>1, <1>3, <2>3, <3>1 DEF RetryRead
  <2>4. ASSUME NEW j \in Jobs, StatusRead(a, j) PROVE SucceededHasDigest'
      BY <1>1, <2>4 DEF StatusRead
  <2> QED BY <1>4, <2>1, <2>2, <2>3, <2>4 DEF Request
<1>5. ASSUME NEW a \in Apis, ApiStep(a) PROVE SucceededHasDigest'
  <2>1. CASE Publish(a) \/ RetryCommit(a) \/ Recover(a)
      BY <1>1, <1>2, <2>1 DEF Publish, RetryCommit, Recover
  <2>2. CASE Mark(a)
      BY <1>1, <1>2, <2>2 DEF Mark
  <2>3. CASE PublishConflict(a) \/ Send(a) \/ RetrySend(a) \/ RetrySendFails(a)
      BY <1>1, <2>3 DEF PublishConflict, Send, RetrySend, RetrySendFails
  <2> QED BY <1>5, <2>1, <2>2, <2>3 DEF ApiStep
<1>6. ASSUME NEW w \in Workers, Deliver(w) \/ WorkerStep(w) PROVE SucceededHasDigest'
    BY <1>1, <1>6 DEF Deliver, IgnoreTask, TakeTask, WorkerStep, FlushRunning,
                      FlushConflict, ReadVersion, ScopeGone
<1>7. ASSUME NEW p \in Procs, NEW o, Insert(p) \/ InsertConflict(p) \/ Generate(p, o) \/ Crash(p)
      PROVE  SucceededHasDigest'
    BY <1>1, <1>7 DEF Insert, InsertConflict, Generate, Crash
\* The version a job succeeds with had no row before, so no job points to it.
<1>8. ASSUME NEW p \in Procs, Commit(p) PROVE SucceededHasDigest'
  <2>1. CASE version[p] = 0
    <3>1. wrote[p] # "succeeded"
        BY <1>8, <2>1 DEF Commit, Day, Working, Knows
    <3>2. status' = [status EXCEPT ![cur[p]] = wrote[p]] /\ UNCHANGED <<digest, scopeOf, digestOf>>
        BY <1>8, <2>1 DEF Commit, JobOutcome
    <3> QED BY <1>1, <1>2, <3>1, <3>2
  <2>2. CASE version[p] # 0
    <3> DEFINE j == cur[p]
               s == scopeOf[j]
               v == version[p]
    <3>1. /\ j \in Jobs /\ s \in Scopes /\ v \in Versions /\ v # 0
          /\ digest' = [digest EXCEPT
                ![s] = [@ EXCEPT ![v] = IF wrote[p] = "succeeded" THEN "fresh" ELSE "failed"]]
          /\ digestOf' = [digestOf EXCEPT ![j] = v]
          /\ digest[s][v] = "none"
      <4>1. \A u \in Versions : digest[s][u] # "none" <=> u < v
          BY <1>8, <2>2, CommitDigest
      <4>2. v \in Versions
          BY <1>8, <2>2, CommitDigest
      <4>3. digest[s][v] = "none"
          BY <4>1, <4>2, Base
      <4> QED BY <1>8, <2>2, <4>2, <4>3, CommitDigest
    <3>2. status' = [status EXCEPT ![j] = wrote[p]] /\ UNCHANGED scopeOf
        BY <1>8 DEF Commit, JobOutcome
    <3>3. digest \in [Scopes -> [Versions -> {"none", "fresh", "failed"}]]
        BY DEF TypeOK
    <3>4. \A i \in Jobs \ {j} : status'[i] = status[i] /\ digestOf'[i] = digestOf[i]
        BY <1>0, <3>1, <3>2
    <3>5. ASSUME NEW i \in Jobs \ {j}, status[i] = "succeeded"
          PROVE  /\ digestOf[i] # 0 /\ digest[scopeOf[i]][digestOf[i]] = "fresh"
                 /\ scopeOf[i] = s => digestOf[i] # v
                 /\ digest'[scopeOf[i]][digestOf[i]] = "fresh"
      <4>1. /\ digestOf[i] # 0 /\ digest[scopeOf[i]][digestOf[i]] = "fresh"
            /\ scopeOf[i] \in Scopes /\ digestOf[i] \in Versions
          BY <1>0, <3>5, Base DEF SucceededHasDigest
      <4> QED BY <3>1, <3>3, <4>1
    <3>6. CASE wrote[p] = "succeeded"
      <4>1. digestOf'[j] = v /\ digest'[s][v] = "fresh"
          BY <1>0, <3>1, <3>3, <3>6
      <4> QED BY <3>1, <3>2, <3>4, <3>5, <4>1 DEF SucceededHasDigest
    <3>7. CASE wrote[p] # "succeeded"
      <4>1. status'[j] # "succeeded"
          BY <1>0, <3>1, <3>2, <3>7
      <4> QED BY <3>2, <3>4, <3>5, <4>1 DEF SucceededHasDigest
    <3> QED BY <3>6, <3>7
  <2> QED BY <2>1, <2>2
<1>9. CASE UNCHANGED vars
    BY <1>1, <1>9 DEF vars
<1> QED
    BY <1>4, <1>5, <1>6, <1>7, <1>8, <1>9 DEF Next, GenerateStep

-----------------------------------------------------------------------------
\* The inductive invariant.  OneGenerator and CurrentIsLatest are not inductive
\* by themselves: two sessions of a scope meet at the unique index only because
\* each holds the version after the committed ones, and a switch leaves one
\* current digest only because no other session commits between it and its commit.
IInv == TypeOK /\ Built /\ Day /\ SucceededHasDigest

LEMMA InvInit == Init => IInv
<1> SUFFICES ASSUME Init PROVE IInv
    OBVIOUS
<1>1. TypeOK /\ Built
    BY TypeInit
<1>2. Numbers
  <2>1. 0 \in 0..MaxJobs /\ \A u \in Versions : ~(u <= 0)
      BY BoundAssumption DEF Versions
  <2> QED BY <2>1 DEF Init, Numbers
<1>3. Working /\ OneGenerator
    BY DEF Init, Working, Knows, OneGenerator, Generating, Numbering, Procs
<1>4. CurrentIsLatest /\ SucceededHasDigest
    BY DEF Init, CurrentIsLatest, SucceededHasDigest
<1> QED BY <1>1, <1>2, <1>3, <1>4 DEF IInv, Day

LEMMA InvStep == IInv /\ [Next]_vars => IInv'
BY TypeStep, BuiltStep, DayStep, SucceededStep DEF IInv

LEMMA Invariance == Spec => []IInv
BY InvInit, InvStep, PTL DEF Spec

\* Type correctness: every variable keeps its type; in particular no committed
\* digest is "generating", no committed job is running, and no chain of retries
\* is longer than MAX_JOB_RETRIES.
THEOREM TypeCorrect == Spec => []TypeOK
<1>1. IInv => TypeOK
    BY DEF IInv
<1> QED BY <1>1, Invariance, PTL

\* Two sessions never generate digests of one scope and day at a time: the
\* version a session reads is the next one until it commits, so that a second
\* session has to wait at the unique index of the first one's digest.
THEOREM SoleGenerator == Spec => []OneGenerator
<1>1. IInv => OneGenerator
    BY DEF IInv, Day
<1> QED BY <1>1, Invariance, PTL

\* The current digest of a scope is its last completed version, whatever fails,
\* crashes or is retried: _switch_current_digest and the INSERT commit together.
THEOREM LatestIsCurrent == Spec => []CurrentIsLatest
<1>1. IInv => CurrentIsLatest
    BY DEF IInv, Day
<1> QED BY <1>1, Invariance, PTL

\* A job that succeeded points to a completed digest of its scope that no other
\* succeeded job points to, the digest_id a retry copies notwithstanding.
THEOREM OwnDigest == Spec => []SucceededHasDigest
<1>1. IInv => SucceededHasDigest
    BY DEF IInv
<1> QED BY <1>1, Invariance, PTL

-----------------------------------------------------------------------------
\* The versions of one scope, d, and the history DigestHistory sees of them.
Rows == [Versions -> {"none", "fresh", "failed"}]
Outcomes == {"fresh", "failed"}
Recorded(d) == [v \in 1..Cardinality({u \in Versions : d[u] # "none"}) |-> d[v]]

LEMMA RecordedIs ==
    ASSUME NEW d \in Rows, NEW n \in 0..MaxJobs, \A u \in Versions : d[u] # "none" <=> u <= n
    PROVE  /\ Recorded(d) \in Seq(Outcomes) /\ Len(Recorded(d)) = n
           /\ \A i \in 1..n : Recorded(d)[i] = d[i]
<1>1. {u \in Versions : d[u] # "none"} = 1..n
    BY BoundAssumption DEF Versions
<1>2. Cardinality(1..n) = n
    BY FS_Interval, BoundAssumption
<1>3. Recorded(d) = [v \in 1..n |-> d[v]]
    BY <1>1, <1>2 DEF Recorded
<1>4. \A v \in 1..n : d[v] \in Outcomes
    BY BoundAssumption DEF Rows, Outcomes, Versions
<1>5. [v \in 1..n |-> d[v]] \in [1..n -> Outcomes]
    BY <1>4
<1> HIDE DEF Recorded
<1> QED BY <1>3, <1>5, BoundAssumption, SeqDef

LEMMA RecordedAppend ==
    ASSUME NEW d \in Rows, NEW v \in Versions, NEW x \in Outcomes,
           \A u \in Versions : d[u] # "none" <=> u < v
    PROVE  /\ Recorded([d EXCEPT ![v] = x]) = Append(Recorded(d), x)
           /\ Len(Recorded(d)) + 1 = v
<1> DEFINE e == [d EXCEPT ![v] = x]
           h == Recorded(d)
           g == Recorded(e)
<1>0. Versions = 1..MaxJobs /\ MaxJobs \in Nat
    BY BoundAssumption DEF Versions
<1>1. /\ h \in Seq(Outcomes) /\ Len(h) = v - 1
      /\ \A i \in 1..(v - 1) : h[i] = d[i]
  <2>1. v - 1 \in 0..MaxJobs /\ \A u \in Versions : d[u] # "none" <=> u <= v - 1
      BY <1>0
  <2> QED BY <2>1, RecordedIs
<1>2. /\ g \in Seq(Outcomes) /\ Len(g) = v
      /\ \A i \in 1..v : g[i] = e[i]
  <2>1. e \in Rows /\ v \in 0..MaxJobs
      BY <1>0 DEF Rows, Outcomes
  <2>2. \A u \in Versions : e[u] # "none" <=> u <= v
      BY <1>0 DEF Rows, Outcomes
  <2> HIDE DEF e
  <2> QED BY <2>1, <2>2, RecordedIs
<1>3. e[v] = x /\ \A i \in 1..(v - 1) : e[i] = d[i]
    BY <1>0 DEF Rows
<1> HIDE DEF h, g, e
<1>4. /\ Append(h, x) \in Seq(Outcomes) /\ Len(Append(h, x)) = Len(h) + 1
      /\ \A i \in 1..Len(h) : Append(h, x)[i] = h[i]
      /\ Append(h, x)[Len(h) + 1] = x
    BY <1>1, AppendProperties
<1>5. Len(h) + 1 = v
    BY <1>0, <1>1
<1>6. ASSUME NEW i \in 1..Len(g) PROVE g[i] = Append(h, x)[i]
  <2>1. CASE i = v
      BY <1>0, <1>2, <1>3, <1>4, <1>5, <2>1
  <2>2. CASE i # v
    <3>1. i \in 1..(v - 1) /\ i \in 1..v
        BY <1>0, <1>2, <2>2
    <3> QED BY <1>1, <1>2, <1>3, <1>4, <3>1
  <2> QED BY <2>1, <2>2
<1>7. g = Append(h, x)
    BY <1>2, <1>4, <1>5, <1>6, SeqEqual
<1> QED BY <1>5, <1>7 DEF g, h, e

LEMMA HistoryInit == Init => History!Init
<1> SUFFICES ASSUME Init PROVE History!Init
    OBVIOUS
<1>1. ASSUME NEW s \in Scopes PROVE Recorded(digest[s]) = <<>>
  <2>1. 0 \in 0..MaxJobs /\ digest[s] \in Rows
        /\ \A u \in Versions : digest[s][u] # "none" <=> u <= 0
      BY BoundAssumption DEF Init, Rows, Versions
  <2>2. Recorded(digest[s]) \in Seq(Outcomes) /\ Len(Recorded(digest[s])) = 0
      BY <2>1, RecordedIs
  <2> QED BY <2>2, EmptySeq
<1> QED BY <1>1 DEF History!Init, Recorded, Init

\* Only the commit of a digest is a step of the history.
LEMMA HistoryStep == IInv /\ [Next]_vars => [History!Next]_(History!vars)
<1> SUFFICES ASSUME IInv, [Next]_vars, ~UNCHANGED <<digest, current>>
             PROVE  History!Next
    BY DEF History!vars
<1>1. PICK p \in Procs : Commit(p) /\ version[p] # 0
    BY DEF Next, Request, Deliver, ApiStep, WorkerStep, GenerateStep, EnqueueRead, DirectRead,
           ScheduleRead, RetryRead, StatusRead, Publish, PublishConflict, Send, Mark, RetrySend,
           RetrySendFails, RetryCommit, Recover, IgnoreTask, TakeTask, FlushRunning,
           FlushConflict, ReadVersion, ScopeGone, Insert, InsertConflict, Generate, Commit,
           Crash, vars, dayVars, procVars, workVars, jobVars, newVars
<1> DEFINE s == scopeOf[cur[p]]
           v == version[p]
           x == IF wrote[p] = "succeeded" THEN "fresh" ELSE "failed"
           hist == [t \in Scopes |-> Recorded(digest[t])]
<1>2. /\ s \in Scopes /\ v \in Versions
      /\ digest' = [digest EXCEPT ![s] = [@ EXCEPT ![v] = x]]
      /\ current' = [current EXCEPT ![s] = IF wrote[p] = "succeeded" THEN {v} ELSE @]
      /\ \A u \in Versions : digest[s][u] # "none" <=> u < v
    BY <1>1, CommitDigest DEF IInv
<1>3. digest \in [Scopes -> Rows] /\ current \in [Scopes -> SUBSET Versions] /\ x \in Outcomes
    BY DEF IInv, TypeOK, Rows, Outcomes
<1>4. /\ Recorded(digest'[s]) = Append(Recorded(digest[s]), x)
      /\ Len(Recorded(digest[s])) + 1 = v
  <2>1. digest'[s] = [digest[s] EXCEPT ![v] = x] /\ digest[s] \in Rows
      BY <1>2, <1>3
  <2> HIDE DEF s, v, x
  <2>2. \A u \in Versions : digest[s][u] # "none" <=> u < v
      BY <1>2
  <2> QED BY <1>2, <1>3, <2>1, <2>2, RecordedAppend
<1>5. \A t \in Scopes : t # s => digest'[t] = digest[t]
    BY <1>2, <1>3
<1>6. hist' = [hist EXCEPT ![s] = Append(hist[s], x)]
  <2>1. hist' = [t \in Scopes |-> Recorded(digest'[t])]
      OBVIOUS
  <2> HIDE DEF s, v, x
  <2>2. hist'[s] = Append(hist[s], x)
      BY <1>2, <1>4, <2>1
  <2>3. \A t \in Scopes : t # s => hist'[t] = hist[t]
      BY <1>5, <2>1
  <2> HIDE DEF hist
  <2>4. hist' = [t \in Scopes |-> hist'[t]] /\ hist = [t \in Scopes |-> hist[t]]
      BY <2>1 DEF hist
  <2> QED BY <1>2, <2>2, <2>3, <2>4
<1>7. hist = [t \in Scopes |->
                 [i \in 1..Cardinality({u \in Versions : digest[t][u] # "none"}) |-> digest[t][i]]]
    BY DEF Recorded
<1>8. CASE wrote[p] = "succeeded"
  <2>1. current' = [current EXCEPT ![s] = {Len(hist[s]) + 1}]
      BY <1>2, <1>4, <1>8
  <2> QED BY <1>2, <1>6, <1>8, <2>1 DEF History!Next, History!Complete, Recorded
<1>9. CASE wrote[p] # "succeeded"
  <2>1. UNCHANGED current
      BY <1>2, <1>3, <1>9
  <2> QED BY <1>2, <1>6, <1>9, <2>1 DEF History!Next, History!GiveUp, Recorded
<1> QED BY <1>8, <1>9

\* The digests of a scope are a history of versions: generations, retries,
\* crashes and lost tasks are at most one version each, appended, and what is
\* shown moves only to a version being completed.
THEOREM RefinesHistory == Spec => VersionedHistory
BY HistoryInit, HistoryStep, Invariance, PTL DEF VersionedHistory, History!Spec, Spec
=============================================================================
