------------------------- MODULE SyncJobsRefinement -------------------------
(***************************************************************************)
(* SyncJobs implements MailboxSync, for any number of mailboxes, requests, *)
(* workers, jobs and retries: each step starts, finishes or drops one job, *)
(* or changes neither Waiting nor Running.                                 *)
(***************************************************************************)
EXTENDS SyncJobsProofs

LEMMA PromiseInit == Init => Promise!Init
<1> SUFFICES ASSUME Init PROVE Promise!Init
    OBVIOUS
<1>1. Waiting = Jobs
    BY BoundAssumption DEF Init, Waiting, Unstarted, Jobs
<1>2. [m \in Mailboxes |-> Running(m)] = [m \in Mailboxes |-> NoJob]
    BY DEF Init, Running
<1> QED BY <1>1, <1>2 DEF Promise!Init

LEMMA PromiseStep == IInv /\ [Next]_vars => [Promise!Next]_(Promise!vars)
<1> DEFINE R == [m \in Mailboxes |-> Running(m)]
<1> SUFFICES ASSUME IInv, [Next]_vars PROVE Promise!Next \/ UNCHANGED <<Waiting, R>>
    BY DEF Promise!vars
<1> USE DEF dbVars, newVars, rowVars, procVars
<1>0. /\ pc \in [Procs -> Points] /\ cur \in [Procs -> Jobs \cup {NoJob}]
      /\ mailboxOf \in [Jobs -> Mailboxes \cup {None}]
      /\ mailboxRow \in [Mailboxes -> Procs \cup {None}]
      /\ tasks \subseteq Jobs /\ Jobs = 1..MaxJobs /\ MaxJobs \in Nat
      /\ next \in Nat \ {0} /\ NoJob = 0 /\ NoJob \notin Jobs
      /\ Apis \subseteq Procs /\ Workers \subseteq Procs /\ None \notin Procs
      /\ \A j \in tasks : j < next
      /\ \A p \in Procs : cur[p] < next
    BY ProcessAssumption, BoundAssumption DEF IInv, TypeOK, Built, Procs, Jobs, NoJob
<1>1. ASSUME NEW p \in Procs, pc[p] \notin {"idle", "recover"}
      PROVE  cur[p] \in Jobs /\ cur[p] # NoJob /\ mailboxOf[cur[p]] \in Mailboxes
    BY <1>0, <1>1 DEF IInv, Built
\* Who has the row of a mailbox.
<1>2. ASSUME NEW m \in Mailboxes, NEW p \in Procs
      PROVE  mailboxRow[m] = p <=> pc[p] \in Holding /\ mailboxOf[cur[p]] = m
    BY <1>0, <1>1 DEF IInv, RowHeld, Holding
\* A job a session has not started is in no message and in no other session's hands.
<1>3. ASSUME NEW p \in Procs, pc[p] \in Unstarted
      PROVE  /\ cur[p] \in Waiting /\ cur[p] \notin tasks /\ cur[p] \in Jobs /\ cur[p] < next
             /\ \A q \in Procs \ {p} : pc[q] \in Unstarted => cur[q] # cur[p]
    BY <1>0, <1>1, <1>3 DEF IInv, Sole, Private, Sharing, Unstarted, Waiting
\* What a step of one session does to Waiting.
<1>4. ASSUME NEW p \in Procs, pc[p] \notin Unstarted, pc'[p] \notin Unstarted,
             \A q \in Procs \ {p} : pc'[q] = pc[q] /\ cur'[q] = cur[q], UNCHANGED <<next, tasks>>
      PROVE  Waiting' = Waiting
    BY <1>4 DEF Waiting
<1>5. ASSUME NEW p \in Procs, pc[p] \in Unstarted, UNCHANGED next,
             \A q \in Procs \ {p} : pc'[q] = pc[q] /\ cur'[q] = cur[q],
             \/ pc'[p] \in Unstarted /\ cur'[p] = cur[p] /\ UNCHANGED tasks
             \/ pc'[p] \notin Unstarted /\ tasks' = tasks \cup {cur[p]}
      PROVE  Waiting' = Waiting
    BY <1>5 DEF Waiting
<1>6. ASSUME NEW p \in Procs, pc[p] \in Unstarted, pc'[p] \notin Unstarted,
             \A q \in Procs \ {p} : pc'[q] = pc[q] /\ cur'[q] = cur[q], UNCHANGED <<next, tasks>>
      PROVE  cur[p] \in Waiting /\ Waiting' = Waiting \ {cur[p]} /\ cur[p] \in Jobs
  <2>1. cur[p] \notin next..MaxJobs
      BY <1>0, <1>3, <1>6
  <2> QED BY <1>3, <1>6, <2>1 DEF Waiting
<1>7. ASSUME NEW a \in Procs, NEW m, NEW orig, NEW point \in {"publish", "directFlush", "retrySend"},
             pc[a] = "idle", BuildJob(a, m, orig), Goto(a, point), UNCHANGED tasks
      PROVE  /\ Waiting' = Waiting
             /\ \A q \in Procs \ {a} : pc'[q] = pc[q] /\ cur'[q] = cur[q]
  <2>1. /\ next' = next + 1 /\ next <= MaxJobs
        /\ pc' = [pc EXCEPT ![a] = point] /\ cur' = [cur EXCEPT ![a] = next]
      BY <1>7 DEF BuildJob, Goto
  <2>2. next..MaxJobs = {next} \cup next'..MaxJobs
      BY <1>0, <2>1
  <2>3. /\ pc'[a] \in Unstarted /\ cur'[a] = next /\ pc[a] \notin Unstarted
        /\ \A q \in Procs \ {a} : pc'[q] = pc[q] /\ cur'[q] = cur[q]
      BY <1>0, <1>7, <2>1 DEF Unstarted
  <2>4. {cur'[p] : p \in {q \in Procs : pc'[q] \in Unstarted}}
          = {next} \cup {cur[p] : p \in {q \in Procs : pc[q] \in Unstarted}}
      BY <2>3
  <2>5. Waiting' = next'..MaxJobs \cup tasks
                   \cup {cur'[p] : p \in {q \in Procs : pc'[q] \in Unstarted}}
      BY <1>7 DEF Waiting
  <2>6. Waiting = next..MaxJobs \cup tasks
                   \cup {cur[p] : p \in {q \in Procs : pc[q] \in Unstarted}}
      BY DEF Waiting
  <2>7. Waiting' = Waiting
      BY <2>2, <2>4, <2>5, <2>6
  <2> QED BY <2>3, <2>7
\* What a step of one session does to Running.
<1>8. ASSUME NEW p \in Procs, pc[p] \notin Holding, UNCHANGED mailboxRow,
             \A q \in Procs \ {p} : pc'[q] = pc[q] /\ cur'[q] = cur[q]
      PROVE  UNCHANGED R
  <2>1. \A m \in Mailboxes : mailboxRow[m] # p
      BY <1>2, <1>8
  <2>2. \A m \in Mailboxes : Running(m)' = Running(m)
      BY <1>0, <1>8, <2>1 DEF Running
  <2> QED BY <2>2
<1>9. ASSUME NEW p \in Procs, pc[p] # "flushJob", pc'[p] # "flushJob", cur'[p] = cur[p],
             \A q \in Procs \ {p} : pc'[q] = pc[q] /\ cur'[q] = cur[q], UNCHANGED mailboxRow
      PROVE  UNCHANGED R
  <2>1. \A m \in Mailboxes : Running(m)' = Running(m)
      BY <1>0, <1>9 DEF Running
  <2> QED BY <2>1
<1>10. ASSUME NEW p \in Procs, NEW point, Goto(p, point), UNCHANGED cur
       PROVE  /\ pc[p] \in Points => pc'[p] = point /\ cur'[p] = cur[p]
              /\ \A q \in Procs \ {p} : pc'[q] = pc[q] /\ cur'[q] = cur[q]
    BY <1>0, <1>10 DEF Goto
<1>11. ASSUME NEW p \in Procs, EndSession(p)
       PROVE  /\ pc'[p] = "idle"
              /\ \A q \in Procs \ {p} : pc'[q] = pc[q] /\ cur'[q] = cur[q]
    BY <1>0, <1>11 DEF EndSession
\* A session drops its job.
<1>12. ASSUME NEW j \in Jobs, j \in Waiting, Waiting' = Waiting \ {j}, UNCHANGED R
       PROVE  Promise!Next
    BY <1>12 DEF Promise!Next, Promise!Drop
<1>13. ASSUME NEW a \in Apis, Request(a) PROVE UNCHANGED <<Waiting, R>>
  <2>1. ASSUME NEW m \in Mailboxes, EnqueueRead(a, m) PROVE UNCHANGED <<Waiting, R>>
      BY <1>0, <1>7, <1>8, <2>1 DEF EnqueueRead, Holding
  <2>2. ASSUME NEW m \in Mailboxes, DirectRead(a, m) PROVE UNCHANGED <<Waiting, R>>
      BY <1>0, <1>7, <1>8, <2>2 DEF DirectRead, Holding
  <2>3. ASSUME NEW j \in Jobs, RetryRead(a, j) PROVE UNCHANGED <<Waiting, R>>
      BY <1>0, <1>7, <1>8, <2>3 DEF RetryRead, Holding
  <2>4. ASSUME NEW j \in Jobs, StatusRead(a, j) PROVE UNCHANGED <<Waiting, R>>
      BY <1>0, <1>4, <1>8, <1>10, <2>4 DEF StatusRead, Holding, Unstarted
  <2> QED BY <1>13, <2>1, <2>2, <2>3, <2>4 DEF Request
<1>14. ASSUME NEW a \in Apis, ApiStep(a), ~DirectFlush(a)
       PROVE  Promise!Next \/ UNCHANGED <<Waiting, R>>
  <2>1. CASE Publish(a)
      BY <1>0, <1>5, <1>8, <1>10, <2>1 DEF Publish, Holding, Unstarted
  <2>2. CASE Send(a)
      BY <1>0, <1>5, <1>8, <1>10, <2>2 DEF Send, Holding, Unstarted
  <2>3. CASE SendFails(a)
    <3>1. UNCHANGED R
        BY <1>0, <1>8, <1>10, <2>3 DEF SendFails, Holding
    <3>2. CASE tasks' = tasks
        BY <1>0, <1>6, <1>10, <1>12, <2>3, <3>1, <3>2 DEF SendFails, Unstarted
    <3>3. CASE tasks' = tasks \cup {cur[a]}
        BY <1>0, <1>5, <1>10, <2>3, <3>1, <3>3 DEF SendFails, Unstarted
    <3> QED BY <2>3, <3>2, <3>3 DEF SendFails
  <2>4. CASE Mark(a) \/ RetryCommit(a) \/ Recover(a)
      BY <1>0, <1>4, <1>8, <1>11, <2>4 DEF Mark, RetryCommit, Recover, Holding, Unstarted
  <2>5. CASE RetrySend(a)
      BY <1>0, <1>5, <1>8, <1>10, <2>5 DEF RetrySend, Holding, Unstarted
  <2>6. CASE RetrySendFails(a)
    <3>1. UNCHANGED R
        BY <1>0, <1>8, <1>11, <2>6 DEF RetrySendFails, Holding
    <3>2. CASE tasks' = tasks
        BY <1>0, <1>6, <1>11, <1>12, <2>6, <3>1, <3>2 DEF RetrySendFails, Unstarted
    <3>3. CASE tasks' = tasks \cup {cur[a]}
        BY <1>0, <1>5, <1>11, <2>6, <3>1, <3>3 DEF RetrySendFails, Unstarted
    <3> QED BY <2>6, <3>2, <3>3 DEF RetrySendFails
  <2> QED BY <1>14, <2>1, <2>2, <2>3, <2>4, <2>5, <2>6 DEF ApiStep
\* The message of a job that cannot be executed leaves the queue; the job is
\* dropped unless a session still has it in hand.
<1>15. ASSUME NEW w \in Workers, NEW j \in Jobs, IgnoreTask(w, j)
       PROVE  Promise!Next \/ UNCHANGED <<Waiting, R>>
  <2>1. j \in tasks /\ tasks' = tasks \ {j} /\ UNCHANGED <<next, pc, cur, mailboxRow>>
      BY <1>15 DEF IgnoreTask, Acknowledged
  <2>2. UNCHANGED R
      BY <2>1 DEF Running
  <2>3. j \in Waiting /\ j \notin next..MaxJobs
      BY <1>0, <2>1 DEF Waiting
  <2>4. Waiting' = Waiting \/ Waiting' = Waiting \ {j}
      BY <2>1, <2>3 DEF Waiting
  <2> QED BY <1>12, <2>2, <2>3, <2>4
<1>16. ASSUME NEW w \in Workers, NEW j \in Jobs, TakeTask(w, j)
       PROVE  UNCHANGED <<Waiting, R>>
  <2>1. /\ pc[w] = "idle" /\ j \in tasks /\ tasks' = tasks \ {j} /\ UNCHANGED <<next, mailboxRow>>
        /\ pc'[w] = "acquire" /\ cur'[w] = j
        /\ \A q \in Procs \ {w} : pc'[q] = pc[q] /\ cur'[q] = cur[q]
      BY <1>0, <1>16 DEF TakeTask, Acknowledged, Goto
  <2>2. pc[w] \notin Unstarted /\ pc'[w] \in Unstarted /\ pc[w] \notin Holding /\ w \in Procs
      BY <1>0, <2>1 DEF Unstarted, Holding
  <2>3. UNCHANGED R
      BY <1>8, <2>1, <2>2
  <2>4. {cur'[p] : p \in {q \in Procs : pc'[q] \in Unstarted}}
          = {j} \cup {cur[p] : p \in {q \in Procs : pc[q] \in Unstarted}}
      BY <2>1, <2>2
  <2>5. Waiting' = next..MaxJobs \cup tasks'
                   \cup {cur'[p] : p \in {q \in Procs : pc'[q] \in Unstarted}}
      BY <2>1 DEF Waiting
  <2>6. Waiting' = Waiting
      BY <2>1, <2>4, <2>5 DEF Waiting
  <2> QED BY <2>3, <2>6
<1>17. ASSUME NEW w \in Workers, WorkerStep(w), ~FlushJob(w)
       PROVE  Promise!Next \/ UNCHANGED <<Waiting, R>>
  <2>1. CASE AcquireLock(w)
      BY <1>0, <1>5, <1>8, <1>10, <2>1 DEF AcquireLock, Holding, Unstarted
  <2>2. CASE AcquireFails(w)
    <3>1. UNCHANGED R
        BY <1>0, <1>8, <1>10, <2>2 DEF AcquireFails, Holding
    <3> QED BY <1>0, <1>6, <1>10, <1>12, <2>2, <3>1 DEF AcquireFails, Unstarted
  <2>3. CASE LockConflict(w)
      BY <1>0, <1>4, <1>8, <1>11, <2>3 DEF LockConflict, Holding, Unstarted
  <2>4. CASE FlushMailbox(w)
    <3> DEFINE m == mailboxOf[cur[w]]
    <3>1. /\ pc[w] = "flushMailbox" /\ m \in Mailboxes /\ mailboxRow[m] = None
          /\ mailboxRow' = [mailboxRow EXCEPT ![m] = w]
          /\ Goto(w, "flushJob") /\ UNCHANGED <<cur, next, tasks>>
        BY <1>0, <1>1, <2>4 DEF FlushMailbox, RowTaken
    <3>2. /\ pc'[w] = "flushJob" /\ cur'[w] = cur[w]
          /\ \A q \in Procs \ {w} : pc'[q] = pc[q] /\ cur'[q] = cur[q]
        BY <1>0, <1>10, <3>1
    <3>3. Waiting' = Waiting
        BY <1>0, <1>5, <3>1, <3>2 DEF Unstarted
    <3>4. ASSUME NEW n \in Mailboxes PROVE Running(n)' = Running(n)
      <4>1. CASE n = m
          BY <1>0, <3>1, <3>2, <4>1 DEF Running
      <4>2. CASE n # m
        <5>1. mailboxRow'[n] = mailboxRow[n] /\ mailboxRow[n] # w
            BY <1>0, <1>2, <3>1, <4>2
        <5> QED BY <1>0, <3>2, <5>1 DEF Running
      <4> QED BY <4>1, <4>2
    <3> QED BY <3>3, <3>4
  <2>5. CASE ReleaseLock(w)
      BY <1>0, <1>4, <1>9, <1>10, <2>5 DEF ReleaseLock, Unstarted
  <2> QED BY <1>17, <2>1, <2>2, <2>3, <2>4, <2>5 DEF WorkerStep
\* The last flush before the provider is called starts the execution.
<1>18. ASSUME NEW p \in Procs, pc[p] \in Unstarted,
              LET m == mailboxOf[cur[p]] IN
              /\ mailboxRow[m] = None \/ pc[p] = "flushJob"
              /\ mailboxRow' = [mailboxRow EXCEPT ![m] = p],
              Goto(p, "syncing"), UNCHANGED <<cur, next, tasks>>
       PROVE  Promise!Next
  <2> DEFINE m == mailboxOf[cur[p]]
  <2>1. /\ m \in Mailboxes /\ cur[p] \in Jobs /\ cur[p] # NoJob
        /\ pc'[p] = "syncing" /\ cur'[p] = cur[p]
        /\ \A q \in Procs \ {p} : pc'[q] = pc[q] /\ cur'[q] = cur[q]
      BY <1>0, <1>1, <1>10, <1>18 DEF Unstarted
  <2>2. cur[p] \in Waiting /\ Waiting' = Waiting \ {cur[p]}
    <3>1. pc'[p] \notin Unstarted
        BY <2>1 DEF Unstarted
    <3> QED BY <1>6, <1>18, <2>1, <3>1
  <2>3. Running(m) = NoJob
      BY <1>0, <1>2, <1>18, <2>1 DEF Running, Holding
  <2>4. ASSUME NEW n \in Mailboxes, n = m PROVE Running(n)' = cur[p]
    <3>1. mailboxRow'[n] = p
        BY <1>0, <1>18, <2>1, <2>4
    <3> QED BY <1>0, <2>1, <3>1 DEF Running
  <2>5. ASSUME NEW n \in Mailboxes, n # m PROVE Running(n)' = Running(n)
    <3>1. mailboxRow'[n] = mailboxRow[n] /\ mailboxRow[n] # p
        BY <1>0, <1>2, <1>18, <2>1, <2>5
    <3> QED BY <1>0, <2>1, <3>1 DEF Running
  <2>6. R' = [R EXCEPT ![m] = cur[p]]
    <3>1. R' = [n \in Mailboxes |-> Running(n)']
        OBVIOUS
    <3> HIDE DEF m
    <3> QED BY <2>1, <2>4, <2>5, <3>1
  <2>7. R[m] = NoJob
      BY <2>1, <2>3
  <2> QED BY <2>1, <2>2, <2>6, <2>7 DEF Promise!Next, Promise!Start
<1>19. ASSUME NEW a \in Apis, DirectFlush(a) PROVE Promise!Next
    BY <1>0, <1>18, <1>19 DEF DirectFlush, RowTaken, Unstarted
<1>20. ASSUME NEW w \in Workers, FlushJob(w) PROVE Promise!Next
  <2>1. mailboxRow[mailboxOf[cur[w]]] = w /\ pc[w] = "flushJob"
      BY <1>0, <1>1, <1>2, <1>20 DEF FlushJob, Holding
  <2>2. mailboxRow' = [mailboxRow EXCEPT ![mailboxOf[cur[w]]] = w]
      BY <1>0, <1>20, <2>1 DEF FlushJob
  <2> QED BY <1>0, <1>18, <1>20, <2>1, <2>2 DEF FlushJob, Unstarted
<1>21. ASSUME NEW p \in Procs, NEW o \in Outcomes, Synchronise(p, o)
       PROVE  UNCHANGED <<Waiting, R>>
    BY <1>0, <1>4, <1>9, <1>10, <1>21 DEF Synchronise, Unstarted
\* A session ends: it finishes what it executes, or drops what it has not started.
<1>22. ASSUME NEW p \in Procs, pc[p] # "idle", FreeRows(p), EndSession(p),
              UNCHANGED <<next, tasks>>
       PROVE  Promise!Next \/ UNCHANGED <<Waiting, R>>
  <2>1. /\ pc'[p] = "idle" /\ pc'[p] \notin Unstarted
        /\ \A q \in Procs \ {p} : pc'[q] = pc[q] /\ cur'[q] = cur[q]
      BY <1>11, <1>22 DEF Unstarted
  <2>2. \A n \in Mailboxes : mailboxRow'[n] = IF mailboxRow[n] = p THEN None ELSE mailboxRow[n]
      BY <1>22 DEF FreeRows
  <2>3. ASSUME NEW n \in Mailboxes, mailboxRow[n] # p PROVE Running(n)' = Running(n)
      BY <1>0, <2>1, <2>2, <2>3 DEF Running
  <2>4. ASSUME NEW n \in Mailboxes, mailboxRow[n] = p PROVE Running(n)' = NoJob
      BY <1>0, <2>2, <2>4 DEF Running
  <2>5. CASE pc[p] \in {"syncing", "release", "commit"}
    <3> DEFINE m == mailboxOf[cur[p]]
    <3>1. m \in Mailboxes /\ cur[p] # NoJob /\ mailboxRow[m] = p
        BY <1>1, <1>2, <2>5 DEF Holding
    <3>2. Waiting' = Waiting
        BY <1>4, <1>22, <2>1, <2>5 DEF Unstarted
    <3>3. R[m] # NoJob
        BY <1>0, <2>5, <3>1 DEF Running
    <3>4. R' = [R EXCEPT ![m] = NoJob]
      <4>1. \A n \in Mailboxes : n # m => mailboxRow[n] # p
          BY <1>2
      <4>2. R' = [n \in Mailboxes |-> Running(n)']
          OBVIOUS
      <4> HIDE DEF m
      <4> QED BY <2>3, <2>4, <3>1, <4>1, <4>2
    <3> QED BY <3>1, <3>2, <3>3, <3>4 DEF Promise!Next, Promise!Finish
  <2>6. CASE pc[p] \notin {"syncing", "release", "commit"}
    <3>1. \A n \in Mailboxes : mailboxRow[n] = p => Running(n) = NoJob
        BY <1>0, <1>2, <2>6 DEF Running, Holding
    <3>2. UNCHANGED R
        BY <2>3, <2>4, <3>1
    <3>3. CASE pc[p] \in Unstarted
        BY <1>6, <1>12, <1>22, <2>1, <3>2, <3>3
    <3>4. CASE pc[p] \notin Unstarted
        BY <1>4, <1>22, <2>1, <3>2, <3>4
    <3> QED BY <3>3, <3>4
  <2> QED BY <2>5, <2>6
<1>23. ASSUME NEW p \in Procs, Commit(p) \/ Crash(p)
       PROVE  Promise!Next \/ UNCHANGED <<Waiting, R>>
    BY <1>22, <1>23 DEF Commit, Crash
<1>24. CASE Age \/ (\E m \in Mailboxes : ExpireLock(m) \/ SetConnected(m)) \/ UNCHANGED vars
  <2>1. UNCHANGED <<next, tasks, pc, cur, mailboxRow>>
      BY <1>24 DEF Age, ExpireLock, SetConnected, vars
  <2> QED BY <2>1 DEF Waiting, Running
<1> QED
    BY <1>13, <1>14, <1>15, <1>16, <1>17, <1>19, <1>20, <1>21, <1>23, <1>24
       DEF Next, Deliver, SyncStep

\* The pipeline implements MailboxSync: whatever is lost, repeated, retried or
\* expires, the executions of a mailbox are serial and no job runs twice.
THEOREM RefinesPromise == Spec => SerialOnce
BY PromiseInit, PromiseStep, Invariance, PTL DEF SerialOnce, Promise!Spec, Spec
=============================================================================
