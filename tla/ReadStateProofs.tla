-------------------------- MODULE ReadStateProofs ---------------------------
(***************************************************************************)
(* Proofs about ReadState, for any e-mails, requests, crashes and changes  *)
(* by other mail clients.                                                  *)
(***************************************************************************)
EXTENDS ReadState, TLAPS

\* The points the actions write are points, and the flags are no other value.
LEMMA Members ==
    /\ {"idle", "call", "record", "update", "respond", "ended",
        "fetch", "load", "flush", "commit"} \subseteq Points
    /\ \A f \in Flags : f # "absent" /\ f # "none"
    /\ Nothing \in [Emails -> {"none"}]
    /\ Marks \subseteq Sessions /\ Sync \in Sessions
    /\ \A p \in Marks : p # Sync
    /\ \A p \in Sessions : p # None
BY SessionAssumption DEF Points, Flags, Nothing, Sessions

LEMMA TypeInit == Init => TypeOK
BY Members, ToggleAssumption DEF Init, TypeOK, Flags

\* Type correctness; a session has the row of an e-mail only from its UPDATE to
\* its end.
LEMMA TypeStep == TypeOK /\ [Next]_vars => TypeOK'
<1> SUFFICES ASSUME TypeOK, [Next]_vars PROVE TypeOK'
    OBVIOUS
<1> USE Members
    DEF TypeOK, Goto, Reset, worldVars, rowVars, markVars, readVars
<1>1. ASSUME NEW p \in Marks, NEW e \in Emails, NEW f \in Flags, Open(p, e, f)
      PROVE  TypeOK'
    BY <1>1 DEF Open
<1>2. ASSUME NEW p \in Marks, MarkStep(p) PROVE TypeOK'
  <2>1. ASSUME NEW done \in BOOLEAN, NEW result \in {"success", "error", "unreadable"},
               Call(p, done, result)
        PROVE  TypeOK'
    <3>1. remote' \in [Emails -> Flags]
        BY <2>1 DEF Call
    <3>2. pc' \in [Sessions -> Points]
        BY <2>1 DEF Call
    <3> QED BY <2>1, <3>1, <3>2 DEF Call
  <2>2. CASE RecordFailure(p)
      BY <2>2 DEF RecordFailure, FailureRecord
  <2>3. CASE UpdateRow(p)
      BY <2>3 DEF UpdateRow
  <2>4. CASE Respond(p)
      BY <2>4 DEF Respond
  <2>5. CASE CommitMark(p)
    <3>1. isRead' \in [Emails -> Flags \cup {"absent"}]
        BY <2>5 DEF CommitMark, Written
    <3>2. rowLock' \in [Emails -> Sessions \cup {None}]
        BY <2>5 DEF CommitMark, FreeRows
    <3> QED BY <2>5, <3>1, <3>2 DEF CommitMark, FreeRows
  <2> QED BY <1>2, <2>1, <2>2, <2>3, <2>4, <2>5 DEF MarkStep
<1>3. CASE Begin
    BY <1>3 DEF Begin
<1>4. CASE SyncStep
  <2>1. ASSUME NEW e \in Emails, Fetch(e) \/ Load(e) PROVE TypeOK'
    <3>1. CASE Fetch(e)
        BY <3>1 DEF Fetch
    <3>2. CASE Load(e)
        BY <3>2 DEF Load
    <3> QED BY <2>1, <3>1, <3>2
  <2>2. ASSUME NEW e \in Emails, Flush(e) PROVE TypeOK'
      BY <2>2 DEF Flush
  <2>3. CASE Fetched
      BY <2>3 DEF Fetched
  <2>4. CASE Loaded
      BY <2>4 DEF Loaded
  <2>5. CASE Flushed
      BY <2>5 DEF Flushed
  <2>6. CASE CommitSync
    <3>1. isRead' \in [Emails -> Flags \cup {"absent"}]
        BY <2>6 DEF CommitSync, Upserted, Written
    <3>2. rowLock' \in [Emails -> Sessions \cup {None}]
        BY <2>6 DEF CommitSync, FreeRows
    <3> QED BY <2>6, <3>1, <3>2 DEF CommitSync, FreeRows
  <2> QED BY <1>4, <2>1, <2>2, <2>3, <2>4, <2>5, <2>6 DEF SyncStep
<1>5. ASSUME NEW p \in Sessions, Crash(p) PROVE TypeOK'
  <2>1. /\ rowLock' \in [Emails -> Sessions \cup {None}]
        /\ pc' \in [Sessions -> Points]
        /\ fetched' \in [Emails -> Flags \cup {"none"}]
        /\ window' \subseteq Emails
      BY <1>5 DEF Crash, FreeRows
  <2> QED BY <1>5, <2>1 DEF Crash, FreeRows
<1>6. ASSUME NEW e \in Emails, NEW f \in Flags, Toggle(e, f) PROVE TypeOK'
    BY <1>6, ToggleAssumption DEF Toggle
<1>7. CASE Midnight
    BY <1>7 DEF Midnight
<1>8. CASE UNCHANGED vars
    BY <1>8 DEF vars
<1> QED BY <1>1, <1>2, <1>3, <1>4, <1>5, <1>6, <1>7, <1>8 DEF Next

\* What each point of a request implies of its answer and of its audit row: the
\* row is written by the last step only, and the client is told before.
Audited ==
    \A p \in Marks :
        /\ pc[p] \in {"idle", "call", "record", "update", "respond", "commit"} =>
             audit[p] = "none"
        /\ pc[p] \in {"idle", "call", "record", "update", "respond"} => answer[p] = "none"
        /\ pc[p] \in {"update", "respond", "commit"} => accepted[p]
        /\ pc[p] = "commit" => answer[p] = "ok"

AuditInv == TypeOK /\ Audited /\ EffectAudited

LEMMA AuditInit == Init => Audited /\ EffectAudited
BY Members DEF Init, Audited, EffectAudited

LEMMA AuditStep == AuditInv /\ [Next]_vars => Audited' /\ EffectAudited'
<1> SUFFICES ASSUME AuditInv, [Next]_vars PROVE Audited' /\ EffectAudited'
    OBVIOUS
<1> USE Members
    DEF AuditInv, TypeOK, Audited, EffectAudited, Goto, worldVars, rowVars, markVars, readVars
<1>1. ASSUME NEW p \in Marks, NEW e \in Emails, NEW f \in Flags, Open(p, e, f)
      PROVE  Audited' /\ EffectAudited'
    BY <1>1 DEF Open
<1>2. ASSUME NEW p \in Marks, MarkStep(p) PROVE Audited' /\ EffectAudited'
  <2>1. ASSUME NEW done \in BOOLEAN, NEW result \in {"success", "error", "unreadable"},
               Call(p, done, result)
        PROVE  Audited' /\ EffectAudited'
      BY <2>1 DEF Call, Answers
  <2>2. CASE RecordFailure(p)
      BY <2>2 DEF RecordFailure, FailureRecord
  <2>3. CASE UpdateRow(p)
      BY <2>3 DEF UpdateRow
  <2>4. CASE Respond(p)
      BY <2>4 DEF Respond
  <2>5. CASE CommitMark(p)
      BY <2>5 DEF CommitMark
  <2> QED BY <1>2, <2>1, <2>2, <2>3, <2>4, <2>5 DEF MarkStep
<1>3. CASE Begin \/ SyncStep
  <2>1. UNCHANGED markVars /\ \A p \in Marks : pc'[p] = pc[p]
      BY <1>3 DEF Begin, SyncStep, Fetch, Load, Flush, Fetched, Loaded, Flushed, CommitSync
  <2> QED BY <2>1
<1>4. ASSUME NEW p \in Sessions, Crash(p) PROVE Audited' /\ EffectAudited'
    BY <1>4 DEF Crash
<1>5. ASSUME NEW e \in Emails, NEW f \in Flags, Toggle(e, f) PROVE Audited' /\ EffectAudited'
    BY <1>5 DEF Toggle
<1>6. CASE Midnight \/ UNCHANGED vars
    BY <1>6 DEF Midnight, vars
<1> QED BY <1>1, <1>2, <1>3, <1>4, <1>5, <1>6 DEF Next

LEMMA Invariance == Spec => []AuditInv
<1>1. Init => AuditInv
    BY TypeInit, AuditInit DEF AuditInv
<1>2. AuditInv /\ [Next]_vars => AuditInv'
    BY TypeStep, AuditStep DEF AuditInv
<1> QED BY <1>1, <1>2, PTL DEF Spec

\* Type correctness of ReadState, with the sessions that may hold a row.
THEOREM TypeCorrect == Spec => []TypeOK
<1>1. AuditInv => TypeOK
    BY DEF AuditInv
<1> QED BY <1>1, Invariance, PTL

\* user_actions tells what the provider did: mark_email_read records a failure
\* before it raises, and the executed action is committed with the row.
THEOREM EffectsAudited == Spec => []EffectAudited
<1>1. AuditInv => EffectAudited
    BY DEF AuditInv
<1> QED BY <1>1, Invariance, PTL
=============================================================================
