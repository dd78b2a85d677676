-------------------------- MODULE SchedulerProofs ---------------------------
(***************************************************************************)
(* Proofs about Scheduler, for any number of mailboxes, days and passes.   *)
(***************************************************************************)
EXTENDS Scheduler, WellFoundedInduction, TLAPS

\* The mailboxes a pass has still to visit, and what it keeps of itself.
Visits == [mailbox : Mailboxes, day : Days, known : BOOLEAN]
Pass == [at : Points, left : SUBSET Visits, committed : BOOLEAN, open : BOOLEAN]

Types ==
    /\ kind \in {"sync", "digest"} /\ active \in [Mailboxes -> BOOLEAN]
    /\ events \in 0..MaxEvents
    /\ day \in [Mailboxes -> Days] /\ due \in [Mailboxes -> BOOLEAN]
    /\ job \in [Keys -> {"none", "pending", "queued", "ended"}]
    /\ manual \in [Mailboxes -> BOOLEAN] /\ digest \subseteq Keys
    /\ pass \in [Passes -> Pass]

\* The day has begun where the user is, and its hour has come.
Begun(m, d) == d < day[m] \/ (d = day[m] /\ (kind = "digest" => due[m]))

\* What holds of a pass: the days it carries have begun, and the jobs it knew of
\* are there; the job it is about to make was not; the one it sends is its own.
PassInv(p) ==
    /\ pass[p].at # "idle" => pass[p].left # {}
    /\ \A v \in pass[p].left :
         /\ Begun(v.mailbox, v.day)
         /\ v.known => job[<<v.mailbox, v.day>>] # "none"
    /\ pass[p].at \in {"create", "insert"} => ~Visit(p).known
    /\ pass[p].at = "dispatch" => job[Key(p)] = "pending"
Exclusive ==
    \A p, q \in Passes :
        p # q /\ pass[p].at = "dispatch" /\ pass[q].at = "dispatch" => Key(p) # Key(q)

SchedulerInv == Types /\ (\A p \in Passes : PassInv(p)) /\ Exclusive /\ NeverEarly

LEMMA LeastNumber == ASSUME NEW S \in SUBSET Nat, S # {} PROVE \E x \in S : \A y \in S : x <= y
<1>1. PICK x \in S : \A y \in S : <<y, x>> \notin OpToRel(<, Nat)
    BY NatLessThanWellFounded, WFMin
<1>2. \A y \in S : ~(y < x)
    BY <1>1 DEF OpToRel
<1> QED BY <1>2

LEMMA FirstIs == ASSUME NEW left \in SUBSET Visits, left # {} PROVE First(left) \in left
<1> DEFINE numbers == {v.mailbox : v \in left}
<1>1. numbers \in SUBSET Nat /\ numbers # {}
    BY DEF Visits, Mailboxes
<1>2. PICK x \in numbers : \A y \in numbers : x <= y
    BY <1>1, LeastNumber
<1>3. \E v \in left : \A w \in left : v.mailbox <= w.mailbox
    BY <1>2
<1> QED BY <1>3 DEF First

\* The records that EXCEPT makes, written out.
LEMMA AtLeft ==
    ASSUME NEW x \in Pass, NEW point, NEW left
    PROVE  [x EXCEPT !.at = point, !.left = left]
             = [at |-> point, left |-> left, committed |-> x.committed, open |-> x.open]
<1> DEFINE y == [at |-> point, left |-> x.left, committed |-> x.committed, open |-> x.open]
           z == [at |-> point, left |-> left, committed |-> x.committed, open |-> x.open]
<1>1. [x EXCEPT !.at = point] = y /\ [y EXCEPT !.left = left] = z
    BY DEF Pass
<1> HIDE DEF y, z
<1>2. [x EXCEPT !.at = point, !.left = left] = z
    BY <1>1, Zenon
<1> QED BY <1>2 DEF z

LEMMA AtLeftOpen ==
    ASSUME NEW x \in Pass, NEW point, NEW left, NEW open
    PROVE  [x EXCEPT !.at = point, !.left = left, !.open = open]
             = [at |-> point, left |-> left, committed |-> x.committed, open |-> open]
<1> DEFINE y == [at |-> point, left |-> left, committed |-> x.committed, open |-> x.open]
           z == [at |-> point, left |-> left, committed |-> x.committed, open |-> open]
<1>1. [x EXCEPT !.at = point, !.left = left] = y
    BY AtLeft, Zenon
<1>2. [y EXCEPT !.open = open] = z
    OBVIOUS
<1> HIDE DEF y, z
<1>3. [x EXCEPT !.at = point, !.left = left, !.open = open] = z
    BY <1>1, <1>2, Zenon
<1> QED BY <1>3 DEF z

LEMMA AtOpen ==
    ASSUME NEW x \in Pass, NEW point, NEW open
    PROVE  [x EXCEPT !.at = point, !.open = open]
             = [at |-> point, left |-> x.left, committed |-> x.committed, open |-> open]
<1> DEFINE y == [at |-> point, left |-> x.left, committed |-> x.committed, open |-> x.open]
           z == [at |-> point, left |-> x.left, committed |-> x.committed, open |-> open]
<1>1. [x EXCEPT !.at = point] = y /\ [y EXCEPT !.open = open] = z
    BY DEF Pass
<1> HIDE DEF y, z
<1>2. [x EXCEPT !.at = point, !.open = open] = z
    BY <1>1, Zenon
<1> QED BY <1>2 DEF z

LEMMA AtCommitted ==
    ASSUME NEW x \in Pass, NEW point, NEW committed
    PROVE  [x EXCEPT !.at = point, !.committed = committed]
             = [at |-> point, left |-> x.left, committed |-> committed, open |-> x.open]
<1> DEFINE y == [at |-> point, left |-> x.left, committed |-> x.committed, open |-> x.open]
           z == [at |-> point, left |-> x.left, committed |-> committed, open |-> x.open]
<1>1. [x EXCEPT !.at = point] = y /\ [y EXCEPT !.committed = committed] = z
    BY DEF Pass
<1> HIDE DEF y, z
<1>2. [x EXCEPT !.at = point, !.committed = committed] = z
    BY <1>1, Zenon
<1> QED BY <1>2 DEF z

LEMMA KeyIs ==
    ASSUME Types, NEW p \in Passes, pass[p].left # {}
    PROVE  /\ Visit(p) \in pass[p].left /\ Visit(p) \in Visits
           /\ Key(p) = <<Visit(p).mailbox, Visit(p).day>> /\ Key(p) \in Keys
<1>1. pass[p].left \in SUBSET Visits
    BY DEF Types, Pass
<1>2. Visit(p) \in pass[p].left
    BY <1>1, FirstIs DEF Visit
<1> QED BY <1>1, <1>2 DEF Key, Visited, Keys, Visits

\* What the others know stays true: days do not end, and jobs do not vanish.
LEMMA OthersStay ==
    ASSUME NEW p \in Passes, PassInv(p), Types, pass'[p] = pass[p],
           \A m \in Mailboxes, d \in Days : Begun(m, d) => Begun(m, d)',
           \A k \in Keys : job[k] # "none" => job'[k] # "none",
           pass[p].at = "dispatch" => job'[Key(p)] = "pending"
    PROVE  PassInv(p)'
<1>1. Visit(p)' = Visit(p) /\ Key(p)' = Key(p)
    BY DEF Visit, Key, Visited
<1>2. \A v \in pass[p].left :
          v.mailbox \in Mailboxes /\ v.day \in Days /\ <<v.mailbox, v.day>> \in Keys
    BY DEF Types, Pass, Visits, Keys
<1>3. ASSUME NEW v \in pass[p].left
      PROVE  Begun(v.mailbox, v.day)' /\ (v.known => job'[<<v.mailbox, v.day>>] # "none")
    BY <1>2 DEF PassInv
<1>4. ASSUME NEW v \in pass'[p].left
      PROVE  Begun(v.mailbox, v.day)' /\ (v.known => job'[<<v.mailbox, v.day>>] # "none")
    BY <1>3
<1> QED BY <1>1, <1>4 DEF PassInv

\* One pass goes on; the days and the mailboxes do not change.
LEMMA OnePass ==
    ASSUME SchedulerInv, NEW p \in Passes, NEW x \in Pass,
           UNCHANGED <<kind, day, due>>, pass' = [pass EXCEPT ![p] = x], Types',
           \A k \in Keys : job[k] # "none" => job'[k] # "none",
           \A k \in Keys : job[k] = "none" /\ job'[k] # "none" => Begun(k[1], k[2]),
           \A q \in Passes \ {p} : pass[q].at = "dispatch" => job'[Key(q)] = "pending",
           PassInv(p)',
           x.at = "dispatch" =>
               \A q \in Passes \ {p} : pass[q].at = "dispatch" => Key(q) # Key(p)'
    PROVE  SchedulerInv'
<1>1. pass'[p] = x /\ \A q \in Passes \ {p} : pass'[q] = pass[q]
    BY DEF SchedulerInv, Types
<1>2. \A m \in Mailboxes, d \in Days : Begun(m, d)' <=> Begun(m, d)
    BY DEF Begun
<1>3. ASSUME NEW q \in Passes PROVE PassInv(q)'
  <2>1. CASE q = p
      BY <2>1
  <2>2. CASE q # p
      BY <1>1, <1>2, <2>2, OthersStay DEF SchedulerInv
  <2> QED BY <2>1, <2>2
<1>4. Exclusive'
  <2> SUFFICES ASSUME NEW a \in Passes, NEW b \in Passes, a # b,
                      pass'[a].at = "dispatch", pass'[b].at = "dispatch"
               PROVE  Key(a)' # Key(b)'
      BY DEF Exclusive
  <2>1. \A q \in Passes \ {p} : Key(q)' = Key(q)
      BY <1>1 DEF Key, Visited, Visit
  <2>2. CASE a = p
      BY <1>1, <2>1, <2>2
  <2>3. CASE b = p
      BY <1>1, <2>1, <2>3
  <2>4. CASE a # p /\ b # p
      BY <1>1, <2>1, <2>4 DEF SchedulerInv, Exclusive
  <2> QED BY <2>2, <2>3, <2>4
<1>5. NeverEarly'
  <2> SUFFICES ASSUME NEW k \in Keys, job'[k] # "none"
               PROVE  Begun(k[1], k[2])
      BY DEF NeverEarly, Begun
  <2>1. CASE job[k] = "none"
      BY <2>1
  <2>2. CASE job[k] # "none"
      BY <2>2 DEF SchedulerInv, NeverEarly, Begun
  <2> QED BY <2>1, <2>2
<1> QED BY <1>3, <1>4, <1>5 DEF SchedulerInv

\* The world goes on: no job with a key is made.
LEMMA World ==
    ASSUME SchedulerInv, UNCHANGED <<kind, pass>>, Types',
           \A m \in Mailboxes, d \in Days : Begun(m, d) => Begun(m, d)',
           \A k \in Keys : job[k] # "none" <=> job'[k] # "none",
           \A k \in Keys : job[k] = "pending" => job'[k] = "pending"
    PROVE  SchedulerInv'
<1>1. ASSUME NEW q \in Passes PROVE PassInv(q)'
  <2>1. Types /\ PassInv(q) /\ pass'[q] = pass[q]
      BY DEF SchedulerInv
  <2>2. pass[q].at = "dispatch" => Key(q) \in Keys
      BY <2>1, KeyIs DEF PassInv
  <2>3. pass[q].at = "dispatch" => job'[Key(q)] = "pending"
      BY <2>1, <2>2 DEF PassInv
  <2> QED BY <2>1, <2>3, OthersStay
<1>2. Exclusive'
    BY DEF SchedulerInv, Exclusive, Key, Visited, Visit
<1>3. NeverEarly'
  <2>1. ASSUME NEW k \in Keys, job'[k] # "none" PROVE Begun(k[1], k[2])'
    <3>1. k[1] \in Mailboxes /\ k[2] \in Days
        BY DEF Keys
    <3>2. Begun(k[1], k[2])
        BY <2>1 DEF SchedulerInv, NeverEarly, Begun
    <3> QED BY <3>1, <3>2
  <2> QED BY <2>1 DEF NeverEarly, Begun
<1> QED BY <1>1, <1>2, <1>3 DEF SchedulerInv

LEMMA InvInit == Init => SchedulerInv
<1> SUFFICES ASSUME Init PROVE SchedulerInv
    OBVIOUS
<1>1. Idle \in Pass /\ Idle.at = "idle" /\ Idle.left = {}
    BY DEF Idle, Pass, Points
<1>2. \A p \in Passes : pass[p] = Idle
    BY DEF Init
<1>3. 1 \in Days
    BY SchedulerAssumption DEF Days
<1>4. Types
    BY <1>1, <1>3, SchedulerAssumption DEF Init, Types
<1>5. \A p \in Passes : PassInv(p)
    BY <1>1, <1>2 DEF PassInv
<1>6. Exclusive
    BY <1>1, <1>2 DEF Exclusive
<1>7. NeverEarly
    BY DEF Init, NeverEarly
<1> QED BY <1>4, <1>5, <1>6, <1>7 DEF SchedulerInv

LEMMA InvStep == SchedulerInv /\ [Next]_vars => SchedulerInv'
<1> SUFFICES ASSUME SchedulerInv, [Next]_vars PROVE SchedulerInv'
    OBVIOUS
<1>0. /\ Types /\ Exclusive /\ pass \in [Passes -> Pass]
      /\ job \in [Keys -> {"none", "pending", "queued", "ended"}]
      /\ \A p \in Passes : PassInv(p) /\ pass[p] \in Pass
    BY DEF SchedulerInv, Types
\* A pass ends, or turns to the next mailbox.
<1>1. ASSUME NEW p \in Passes, Abort(p) \/ (Continue(p) /\ pass[p].left # {}),
             UNCHANGED <<kind, active, day, due>>, events' \in 0..MaxEvents,
             job' \in [Keys -> {"none", "pending", "queued", "ended"}],
             UNCHANGED <<manual, digest>>,
             \A k \in Keys : job[k] # "none" <=> job'[k] # "none",
             \A q \in Passes \ {p} : pass[q].at = "dispatch" => job'[Key(q)] = "pending"
      PROVE  SchedulerInv'
  <2>1. CASE Abort(p)
    <3>1. Idle \in Pass /\ Idle.at = "idle" /\ Idle.left = {}
        BY DEF Idle, Pass, Points
    <3>2. pass' = [pass EXCEPT ![p] = Idle] /\ pass'[p] = Idle
        BY <1>0, <2>1 DEF Abort
    <3>3. PassInv(p)'
        BY <3>1, <3>2 DEF PassInv
    <3>4. Types'
        BY <1>0, <1>1, <3>1, <3>2 DEF Types
    <3> QED BY <1>1, <3>1, <3>2, <3>3, <3>4, OnePass
  <2>2. CASE Continue(p) /\ ~Abort(p) /\ pass[p].left # {}
    <3> DEFINE left == pass[p].left \ {Visit(p)}
               x == [at |-> "next", left |-> left, committed |-> pass[p].committed, open |-> TRUE]
    <3>1. left # {} /\ pass' = [pass EXCEPT ![p].at = "next", ![p].left = left, ![p].open = TRUE]
        BY <2>2 DEF Continue, Rest
    <3>2. [pass[p] EXCEPT !.at = "next", !.left = left, !.open = TRUE] = x
      <4>1. pass[p] \in Pass
          BY <1>0
      <4> HIDE DEF left
      <4> QED BY <4>1, AtLeftOpen, Zenon
    <3>3. pass' = [pass EXCEPT ![p] = [pass[p] EXCEPT !.at = "next", !.left = left, !.open = TRUE]]
        BY <3>1, Zenon
    <3>4. pass' = [pass EXCEPT ![p] = x] /\ pass'[p] = x
        BY <1>0, <3>2, <3>3
    <3>5. x \in Pass
      <4>1. pass[p] \in Pass
          BY <1>0
      <4> QED BY <4>1 DEF Pass, Points
    <3>6. x.at = "next" /\ x.left = left /\ left \subseteq pass[p].left
        BY DEF left
    <3> HIDE DEF x, left
    <3>7. ASSUME NEW v \in left
          PROVE  Begun(v.mailbox, v.day)' /\ (v.known => job'[<<v.mailbox, v.day>>] # "none")
      <4>1. <<v.mailbox, v.day>> \in Keys /\ v \in pass[p].left
          BY <1>0, <3>6 DEF Pass, Visits, Keys
      <4> QED BY <1>0, <1>1, <4>1 DEF PassInv, Begun
    <3>8. PassInv(p)'
        BY <3>1, <3>4, <3>6, <3>7 DEF PassInv
    <3>9. Types'
        BY <1>0, <1>1, <3>4, <3>5 DEF Types
    <3> QED BY <1>1, <3>4, <3>5, <3>6, <3>8, <3>9, OnePass
  <2> QED BY <1>1, <2>1, <2>2
\* A pass goes on with the same mailbox.
<1>2. ASSUME NEW p \in Passes, NEW x \in Pass, pass' = [pass EXCEPT ![p] = x],
             x.left = pass[p].left, x.left # {}, x.at \in {"create", "insert"},
             ~Visit(p).known, UNCHANGED <<clockVars, jobVars>>
      PROVE  SchedulerInv'
  <2>1. pass'[p] = x /\ Visit(p)' = Visit(p)
      BY <1>0, <1>2 DEF Visit
  <2>2. PassInv(p)'
      BY <1>0, <1>2, <2>1 DEF PassInv, Begun, clockVars, jobVars
  <2>3. Types'
      BY <1>0, <1>2 DEF Types, clockVars, jobVars
  <2>4. \A q \in Passes : pass[q].at = "dispatch" => job'[Key(q)] = "pending"
      BY <1>0, <1>2 DEF PassInv, jobVars
  <2> QED BY <1>2, <2>2, <2>3, <2>4, OnePass DEF jobVars, clockVars
\* Nothing of the jobs changes: what the others send is still pending.
<1>3. ASSUME UNCHANGED jobVars
      PROVE  /\ job' \in [Keys -> {"none", "pending", "queued", "ended"}]
             /\ UNCHANGED <<manual, digest>>
             /\ \A k \in Keys : job[k] # "none" <=> job'[k] # "none"
             /\ \A q \in Passes : pass[q].at = "dispatch" => job'[Key(q)] = "pending"
    BY <1>0, <1>3 DEF jobVars, PassInv
<1>clock. ASSUME UNCHANGED clockVars
      PROVE  UNCHANGED <<kind, active, day, due>> /\ events' \in 0..MaxEvents
    BY <1>0, <1>clock DEF clockVars, Types
<1>key. \A p \in Passes : pass[p].at # "idle" =>
          /\ pass[p].left # {} /\ Visit(p) \in pass[p].left /\ Visit(p) \in Visits
          /\ Key(p) = <<Visit(p).mailbox, Visit(p).day>> /\ Key(p) \in Keys
          /\ Begun(Visit(p).mailbox, Visit(p).day)
          /\ Visit(p).known => job[Key(p)] # "none"
    BY <1>0, KeyIs DEF PassInv
<1>4. ASSUME NEW p \in Passes, Start(p) PROVE SchedulerInv'
  <2> DEFINE left == {[mailbox |-> m, day |-> LocalDay(m),
                       known |-> job[<<m, LocalDay(m)>>] # "none"] :
                          m \in {n \in Mailboxes : Visitable(n)}}
             x == [at |-> "next", left |-> left, committed |-> pass[p].committed,
                   open |-> pass[p].open]
  <2>1. left # {} /\ pass' = [pass EXCEPT ![p].at = "next", ![p].left = left]
      BY <1>4 DEF Start
  <2>2. \A v \in left : v \in Visits /\ Begun(v.mailbox, v.day)
                        /\ (v.known => job[<<v.mailbox, v.day>>] # "none")
    <3> SUFFICES ASSUME NEW m \in Mailboxes, Visitable(m),
                        NEW v, v = [mailbox |-> m, day |-> day[m], known |-> job[<<m, day[m]>>] # "none"]
                 PROVE  v \in Visits /\ Begun(v.mailbox, v.day)
                        /\ (v.known => job[<<v.mailbox, v.day>>] # "none")
        BY DEF LocalDay
    <3>1. v.mailbox = m /\ v.day = day[m] /\ (v.known <=> job[<<m, day[m]>>] # "none")
        OBVIOUS
    <3>2. v \in Visits
      <4>1. day[m] \in Days /\ (job[<<m, day[m]>>] # "none") \in BOOLEAN
          BY <1>0 DEF Types
      <4> QED BY <4>1 DEF Visits
    <3>3. Begun(m, day[m])
        BY DEF Visitable, Begun
    <3> QED BY <3>1, <3>2, <3>3
  <2> HIDE DEF left
  <2>3. [pass[p] EXCEPT !.at = "next", !.left = left] = x
    <3>1. pass[p] \in Pass
        BY <1>0
    <3> QED BY <3>1, AtLeft, Zenon
  <2>4. pass' = [pass EXCEPT ![p] = [pass[p] EXCEPT !.at = "next", !.left = left]]
      BY <2>1, Zenon
  <2>5. pass' = [pass EXCEPT ![p] = x] /\ pass'[p] = x
      BY <1>0, <2>3, <2>4
  <2>6. x \in Pass
    <3>1. pass[p] \in Pass /\ left \in SUBSET Visits
        BY <1>0, <2>2
    <3> QED BY <3>1 DEF Pass, Points
  <2>7. x.at = "next" /\ x.left = left
      OBVIOUS
  <2> HIDE DEF x
  <2>8. PassInv(p)'
      BY <1>4, <2>1, <2>2, <2>5, <2>7 DEF Start, PassInv, Begun, clockVars, jobVars
  <2>9. Types'
      BY <1>0, <1>4, <2>5, <2>6 DEF Start, Types, clockVars, jobVars
  <2> QED BY <1>3, <1>4, <2>5, <2>6, <2>7, <2>8, <2>9, OnePass DEF Start, clockVars
<1>5. ASSUME NEW p \in Passes, Skip(p) \/ Reuse(p) PROVE SchedulerInv'
  <2>1. Continue(p) /\ pass[p].at # "idle" /\ UNCHANGED <<clockVars, jobVars>>
      BY <1>5 DEF Skip, Reuse
  <2> QED BY <1>1, <1>3, <1>clock, <1>key, <2>1
<1>6. ASSUME NEW p \in Passes, Refuse(p) \/ InsertConflict(p) PROVE SchedulerInv'
    BY <1>1, <1>3, <1>6, <1>clock DEF Refuse, InsertConflict
<1>7. ASSUME NEW p \in Passes, Crash(p) PROVE SchedulerInv'
  <2>1. events' \in 0..MaxEvents
      BY <1>0, <1>7, SchedulerAssumption DEF Crash, Types
  <2> QED BY <1>1, <1>3, <1>7, <2>1 DEF Crash
<1>8. ASSUME NEW p \in Passes, Decide(p) PROVE SchedulerInv'
  <2> DEFINE point == IF kind = "sync" THEN "create" ELSE "insert"
             open == pass[p].committed => active[Visited(p)]
             x == [at |-> point, left |-> pass[p].left, committed |-> pass[p].committed,
                   open |-> open]
  <2>1. /\ pass[p].at = "next" /\ ~KeyExists(Key(p)) /\ UNCHANGED <<clockVars, jobVars>>
        /\ pass' = [pass EXCEPT ![p].at = point, ![p].open = open]
      BY <1>8 DEF Decide
  <2>2. pass[p] \in Pass /\ point \in {"create", "insert"} /\ open \in BOOLEAN
      BY <1>0
  <2> HIDE DEF point, open
  <2>3. [pass[p] EXCEPT !.at = point, !.open = open] = x
      BY <2>2, AtOpen, Zenon
  <2>4. pass' = [pass EXCEPT ![p] = [pass[p] EXCEPT !.at = point, !.open = open]]
      BY <2>1, Zenon
  <2>5. pass' = [pass EXCEPT ![p] = x]
      BY <2>3, <2>4, Zenon
  <2>6. x \in Pass
      BY <2>2 DEF Pass, Points
  <2>7. pass[p].left # {} /\ ~Visit(p).known
      BY <1>key, <2>1 DEF KeyExists
  <2> QED BY <1>2, <2>1, <2>2, <2>5, <2>6, <2>7
<1>9. ASSUME NEW p \in Passes, Create(p) PROVE SchedulerInv'
  <2> DEFINE x == [at |-> "insert", left |-> pass[p].left, committed |-> pass[p].committed,
                   open |-> pass[p].open]
  <2>1. /\ pass[p].at = "create" /\ UNCHANGED <<clockVars, jobVars>>
        /\ pass' = [pass EXCEPT ![p] = [@ EXCEPT !.at = "insert"]]
      BY <1>9 DEF Create, Goto
  <2>2. [pass[p] EXCEPT !.at = "insert"] = x /\ x \in Pass
    <3>1. pass[p] \in Pass
        BY <1>0
    <3> QED BY <3>1 DEF Pass, Points
  <2>3. pass' = [pass EXCEPT ![p] = x]
      BY <1>0, <2>1, <2>2
  <2>4. pass[p].left # {} /\ ~Visit(p).known
      BY <1>0, <2>1 DEF PassInv
  <2> QED BY <1>2, <2>1, <2>2, <2>3, <2>4
<1>10. ASSUME NEW p \in Passes, Insert(p) PROVE SchedulerInv'
  <2> DEFINE x == [at |-> "dispatch", left |-> pass[p].left, committed |-> TRUE,
                   open |-> pass[p].open]
             k == Key(p)
  <2>1. /\ pass[p].at = "insert" /\ ~Active(job[k]) /\ UNCHANGED <<clockVars, manual, digest>>
        /\ pass' = [pass EXCEPT ![p].at = "dispatch", ![p].committed = TRUE]
        /\ job' = [job EXCEPT ![k] = "pending"]
      BY <1>10 DEF Insert
  <2>2. pass[p] \in Pass
      BY <1>0
  <2>3. [pass[p] EXCEPT !.at = "dispatch", !.committed = TRUE] = x
      BY <2>2, AtCommitted, Zenon
  <2>4. pass' = [pass EXCEPT ![p] = [pass[p] EXCEPT !.at = "dispatch", !.committed = TRUE]]
      BY <2>1, Zenon
  <2>5. pass' = [pass EXCEPT ![p] = x] /\ pass'[p] = x
      BY <1>0, <2>3, <2>4
  <2>6. x \in Pass /\ x.left = pass[p].left /\ x.at = "dispatch"
      BY <2>2 DEF Pass, Points
  <2>7. /\ pass[p].left # {} /\ k \in Keys /\ k = <<Visit(p).mailbox, Visit(p).day>>
        /\ Begun(Visit(p).mailbox, Visit(p).day)
      BY <1>key, <2>1
  <2>8. Key(p)' = k
      BY <2>5, <2>6 DEF Key, Visited, Visit
  <2> HIDE DEF x, k
  <2>9. /\ job' \in [Keys -> {"none", "pending", "queued", "ended"}]
        /\ job'[k] = "pending" /\ \A j \in Keys \ {k} : job'[j] = job[j]
      BY <1>0, <2>1, <2>7
  <2>10. \A q \in Passes : pass[q].at = "dispatch" =>
            Key(q) \in Keys /\ Key(q) # k /\ job'[Key(q)] = "pending"
      BY <1>0, <1>key, <2>1, <2>9 DEF PassInv, Active
  <2>11. PassInv(p)'
    <3>1. ASSUME NEW v \in pass[p].left
          PROVE  Begun(v.mailbox, v.day)' /\ (v.known => job'[<<v.mailbox, v.day>>] # "none")
      <4>1. <<v.mailbox, v.day>> \in Keys
          BY <2>2 DEF Pass, Visits, Keys
      <4> QED BY <1>0, <2>1, <2>9, <4>1 DEF PassInv, Begun, clockVars
    <3> QED BY <2>5, <2>6, <2>7, <2>8, <2>9, <3>1 DEF PassInv
  <2>12. Types'
      BY <1>0, <2>1, <2>5, <2>6, <2>9 DEF Types, clockVars
  <2>13. \A j \in Keys : job[j] = "none" /\ job'[j] # "none" => Begun(j[1], j[2])
      BY <2>7, <2>9
  <2> QED BY <2>1, <2>5, <2>6, <2>8, <2>9, <2>10, <2>11, <2>12, <2>13, OnePass DEF clockVars
<1>11. ASSUME NEW p \in Passes, NEW sent \in BOOLEAN, Dispatch(p, sent) PROVE SchedulerInv'
  <2> DEFINE k == Key(p)
             final == IF sent THEN "queued" ELSE "ended"
  <2>1. /\ pass[p].at = "dispatch" /\ Continue(p) /\ UNCHANGED <<clockVars, manual, digest>>
        /\ job' = [job EXCEPT ![k] = final]
      BY <1>11 DEF Dispatch
  <2>2. pass[p].left # {} /\ k \in Keys /\ job[k] = "pending"
      BY <1>0, <1>key, <2>1 DEF PassInv
  <2>3. \A q \in Passes \ {p} : pass[q].at = "dispatch" =>
            Key(q) \in Keys /\ Key(q) # k /\ job[Key(q)] = "pending"
      BY <1>0, <1>key, <2>1 DEF Exclusive, PassInv
  <2>4. final \in {"queued", "ended"}
      OBVIOUS
  <2> HIDE DEF k, final
  <2>5. /\ job' \in [Keys -> {"none", "pending", "queued", "ended"}]
        /\ job'[k] = final /\ \A j \in Keys \ {k} : job'[j] = job[j]
      BY <1>0, <2>1, <2>2, <2>4
  <2>6. \A j \in Keys : job[j] # "none" <=> job'[j] # "none"
      BY <2>2, <2>4, <2>5
  <2> QED BY <1>1, <1>clock, <2>1, <2>2, <2>3, <2>5, <2>6
\* The rest of the world.
<1>12. ASSUME NEW k \in Keys, NEW succeeded \in BOOLEAN, JobEnds(k, succeeded)
       PROVE  SchedulerInv'
  <2>1. /\ job[k] = "queued" /\ job' = [job EXCEPT ![k] = "ended"]
        /\ UNCHANGED <<kind, active, events, day, due, manual, pass>>
        /\ digest' = digest \/ digest' = digest \cup {<<k[1], day[k[1]]>>}
      BY <1>12 DEF JobEnds, clockVars
  <2>2. /\ job' \in [Keys -> {"none", "pending", "queued", "ended"}]
        /\ job'[k] = "ended" /\ \A j \in Keys \ {k} : job'[j] = job[j]
      BY <1>0, <2>1
  <2>3. digest' \subseteq Keys
    <3>1. k[1] \in Mailboxes
        BY DEF Keys
    <3>2. <<k[1], day[k[1]]>> \in Keys
        BY <1>0, <3>1 DEF Types, Keys
    <3> QED BY <1>0, <2>1, <3>2 DEF Types
  <2>4. Types'
      BY <1>0, <2>1, <2>2, <2>3 DEF Types
  <2> QED BY <2>1, <2>2, <2>4, World DEF Begun
<1>13. ASSUME NEW m \in Mailboxes, ManualSync(m) \/ ManualEnds(m) PROVE SchedulerInv'
  <2>1. /\ UNCHANGED <<kind, active, day, due, job, digest, pass>>
        /\ manual' \in [Mailboxes -> BOOLEAN] /\ events' \in 0..MaxEvents
    <3>1. CASE ManualSync(m)
      <4>1. events' \in 0..MaxEvents
          BY <1>0, <3>1, SchedulerAssumption DEF ManualSync, Types
      <4> QED BY <1>0, <3>1, <4>1 DEF ManualSync, Types
    <3>2. CASE ManualEnds(m)
        BY <1>0, <3>2 DEF ManualEnds, clockVars, Types
    <3> QED BY <1>13, <3>1, <3>2
  <2>2. Types'
      BY <1>0, <2>1 DEF Types
  <2> QED BY <2>1, <2>2, World DEF Begun
<1>14. ASSUME NEW m \in Mailboxes, ManualDigest(m) PROVE SchedulerInv'
  <2>1. /\ UNCHANGED <<kind, active, day, due, job, manual, pass>>
        /\ digest' = digest \cup {<<m, day[m]>>} /\ events' \in 0..MaxEvents
      BY <1>0, <1>14, SchedulerAssumption DEF ManualDigest, Types
  <2>2. Types'
      BY <1>0, <2>1 DEF Types, Keys
  <2> QED BY <2>1, <2>2, World DEF Begun
<1>15. ASSUME NEW m \in Mailboxes, Change(m) PROVE SchedulerInv'
  <2>1. /\ UNCHANGED <<kind, day, due, job, manual, digest, pass>>
        /\ active' \in [Mailboxes -> BOOLEAN] /\ events' \in 0..MaxEvents
      BY <1>0, <1>15, SchedulerAssumption DEF Change, Types, jobVars
  <2>2. Types'
      BY <1>0, <2>1 DEF Types
  <2> QED BY <2>1, <2>2, World DEF Begun
<1>16. ASSUME NEW m \in Mailboxes, HourComes(m) PROVE SchedulerInv'
  <2>1. /\ UNCHANGED <<kind, active, events, day, job, manual, digest, pass>>
        /\ due' = [due EXCEPT ![m] = TRUE]
      BY <1>16 DEF HourComes, jobVars
  <2>2. Types'
      BY <1>0, <2>1 DEF Types
  <2>3. \A n \in Mailboxes : due[n] => due'[n]
      BY <1>0, <2>1 DEF Types
  <2>4. \A n \in Mailboxes, d \in Days : Begun(n, d) => Begun(n, d)'
      BY <2>1, <2>3 DEF Begun
  <2> QED BY <2>1, <2>2, <2>4, World
<1>17. ASSUME NEW m \in Mailboxes, Midnight(m) PROVE SchedulerInv'
  <2>1. /\ UNCHANGED <<kind, active, events, job, manual, digest, pass>>
        /\ day[m] < MaxDays /\ day' = [day EXCEPT ![m] = @ + 1]
        /\ due' = [due EXCEPT ![m] = FALSE]
      BY <1>17 DEF Midnight, jobVars
  <2>2. \A n \in Mailboxes : day[n] \in Days /\ day[n] \in Nat
      BY <1>0 DEF Types, Days
  <2>3. day[m] + 1 \in Days
      BY <2>1, <2>2, SchedulerAssumption DEF Days
  <2>4. /\ day' \in [Mailboxes -> Days] /\ due' \in [Mailboxes -> BOOLEAN]
        /\ day'[m] = day[m] + 1
        /\ \A n \in Mailboxes \ {m} : day'[n] = day[n] /\ due'[n] = due[n]
      BY <1>0, <2>1, <2>3 DEF Types
  <2>5. Types'
      BY <1>0, <2>1, <2>4 DEF Types
  <2>6. ASSUME NEW n \in Mailboxes, NEW d \in Days, Begun(n, d) PROVE Begun(n, d)'
    <3>1. CASE n = m
      <4>1. d <= day[m] /\ d \in Nat
          BY <2>2, <2>6, <3>1 DEF Begun, Days
      <4>2. d < day'[n]
          BY <2>2, <2>4, <3>1, <4>1
      <4> QED BY <4>2 DEF Begun
    <3>2. CASE n # m
        BY <2>1, <2>4, <2>6, <3>2 DEF Begun
    <3> QED BY <3>1, <3>2
  <2> QED BY <2>1, <2>5, <2>6, World
<1>18. CASE UNCHANGED vars
  <2>1. UNCHANGED <<kind, active, events, day, due, job, manual, digest, pass>>
      BY <1>18 DEF vars, clockVars, jobVars
  <2>2. Types'
      BY <1>0, <2>1 DEF Types
  <2> QED BY <2>1, <2>2, World DEF Begun
<1> QED
    BY <1>4, <1>5, <1>6, <1>7, <1>8, <1>9, <1>10, <1>11, <1>12, <1>13, <1>14, <1>15, <1>16,
       <1>17, <1>18 DEF Next, PassStep

LEMMA Invariance == Spec => []SchedulerInv
BY InvInit, InvStep, PTL DEF Spec

\* A pass that is under way has a mailbox to visit, and the job it is sending to
\* the queue is still pending: nobody else touches a job before it is queued.
THEOREM TypeCorrect == Spec => []TypeOK
<1>1. SchedulerInv => TypeOK
  <2> SUFFICES ASSUME SchedulerInv PROVE TypeOK
      OBVIOUS
  <2>1. \A p \in Passes :
          /\ pass[p].at \in Points
          /\ \A v \in pass[p].left : v.mailbox \in Mailboxes /\ v.day \in Days
          /\ pass[p].at # "idle" => pass[p].left # {}
          /\ pass[p].at = "dispatch" => job[Key(p)] = "pending"
      BY DEF SchedulerInv, PassInv, Types, Pass, Visits
  <2> QED BY <2>1 DEF SchedulerInv, Types, TypeOK
<1> QED BY <1>1, Invariance, PTL

\* No scheduled job is for a day that has not begun where the user of the
\* mailbox is, nor a digest's for a day whose hour has not come, however long
\* ago the pass that makes it has read the clock.
THEOREM NotEarly == Spec => []NeverEarly
<1>1. SchedulerInv => NeverEarly
    BY DEF SchedulerInv
<1> QED BY <1>1, Invariance, PTL

\* A job that was there when a pass began is not made again by that pass,
\* whatever has become of it.
THEOREM NotRepeated == Spec => OncePerDay
<1>1. SchedulerInv /\ [Next]_vars => [\A p \in Passes : Insert(p) => ~Visit(p).known]_vars
    BY DEF SchedulerInv, PassInv, Insert
<1> QED BY <1>1, Invariance, PTL DEF Spec, OncePerDay
=============================================================================
