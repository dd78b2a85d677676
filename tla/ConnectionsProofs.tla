------------------------- MODULE ConnectionsProofs --------------------------
(***************************************************************************)
(* Proofs about Connections and the Accounts it extends, for any users,    *)
(* sessions, browsers, requests and mailbox accounts.                      *)
(***************************************************************************)
EXTENDS Connections, TLAPS

\* The requests there are, and how far each kind gets.
Request ==
    [kind : {"idle", "register", "login", "logout", "consent", "callback", "imap",
             "disconnect", "sync"},
     at : {"idle", "insert", "respond", "commit", "flush", "credentials", "lock", "call",
           "report", "end"},
     from : Browsers \cup {None}, user : Users \cup {None}, sid : Sessions \cup {None},
     found : States]

Stage(r) ==
    /\ req[r].kind = "idle" => req[r] = Idle
    /\ req[r].kind = "register" =>
         /\ req[r].at \in {"insert", "respond", "commit"} /\ req[r].user # None
         /\ req[r].at = "insert" <=> req[r].sid = None
    /\ req[r].kind \in {"login", "logout", "consent"} => req[r].at \in {"respond", "commit"}
    /\ req[r].kind = "login" => req[r].sid # None
    /\ Connecting(r) => req[r].at \in {"flush", "commit"}
    /\ req[r].kind = "disconnect" => req[r].at \in {"credentials", "commit"}
    /\ req[r].kind = "sync" => req[r].at \in {"lock", "call", "report", "end"}
    /\ req[r].kind \in {"login", "consent", "callback", "imap", "disconnect"} =>
         req[r].user \in users

\* The row of sessions a registration or a login has flushed is its own until it
\* commits; any other request has found a committed row, or no row at all.
Signing(r) == req[r].kind \in {"register", "login"} /\ req[r].sid # None
Sessioned(r) ==
    /\ Signing(r) =>
         /\ session[req[r].sid] = "free"
         /\ \A q \in Requests \ {r} : Signing(q) => req[q].sid # req[r].sid
    /\ req[r].found # "free" =>
         /\ req[r].sid # None /\ session[req[r].sid] # "free"
         /\ req[r].kind \notin {"register", "login"}

AccountInv ==
    /\ AccountTypeOK /\ RegisteredOnce
    /\ req \in [Requests -> Request]
    /\ \A r \in Requests : Stage(r) /\ Sessioned(r)

\* A session row, once committed, is never free again, nor open once revoked.
SessionsLast ==
    \A s \in Sessions :
        /\ session[s] # "free" => session'[s] # "free"
        /\ session[s] = "revoked" => session'[s] = "revoked"

LEMMA IdleRequest == Idle \in Request /\ Idle.kind = "idle" /\ Idle.found = "free"
BY DEF Idle, Request, States

LEMMA Seated ==
    ASSUME NEW x \in Request, NEW point, NEW s
    PROVE  [x EXCEPT !.at = point, !.sid = s]
             = [kind |-> x.kind, at |-> point, from |-> x.from, user |-> x.user, sid |-> s,
                found |-> x.found]
<1> DEFINE y == [kind |-> x.kind, at |-> point, from |-> x.from, user |-> x.user,
                 sid |-> x.sid, found |-> x.found]
           z == [kind |-> x.kind, at |-> point, from |-> x.from, user |-> x.user,
                 sid |-> s, found |-> x.found]
<1>1. [x EXCEPT !.at = point] = y /\ [y EXCEPT !.sid = s] = z
    BY DEF Request
<1> HIDE DEF y, z
<1>2. [x EXCEPT !.at = point, !.sid = s] = z
    BY <1>1, Zenon
<1> QED BY <1>2 DEF z

LEMMA GotoIs ==
    ASSUME req \in [Requests -> Request], NEW r \in Requests, NEW point, Goto(r, point)
    PROVE  /\ req'[r] = [kind |-> req[r].kind, at |-> point, from |-> req[r].from,
                         user |-> req[r].user, sid |-> req[r].sid, found |-> req[r].found]
           /\ \A q \in Requests \ {r} : req'[q] = req[q]
           /\ req' = [req EXCEPT ![r] = req'[r]]
<1>1. req[r] \in Request /\ req' = [req EXCEPT ![r] = [@ EXCEPT !.at = point]]
    BY DEF Goto
<1>2. req'[r] = [req[r] EXCEPT !.at = point] /\ \A q \in Requests \ {r} : req'[q] = req[q]
    BY <1>1
<1>3. [req[r] EXCEPT !.at = point]
        = [kind |-> req[r].kind, at |-> point, from |-> req[r].from,
           user |-> req[r].user, sid |-> req[r].sid, found |-> req[r].found]
    BY <1>1 DEF Request
<1> QED BY <1>1, <1>2, <1>3

LEMMA AccountInit1 == Init => AccountInv
<1> SUFFICES ASSUME Init PROVE AccountInv
    OBVIOUS
<1>1. \A r \in Requests : req[r] = Idle
    BY DEF Init, AccountInit
<1>2. AccountTypeOK
    BY <1>1 DEF Init, AccountInit, AccountTypeOK, States, Idle
<1>3. RegisteredOnce
    BY <1>1 DEF RegisteredOnce, Idle
<1>4. req \in [Requests -> Request]
    BY IdleRequest DEF Init, AccountInit
<1>5. \A r \in Requests : Stage(r) /\ Sessioned(r)
    BY <1>1, IdleRequest DEF Stage, Sessioned, Signing, Connecting
<1> QED BY <1>2, <1>3, <1>4, <1>5 DEF AccountInv

\* Nothing is committed and one request changes, to x.
LEMMA OneRequest ==
    ASSUME AccountInv, NEW r \in Requests, NEW x \in Request,
           req' = [req EXCEPT ![r] = x], UNCHANGED <<users, session, owner>>,
           cookie' \in [Browsers -> Sessions \cup {None}],
           Stage(r)',
           x.found # "free" => /\ x.sid # None /\ session[x.sid] # "free"
                               /\ x.kind \notin {"register", "login"},
           x.kind \in {"register", "login"} /\ x.sid # None =>
               /\ session[x.sid] = "free"
               /\ \A q \in Requests \ {r} : Signing(q) => req[q].sid # x.sid,
           x.kind = "register" /\ x.at \in {"respond", "commit"} =>
               x.user \notin users /\ ~Claimed(x.user, r)
    PROVE  AccountInv' /\ SessionsLast
<1>0. req'[r] = x /\ \A q \in Requests \ {r} : req'[q] = req[q]
    BY DEF AccountInv
<1>1. req' \in [Requests -> Request]
    BY DEF AccountInv
<1>2. AccountTypeOK'
    BY <1>1 DEF AccountInv, AccountTypeOK, Request
<1>3. \A q \in Requests : Stage(q)'
    BY <1>0 DEF AccountInv, Stage, Connecting
<1>4. \A q \in Requests : Sessioned(q)'
    BY <1>0 DEF AccountInv, Sessioned, Signing
<1>5. RegisteredOnce'
  <2> SUFFICES ASSUME NEW p \in Requests, NEW q \in Requests \ {p},
                      req'[p].kind = "register", req'[p].at \in {"respond", "commit"}
               PROVE  /\ req'[p].user \notin users
                      /\ ~(/\ req'[q].kind = "register" /\ req'[q].user = req'[p].user
                           /\ req'[q].at \in {"respond", "commit"})
      BY DEF RegisteredOnce, Claimed, AccountInv
  <2>1. CASE p = r
      BY <1>0, <2>1 DEF Claimed
  <2>2. CASE q = r
      BY <1>0, <2>2 DEF Claimed, AccountInv, RegisteredOnce
  <2>3. CASE p # r /\ q # r
      BY <1>0, <2>3 DEF Claimed, AccountInv, RegisteredOnce
  <2> QED BY <2>1, <2>2, <2>3
<1>6. SessionsLast
    BY DEF SessionsLast
<1> QED BY <1>1, <1>2, <1>3, <1>4, <1>5, <1>6 DEF AccountInv

LEMMA AccountInvStep == AccountInv /\ [Next]_vars => AccountInv' /\ SessionsLast
<1> SUFFICES ASSUME AccountInv, [Next]_vars PROVE AccountInv' /\ SessionsLast
    OBVIOUS
<1> USE DEF accountVars, connectionVars, mailboxVars
<1>0. /\ AccountTypeOK /\ req \in [Requests -> Request] /\ None \notin Users \cup Sessions
      /\ \A r \in Requests : Stage(r) /\ Sessioned(r)
      /\ cookie \in [Browsers -> Sessions \cup {None}]
      /\ owner \in [Sessions -> Users \cup {None}] /\ users \subseteq Users
      /\ session \in [Sessions -> States]
      /\ \A s \in Sessions : session[s] = "free" \/ owner[s] \in users
    BY AccountAssumption DEF AccountInv, AccountTypeOK
\* A request goes on.
<1>1. ASSUME NEW r \in Requests,
             NEW point \in {"respond", "commit", "flush", "credentials", "lock", "call",
                            "report", "end"},
             Goto(r, point), UNCHANGED <<users, session, owner>>,
             cookie' \in [Browsers -> Sessions \cup {None}],
             \/ req[r].at = "respond" /\ point = "commit"
             \/ Connecting(r) /\ point = "commit"
             \/ req[r].kind = "disconnect" /\ point = "commit"
             \/ req[r].kind = "sync" /\ point \in {"call", "report", "end"}
      PROVE  AccountInv' /\ SessionsLast
  <2> DEFINE x == req'[r]
  <2>1. /\ x = [kind |-> req[r].kind, at |-> point, from |-> req[r].from,
                user |-> req[r].user, sid |-> req[r].sid, found |-> req[r].found]
        /\ req' = [req EXCEPT ![r] = x]
      BY <1>0, <1>1, GotoIs
  <2>2. req[r] \in Request /\ Stage(r) /\ Sessioned(r)
      BY <1>0
  <2>3. x \in Request
      BY <2>1, <2>2 DEF Request
  <2>4. req[r].kind # "idle"
      BY <1>1, <2>2 DEF Stage, Connecting, Idle
  <2>5. Stage(r)'
      BY <1>1, <2>1, <2>2, <2>4 DEF Stage, Connecting
  <2>6. /\ x.found # "free" => /\ x.sid # None /\ session[x.sid] # "free"
                               /\ x.kind \notin {"register", "login"}
        /\ x.kind \in {"register", "login"} /\ x.sid # None =>
               /\ session[x.sid] = "free"
               /\ \A q \in Requests \ {r} : Signing(q) => req[q].sid # x.sid
      BY <2>1, <2>2 DEF Sessioned, Signing
  <2>7. x.kind = "register" /\ x.at \in {"respond", "commit"} =>
            x.user \notin users /\ ~Claimed(x.user, r)
    <3>1. req[r].kind = "register" => req[r].at = "respond"
        BY <1>1, <2>2 DEF Connecting
    <3> QED BY <2>1, <3>1 DEF AccountInv, RegisteredOnce
  <2> HIDE DEF x
  <2> QED BY <1>1, <2>1, <2>3, <2>5, <2>6, <2>7, OneRequest
\* A request ends and commits nothing.
<1>2. ASSUME NEW r \in Requests, End(r), UNCHANGED <<users, session, owner, cookie>>
      PROVE  AccountInv' /\ SessionsLast
  <2>1. req' = [req EXCEPT ![r] = Idle] /\ req'[r] = Idle
      BY <1>0, <1>2 DEF End
  <2>2. Stage(r)'
      BY <2>1, IdleRequest DEF Stage, Connecting
  <2> QED BY <1>0, <1>2, <2>1, <2>2, IdleRequest, OneRequest
\* A request begins; if it registers or logs in, it has a row nobody else has.
<1>3. ASSUME NEW r \in Requests, NEW x \in Request, Begin(r, x),
             UNCHANGED <<users, session, owner, cookie>>,
             Stage(r)',
             x.found # "free" => /\ x.sid # None /\ session[x.sid] # "free"
                                 /\ x.kind \notin {"register", "login"},
             x.kind \in {"register", "login"} /\ x.sid # None => Fresh(x.sid),
             x.kind = "register" => x.at = "insert"
      PROVE  AccountInv' /\ SessionsLast
  <2>1. req' = [req EXCEPT ![r] = x]
      BY <1>3 DEF Begin
  <2>2. x.kind \in {"register", "login"} /\ x.sid # None =>
            /\ session[x.sid] = "free"
            /\ \A q \in Requests \ {r} : Signing(q) => req[q].sid # x.sid
      BY <1>3 DEF Fresh
  <2> QED BY <1>0, <1>3, <2>1, <2>2, OneRequest
<1>4. ASSUME NEW r \in Requests, NEW b \in Browsers, NEW u \in Users, Register(r, b, u)
      PROVE  AccountInv' /\ SessionsLast
  <2> DEFINE x == [kind |-> "register", at |-> "insert", from |-> b, user |-> u, sid |-> None,
                   found |-> "free"]
  <2>1. x \in Request
      BY DEF Request, States
  <2>begin. Begin(r, x)
      BY <1>4 DEF Register
  <2>2. req'[r] = x
      BY <1>0, <2>begin DEF Begin
  <2>3. Stage(r)'
      BY <1>0, <2>2 DEF Stage, Connecting
  <2> QED BY <1>3, <1>4, <2>1, <2>begin, <2>3 DEF Register
<1>5. ASSUME NEW r \in Requests, NEW b \in Browsers, NEW u \in Users, Login(r, b, u)
      PROVE  AccountInv' /\ SessionsLast
  <2>1. PICK s \in Sessions :
            /\ Fresh(s)
            /\ Begin(r, [kind |-> "login", at |-> "respond", from |-> b, user |-> u, sid |-> s,
                         found |-> "free"])
      BY <1>5 DEF Login
  <2> DEFINE x == [kind |-> "login", at |-> "respond", from |-> b, user |-> u, sid |-> s,
                   found |-> "free"]
  <2>2. x \in Request
      BY DEF Request, States
  <2>begin. Begin(r, x)
      BY <2>1
  <2>3. req'[r] = x
      BY <1>0, <2>begin DEF Begin
  <2>4. Stage(r)'
      BY <1>0, <1>5, <2>3 DEF Stage, Connecting, Login
  <2> QED BY <1>3, <1>5, <2>1, <2>2, <2>begin, <2>4 DEF Login
<1>6. ASSUME NEW r \in Requests, NEW b \in Browsers, Logout(r, b)
      PROVE  AccountInv' /\ SessionsLast
  <2> DEFINE x == [kind |-> "logout", at |-> "respond", from |-> b, user |-> None,
                   sid |-> cookie[b], found |-> session[cookie[b]]]
  <2>0. cookie[b] \in Sessions /\ session[cookie[b]] \in States
      BY <1>0, <1>6 DEF Logout
  <2>1. x \in Request
      BY <2>0 DEF Request
  <2>begin. Begin(r, x)
      BY <1>6 DEF Logout
  <2>2. req'[r] = x
      BY <1>0, <2>begin DEF Begin
  <2>3. Stage(r)'
      BY <2>2 DEF Stage, Connecting
  <2> QED BY <1>0, <1>3, <1>6, <2>0, <2>1, <2>begin, <2>3 DEF Logout
<1>7. ASSUME NEW r \in Requests, NEW b \in Browsers,
             NEW kind \in {"consent", "callback", "imap", "disconnect"}, NEW point,
             Authenticated(r, b, kind, point), UNCHANGED <<users, session, owner, cookie>>,
             \/ kind = "consent" /\ point = "respond"
             \/ kind \in {"callback", "imap"} /\ point = "flush"
             \/ kind = "disconnect" /\ point = "credentials"
      PROVE  AccountInv' /\ SessionsLast
  <2> DEFINE x == [kind |-> kind, at |-> point, from |-> b, user |-> owner[cookie[b]],
                   sid |-> cookie[b], found |-> "open"]
  <2>0. cookie[b] \in Sessions /\ session[cookie[b]] = "open" /\ owner[cookie[b]] \in users
      BY <1>0, <1>7 DEF Authenticated
  <2>1. x \in Request /\ Begin(r, x)
      BY <1>0, <1>7, <2>0 DEF Authenticated, Request, States
  <2>2. req'[r] = x
      BY <1>0, <2>1 DEF Begin
  <2>3. Stage(r)'
      BY <1>7, <2>0, <2>2 DEF Stage, Connecting
  <2> QED BY <1>0, <1>3, <1>7, <2>0, <2>1, <2>3
<1>8. ASSUME NEW r \in Requests, NEW k \in Keys, BeginSync(r, k)
      PROVE  AccountInv' /\ SessionsLast
  <2> DEFINE x == [kind |-> "sync", at |-> "lock", from |-> None, user |-> k[1], sid |-> None,
                   found |-> "free"]
  <2>0. k[1] \in Users
      BY DEF Keys
  <2>1. x \in Request
      BY <2>0 DEF Request, States
  <2>begin. Begin(r, x)
      BY <1>8 DEF BeginSync
  <2>2. req'[r] = x
      BY <1>0, <2>begin DEF Begin
  <2>3. Stage(r)'
      BY <2>2 DEF Stage, Connecting
  <2> QED BY <1>3, <1>8, <2>1, <2>begin, <2>3 DEF BeginSync
<1>9. ASSUME NEW r \in Requests, InsertUser(r) PROVE AccountInv' /\ SessionsLast
  <2>1. PICK s \in Sessions : Fresh(s) /\ req' = [req EXCEPT ![r].at = "respond", ![r].sid = s]
      BY <1>9 DEF InsertUser
  <2> DEFINE x == [kind |-> req[r].kind, at |-> "respond", from |-> req[r].from,
                   user |-> req[r].user, sid |-> s, found |-> req[r].found]
  <2>2. req[r] \in Request /\ Stage(r) /\ Sessioned(r) /\ req[r].at = "insert"
      BY <1>0, <1>9 DEF InsertUser
  <2>3. req[r].kind = "register"
      BY <2>2 DEF Stage, Connecting, Idle, Request
  <2>go. [req[r] EXCEPT !.at = "respond", !.sid = s] = x
      BY <2>2, Seated, Zenon
  <2>put. req' = [req EXCEPT ![r] = [req[r] EXCEPT !.at = "respond", !.sid = s]]
      BY <2>1, Zenon
  <2>4. x \in Request /\ req' = [req EXCEPT ![r] = x] /\ req'[r] = x
    <3>1. x \in Request
        BY <2>2 DEF Request
    <3> QED BY <1>0, <2>go, <2>put, <3>1
  <2>5. Stage(r)' /\ x.found = "free"
      BY <1>0, <2>2, <2>3, <2>4 DEF Stage, Connecting, Sessioned
  <2>6. x.user \notin users /\ ~Claimed(x.user, r)
      BY <1>9 DEF InsertUser, Available
  <2>7. session[s] = "free" /\ \A q \in Requests : req[q].sid # s
      BY <2>1 DEF Fresh
  <2>8. UNCHANGED <<users, session, owner, cookie>>
      BY <1>9 DEF InsertUser
  <2> QED BY <1>0, <2>4, <2>5, <2>6, <2>7, <2>8, OneRequest
<1>10. ASSUME NEW r \in Requests, Commit(r) PROVE AccountInv' /\ SessionsLast
  <2>0. /\ req[r] \in Request /\ Stage(r) /\ Sessioned(r) /\ req[r].at = "commit"
        /\ req' = [req EXCEPT ![r] = Idle] /\ UNCHANGED cookie
        /\ req'[r] = Idle /\ \A q \in Requests \ {r} : req'[q] = req[q]
      BY <1>0, <1>10 DEF Commit, End
  <2>1. CASE req[r].kind \in {"register", "login"}
    <3> DEFINE s == req[r].sid
               u == req[r].user
    <3>1. /\ s \in Sessions /\ u \in Users /\ session[s] = "free" /\ Signing(r)
          /\ users' = users \cup {u}
          /\ session' = [session EXCEPT ![s] = "open"] /\ owner' = [owner EXCEPT ![s] = u]
        BY <1>0, <1>10, <2>0, <2>1 DEF Commit, Stage, Sessioned, Signing, Request
    <3>2. AccountTypeOK' /\ req' \in [Requests -> Request]
      <4>1. req' \in [Requests -> Request]
          BY <1>0, <2>0, IdleRequest
      <4>2. session' \in [Sessions -> States] /\ owner' \in [Sessions -> Users \cup {None}]
          BY <1>0, <3>1 DEF States
      <4>3. \A t \in Sessions : session'[t] = "free" \/ owner'[t] \in users'
          BY <1>0, <3>1
      <4> QED BY <1>0, <2>0, <3>1, <4>1, <4>2, <4>3 DEF AccountTypeOK, Request
    <3>3. \A q \in Requests : Stage(q)'
      <4>1. Stage(r)'
          BY <2>0, IdleRequest DEF Stage, Connecting
      <4>2. \A q \in Requests \ {r} : Stage(q)'
          BY <1>0, <2>0, <3>1 DEF Stage, Connecting
      <4> QED BY <4>1, <4>2
    <3>4. \A q \in Requests : Sessioned(q)'
      <4>1. Sessioned(r)'
          BY <2>0, IdleRequest DEF Sessioned, Signing
      <4>2. ASSUME NEW q \in Requests \ {r} PROVE Sessioned(q)'
        <5>1. /\ \A t \in Sessions : t # s => session'[t] = session[t]
              /\ session'[s] = "open"
            BY <1>0, <3>1
        <5>2. Sessioned(q) /\ req[q] \in Request
            BY <1>0
        <5>3. ASSUME Signing(q)
              PROVE  req[q].sid \in Sessions /\ req[q].sid # s
            BY <2>0, <3>1, <5>2, <5>3 DEF Sessioned, Signing, Request
        <5>4. \A p \in Requests : Signing(p)' => p # r /\ Signing(p) /\ req'[p] = req[p]
            BY <2>0, IdleRequest DEF Signing
        <5>5. req[q].found # "free" => req[q].sid \in Sessions
            BY <5>2 DEF Sessioned, Request
        <5>6. Signing(q)' =>
                /\ session'[req'[q].sid] = "free"
                /\ \A p \in Requests \ {q} : Signing(p)' => req'[p].sid # req'[q].sid
            BY <2>0, <5>1, <5>2, <5>3, <5>4 DEF Sessioned
        <5>7. req'[q].found # "free" =>
                /\ req'[q].sid # None /\ session'[req'[q].sid] # "free"
                /\ req'[q].kind \notin {"register", "login"}
            BY <2>0, <5>1, <5>2, <5>5 DEF Sessioned
        <5> QED BY <5>6, <5>7 DEF Sessioned
      <4> QED BY <4>1, <4>2
    <3>5. RegisteredOnce'
      <4>1. ASSUME NEW q \in Requests \ {r}, req[q].kind = "register",
                   req[q].at \in {"respond", "commit"}
            PROVE  req[q].user \notin users \cup {u}
        <5>1. CASE req[r].kind = "register"
            BY <2>0, <4>1, <5>1 DEF AccountInv, RegisteredOnce, Claimed
        <5>2. CASE req[r].kind = "login"
          <6>1. u \in users
              BY <2>0, <5>2 DEF Stage
          <6> QED BY <4>1, <6>1 DEF AccountInv, RegisteredOnce
        <5> QED BY <2>1, <5>1, <5>2
      <4>2. \A q \in Requests \ {r}, v \in Users : Claimed(v, q)' => Claimed(v, q)
          BY <2>0, IdleRequest DEF Claimed
      <4>3. \A q \in Requests : req'[q].kind = "register" => q # r
          BY <2>0, IdleRequest
      <4> QED BY <2>0, <3>1, <4>1, <4>2, <4>3 DEF RegisteredOnce, AccountInv, Claimed
    <3>6. SessionsLast
        BY <1>0, <3>1 DEF SessionsLast
    <3> QED BY <3>2, <3>3, <3>4, <3>5, <3>6 DEF AccountInv
  <2>2. CASE req[r].kind \notin {"register", "login"}
    <3>1. UNCHANGED <<users, owner>>
        BY <1>10, <2>2 DEF Commit
    <3>2. /\ session' \in [Sessions -> States] /\ SessionsLast
          /\ \A s \in Sessions : session'[s] = "free" <=> session[s] = "free"
      <4>1. CASE req[r].found = "free"
          BY <1>0, <1>10, <2>2, <4>1 DEF Commit, SessionsLast
      <4>2. CASE req[r].found # "free"
        <5>1. /\ req[r].sid \in Sessions /\ session[req[r].sid] # "free"
              /\ session' = [session EXCEPT ![req[r].sid] = SessionAfter(r)]
            BY <1>10, <2>0, <2>2, <4>2 DEF Commit, Sessioned, Request
        <5>2. SessionAfter(r) \in {"revoked", session[req[r].sid]}
            BY DEF SessionAfter
        <5> QED BY <1>0, <5>1, <5>2 DEF SessionsLast, States
      <4> QED BY <4>1, <4>2
    <3>3. req' \in [Requests -> Request]
        BY <1>0, <2>0, IdleRequest
    <3>4. AccountTypeOK'
        BY <1>0, <2>0, <3>1, <3>2, <3>3 DEF AccountTypeOK, Request
    <3>5. \A q \in Requests : Stage(q)'
        BY <1>0, <2>0, <3>1, IdleRequest DEF Stage, Connecting
    <3>6. \A q \in Requests : Sessioned(q)'
      <4> SUFFICES ASSUME NEW q \in Requests \ {r} PROVE Sessioned(q)'
          BY <2>0, IdleRequest DEF Sessioned, Signing
      <4>1. Sessioned(q) /\ req[q] \in Request
          BY <1>0
      <4>2. \A p \in Requests : Signing(p)' => p # r /\ Signing(p) /\ req'[p] = req[p]
          BY <2>0, IdleRequest DEF Signing
      <4>3. req[q].sid # None => req[q].sid \in Sessions
          BY <4>1 DEF Request
      <4> QED BY <2>0, <3>2, <4>1, <4>2, <4>3 DEF Sessioned, Signing
    <3>7. RegisteredOnce'
      <4>1. \A q \in Requests : req'[q].kind = "register" => q # r
          BY <2>0, IdleRequest
      <4> QED BY <2>0, <3>1, <4>1 DEF RegisteredOnce, AccountInv, Claimed
    <3> QED BY <3>2, <3>3, <3>4, <3>5, <3>6, <3>7 DEF AccountInv
  <2> QED BY <2>1, <2>2
<1>11. ASSUME NEW r \in Requests, AnswerRequest(r) PROVE AccountInv' /\ SessionsLast
  <2>1. /\ req[r].at = "respond" /\ Goto(r, "commit") /\ UNCHANGED <<users, session, owner>>
      BY <1>11 DEF AnswerRequest, Respond
  <2>2. cookie' \in [Browsers -> Sessions \cup {None}]
    <3>1. req[r].sid \in Sessions \cup {None}
        BY <1>0 DEF Request
    <3> QED BY <1>0, <1>11, <3>1 DEF AnswerRequest, Respond
  <2> QED BY <1>1, <2>1, <2>2
<1>12. ASSUME NEW r \in Requests, InsertMailbox(r) \/ (\E c \in BOOLEAN : UpdateMailbox(r, c))
       PROVE  AccountInv' /\ SessionsLast
    BY <1>0, <1>1, <1>12 DEF InsertMailbox, UpdateMailbox
<1>13. ASSUME NEW r \in Requests, LoadCredentials(r) PROVE AccountInv' /\ SessionsLast
  <2>1. req[r].kind = "disconnect"
      BY <1>0, <1>13 DEF LoadCredentials, Stage, Connecting, Request, Idle
  <2> QED BY <1>0, <1>1, <1>13, <2>1 DEF LoadCredentials
<1>14. ASSUME NEW r \in Requests, FlushSync(r) \/ (\E c \in BOOLEAN : CallProvider(r, c))
       PROVE  AccountInv' /\ SessionsLast
  <2>1. req[r].kind = "sync"
      BY <1>0, <1>14 DEF FlushSync, CallProvider, Stage, Connecting, Request, Idle
  <2>2. \E point \in {"call", "report", "end"} : Goto(r, point)
      BY <1>14 DEF FlushSync, CallProvider
  <2> QED BY <1>0, <1>1, <1>14, <2>1, <2>2 DEF FlushSync, CallProvider
<1>15. ASSUME NEW r \in Requests,
              InsertConflict(r) \/ FailRequest(r) \/ MailboxConflict(r) \/ CommitSync(r)
       PROVE  AccountInv' /\ SessionsLast
    BY <1>2, <1>15 DEF InsertConflict, FailRequest, Fail, MailboxConflict, CommitSync
<1>16. ASSUME NEW r \in Requests, NEW b \in Browsers,
              \/ OpenConsent(r, b) \/ Disconnect(r, b)
              \/ \E f \in Users, x \in ProviderAccounts, a \in Addresses :
                    Callback(r, b, f, x, a) \/ ImapConnect(r, b, x, a)
       PROVE  AccountInv' /\ SessionsLast
    BY <1>7, <1>16 DEF OpenConsent, Disconnect, Callback, ImapConnect
<1>17. ASSUME NEW r \in Requests,
              CommitAccount(r) \/ CommitDisconnect(r) \/ (\E t \in BOOLEAN : CommitConnect(r, t))
       PROVE  AccountInv' /\ SessionsLast
    BY <1>10, <1>17 DEF CommitAccount, CommitDisconnect, CommitConnect
<1>18. CASE (\E f \in Users : FlowEnds(f)) \/ UNCHANGED vars
  <2>1. UNCHANGED accountVars
      BY <1>18 DEF FlowEnds, vars
  <2> QED BY <2>1 DEF AccountInv, AccountTypeOK, RegisteredOnce, Claimed, Stage, Connecting,
                      Sessioned, Signing, SessionsLast
<1> QED
    BY <1>4, <1>5, <1>6, <1>8, <1>9, <1>11, <1>12, <1>13, <1>14, <1>15, <1>16, <1>17, <1>18
       DEF Next, AccountStep, RequestStep, SyncStep
-----------------------------------------------------------------------------
(* The mailboxes. *)

Rec == [account : ProviderAccounts \cup {None}, address : Addresses \cup {None},
        giver : Users \cup {None}, had : Addresses \cup {None},
        found : [ProviderAccounts -> Statuses],
        creds : [ProviderAccounts -> Users \cup {None}], quiet : BOOLEAN]
RowTypes ==
    /\ status \in [Keys -> Statuses] /\ address \in [Keys -> Addresses \cup {None}]
    /\ cred \in [Keys -> Users \cup {None}]
    /\ rowLock \in [Keys -> Requests \cup {None}]
    /\ work \in [Requests -> Rec]
    /\ flows \subseteq users

\* What a session has loaded, and how much of it is still so.
Found(r) == work[r].found[work[r].account]
KnowsMailbox(r) ==
    /\ Key(r) \in Keys /\ work[r].giver = req[r].user /\ work[r].address \in Addresses
    /\ Found(r) = "absent" => work[r].had = None
    /\ Found(r) # "absent" => status[Key(r)] # "absent"
    /\ Found(r) = "absent" /\ req[r].at = "commit" =>
         rowLock[Key(r)] = r /\ status[Key(r)] = "absent"
    /\ req[r].at = "commit" => rowLock[Key(r)] = r \/ work[r].address = work[r].had
    /\ work[r].quiet => Found(r) = status[Key(r)]
KnowsMailboxes(r) ==
    \A x \in GmailAccounts :
        /\ work[r].found[x] # "absent" => status[<<req[r].user, x>>] # "absent"
        /\ work[r].quiet => work[r].found[x] = status[<<req[r].user, x>>]
        /\ work[r].quiet /\ req[r].at = "commit" => work[r].creds[x] = cred[<<req[r].user, x>>]
Knows(r) ==
    /\ req[r].kind \in {"idle", "register", "login", "logout", "consent"} => work[r] = NoWork
    /\ Connecting(r) => KnowsMailbox(r)
    /\ req[r].kind = "disconnect" => KnowsMailboxes(r)
    /\ req[r].kind = "sync" =>
         Key(r) \in Keys /\ status[Key(r)] # "absent" /\ work[r].address = work[r].had

\* Who may hold a row, and which.
Holds(r) ==
    \/ Connecting(r) /\ req[r].at = "commit"
    \/ req[r].kind = "sync" /\ req[r].at \in {"call", "report", "end"}
Locks == \A k \in Keys, r \in Requests : rowLock[k] = r => Key(r) = k /\ Holds(r)

\* Two mailboxes of a user at one provider share no address, whether they have it
\* or are being given it; the credential of a mailbox goes with a row, as does
\* its address.
Apart(j, k) == j # k /\ j[1] = k[1] /\ SameProvider(j[2], k[2])
Distinct == \A j, k \in Keys : Apart(j, k) => Bears(j) \cap Bears(k) \subseteq {None}
NoRowNoCred ==
    \A k \in Keys : /\ status[k] = "absent" => cred[k] = None
                    /\ status[k] = "absent" <=> address[k] = None

ConnectionInv ==
    /\ AccountInv /\ RowTypes
    /\ \A r \in Requests : Knows(r)
    /\ Locks /\ Distinct /\ NoRowNoCred /\ GrantedByOwner

LEMMA NoWorkIs ==
    /\ NoWork \in Rec /\ NoWork.account = None
    /\ \A y \in ProviderAccounts : [NoWork EXCEPT !.account = y] \in Rec
                                   /\ [NoWork EXCEPT !.account = y].account = y
                                   /\ [NoWork EXCEPT !.account = y].address = None
                                   /\ [NoWork EXCEPT !.account = y].had = None
BY DEF NoWork, Rec, Statuses

\* A session that ends, having changed rows, and those whom that disturbs.
LEMMA DisturbedIs ==
    ASSUME work \in [Requests -> Rec], NEW r \in Requests, NEW rows \in SUBSET Keys,
           work' = Disturbed([work EXCEPT ![r] = NoWork], r, rows)
    PROVE  /\ work' \in [Requests -> Rec] /\ work'[r] = NoWork
           /\ \A q \in Requests \ {r} :
                \/ work'[q] = work[q] /\ \A k \in rows : req[q].user # k[1]
                \/ work'[q] = [work[q] EXCEPT !.quiet = FALSE]
<1> DEFINE w == [work EXCEPT ![r] = NoWork]
<1>1. w \in [Requests -> Rec] /\ w[r] = NoWork /\ \A q \in Requests \ {r} : w[q] = work[q]
    BY NoWorkIs
<1>2. \A q \in Requests : [w[q] EXCEPT !.quiet = FALSE] \in Rec
    BY <1>1 DEF Rec
<1> HIDE DEF w
<1>3. work' = [q \in Requests |-> IF q # r /\ \E k \in rows : req[q].user = k[1]
                                  THEN [w[q] EXCEPT !.quiet = FALSE] ELSE w[q]]
    BY DEF Disturbed, w
<1>4. work' \in [Requests -> Rec]
  <2>1. \A q \in Requests : (IF q # r /\ \E k \in rows : req[q].user = k[1]
                             THEN [w[q] EXCEPT !.quiet = FALSE] ELSE w[q]) \in Rec
      BY <1>1, <1>2
  <2> QED BY <1>3, <2>1
<1>5. work'[r] = NoWork
    BY <1>1, <1>3
<1>6. ASSUME NEW q \in Requests \ {r}
      PROVE  \/ work'[q] = work[q] /\ \A k \in rows : req[q].user # k[1]
             \/ work'[q] = [work[q] EXCEPT !.quiet = FALSE]
  <2>1. w[q] = work[q]
      BY <1>1
  <2>2. CASE \E k \in rows : req[q].user = k[1]
      BY <1>3, <2>1, <2>2
  <2>3. CASE \A k \in rows : req[q].user # k[1]
      BY <1>3, <2>1, <2>3
  <2> QED BY <2>2, <2>3
<1> QED BY <1>4, <1>5, <1>6

\* What the other sessions know stays true when the rows do not vanish, those
\* they have inserted are still theirs, and those of a quiet one do not change.
LEMMA OthersKnow ==
    ASSUME ConnectionInv, NEW q \in Requests, req'[q] = req[q],
           \/ work'[q] = work[q]
           \/ work'[q] = [work[q] EXCEPT !.quiet = FALSE],
           \A k \in Keys :
               /\ status[k] # "absent" => status'[k] # "absent"
               /\ rowLock[k] = q => rowLock'[k] = q /\ (status[k] = "absent" => status'[k] = "absent")
               /\ k[1] = req[q].user /\ work'[q] = work[q] =>
                    (work[q].quiet => status'[k] = status[k] /\ cred'[k] = cred[k])
    PROVE  Knows(q)'
<1>1. Knows(q) /\ work[q] \in Rec /\ req[q] \in Request
    BY DEF ConnectionInv, AccountInv, RowTypes
<1>2. CASE work'[q] = work[q]
  <2>1. Connecting(q) => KnowsMailbox(q)'
    <3> SUFFICES ASSUME Connecting(q) PROVE KnowsMailbox(q)'
        OBVIOUS
    <3>1. Key(q)' = Key(q) /\ Found(q)' = Found(q) /\ Key(q) \in Keys /\ KnowsMailbox(q)
        BY <1>1, <1>2 DEF Knows, Key, Found, KnowsMailbox
    <3>2. Key(q)[1] = req[q].user
        BY DEF Key
    <3>3. work[q].quiet => Found(q) = status'[Key(q)]
        BY <1>2, <3>1, <3>2 DEF KnowsMailbox
    <3> QED BY <1>2, <3>1, <3>3 DEF KnowsMailbox
  <2>2. req[q].kind = "disconnect" => KnowsMailboxes(q)'
    <3> SUFFICES ASSUME req[q].kind = "disconnect", NEW x \in GmailAccounts
                 PROVE  /\ work[q].found[x] # "absent" => status'[<<req[q].user, x>>] # "absent"
                        /\ work[q].quiet => work[q].found[x] = status'[<<req[q].user, x>>]
                        /\ work[q].quiet /\ req[q].at = "commit" =>
                             work[q].creds[x] = cred'[<<req[q].user, x>>]
        BY <1>2 DEF KnowsMailboxes
    <3> DEFINE k == <<req[q].user, x>>
    <3>1. /\ work[q].found[x] # "absent" => status[k] # "absent"
          /\ work[q].quiet => work[q].found[x] = status[k]
          /\ work[q].quiet /\ req[q].at = "commit" => work[q].creds[x] = cred[k]
        BY <1>1 DEF Knows, KnowsMailboxes
    <3>2. k \in Keys /\ k[1] = req[q].user
      <4>1. req[q].user \in Users
          BY <1>1 DEF ConnectionInv, AccountInv, AccountTypeOK, Stage
      <4> QED BY <4>1 DEF Keys, ProviderAccounts
    <3> HIDE DEF k
    <3>3. work[q].quiet => status'[k] = status[k] /\ cred'[k] = cred[k]
        BY <1>2, <3>2
    <3>4. status[k] # "absent" => status'[k] # "absent"
        BY <3>2
    <3> QED BY <3>1, <3>3, <3>4 DEF k
  <2>3. req[q].kind = "sync" => /\ Key(q)' \in Keys /\ status'[Key(q)'] # "absent"
                                /\ work'[q].address = work'[q].had
      BY <1>1, <1>2 DEF Knows, Key
  <2> QED BY <1>1, <1>2, <2>1, <2>2, <2>3 DEF Knows, Connecting
<1>3. CASE work'[q] = [work[q] EXCEPT !.quiet = FALSE]
  <2>1. /\ work'[q].account = work[q].account /\ work'[q].giver = work[q].giver
        /\ work'[q].address = work[q].address /\ work'[q].had = work[q].had
        /\ work'[q].found = work[q].found /\ work'[q].quiet = FALSE
      BY <1>1, <1>3 DEF Rec
  <2>2. Key(q)' = Key(q) /\ Found(q)' = Found(q)
      BY <2>1 DEF Key, Found
  <2>3. Connecting(q) => KnowsMailbox(q)'
      BY <1>1, <2>1, <2>2 DEF Knows, KnowsMailbox
  <2>4. req[q].kind = "disconnect" => KnowsMailboxes(q)'
    <3> SUFFICES ASSUME req[q].kind = "disconnect", NEW x \in GmailAccounts
                 PROVE  work[q].found[x] # "absent" => status'[<<req[q].user, x>>] # "absent"
        BY <2>1 DEF KnowsMailboxes
    <3>1. work[q].found[x] # "absent" => status[<<req[q].user, x>>] # "absent"
        BY <1>1 DEF Knows, KnowsMailboxes
    <3>2. <<req[q].user, x>> \in Keys
      <4>1. req[q].user \in Users
          BY <1>1 DEF ConnectionInv, AccountInv, AccountTypeOK, Stage
      <4> QED BY <4>1 DEF Keys, ProviderAccounts
    <3> QED BY <3>1, <3>2
  <2>5. req[q].kind = "sync" => /\ Key(q)' \in Keys /\ status'[Key(q)'] # "absent"
                                /\ work'[q].address = work'[q].had
      BY <1>1, <2>1, <2>2 DEF Knows
  <2>6. work[q] = NoWork => work'[q] = NoWork
    <3>1. NoWork.quiet = FALSE
        BY DEF NoWork
    <3>2. [NoWork EXCEPT !.quiet = FALSE] = NoWork
        BY <3>1, NoWorkIs DEF Rec
    <3> QED BY <1>3, <3>2
  <2> QED BY <1>1, <2>3, <2>4, <2>5, <2>6 DEF Knows, Connecting
<1> QED BY <1>2, <1>3

\* A row that is locked stays so while its session does, and one session takes
\* or gives back rows: the locks agree with what the sessions are doing.
LEMMA LocksAgree ==
    ASSUME ConnectionInv, NEW r \in Requests,
           \A q \in Requests \ {r} : req'[q] = req[q] /\
               (work'[q] = work[q] \/ work'[q] = [work[q] EXCEPT !.quiet = FALSE]),
           \A k \in Keys :
               \/ rowLock'[k] = rowLock[k] /\ rowLock[k] # r
               \/ rowLock'[k] = None
               \/ rowLock'[k] = r /\ Key(r)' = k /\ Holds(r)'
    PROVE  Locks'
<1> SUFFICES ASSUME NEW k \in Keys, NEW q \in Requests, rowLock'[k] = q
             PROVE  Key(q)' = k /\ Holds(q)'
    BY DEF Locks
<1>1. CASE q = r
    BY <1>1, AccountAssumption
<1>2. CASE q # r
  <2>1. rowLock[k] = q /\ Key(q) = k /\ Holds(q)
      BY <1>2, AccountAssumption DEF ConnectionInv, Locks
  <2>2. req'[q] = req[q]
      BY <1>2
  <2>3. work'[q].account = work[q].account
    <3>1. work[q] \in Rec
        BY DEF ConnectionInv, RowTypes
    <3> QED BY <1>2, <3>1 DEF Rec
  <2> QED BY <2>1, <2>2, <2>3 DEF Key, Holds, Connecting
<1> QED BY <1>1, <1>2

\* A session that takes no row gives no mailbox an address but when it commits
\* one that its row already bears.
LEMMA StaysDistinct ==
    ASSUME ConnectionInv, NEW r \in Requests,
           \A q \in Requests \ {r} : req'[q] = req[q] /\
               (work'[q] = work[q] \/ work'[q] = [work[q] EXCEPT !.quiet = FALSE]),
           \A k \in Keys :
               \/ rowLock'[k] = rowLock[k] /\ rowLock[k] # r /\ address'[k] = address[k]
               \/ rowLock'[k] = None /\ address'[k] \in Bears(k)
    PROVE  Distinct'
<1>1. ASSUME NEW k \in Keys PROVE Bears(k)' \subseteq Bears(k)
  <2>1. CASE rowLock'[k] = None /\ address'[k] \in Bears(k)
      BY <2>1 DEF Bears
  <2>2. CASE rowLock'[k] = rowLock[k] /\ rowLock[k] # r /\ address'[k] = address[k]
    <3>1. CASE rowLock[k] = None
        BY <2>2, <3>1 DEF Bears
    <3>2. CASE rowLock[k] # None
      <4>1. PICK q \in Requests \ {r} : rowLock[k] = q
          BY <2>2, <3>2 DEF ConnectionInv, RowTypes
      <4>2. Key(q) = k /\ req'[q] = req[q] /\ work[q] \in Rec
          BY <4>1 DEF ConnectionInv, Locks, RowTypes
      <4>3. /\ work'[q].account = work[q].account /\ work'[q].address = work[q].address
            /\ work'[q].had = work[q].had
          BY <4>1, <4>2 DEF Rec
      <4>4. Key(q)' = k
          BY <4>2, <4>3 DEF Key
      <4>5. AddressAfter(q)' = AddressAfter(q)
          BY <2>2, <4>2, <4>3, <4>4 DEF AddressAfter, Written
      <4>6. /\ Bears(k) = {address[k], AddressAfter(q)}
            /\ Bears(k)' = {address'[k], AddressAfter(q)'}
          BY <2>2, <3>2, <4>1 DEF Bears
      <4> QED BY <2>2, <4>5, <4>6
    <3> QED BY <3>1, <3>2
  <2> QED BY <2>1, <2>2
<1> QED BY <1>1 DEF ConnectionInv, Distinct, Apart, SameProvider

\* A session that takes its row when the index lets it pass.
LEMMA TakesDistinct ==
    ASSUME ConnectionInv, NEW r \in Requests, Key(r) \in Keys,
           rowLock[Key(r)] = None, rowLock' = [rowLock EXCEPT ![Key(r)] = r],
           UNCHANGED <<address, work>>, \A q \in Requests : req'[q].user = req[q].user,
           AddressFree(r)
    PROVE  Distinct'
<1>0. PICK k \in Keys : k = Key(r)
    OBVIOUS
<1>1. /\ rowLock'[k] = r /\ \A j \in Keys \ {k} : rowLock'[j] = rowLock[j]
      /\ rowLock \in [Keys -> Requests \cup {None}]
    BY <1>0 DEF ConnectionInv, RowTypes
<1>2. \A q \in Requests : AddressAfter(q)' = AddressAfter(q)
    BY DEF AddressAfter, Key
<1>3. ASSUME NEW j \in Keys \ {k} PROVE Bears(j)' = Bears(j)
    BY <1>1, <1>2 DEF Bears
<1>4. Bears(k)' \subseteq {address[k], AddressAfter(r)} /\ address[k] \in Bears(k)
    BY <1>1, <1>2 DEF Bears
<1>5. ASSUME NEW j \in Keys, Apart(j, k) \/ Apart(k, j)
      PROVE  Bears(j)' \cap Bears(k)' \subseteq {None}
  <2>1. /\ j # k /\ j \in Rivals(r) /\ Bears(j) \cap Bears(k) \subseteq {None}
        /\ Bears(k) \cap Bears(j) \subseteq {None}
      BY <1>0, <1>5 DEF Apart, Rivals, SameProvider, Key, ConnectionInv, Distinct
  <2>2. AddressAfter(r) = address[k] \/ AddressAfter(r) \notin Bears(j)
      BY <1>0, <2>1 DEF AddressFree, AddressAfter, Written
  <2> QED BY <1>3, <1>4, <2>1, <2>2
<1> QED
  <2> SUFFICES ASSUME NEW i \in Keys, NEW j \in Keys, Apart(i, j)
               PROVE  Bears(i)' \cap Bears(j)' \subseteq {None}
      BY DEF Distinct, Apart, SameProvider
  <2>1. CASE i = k
      BY <1>5, <2>1
  <2>2. CASE j = k
      BY <1>5, <2>2
  <2>3. CASE i # k /\ j # k
      BY <1>3, <2>3 DEF ConnectionInv, Distinct
  <2> QED BY <2>1, <2>2, <2>3

\* One session goes on or ends.
LEMMA OneSession ==
    ASSUME ConnectionInv, AccountInv', NEW r \in Requests,
           RowTypes',
           \A q \in Requests \ {r} :
               /\ req'[q] = req[q]
               /\ \/ work'[q] = work[q] /\
                       (work[q].quiet => \A k \in Keys : k[1] = req[q].user =>
                           status'[k] = status[k] /\ cred'[k] = cred[k])
                  \/ work'[q] = [work[q] EXCEPT !.quiet = FALSE],
           \A k \in Keys :
               /\ status[k] # "absent" => status'[k] # "absent"
               /\ status[k] = "absent" /\ status'[k] # "absent" => rowLock[k] = r
               /\ \/ rowLock'[k] = rowLock[k] /\ rowLock[k] # r
                  \/ rowLock'[k] = None /\ rowLock[k] \in {r, None}
                  \/ rowLock'[k] = r /\ rowLock[k] \in {r, None} /\ Key(r)' = k /\ Holds(r)'
               /\ status'[k] = "absent" => cred'[k] = None
               /\ status'[k] = "absent" <=> address'[k] = None
               /\ cred'[k] \in {None, k[1]},
           Distinct', Knows(r)'
    PROVE  ConnectionInv'
<1>1. ASSUME NEW q \in Requests PROVE Knows(q)'
  <2>1. CASE q = r
      BY <2>1
  <2>2. CASE q # r
    <3>1. /\ req'[q] = req[q]
          /\ work'[q] = work[q] \/ work'[q] = [work[q] EXCEPT !.quiet = FALSE]
        BY <2>2
    <3>2. \A k \in Keys :
              /\ status[k] # "absent" => status'[k] # "absent"
              /\ rowLock[k] = q => rowLock'[k] = q /\ (status[k] = "absent" => status'[k] = "absent")
        BY <2>2, AccountAssumption
    <3>3. ASSUME NEW k \in Keys, k[1] = req[q].user, work'[q] = work[q], work[q].quiet
          PROVE  status'[k] = status[k] /\ cred'[k] = cred[k]
      <4>1. CASE work'[q] = [work[q] EXCEPT !.quiet = FALSE]
        <5>1. work[q] \in Rec
            BY DEF ConnectionInv, RowTypes
        <5>2. work'[q].quiet = FALSE
            BY <4>1, <5>1 DEF Rec
        <5> QED BY <3>3, <5>2
      <4> QED BY <2>2, <3>3, <4>1
    <3> QED BY <3>1, <3>2, <3>3, OthersKnow
  <2> QED BY <2>1, <2>2
<1>2. Locks'
    BY LocksAgree
<1>3. NoRowNoCred' /\ GrantedByOwner'
    BY DEF NoRowNoCred, GrantedByOwner
<1> QED BY <1>1, <1>2, <1>3 DEF ConnectionInv

\* One session goes on or ends, and no mailbox or credential is committed.
LEMMA NoCommit ==
    ASSUME ConnectionInv, AccountInv', NEW r \in Requests, NEW w \in Rec,
           \A q \in Requests \ {r} : req'[q] = req[q],
           work' = [work EXCEPT ![r] = w], UNCHANGED <<status, address, cred>>, flows' \subseteq users',
           \A k \in Keys :
               \/ rowLock'[k] = rowLock[k] /\ rowLock[k] # r
               \/ rowLock'[k] = None /\ rowLock[k] \in {r, None}
               \/ rowLock'[k] = r /\ rowLock[k] \in {r, None} /\ Key(r)' = k /\ Holds(r)',
           rowLock' \in [Keys -> Requests \cup {None}],
           Distinct', Knows(r)'
    PROVE  ConnectionInv'
<1>1. RowTypes'
    BY DEF ConnectionInv, RowTypes
<1>2. \A q \in Requests \ {r} : work'[q] = work[q]
    BY DEF ConnectionInv, RowTypes
<1>3. \A k \in Keys : /\ status[k] = "absent" => cred[k] = None
                      /\ status[k] = "absent" <=> address[k] = None
                      /\ cred[k] \in {None, k[1]}
    BY DEF ConnectionInv, NoRowNoCred, GrantedByOwner
<1> QED BY <1>1, <1>2, <1>3, OneSession

\* A session that holds no row, and goes on holding none.
LEMMA NoLock ==
    ASSUME ConnectionInv, AccountInv', NEW r \in Requests, NEW w \in Rec,
           ~Holds(r),
           \A q \in Requests \ {r} : req'[q] = req[q],
           work' = [work EXCEPT ![r] = w], UNCHANGED mailboxVars, flows' \subseteq users',
           Knows(r)'
    PROVE  ConnectionInv'
<1>1. UNCHANGED <<status, address, cred, rowLock>>
    BY DEF mailboxVars
<1>2. \A k \in Keys : rowLock'[k] = rowLock[k] /\ rowLock[k] # r
    BY <1>1 DEF ConnectionInv, Locks
<1>3. rowLock' \in [Keys -> Requests \cup {None}]
    BY <1>1 DEF ConnectionInv, RowTypes
<1>4. Distinct'
  <2>1. \A q \in Requests \ {r} : work'[q] = work[q]
      BY DEF ConnectionInv, RowTypes
  <2> QED BY <1>1, <1>2, <2>1, StaysDistinct
<1> QED BY <1>1, <1>2, <1>3, <1>4, NoCommit

\* A session that ends and commits nothing to the mailboxes: its rows are free.
LEMMA GivesUp ==
    ASSUME ConnectionInv, AccountInv', NEW r \in Requests,
           End(r), work' = [work EXCEPT ![r] = NoWork], UNCHANGED <<status, address, cred>>,
           rowLock' = Unlocked(r) \/ (UNCHANGED rowLock /\ ~Holds(r)), flows' \subseteq users'
    PROVE  ConnectionInv'
<1>1. /\ req'[r] = Idle /\ (\A q \in Requests \ {r} : req'[q] = req[q]) /\ work'[r] = NoWork
      /\ rowLock \in [Keys -> Requests \cup {None}]
    BY DEF End, ConnectionInv, AccountInv, RowTypes
<1>2. Knows(r)'
    BY <1>1, IdleRequest DEF Knows, Connecting
<1>3. CASE rowLock' = Unlocked(r)
  <2>1. \A k \in Keys : rowLock'[k] = IF rowLock[k] = r THEN None ELSE rowLock[k]
      BY <1>3 DEF Unlocked
  <2>2. rowLock' \in [Keys -> Requests \cup {None}]
      BY <1>1, <1>3 DEF Unlocked
  <2>3. Distinct'
    <3>1. \A q \in Requests \ {r} : work'[q] = work[q]
        BY DEF ConnectionInv, RowTypes
    <3>2. \A k \in Keys : address'[k] = address[k] /\ address[k] \in Bears(k)
        BY DEF Bears
    <3> QED BY <1>1, <2>1, <3>1, <3>2, StaysDistinct
  <2> QED BY <1>1, <1>2, <2>1, <2>2, <2>3, NoWorkIs, NoCommit
<1>4. CASE UNCHANGED rowLock /\ ~Holds(r)
    BY <1>1, <1>2, <1>4, NoWorkIs, NoLock DEF mailboxVars
<1> QED BY <1>3, <1>4

LEMMA ConnectionInit == Init => ConnectionInv
<1> SUFFICES ASSUME Init PROVE ConnectionInv
    OBVIOUS
<1>1. /\ \A r \in Requests : req[r] = Idle /\ work[r] = NoWork
      /\ \A k \in Keys : status[k] = "absent" /\ cred[k] = None /\ rowLock[k] = None /\ address[k] = None
    BY DEF Init, AccountInit
<1>2. AccountInv
    BY AccountInit1
<1>3. RowTypes
    BY NoWorkIs DEF Init, RowTypes, Statuses
<1>4. \A r \in Requests : Knows(r)
    BY <1>1, IdleRequest DEF Knows, Connecting
<1>5. Locks
    BY <1>1, AccountAssumption DEF Locks
<1>6. \A k \in Keys : Bears(k) = {None}
    BY <1>1 DEF Bears
<1> QED BY <1>1, <1>2, <1>3, <1>4, <1>5, <1>6
           DEF ConnectionInv, Distinct, NoRowNoCred, GrantedByOwner

LEMMA ReadingIs ==
    ASSUME RowTypes, NEW account \in ProviderAccounts \cup {None},
           NEW a \in Addresses \cup {None},
           NEW giver \in Users \cup {None}, NEW u \in Users, NEW xs \in SUBSET ProviderAccounts
    PROVE  /\ Reading(account, a, giver, u, xs) \in Rec
           /\ Reading(account, a, giver, u, xs).account = account
           /\ Reading(account, a, giver, u, xs).address = a
           /\ Reading(account, a, giver, u, xs).giver = giver
           /\ account # None => Reading(account, a, giver, u, xs).had = address[<<u, account>>]
           /\ \A y \in xs : Reading(account, a, giver, u, xs).found[y] = status[<<u, y>>]
<1> DEFINE none == [x \in ProviderAccounts |-> None]
           had == IF account = None THEN None ELSE address[<<u, account>>]
<1>1. Loaded(u, xs) \in [ProviderAccounts -> Statuses]
           /\ \A y \in xs : Loaded(u, xs)[y] = status[<<u, y>>]
  <2>1. \A y \in ProviderAccounts : <<u, y>> \in Keys
      BY DEF Keys
  <2> QED BY <2>1 DEF Loaded, Statuses, RowTypes
<1>2. /\ none \in [ProviderAccounts -> Users \cup {None}]
      /\ had \in Addresses \cup {None} /\ (account # None => had = address[<<u, account>>])
  <2>1. account # None => <<u, account>> \in Keys
      BY DEF Keys
  <2> QED BY <2>1 DEF RowTypes
<1> HIDE DEF none, had
<1>3. Reading(account, a, giver, u, xs)
        = [account |-> account, address |-> a, giver |-> giver, had |-> had,
           found |-> Loaded(u, xs), creds |-> none, quiet |-> TRUE]
    BY DEF Reading, none, had
<1> QED BY <1>1, <1>2, <1>3 DEF Rec

LEMMA ConnectionStep == ConnectionInv /\ [Next]_vars => ConnectionInv'
<1> SUFFICES ASSUME ConnectionInv, [Next]_vars PROVE ConnectionInv'
    OBVIOUS
<1>0. /\ AccountInv' /\ AccountInv /\ RowTypes /\ Locks /\ Distinct
      /\ req \in [Requests -> Request] /\ work \in [Requests -> Rec]
      /\ \A r \in Requests : Stage(r) /\ Knows(r)
      /\ flows \subseteq users
    BY AccountInvStep DEF ConnectionInv, AccountInv, RowTypes
\* The requests that have nothing to do with mailboxes.
<1>1. ASSUME NEW r \in Requests,
             \A q \in Requests \ {r} : req'[q] = req[q],
             req[r].kind \in {"idle", "register", "login", "logout", "consent"},
             req'[r].kind \in {"idle", "register", "login", "logout", "consent"},
             UNCHANGED <<status, address, cred, rowLock, work>>, flows' \subseteq users'
      PROVE  ConnectionInv'
  <2>1. work[r] = NoWork
      BY <1>0, <1>1 DEF Knows
  <2>2. work' = [work EXCEPT ![r] = NoWork]
      BY <1>0, <1>1, <2>1
  <2>3. ~Holds(r)
      BY <1>1 DEF Holds, Connecting
  <2>4. Knows(r)'
      BY <1>1, <2>1 DEF Knows, Connecting
  <2> QED BY <1>0, <1>1, <2>2, <2>3, <2>4, NoWorkIs, NoLock DEF mailboxVars
\* What the helpers do to req.
<1>2. ASSUME NEW r \in Requests, NEW x, Begin(r, x)
      PROVE  /\ req[r] = Idle /\ req'[r] = x /\ (\A q \in Requests \ {r} : req'[q] = req[q])
             /\ req[r].kind = "idle" /\ work[r] = NoWork /\ ~Holds(r)
    BY <1>0, <1>2, IdleRequest DEF Begin, Knows, Holds, Connecting
<1>3. ASSUME NEW r \in Requests, End(r)
      PROVE  /\ req'[r] = Idle /\ (\A q \in Requests \ {r} : req'[q] = req[q])
             /\ req'[r].kind = "idle"
    BY <1>0, <1>3, IdleRequest DEF End
<1>4. ASSUME NEW r \in Requests, NEW point, Goto(r, point)
      PROVE  /\ \A q \in Requests \ {r} : req'[q] = req[q]
             /\ req'[r].kind = req[r].kind /\ req'[r].user = req[r].user /\ req'[r].at = point
  <2>1. /\ req'[r] = [kind |-> req[r].kind, at |-> point, from |-> req[r].from,
                      user |-> req[r].user, sid |-> req[r].sid, found |-> req[r].found]
        /\ \A q \in Requests \ {r} : req'[q] = req[q]
      BY <1>0, <1>4, GotoIs
  <2> QED BY <2>1
<1>5. CASE AccountStep
  <2>1. UNCHANGED <<status, address, cred, rowLock, work, flows>>
      BY <1>5 DEF AccountStep, connectionVars, mailboxVars
  <2>2. ASSUME NEW r \in Requests, NEW b \in Browsers, NEW u \in Users, Register(r, b, u)
        PROVE  ConnectionInv'
    <3>1. \E x : Begin(r, x) /\ x.kind = "register"
        BY <2>2 DEF Register
    <3> QED BY <1>0, <1>1, <1>2, <2>1, <2>2, <3>1 DEF Register
  <2>3. ASSUME NEW r \in Requests, NEW b \in Browsers, NEW u \in Users, Login(r, b, u)
        PROVE  ConnectionInv'
    <3>1. \E x : Begin(r, x) /\ x.kind = "login"
        BY <2>3 DEF Login
    <3> QED BY <1>0, <1>1, <1>2, <2>1, <2>3, <3>1 DEF Login
  <2>4. ASSUME NEW r \in Requests, NEW b \in Browsers, Logout(r, b)
        PROVE  ConnectionInv'
    <3>1. \E x : Begin(r, x) /\ x.kind = "logout"
        BY <2>4 DEF Logout
    <3> QED BY <1>0, <1>1, <1>2, <2>1, <2>4, <3>1 DEF Logout
  <2>5. ASSUME NEW r \in Requests, InsertUser(r) PROVE ConnectionInv'
    <3>1. req[r].kind = "register"
        BY <1>0, <2>5 DEF InsertUser, Stage, Connecting, Idle, Request
    <3>2. PICK s \in Sessions : req' = [req EXCEPT ![r] = [req[r] EXCEPT !.at = "respond", !.sid = s]]
        BY <2>5, Zenon DEF InsertUser
    <3>3. req[r] \in Request
        BY <1>0
    <3>4. [req[r] EXCEPT !.at = "respond", !.sid = s]
            = [kind |-> req[r].kind, at |-> "respond", from |-> req[r].from,
               user |-> req[r].user, sid |-> s, found |-> req[r].found]
        BY <3>3, Seated, Zenon
    <3>5. req'[r].kind = "register" /\ \A q \in Requests \ {r} : req'[q] = req[q]
        BY <1>0, <3>1, <3>2, <3>4
    <3> QED BY <1>0, <1>1, <2>1, <2>5, <3>1, <3>5 DEF InsertUser
  <2>6. ASSUME NEW r \in Requests, InsertConflict(r) PROVE ConnectionInv'
    <3>1. req[r].kind = "register"
        BY <1>0, <2>6 DEF InsertConflict, Stage, Connecting, Idle, Request
    <3> QED BY <1>0, <1>1, <1>3, <2>1, <2>6, <3>1 DEF InsertConflict
  <2> QED BY <1>5, <2>2, <2>3, <2>4, <2>5, <2>6 DEF AccountStep
<1>6. ASSUME NEW r \in Requests, NEW b \in Browsers, OpenConsent(r, b) PROVE ConnectionInv'
  <2>1. \E x : Begin(r, x) /\ x.kind = "consent"
      BY <1>6 DEF OpenConsent, Authenticated
  <2> QED BY <1>0, <1>1, <1>2, <1>6, <2>1 DEF OpenConsent, connectionVars, mailboxVars
<1>7. ASSUME NEW r \in Requests, AnswerRequest(r) PROVE ConnectionInv'
  <2>1. req[r].at = "respond" /\ Goto(r, "commit") /\ UNCHANGED <<users, mailboxVars, work>>
      BY <1>7 DEF AnswerRequest, Respond
  <2>2. req[r].kind \in {"register", "login", "logout", "consent"}
      BY <1>0, <2>1 DEF Stage, Connecting, Idle, Request
  <2>3. flows' \subseteq users'
      BY <1>0, <1>7, <2>1 DEF AnswerRequest, Stage
  <2> QED BY <1>1, <1>4, <2>1, <2>2, <2>3 DEF mailboxVars
<1>8. ASSUME NEW r \in Requests, CommitAccount(r) PROVE ConnectionInv'
  <2>1. /\ req[r].at = "commit" /\ End(r) /\ users \subseteq users'
        /\ UNCHANGED <<status, address, cred, rowLock, work, flows>>
      BY <1>8 DEF CommitAccount, Commit, connectionVars, mailboxVars
  <2>2. req[r].kind \in {"register", "login", "logout", "consent"}
      BY <1>0, <1>8, <2>1 DEF CommitAccount, Stage, Connecting, Idle, Request
  <2> QED BY <1>0, <1>1, <1>3, <2>1, <2>2
<1>9. ASSUME NEW r \in Requests, FailRequest(r) PROVE ConnectionInv'
    BY <1>0, <1>9, GivesUp DEF FailRequest, Fail
<1>rest. ASSUME UNCHANGED <<users, req, status, address, cred, rowLock, work>>, flows' \subseteq flows
         PROVE  ConnectionInv'
  <2>1. RowTypes'
      BY <1>0, <1>rest DEF RowTypes
  <2>2. \A r \in Requests : Knows(r)'
      BY <1>0, <1>rest DEF Knows, KnowsMailbox, KnowsMailboxes, Key, Found, Connecting
  <2>3. Locks'
      BY <1>0, <1>rest DEF Locks, Holds, Key, Connecting
  <2>4. Distinct'
    <3>1. \A q \in Requests : AddressAfter(q)' = AddressAfter(q)
        BY <1>rest DEF AddressAfter, Key
    <3>2. \A k \in Keys : Bears(k)' = Bears(k)
        BY <1>0, <1>rest, <3>1 DEF Bears, RowTypes
    <3> QED BY <1>0, <3>2 DEF Distinct, Apart, SameProvider
  <2> QED BY <1>0, <1>rest, <2>1, <2>2, <2>3, <2>4 DEF ConnectionInv, NoRowNoCred, GrantedByOwner
<1>10. ASSUME NEW f \in Users, FlowEnds(f) PROVE ConnectionInv'
    BY <1>rest, <1>10 DEF FlowEnds, accountVars, mailboxVars
<1>11. CASE UNCHANGED vars
    BY <1>rest, <1>11 DEF vars, accountVars, connectionVars, mailboxVars
\* The sessions that begin by loading mailboxes.
<1>12. ASSUME NEW r \in Requests, NEW b \in Browsers, NEW kind \in {"callback", "imap"},
              NEW x \in ProviderAccounts, NEW a \in Addresses, Authenticated(r, b, kind, "flush"),
              work' = [work EXCEPT ![r] = Reading(x, a, owner[cookie[b]], owner[cookie[b]], {x})],
              UNCHANGED <<users, mailboxVars>>, flows' \subseteq flows
       PROVE  ConnectionInv'
  <2> DEFINE u == owner[cookie[b]]
             w == Reading(x, a, u, u, {x})
             k == <<u, x>>
  <2>1. u \in users /\ u \in Users
      BY <1>0, <1>12 DEF Authenticated, AccountInv, AccountTypeOK
  <2>2. k \in Keys
      BY <2>1 DEF Keys
  <2>3. /\ w \in Rec /\ w.account = x /\ w.giver = u /\ w.found[x] = status[k]
        /\ w.address = a /\ w.had = address[k]
      BY <1>0, <2>1, ReadingIs, ConnectionAssumption
  <2> HIDE DEF w
  <2>4. /\ \E y : Begin(r, y) /\ y.kind = kind /\ y.at = "flush" /\ y.user = u
        /\ work' = [work EXCEPT ![r] = w] /\ UNCHANGED status
      BY <1>12 DEF Authenticated, w, mailboxVars
  <2>5. /\ req'[r].kind = kind /\ req'[r].at = "flush" /\ req'[r].user = u /\ ~Holds(r)
        /\ \A q \in Requests \ {r} : req'[q] = req[q]
      BY <1>2, <2>4
  <2>6. work'[r] = w
      BY <1>0, <2>4
  <2>7. Key(r)' = k /\ Found(r)' = status[k] /\ Found(r)' = status'[k]
      BY <2>3, <2>4, <2>5, <2>6 DEF Key, Found
  <2>had. status[k] = "absent" => w.had = None
      BY <2>2, <2>3 DEF ConnectionInv, NoRowNoCred
  <2>8. KnowsMailbox(r)'
      BY <2>2, <2>3, <2>4, <2>5, <2>6, <2>7, <2>had DEF KnowsMailbox
  <2>9. Knows(r)'
      BY <2>5, <2>8 DEF Knows
  <2> QED BY <1>0, <1>12, <2>3, <2>4, <2>5, <2>9, NoLock
<1>13. ASSUME NEW r \in Requests, NEW b \in Browsers, NEW f \in Users, NEW x \in ProviderAccounts,
              NEW a \in Addresses, Callback(r, b, f, x, a)
       PROVE  ConnectionInv'
  <2>1. /\ Authenticated(r, b, "callback", "flush") /\ f = owner[cookie[b]]
        /\ work' = [work EXCEPT ![r] = Reading(x, a, f, owner[cookie[b]], {x})]
        /\ UNCHANGED <<users, mailboxVars>> /\ flows' \subseteq flows
      BY <1>13 DEF Callback, StateValid
  <2> QED BY <1>12, <2>1
<1>14. ASSUME NEW r \in Requests, NEW b \in Browsers, NEW x \in ProviderAccounts,
              NEW a \in Addresses, ImapConnect(r, b, x, a)
       PROVE  ConnectionInv'
  <2>1. /\ Authenticated(r, b, "imap", "flush")
        /\ work' = [work EXCEPT ![r] = Reading(x, a, owner[cookie[b]], owner[cookie[b]], {x})]
        /\ UNCHANGED <<users, mailboxVars>> /\ flows' \subseteq flows
      BY <1>14 DEF ImapConnect
  <2> QED BY <1>12, <2>1
<1>15. ASSUME NEW r \in Requests, NEW b \in Browsers, Disconnect(r, b) PROVE ConnectionInv'
  <2> DEFINE u == owner[cookie[b]]
             w == Reading(None, None, None, u, GmailAccounts)
  <2>1. u \in users /\ u \in Users
      BY <1>0, <1>15 DEF Disconnect, Authenticated, AccountInv, AccountTypeOK
  <2>2. w \in Rec /\ \A y \in GmailAccounts : w.found[y] = status[<<u, y>>]
    <3>1. GmailAccounts \in SUBSET ProviderAccounts
        BY DEF ProviderAccounts
    <3>2. None \in ProviderAccounts \cup {None} /\ None \in Users \cup {None}
          /\ None \in Addresses \cup {None}
        OBVIOUS
    <3>3. RowTypes
        BY <1>0
    <3>4. ASSUME NEW v \in Users
          PROVE  /\ Reading(None, None, None, v, GmailAccounts) \in Rec
                 /\ \A y \in GmailAccounts :
                       Reading(None, None, None, v, GmailAccounts).found[y] = status[<<v, y>>]
      <4> HIDE DEF w, u
      <4>1. Reading(None, None, None, v, GmailAccounts) \in Rec
          BY <3>1, <3>2, <3>3, ReadingIs
      <4>2. ASSUME NEW y \in GmailAccounts
            PROVE  Reading(None, None, None, v, GmailAccounts).found[y] = status[<<v, y>>]
        <5>1. <<v, y>> \in Keys /\ y \in ProviderAccounts
            BY <3>1 DEF Keys
        <5> QED BY <5>1 DEF Reading, Loaded
      <4> QED BY <4>1, <4>2
    <3> QED BY <2>1, <3>4
  <2> HIDE DEF w
  <2>3. /\ \E y : Begin(r, y) /\ y.kind = "disconnect" /\ y.at = "credentials" /\ y.user = u
        /\ work' = [work EXCEPT ![r] = w] /\ UNCHANGED <<status, mailboxVars, flows, users>>
      BY <1>15 DEF Disconnect, Authenticated, w, mailboxVars
  <2>4. /\ req'[r].kind = "disconnect" /\ req'[r].at = "credentials" /\ req'[r].user = u
        /\ ~Holds(r) /\ \A q \in Requests \ {r} : req'[q] = req[q]
      BY <1>2, <2>3
  <2>5. work'[r] = w
      BY <1>0, <2>3
  <2>6. KnowsMailboxes(r)'
      BY <2>2, <2>3, <2>4, <2>5 DEF KnowsMailboxes
  <2>7. Knows(r)'
      BY <2>4, <2>6 DEF Knows, Connecting
  <2> QED BY <1>0, <2>2, <2>3, <2>4, <2>7, NoLock
<1>16. ASSUME NEW r \in Requests, NEW k \in Keys, BeginSync(r, k) PROVE ConnectionInv'
  <2> DEFINE w == [NoWork EXCEPT !.account = k[2]]
  <2>1. k[2] \in ProviderAccounts /\ k[1] \in Users /\ k = <<k[1], k[2]>>
      BY DEF Keys
  <2>2. w \in Rec /\ w.account = k[2] /\ w.address = w.had
      BY <2>1, NoWorkIs
  <2> HIDE DEF w
  <2>3. /\ \E y : Begin(r, y) /\ y.kind = "sync" /\ y.at = "lock" /\ y.user = k[1]
        /\ work' = [work EXCEPT ![r] = w] /\ UNCHANGED <<status, mailboxVars, flows, users>>
        /\ status[k] = "active"
      BY <1>16 DEF BeginSync, w, mailboxVars
  <2>4. /\ req'[r].kind = "sync" /\ req'[r].at = "lock" /\ req'[r].user = k[1]
        /\ ~Holds(r) /\ \A q \in Requests \ {r} : req'[q] = req[q]
      BY <1>2, <2>3
  <2>5. work'[r] = w
      BY <1>0, <2>3
  <2>6. Key(r)' = k
      BY <2>1, <2>2, <2>4, <2>5 DEF Key
  <2>7. Knows(r)'
      BY <2>2, <2>3, <2>4, <2>5, <2>6 DEF Knows, Connecting
  <2> QED BY <1>0, <2>2, <2>3, <2>4, <2>7, NoLock
\* A connection reads its row, or is about to have one.
<1>17. ASSUME NEW r \in Requests, MailboxConflict(r) PROVE ConnectionInv'
  <2>1. ~Holds(r)
      BY <1>17 DEF MailboxConflict, Holds, Connecting
  <2> QED BY <1>0, <1>17, <2>1, GivesUp DEF MailboxConflict, mailboxVars
\* A session that holds or takes the row of its mailbox and goes on.
<1>18. ASSUME NEW r \in Requests, NEW point, Goto(r, point), UNCHANGED <<users, status, address, cred, flows, work>>,
              Connecting(r) \/ req[r].kind = "sync",
              \/ UNCHANGED rowLock /\ (~Holds(r) \/ Holds(r)')
              \/ /\ rowLock[Key(r)] = None /\ rowLock' = [rowLock EXCEPT ![Key(r)] = r]
                 /\ Holds(r)' /\ ~Holds(r),
              Connecting(r) /\ point = "commit" /\ Found(r) = "absent" =>
                  rowLock'[Key(r)] = r /\ status[Key(r)] = "absent",
              Connecting(r) /\ point = "commit" =>
                  rowLock'[Key(r)] = r \/ work[r].address = work[r].had,
              UNCHANGED rowLock \/ AddressFree(r)
       PROVE  ConnectionInv'
  <2>1. /\ \A q \in Requests \ {r} : req'[q] = req[q]
        /\ req'[r].kind = req[r].kind /\ req'[r].user = req[r].user /\ req'[r].at = point
      BY <1>4, <1>18
  <2>2. work' = [work EXCEPT ![r] = work[r]] /\ work[r] \in Rec
      BY <1>0, <1>18
  <2>3. Key(r)' = Key(r) /\ Found(r)' = Found(r) /\ (Connecting(r)' <=> Connecting(r))
      BY <1>18, <2>1 DEF Key, Found, Connecting
  <2>4. Knows(r) /\ Key(r) \in Keys
      BY <1>0, <1>18 DEF Knows, KnowsMailbox
  <2>5. Knows(r)'
    <3>1. CASE Connecting(r)
      <4>1. req[r].kind \in {"callback", "imap"} /\ req[r].at \in {"flush", "commit"}
          BY <1>0, <3>1 DEF Connecting, Stage
      <4>2. KnowsMailbox(r)
          BY <2>4, <3>1 DEF Knows
      <4>3. KnowsMailbox(r)'
          BY <1>18, <2>1, <2>3, <3>1, <4>2 DEF KnowsMailbox
      <4> QED BY <2>1, <4>1, <4>3 DEF Knows
    <3>2. CASE req[r].kind = "sync"
        BY <1>18, <2>1, <2>3, <2>4, <3>2 DEF Knows, Connecting
    <3> QED BY <1>18, <3>1, <3>2
  <2>6. \A k \in Keys :
            \/ rowLock'[k] = rowLock[k] /\ rowLock[k] # r
            \/ rowLock'[k] = None /\ rowLock[k] \in {r, None}
            \/ rowLock'[k] = r /\ rowLock[k] \in {r, None} /\ Key(r)' = k /\ Holds(r)'
    <3>1. \A k \in Keys : rowLock[k] = r => Key(r) = k /\ Holds(r)
        BY <1>0 DEF Locks
    <3>2. CASE UNCHANGED rowLock /\ (~Holds(r) \/ Holds(r)')
        BY <2>3, <3>1, <3>2
    <3>3. CASE /\ rowLock[Key(r)] = None /\ rowLock' = [rowLock EXCEPT ![Key(r)] = r]
               /\ Holds(r)' /\ ~Holds(r)
      <4> SUFFICES ASSUME NEW k \in Keys
                   PROVE  \/ rowLock'[k] = rowLock[k] /\ rowLock[k] # r
                          \/ rowLock'[k] = r /\ rowLock[k] \in {r, None} /\ Key(r)' = k /\ Holds(r)'
          OBVIOUS
      <4>1. CASE k = Key(r)
          BY <1>0, <2>3, <2>4, <3>3, <4>1 DEF RowTypes
      <4>2. CASE k # Key(r)
          BY <1>0, <2>4, <3>1, <3>3, <4>2 DEF RowTypes
      <4> QED BY <4>1, <4>2
    <3> QED BY <1>18, <3>2, <3>3
  <2>7. rowLock' \in [Keys -> Requests \cup {None}]
      BY <1>0, <1>18 DEF RowTypes
  <2>8. Distinct'
    <3>1. \A q \in Requests : req'[q].user = req[q].user
        BY <2>1
    <3>2. CASE UNCHANGED rowLock
      <4>1. \A q \in Requests : AddressAfter(q)' = AddressAfter(q)
          BY <1>18, <3>1 DEF AddressAfter, Key
      <4>2. \A k \in Keys : Bears(k)' = Bears(k)
          BY <1>0, <1>18, <3>2, <4>1 DEF Bears, RowTypes
      <4> QED BY <1>0, <4>2 DEF Distinct, Apart, SameProvider
    <3>3. CASE /\ rowLock[Key(r)] = None /\ rowLock' = [rowLock EXCEPT ![Key(r)] = r]
               /\ AddressFree(r)
        BY <1>18, <2>4, <3>1, <3>3, TakesDistinct
    <3> QED BY <1>18, <3>2, <3>3
  <2> QED BY <1>0, <1>18, <2>1, <2>2, <2>5, <2>6, <2>7, <2>8, NoCommit
<1>19. ASSUME NEW r \in Requests, InsertMailbox(r) PROVE ConnectionInv'
  <2>0. /\ Connecting(r) /\ req[r].at = "flush" /\ Goto(r, "commit") /\ Found(r) = "absent"
        /\ rowLock' = [rowLock EXCEPT ![Key(r)] = r] /\ AddressFree(r)
        /\ status[Key(r)] = "absent" /\ rowLock[Key(r)] = None
        /\ UNCHANGED <<users, status, address, cred, flows, work>>
      BY <1>19 DEF InsertMailbox, Found
  <2>1. Key(r) \in Keys
      BY <1>0, <2>0 DEF Knows, KnowsMailbox
  <2>2. ~Holds(r) /\ Holds(r)'
    <3>1. req'[r].kind = req[r].kind /\ req'[r].at = "commit"
        BY <1>4, <2>0
    <3> QED BY <2>0, <3>1 DEF Holds, Connecting
  <2>3. rowLock'[Key(r)] = r
      BY <1>0, <2>0, <2>1 DEF RowTypes
  <2> QED BY <1>18, <2>0, <2>2, <2>3
<1>20. ASSUME NEW r \in Requests, NEW c \in BOOLEAN, UpdateMailbox(r, c) PROVE ConnectionInv'
  <2>0. /\ Connecting(r) /\ req[r].at = "flush" /\ Goto(r, "commit") /\ Found(r) # "absent"
        /\ \/ UNCHANGED rowLock /\ work[r].address = work[r].had
           \/ /\ rowLock[Key(r)] = None /\ rowLock' = [rowLock EXCEPT ![Key(r)] = r]
              /\ AddressFree(r)
        /\ UNCHANGED <<users, status, address, cred, flows, work>>
      BY <1>20 DEF UpdateMailbox, Found
  <2>1. ~Holds(r) /\ Holds(r)'
    <3>1. req'[r].kind = req[r].kind /\ req'[r].at = "commit"
        BY <1>4, <2>0
    <3> QED BY <2>0, <3>1 DEF Holds, Connecting
  <2>2. Key(r) \in Keys
      BY <1>0, <2>0 DEF Knows, KnowsMailbox
  <2>3. rowLock'[Key(r)] = r \/ work[r].address = work[r].had
      BY <1>0, <2>0, <2>2 DEF RowTypes
  <2> QED BY <1>18, <2>0, <2>1, <2>3
<1>21. ASSUME NEW r \in Requests, FlushSync(r) PROVE ConnectionInv'
  <2>0. /\ req[r].at = "lock" /\ Goto(r, "call") /\ rowLock[Key(r)] = None
        /\ rowLock' = [rowLock EXCEPT ![Key(r)] = r]
        /\ UNCHANGED <<users, status, address, cred, flows, work>>
      BY <1>21 DEF FlushSync
  <2>1. req[r].kind = "sync"
      BY <1>0, <2>0 DEF Stage, Connecting, Request, Idle
  <2>2. ~Holds(r) /\ Holds(r)'
    <3>1. req'[r].kind = req[r].kind /\ req'[r].at = "call"
        BY <1>4, <2>0
    <3> QED BY <2>0, <2>1, <3>1 DEF Holds, Connecting
  <2>3. AddressFree(r)
      BY <1>0, <2>1 DEF Knows, AddressFree
  <2> QED BY <1>18, <2>0, <2>1, <2>2, <2>3 DEF Connecting
<1>22. ASSUME NEW r \in Requests, NEW c \in BOOLEAN, CallProvider(r, c) PROVE ConnectionInv'
  <2>0. /\ req[r].at = "call" /\ UNCHANGED <<users, status, address, cred, rowLock, flows, work>>
        /\ \E point \in {"report", "end"} : Goto(r, point)
      BY <1>22 DEF CallProvider, connectionVars, mailboxVars
  <2>1. PICK point \in {"report", "end"} : Goto(r, point)
      BY <2>0
  <2>2. req[r].kind = "sync"
      BY <1>0, <2>0 DEF Stage, Connecting, Request, Idle
  <2>3. Holds(r)'
    <3>1. req'[r].kind = req[r].kind /\ req'[r].at = point
        BY <1>4, <2>1
    <3> QED BY <2>1, <2>2, <3>1 DEF Holds
  <2> QED BY <1>18, <2>0, <2>1, <2>2, <2>3 DEF Connecting
<1>23. ASSUME NEW r \in Requests, LoadCredentials(r) PROVE ConnectionInv'
  <2> DEFINE loaded == [x \in ProviderAccounts |->
                          IF x \in GmailAccounts THEN cred[<<req[r].user, x>>] ELSE None]
             w == [work[r] EXCEPT !.creds = loaded]
  <2>0. /\ req[r].at = "credentials" /\ Goto(r, "commit")
        /\ work' = [work EXCEPT ![r] = w]
        /\ UNCHANGED <<users, status, address, cred, rowLock, mailboxVars, flows>>
      BY <1>23 DEF LoadCredentials, mailboxVars
  <2>1. req[r].kind = "disconnect" /\ req[r].user \in Users /\ work[r] \in Rec
    <3>1. req[r].kind = "disconnect"
        BY <1>0, <2>0 DEF Stage, Connecting, Request, Idle
    <3> QED BY <1>0, <3>1 DEF Stage, AccountInv, AccountTypeOK
  <2>2. \A x \in GmailAccounts : <<req[r].user, x>> \in Keys /\ x \in ProviderAccounts
      BY <2>1 DEF Keys, ProviderAccounts
  <2>3. /\ loaded \in [ProviderAccounts -> Users \cup {None}]
        /\ \A x \in GmailAccounts : loaded[x] = cred[<<req[r].user, x>>]
      BY <1>0, <2>2 DEF RowTypes
  <2> HIDE DEF loaded
  <2>4. /\ w \in Rec /\ w.found = work[r].found /\ w.creds = loaded
        /\ w.quiet = work[r].quiet
      BY <2>1, <2>3 DEF Rec
  <2> HIDE DEF w
  <2>5. /\ \A q \in Requests \ {r} : req'[q] = req[q]
        /\ req'[r].kind = "disconnect" /\ req'[r].user = req[r].user /\ req'[r].at = "commit"
      BY <1>4, <2>0, <2>1
  <2>6. work'[r] = w
      BY <1>0, <2>0
  <2>7. KnowsMailboxes(r)
      BY <1>0, <2>1 DEF Knows
  <2>8. KnowsMailboxes(r)'
      BY <2>0, <2>3, <2>4, <2>5, <2>6, <2>7 DEF KnowsMailboxes
  <2>9. Knows(r)' /\ ~Holds(r)
      BY <2>1, <2>5, <2>8 DEF Knows, Connecting, Holds
  <2> QED BY <1>0, <2>0, <2>4, <2>5, <2>9, NoLock
\* A session that commits changes to mailboxes or credentials, all in rows: its
\* own lock is given back, and none of the rows is of another session's.
<1>24. ASSUME NEW r \in Requests, NEW rows \in SUBSET Keys, End(r),
              work' = Disturbed([work EXCEPT ![r] = NoWork], r, rows),
              status' \in [Keys -> Statuses], cred' \in [Keys -> Users \cup {None}],
              address' \in [Keys -> Addresses \cup {None}],
              \A k \in Keys \ rows : /\ status'[k] = status[k] /\ cred'[k] = cred[k]
                                     /\ address'[k] = address[k],
              \A k \in rows :
                  /\ address'[k] # None
                  /\ address'[k] = address[k] \/ (rowLock[k] = r /\ address'[k] \in Bears(k)),
              \A k \in rows :
                  /\ status'[k] # "absent" /\ (status[k] = "absent" => rowLock[k] = r)
                  /\ cred'[k] \in {cred[k], None, k[1]},
              rowLock' = Unlocked(r) \/ (UNCHANGED rowLock /\ ~Holds(r)),
              UNCHANGED flows, users \subseteq users'
       PROVE  ConnectionInv'
  <2>1. /\ req'[r] = Idle /\ req'[r].kind = "idle"
        /\ \A q \in Requests \ {r} : req'[q] = req[q]
      BY <1>3, <1>24
  <2>2. /\ work' \in [Requests -> Rec] /\ work'[r] = NoWork
        /\ \A q \in Requests \ {r} :
             \/ work'[q] = work[q] /\ \A k \in rows : req[q].user # k[1]
             \/ work'[q] = [work[q] EXCEPT !.quiet = FALSE]
      BY <1>0, <1>24, DisturbedIs
  <2>3. /\ rowLock' \in [Keys -> Requests \cup {None}]
        /\ \A k \in Keys : \/ rowLock'[k] = rowLock[k] /\ rowLock[k] # r
                           \/ rowLock'[k] = None /\ rowLock[k] \in {r, None}
    <3>1. CASE rowLock' = Unlocked(r)
        BY <1>0, <3>1 DEF Unlocked, RowTypes
    <3>2. CASE UNCHANGED rowLock /\ ~Holds(r)
        BY <1>0, <3>2 DEF Locks, RowTypes
    <3> QED BY <1>24, <3>1, <3>2
  <2>4. RowTypes'
      BY <1>0, <1>24, <2>2, <2>3 DEF RowTypes
  <2>5. ASSUME NEW q \in Requests \ {r}
        PROVE  \/ work'[q] = work[q] /\
                    (work[q].quiet => \A k \in Keys : k[1] = req[q].user =>
                        status'[k] = status[k] /\ cred'[k] = cred[k])
               \/ work'[q] = [work[q] EXCEPT !.quiet = FALSE]
      BY <1>24, <2>2
  <2>6. \A k \in Keys :
            /\ status[k] # "absent" => status'[k] # "absent"
            /\ status[k] = "absent" /\ status'[k] # "absent" => rowLock[k] = r
            /\ status'[k] = "absent" => cred'[k] = None
            /\ status'[k] = "absent" <=> address'[k] = None
            /\ cred'[k] \in {None, k[1]}
      BY <1>24 DEF ConnectionInv, NoRowNoCred, GrantedByOwner
  <2>7. Distinct'
    <3>1. \A k \in Keys : address[k] \in Bears(k)
        BY DEF Bears
    <3>2. \A k \in Keys :
              \/ rowLock'[k] = rowLock[k] /\ rowLock[k] # r /\ address'[k] = address[k]
              \/ rowLock'[k] = None /\ address'[k] \in Bears(k)
        BY <1>24, <2>3, <3>1, AccountAssumption
    <3> QED BY <2>1, <2>2, <3>2, StaysDistinct
  <2>8. Knows(r)'
      BY <2>1, <2>2 DEF Knows, Connecting
  <2> QED BY <1>0, <2>1, <2>3, <2>4, <2>5, <2>6, <2>7, <2>8, OneSession
<1>25. ASSUME NEW r \in Requests, NEW token \in BOOLEAN, CommitConnect(r, token)
       PROVE  ConnectionInv'
  <2> DEFINE k == Key(r)
             f == Found(r)
  <2>0. /\ Connecting(r) /\ req[r].at = "commit" /\ End(r) /\ users \subseteq users'
        /\ status' = [status EXCEPT ![k] = Connected(f, status[k])]
        /\ cred' = [cred EXCEPT ![k] = IF token THEN work[r].giver ELSE cred[k]]
        /\ address' = [address EXCEPT ![k] = AddressAfter(r)]
        /\ work' = Disturbed([work EXCEPT ![r] = NoWork], r, {k})
        /\ rowLock' = Unlocked(r) /\ UNCHANGED flows
    <3>1. /\ status' = [status EXCEPT ![k] = Connected(f, @)]
          /\ cred' = [cred EXCEPT ![k] = IF token THEN work[r].giver ELSE @]
        BY <1>25 DEF CommitConnect, Found
    <3> QED BY <1>25, <3>1 DEF CommitConnect, Commit
  <2>1. /\ k \in Keys /\ k[1] = req[r].user /\ work[r].giver = req[r].user
        /\ f # "absent" => status[k] # "absent"
        /\ f = "absent" => rowLock[k] = r /\ work[r].had = None
        /\ work[r].address \in Addresses
        /\ rowLock[k] = r \/ work[r].address = work[r].had
      BY <1>0, <2>0 DEF Knows, KnowsMailbox, Key
  <2>addr. /\ AddressAfter(r) \in Addresses
           /\ AddressAfter(r) = address[k] \/ (rowLock[k] = r /\ AddressAfter(r) \in Bears(k))
    <3>1. /\ AddressAfter(r) = IF work[r].had = work[r].address THEN address[k] ELSE work[r].address
          /\ address[k] \in Addresses \cup {None} /\ (status[k] # "absent" => address[k] # None)
        BY <1>0, <2>1 DEF AddressAfter, Written, RowTypes, ConnectionInv, NoRowNoCred
    <3>2. AddressAfter(r) \in Addresses
        BY <2>1, <3>1, ConnectionAssumption
    <3>3. rowLock[k] = r => AddressAfter(r) \in Bears(k)
        BY AccountAssumption DEF Bears
    <3> QED BY <2>1, <3>1, <3>2, <3>3
  <2>2. k[1] \in Users
      BY <2>1 DEF Keys
  <2> HIDE DEF k, f
  <2>3. status[k] \in Statuses /\ Connected(f, status[k]) \in Statuses \ {"absent"}
      BY <1>0, <2>1 DEF Connected, Written, Statuses, RowTypes
  <2>4. /\ status' \in [Keys -> Statuses] /\ cred' \in [Keys -> Users \cup {None}]
        /\ address' \in [Keys -> Addresses \cup {None}]
      BY <1>0, <2>0, <2>1, <2>2, <2>3, <2>addr DEF RowTypes
  <2>set. /\ \A j \in Keys \ {k} : address'[j] = address[j]
          /\ address'[k] # None
          /\ address'[k] = address[k] \/ (rowLock[k] = r /\ address'[k] \in Bears(k))
      BY <1>0, <2>0, <2>1, <2>addr, ConnectionAssumption DEF RowTypes
  <2>5. /\ \A j \in Keys \ {k} : status'[j] = status[j] /\ cred'[j] = cred[j]
        /\ status'[k] # "absent" /\ (status[k] = "absent" => rowLock[k] = r)
        /\ cred'[k] \in {cred[k], None, k[1]}
      BY <1>0, <2>0, <2>1, <2>3 DEF RowTypes
  <2>6. {k} \in SUBSET Keys
      BY <2>1
  <2> QED BY <1>24, <2>0, <2>4, <2>set, <2>5, <2>6
<1>26. ASSUME NEW r \in Requests, CommitDisconnect(r) PROVE ConnectionInv'
  <2> DEFINE taken == {k \in Rows(r) : Taken(work[r].found[k[2]])}
             forgotten == {k \in taken : work[r].creds[k[2]] # None}
  <2>0. /\ req[r].kind = "disconnect" /\ End(r) /\ users \subseteq users'
        /\ status' = [k \in Keys |->
             IF k \in taken THEN Written(work[r].found[k[2]], status[k], "disconnected")
             ELSE status[k]]
        /\ cred' = [k \in Keys |-> IF k \in forgotten THEN None ELSE cred[k]]
        /\ work' = Disturbed([work EXCEPT ![r] = NoWork], r, taken)
        /\ UNCHANGED <<address, rowLock, flows>>
      BY <1>26 DEF CommitDisconnect, Commit
  <2>1. req[r].user \in Users /\ KnowsMailboxes(r) /\ ~Holds(r)
    <3>1. req[r].user \in users
        BY <1>0, <2>0 DEF Stage
    <3> QED BY <1>0, <2>0, <3>1 DEF Knows, Holds, Connecting, AccountInv, AccountTypeOK
  <2>2. taken \in SUBSET Keys /\ forgotten \subseteq taken
        /\ \A k \in taken : status[k] # "absent"
    <3>1. ASSUME NEW k \in taken PROVE k \in Keys /\ status[k] # "absent"
      <4>1. k = <<req[r].user, k[2]>> /\ k[2] \in GmailAccounts /\ work[r].found[k[2]] # "absent"
          BY DEF Rows, Taken
      <4> QED BY <2>1, <4>1 DEF Keys, ProviderAccounts, KnowsMailboxes
    <3> QED BY <3>1
  <2> HIDE DEF taken, forgotten
  <2>3. \A k \in Keys : status[k] \in Statuses /\ cred[k] \in Users \cup {None}
      BY <1>0 DEF RowTypes
  <2>4. /\ status' \in [Keys -> Statuses]
        /\ \A k \in Keys \ taken : status'[k] = status[k]
        /\ \A k \in taken : status'[k] # "absent"
      BY <2>0, <2>2, <2>3 DEF Written, Statuses
  <2>5. /\ cred' \in [Keys -> Users \cup {None}]
        /\ \A k \in Keys \ taken : cred'[k] = cred[k]
        /\ \A k \in taken : cred'[k] \in {cred[k], None, k[1]}
      BY <2>0, <2>2, <2>3
  <2>6. /\ address' = address /\ address \in [Keys -> Addresses \cup {None}]
        /\ \A k \in taken : address'[k] # None
      BY <1>0, <2>0, <2>2 DEF RowTypes, ConnectionInv, NoRowNoCred
  <2> QED BY <1>24, <2>0, <2>1, <2>2, <2>4, <2>5, <2>6
<1>27. ASSUME NEW r \in Requests, CommitSync(r) PROVE ConnectionInv'
  <2>1. CASE req[r].at = "report"
    <3> DEFINE k == Key(r)
    <3>0. /\ End(r) /\ users \subseteq users' /\ UNCHANGED <<address, cred, flows>>
          /\ status' = [status EXCEPT ![k] = Written("active", @, "reauth_required")]
          /\ work' = Disturbed([work EXCEPT ![r] = NoWork], r, {k})
          /\ rowLock' = Unlocked(r)
        BY <1>27, <2>1 DEF CommitSync
    <3>1. req[r].kind = "sync"
        BY <1>0, <2>1 DEF Stage, Connecting, Request, Idle
    <3>2. k \in Keys /\ status[k] # "absent"
        BY <1>0, <3>1 DEF Knows
    <3> HIDE DEF k
    <3>3. status' = [status EXCEPT ![k] = "reauth_required"]
        BY <3>0 DEF Written
    <3>4. /\ status' \in [Keys -> Statuses] /\ cred' \in [Keys -> Users \cup {None}]
          /\ status'[k] = "reauth_required" /\ \A j \in Keys \ {k} : status'[j] = status[j]
        BY <1>0, <3>0, <3>2, <3>3 DEF RowTypes, Statuses
    <3>5. address \in [Keys -> Addresses \cup {None}] /\ address[k] # None
        BY <1>0, <3>2 DEF RowTypes, ConnectionInv, NoRowNoCred
    <3> QED BY <1>24, <3>0, <3>2, <3>4, <3>5
  <2>2. CASE req[r].at # "report"
      BY <1>0, <1>27, <2>2, GivesUp DEF CommitSync
  <2> QED BY <2>1, <2>2
<1> QED
    BY <1>5, <1>6, <1>7, <1>8, <1>9, <1>10, <1>11, <1>13, <1>14, <1>15, <1>16, <1>17, <1>19,
       <1>20, <1>21, <1>22, <1>23, <1>25, <1>26, <1>27
       DEF Next, RequestStep, SyncStep

LEMMA ConnectionInvariance == Spec => []ConnectionInv
BY ConnectionInit, ConnectionStep, PTL DEF Spec

LEMMA QuietConnectStep == ConnectionInv /\ [Next]_vars => [
    \A r \in Requests, token \in BOOLEAN : CommitConnect(r, token) /\ work[r].quiet =>
         /\ status'[Key(r)] = "active"
         /\ token => cred'[Key(r)] = req[r].user]_vars
<1> SUFFICES ASSUME ConnectionInv, NEW r \in Requests, NEW token \in BOOLEAN,
                    CommitConnect(r, token), work[r].quiet
             PROVE  /\ status'[Key(r)] = "active"
                    /\ token => cred'[Key(r)] = req[r].user
    OBVIOUS
<1> DEFINE k == Key(r)
           f == Found(r)
<1>1. /\ status' = [status EXCEPT ![k] = Connected(f, @)]
      /\ cred' = [cred EXCEPT ![k] = IF token THEN work[r].giver ELSE @]
    BY DEF CommitConnect, Found
<1>2. /\ k \in Keys /\ work[r].giver = req[r].user
      /\ f = status[k]
    BY DEF CommitConnect, ConnectionInv, Knows, KnowsMailbox
<1>3. status \in [Keys -> Statuses] /\ cred \in [Keys -> Users \cup {None}]
    BY DEF ConnectionInv, RowTypes
<1> HIDE DEF k, f
<1>4. status'[k] = Connected(f, status[k]) /\ (token => cred'[k] = req[r].user)
    BY <1>1, <1>2, <1>3
<1>5. Connected(f, status[k]) = "active"
    BY <1>2 DEF Connected, Written
<1> QED BY <1>4, <1>5 DEF k

LEMMA QuietDisconnectStep == ConnectionInv /\ [Next]_vars => [
    \A r \in Requests : CommitDisconnect(r) /\ work[r].quiet =>
         \A k \in Rows(r) : cred'[k] = None /\ status'[k] \in {"absent", "disconnected"}]_vars
<1> SUFFICES ASSUME ConnectionInv, NEW r \in Requests, CommitDisconnect(r), work[r].quiet,
                    NEW k \in Rows(r)
             PROVE  cred'[k] = None /\ status'[k] \in {"absent", "disconnected"}
    OBVIOUS
<1> DEFINE taken == {j \in Rows(r) : Taken(work[r].found[j[2]])}
           forgotten == {j \in taken : work[r].creds[j[2]] # None}
<1>1. /\ req[r].kind = "disconnect" /\ req[r].at = "commit"
      /\ status' = [j \in Keys |->
           IF j \in taken THEN Written(work[r].found[j[2]], status[j], "disconnected")
           ELSE status[j]]
      /\ cred' = [j \in Keys |-> IF j \in forgotten THEN None ELSE cred[j]]
    BY DEF CommitDisconnect, Commit
<1>2. k = <<req[r].user, k[2]>> /\ k[2] \in GmailAccounts
    BY DEF Rows
<1>3. k \in Keys
  <2>1. req[r].user \in users
      BY <1>1 DEF ConnectionInv, AccountInv, Stage
  <2> QED BY <1>2, <2>1 DEF Keys, ProviderAccounts, ConnectionInv, AccountInv, AccountTypeOK
<1>4. work[r].found[k[2]] = status[k] /\ work[r].creds[k[2]] = cred[k]
  <2>1. KnowsMailboxes(r)
      BY <1>1 DEF ConnectionInv, Knows
  <2>2. /\ work[r].found[k[2]] = status[<<req[r].user, k[2]>>]
        /\ work[r].creds[k[2]] = cred[<<req[r].user, k[2]>>]
      BY <1>1, <1>2, <2>1 DEF KnowsMailboxes
  <2> QED BY <1>2, <2>2
<1>5. /\ k \in taken <=> work[r].found[k[2]] # "absent"
      /\ k \in forgotten <=> k \in taken /\ work[r].creds[k[2]] # None
    BY DEF Taken
<1>6. status[k] = "absent" => cred[k] = None
    BY <1>3 DEF ConnectionInv, NoRowNoCred
<1> HIDE DEF taken, forgotten
<1>7. cred'[k] = None
    BY <1>1, <1>3, <1>4, <1>5, <1>6
<1>8. status'[k] \in {"absent", "disconnected"}
    BY <1>1, <1>3, <1>4, <1>5 DEF Written
<1> QED BY <1>7, <1>8

\* A session that is open belongs to a user, a row is locked only by the session
\* that has flushed it and is on its way to a commit, and an idle request knows
\* nothing.
THEOREM TypeCorrect == Spec => []TypeOK
<1>1. ConnectionInv => TypeOK
  <2> SUFFICES ASSUME ConnectionInv PROVE TypeOK
      OBVIOUS
  <2>1. \A k \in Keys, r \in Requests : rowLock[k] = r =>
          Key(r) = k /\ req[r].at \in {"call", "report", "end", "commit"}
      BY DEF ConnectionInv, Locks, Holds
  <2>2. \A r \in Requests : req[r] = Idle => work[r] = NoWork
      BY IdleRequest DEF ConnectionInv, Knows
  <2> QED BY <2>1, <2>2 DEF ConnectionInv, AccountInv, RowTypes, TypeOK
<1> QED BY <1>1, ConnectionInvariance, PTL

\* Of any number of registrations of one e-mail address that all found no user,
\* at most one gets past the flush, and none when the user is there: the unique
\* index stands between the select and the commit.
THEOREM OneRegistration == Spec => []RegisteredOnce
<1>1. ConnectionInv => RegisteredOnce
    BY DEF ConnectionInv, AccountInv
<1> QED BY <1>1, ConnectionInvariance, PTL

\* However the requests that were under way when somebody logged out end, the
\* session stays revoked.
THEOREM Revoked == Spec => RevokedForever
<1>1. ConnectionInv /\ [Next]_vars =>
        [\A s \in Sessions : session[s] = "revoked" => session'[s] = "revoked"]_accountVars
    BY AccountInvStep DEF ConnectionInv, SessionsLast
<1> QED BY <1>1, ConnectionInvariance, PTL DEF Spec, RevokedForever

\* Whoever is logged in when Google's answer comes back, a stored credential is
\* one its owner gave.
THEOREM Granted == Spec => []GrantedByOwner
<1>1. ConnectionInv => GrantedByOwner
    BY DEF ConnectionInv
<1> QED BY <1>1, ConnectionInvariance, PTL

\* Whatever connections of new and of known accounts race, and whatever addresses
\* they bring, no two mailboxes of a user at a provider get one address.
THEOREM OneAddress == Spec => []AddressOnce
<1>1. ConnectionInv => AddressOnce
  <2> SUFFICES ASSUME ConnectionInv, NEW j \in Present, NEW k \in Present, j # k,
                      j[1] = k[1], SameProvider(j[2], k[2]), address[j] = address[k]
               PROVE  FALSE
      BY DEF AddressOnce
  <2>1. j \in Keys /\ k \in Keys /\ address[j] # None
      BY DEF Present, ConnectionInv, NoRowNoCred
  <2>2. address[j] \in Bears(j) \cap Bears(k)
      BY DEF Bears
  <2> QED BY <2>1, <2>2 DEF ConnectionInv, Distinct, Apart
<1> QED BY <1>1, ConnectionInvariance, PTL

\* A connection no other session has interfered with leaves the mailbox active
\* with the credential it was given, whatever earlier races have left there.
THEOREM QuietConnect == Spec => QuietConnectWorks
BY QuietConnectStep, ConnectionInvariance, PTL DEF Spec, QuietConnectWorks

\* A disconnection no other session has interfered with leaves no credential for
\* Gmail and no Gmail mailbox connected.
THEOREM QuietDisconnect == Spec => QuietDisconnectForgets
BY QuietDisconnectStep, ConnectionInvariance, PTL DEF Spec, QuietDisconnectForgets
=============================================================================
