------------------------------ MODULE Accounts ------------------------------
(***************************************************************************)
(* Registration, login, logout and the sessions every other request is     *)
(* authenticated by.  A request is one database session: it reads          *)
(* committed rows when it begins, flushes, answers, and get_db commits     *)
(* after the answer has left; a browser may send several at a time.        *)
(*                                                                         *)
(* users, session and owner hold the committed rows.  A user and an        *)
(* e-mail address are the same here: addresses are normalised and unique.  *)
(* Passwords and the hash of a token are left out, and so is the expiry of *)
(* a session: requests are refused then, and a refusal is no step.         *)
(***************************************************************************)
EXTENDS Naturals

CONSTANTS
    Users,     \* the e-mail addresses people register
    Sessions,  \* bound: the rows of sessions
    Browsers,
    Requests,  \* bound: the requests and tasks under way at a time
    None       \* no user, no session, no request

ASSUME AccountAssumption == None \notin Users \cup Sessions \cup Requests

VARIABLES
    users,    \* the committed users, each with its AuthAccount
    session,  \* the state of a row of sessions; "free": no row
    owner,    \* sessions.user_id
    cookie,   \* the session cookie of a browser
    req       \* the requests under way

accountVars == <<users, session, owner, cookie, req>>

States == {"free", "open", "revoked"}
Idle == [kind |-> "idle", at |-> "idle", from |-> None, user |-> None, sid |-> None,
         found |-> "free"]

AccountInit ==
    /\ users = {}
    /\ session = [s \in Sessions |-> "free"]
    /\ owner   = [s \in Sessions |-> None]
    /\ cookie  = [b \in Browsers |-> None]
    /\ req     = [r \in Requests |-> Idle]
-----------------------------------------------------------------------------
(* Helpers.  The definition after an "and" in a comment is the same code with a
   plausible mistake; nothing uses it but the mutation of the properties. *)

Begin(r, request) == req[r] = Idle /\ req' = [req EXCEPT ![r] = request]
Goto(r, point) == req' = [req EXCEPT ![r].at = point]
End(r) == req' = [req EXCEPT ![r] = Idle]

\* A row create_user_session can insert: no request has flushed one there, and
\* no browser has the token of one that was rolled back.
Fresh(s) ==
    /\ session[s] = "free"
    /\ \A r \in Requests : req[r].sid # s
    /\ \A b \in Browsers : cookie[b] # s

\* Somebody has flushed this user and not committed: users_email waits.
Claimed(u, r) ==
    \E q \in Requests \ {r} :
        req[q].kind = "register" /\ req[q].user = u /\ req[q].at \in {"respond", "commit"}

\* The email of a user is unique; and if only the select before guarded it.
Unguarded(u, r) == TRUE
Available(u, r) == u \notin users /\ ~Claimed(u, r)

\* The session row after a commit: logout has revoked it, any other request
\* writes last_used_at; and if that wrote all that the request had read.
WholeRow(r) == IF req[r].kind = "logout" THEN "revoked" ELSE req[r].found
SessionAfter(r) ==
    IF req[r].kind = "logout" THEN "revoked" ELSE session[req[r].sid]
-----------------------------------------------------------------------------
(* Registration and login. *)

\* register_user finds no user with the email.
Register(r, b, u) ==
    /\ u \notin users
    /\ Begin(r, [kind |-> "register", at |-> "insert", from |-> b, user |-> u, sid |-> None,
                 found |-> "free"])
    /\ UNCHANGED <<users, session, owner, cookie>>

\* The flushes of user, account and session.
InsertUser(r) ==
    /\ req[r].at = "insert" /\ Available(req[r].user, r)
    /\ \E s \in Sessions :
         Fresh(s) /\ req' = [req EXCEPT ![r].at = "respond", ![r].sid = s]
    /\ UNCHANGED <<users, session, owner, cookie>>

\* The IntegrityError of the first flush is not handled: a 500.
InsertConflict(r) ==
    /\ req[r].at = "insert" /\ req[r].user \in users
    /\ End(r)
    /\ UNCHANGED <<users, session, owner, cookie>>

\* authenticate_user, create_user_session.
Login(r, b, u) ==
    /\ u \in users
    /\ \E s \in Sessions :
         /\ Fresh(s)
         /\ Begin(r, [kind |-> "login", at |-> "respond", from |-> b, user |-> u, sid |-> s,
                      found |-> "free"])
    /\ UNCHANGED <<users, session, owner, cookie>>
-----------------------------------------------------------------------------
(* Requests with a cookie. *)

\* revoke_session_token looks for the row only: an expired session is revoked.
Logout(r, b) ==
    /\ cookie[b] # None
    /\ Begin(r, [kind |-> "logout", at |-> "respond", from |-> b, user |-> None,
                 sid |-> cookie[b], found |-> session[cookie[b]]])
    /\ UNCHANGED <<users, session, owner, cookie>>

\* get_current_user lets the request in (a step of the modules that extend this one).
Authenticated(r, b, kind, point) ==
    /\ cookie[b] # None /\ session[cookie[b]] = "open"
    /\ Begin(r, [kind |-> kind, at |-> point, from |-> b, user |-> owner[cookie[b]],
                 sid |-> cookie[b], found |-> "open"])

\* The answer, with set_session_cookie or clear_session_cookie.  That of a
\* request that changes nothing in the browser is left out.
Respond(r) ==
    /\ req[r].at = "respond"
    /\ cookie' = CASE req[r].kind \in {"register", "login"} ->
                        [cookie EXCEPT ![req[r].from] = req[r].sid]
                   [] req[r].kind = "logout" -> [cookie EXCEPT ![req[r].from] = None]
                   [] OTHER -> cookie
    /\ Goto(r, "commit")
    /\ UNCHANGED <<users, session, owner>>

\* get_db commits.
Commit(r) ==
    /\ req[r].at = "commit"
    /\ IF req[r].kind \in {"register", "login"}
       THEN /\ users' = users \cup {req[r].user}
            /\ session' = [session EXCEPT ![req[r].sid] = "open"]
            /\ owner' = [owner EXCEPT ![req[r].sid] = req[r].user]
       ELSE /\ session' = IF req[r].found = "free" THEN session
                          ELSE [session EXCEPT ![req[r].sid] = SessionAfter(r)]
            /\ UNCHANGED <<users, owner>>
    /\ End(r)
    /\ UNCHANGED cookie

\* An exception, or the process dies: a rollback, before or after the answer.
Fail(r) ==
    /\ req[r] # Idle
    /\ End(r)
    /\ UNCHANGED <<users, session, owner, cookie>>
-----------------------------------------------------------------------------
(* Properties. *)

\* A session that is open, or was, is one of a user.
AccountTypeOK ==
    /\ users \subseteq Users
    /\ session \in [Sessions -> States] /\ owner \in [Sessions -> Users \cup {None}]
    /\ \A s \in Sessions : session[s] = "free" \/ owner[s] \in users
    /\ cookie \in [Browsers -> Sessions \cup {None}]
    /\ \A r \in Requests :
         /\ req[r].user \in Users \cup {None} /\ req[r].sid \in Sessions \cup {None}
         /\ req[r].found \in States /\ req[r].from \in Browsers \cup {None}

\* A session that was revoked is never open again, though requests that began
\* before the logout write its row when they end: the browser that was logged
\* out stays so.
RevokedForever ==
    [][\A s \in Sessions : session[s] = "revoked" => session'[s] = "revoked"]_accountVars

\* Of two registrations of one email that both found no user, one commits: a
\* request that is going to answer "registered" has no rival, done or under way.
RegisteredOnce ==
    \A r \in Requests :
        req[r].kind = "register" /\ req[r].at \in {"respond", "commit"} =>
            req[r].user \notin users /\ ~Claimed(req[r].user, r)
=============================================================================
