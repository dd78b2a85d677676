---------------------------- MODULE Connections -----------------------------
(***************************************************************************)
(* Connecting mailboxes: the OAuth flow of Gmail and the form of IMAP, the *)
(* disconnection of Gmail, and the syncs that report that a mailbox needs  *)
(* a new authorisation.  The requests are those of Accounts.               *)
(*                                                                         *)
(* The rows of mailboxes and their credentials are found by user and       *)
(* account; status, address and cred are committed.  The address is what   *)
(* the form or Google says this time: another one for the same account, or *)
(* one for two accounts.  A session writes status and address only when    *)
(* the value it assigns differs from the one it loaded.  A credential is   *)
(* named after the user who gave it; the provider may refuse it at any     *)
(* time.  Its row is written by the sessions that write the mailbox, in    *)
(* the same order, so it needs no lock of its own here.                    *)
(***************************************************************************)
EXTENDS Accounts, FiniteSets

CONSTANTS
    GmailAccounts,  \* provider_account_id of the Google accounts there are
    ImapAccounts,   \* host:port:username of the IMAP accounts
    GmailAddresses, \* the e-mail addresses Google may say an account has
    ImapAddresses,  \* the e-mail addresses the form may say
    MaxMailboxes,   \* bound: rows of mailboxes before another INSERT
    MaxFlows        \* bound: OAuth states that are out

ProviderAccounts == GmailAccounts \cup ImapAccounts
Keys == Users \X ProviderAccounts
Addresses == GmailAddresses \cup ImapAddresses

ASSUME ConnectionAssumption ==
    /\ GmailAccounts \cap ImapAccounts = {} /\ None \notin ProviderAccounts \cup Addresses
    /\ MaxMailboxes \in Nat /\ MaxFlows \in Nat

VARIABLES
    status,   \* mailboxes.status; "absent": no row
    address,  \* mailboxes.email_address
    cred,     \* who gave the stored refresh token or password
    rowLock,  \* the session that has written the row and not committed
    flows,    \* the users whose OAuth state is out and has not expired
    work      \* what a session has got hold of

mailboxVars == <<status, address, cred, rowLock>>
connectionVars == <<mailboxVars, flows, work>>
vars == <<accountVars, connectionVars>>

Statuses == {"absent", "active", "reauth_required", "disconnected"}
\* account, address, giver: of a connection; had: the address it has loaded;
\* found, creds: as loaded, by account; quiet: no other session has committed to
\* these rows since.
NoWork == [account |-> None, address |-> None, giver |-> None, had |-> None,
           found |-> [x \in ProviderAccounts |-> "absent"],
           creds |-> [x \in ProviderAccounts |-> None], quiet |-> FALSE]

Init ==
    /\ AccountInit
    /\ status  = [k \in Keys |-> "absent"]
    /\ address = [k \in Keys |-> None]
    /\ cred    = [k \in Keys |-> None]
    /\ rowLock = [k \in Keys |-> None]
    /\ flows   = {}
    /\ work    = [r \in Requests |-> NoWork]
-----------------------------------------------------------------------------
(* Helpers.  The definition after an "and" in a comment is the same code with a
   plausible mistake; nothing uses it but the mutation of the properties. *)

Key(r) == <<req[r].user, work[r].account>>
Rows(r) == {req[r].user} \X GmailAccounts   \* the rows of a disconnection
Connecting(r) == req[r].kind \in {"callback", "imap"}

\* A column after a session that loaded it assigns new.
Written(found, now, new) == IF found = new THEN now ELSE new

\* validate_oauth_state: the state is of the current user; and if its signature
\* were all that counted.
AnyState(f, u) == TRUE
StateValid(f, u) == f = u

\* The status a connection leaves; and if it were set in new rows only.
ConnectedNew(found, now) == IF found = "absent" THEN "active" ELSE now
Connected(found, now) == Written(found, now, "active")

\* The rows disconnect_current_user_gmail takes: all; and the active ones.
TakenActive(f) == f = "active"
Taken(f) == f # "absent"

Present == {k \in Keys : status[k] # "absent"}
SameProvider(x, y) == x \in GmailAccounts <=> y \in GmailAccounts

\* The address of its row when a session commits; and the addresses a row has or
\* is being given.
AddressAfter(r) == Written(work[r].had, address[Key(r)], work[r].address)
Bears(k) == {address[k]} \cup {AddressAfter(q) : q \in {rowLock[k]} \ {None}}

\* The other mailboxes of the user at the provider.
Rivals(r) ==
    {k \in Keys : k # Key(r) /\ k[1] = req[r].user /\ SameProvider(k[2], work[r].account)}

\* mailboxes_user_provider_email_uq, which the migration declares and the model
\* class does not, lets an INSERT or an UPDATE of the address pass; and if new
\* rows only had been thought of.  It refuses them when the row in the way is
\* committed; when it is not, they wait.
AddressFreeNew(r) == work[r].had = None => \A k \in Rivals(r) : work[r].address \notin Bears(k)
AddressFree(r) ==
    work[r].address # work[r].had => \A k \in Rivals(r) : work[r].address \notin Bears(k)
AddressTaken(r) ==
    /\ work[r].address # work[r].had
    /\ \E k \in Rivals(r) : address[k] = work[r].address /\ rowLock[k] = None

\* The sessions that had loaded one of these rows are not alone any more.
Disturbed(w, r, rows) ==
    [q \in Requests |-> IF q # r /\ \E k \in rows : req[q].user = k[1]
                        THEN [w[q] EXCEPT !.quiet = FALSE] ELSE w[q]]

\* The rows a session gives back when it ends; and of one never closed.
KeptRows(p) == rowLock
Unlocked(p) == [k \in Keys |-> IF rowLock[k] = p THEN None ELSE rowLock[k]]
-----------------------------------------------------------------------------
(* The requests of Accounts, and GET /auth/gmail/login. *)

\* build_authorization_url: a state for the current user.
OpenConsent(r, b) ==
    /\ Cardinality(flows) < MaxFlows
    /\ Authenticated(r, b, "consent", "respond")
    /\ UNCHANGED <<users, session, owner, cookie, connectionVars>>

AnswerRequest(r) ==
    /\ Respond(r)
    /\ flows' = IF req[r].kind = "consent" THEN flows \cup {req[r].user} ELSE flows
    /\ UNCHANGED <<mailboxVars, work>>

CommitAccount(r) ==
    /\ ~Connecting(r) /\ req[r].kind # "disconnect"
    /\ Commit(r)
    /\ UNCHANGED connectionVars

FailRequest(r) ==
    /\ Fail(r)
    /\ work' = [work EXCEPT ![r] = NoWork]
    /\ rowLock' = Unlocked(r)
    /\ UNCHANGED <<status, address, cred, flows>>

\* STATE_TTL_SECONDS pass, or the user gives up.
FlowEnds(f) ==
    /\ f \in flows
    /\ flows' = flows \ {f}
    /\ UNCHANGED <<accountVars, mailboxVars, work>>
-----------------------------------------------------------------------------
(* Connections. *)

Loaded(u, xs) == [x \in ProviderAccounts |-> IF x \in xs THEN status[<<u, x>>] ELSE "absent"]
\* A session that has loaded the rows of u for xs, to connect account or to
\* disconnect (None).
Reading(account, a, giver, u, xs) ==
    [account |-> account, address |-> a, giver |-> giver,
     had |-> IF account = None THEN None ELSE address[<<u, account>>], found |-> Loaded(u, xs),
     creds |-> [x \in ProviderAccounts |-> None], quiet |-> TRUE]

\* Google sends the browser back with the state of f: connect_gmail_mailbox up to
\* the select.  A refusal of state, code or account writes nothing.
Callback(r, b, f, x, a) ==
    /\ f \in flows /\ x \in GmailAccounts /\ a \in GmailAddresses
    /\ Authenticated(r, b, "callback", "flush")
    /\ LET u == owner[cookie[b]] IN
        /\ StateValid(f, u)
        /\ work' = [work EXCEPT ![r] = Reading(x, a, f, u, {x})]
    /\ flows' = flows \ {f}
    /\ UNCHANGED <<users, session, owner, cookie, mailboxVars>>

\* connect_imap_mailbox, once the server has accepted the password.
ImapConnect(r, b, x, a) ==
    /\ x \in ImapAccounts /\ a \in ImapAddresses
    /\ Authenticated(r, b, "imap", "flush")
    /\ LET u == owner[cookie[b]] IN
        work' = [work EXCEPT ![r] = Reading(x, a, u, u, {x})]
    /\ UNCHANGED <<users, session, owner, cookie, mailboxVars, flows>>

\* The flush of the mailbox, then that of the credential.  A session that waits is
\* taken to hold nothing; of two that wait for each other PostgreSQL ends one,
\* which is a FailRequest.
InsertMailbox(r) ==
    /\ Connecting(r) /\ req[r].at = "flush"
    /\ work[r].found[work[r].account] = "absent"
    /\ status[Key(r)] = "absent" /\ rowLock[Key(r)] = None
    /\ AddressFree(r) /\ Cardinality(Present) < MaxMailboxes
    /\ rowLock' = [rowLock EXCEPT ![Key(r)] = r]
    /\ Goto(r, "commit")
    /\ UNCHANGED <<users, session, owner, cookie, status, address, cred, flows, work>>

\* An UPDATE without a changed column is none, and waits for nobody.
UpdateMailbox(r, changed) ==
    /\ Connecting(r) /\ req[r].at = "flush"
    /\ LET f == work[r].found[work[r].account] IN
        /\ f # "absent"
        /\ IF f # "active" \/ work[r].address # work[r].had \/ changed
           THEN /\ rowLock[Key(r)] = None /\ AddressFree(r)
                /\ rowLock' = [rowLock EXCEPT ![Key(r)] = r]
           ELSE UNCHANGED rowLock
    /\ Goto(r, "commit")
    /\ UNCHANGED <<users, session, owner, cookie, status, address, cred, flows, work>>

\* The IntegrityError, of an account that is there or of an address another
\* mailbox has, is not handled: a 500.
MailboxConflict(r) ==
    /\ Connecting(r) /\ req[r].at = "flush" /\ rowLock[Key(r)] = None
    /\ \/ work[r].found[work[r].account] = "absent" /\ status[Key(r)] # "absent"
       \/ AddressTaken(r)
    /\ End(r)
    /\ work' = [work EXCEPT ![r] = NoWork]
    /\ UNCHANGED <<users, session, owner, cookie, mailboxVars, flows>>

\* A token endpoint may leave out the refresh token: the old one is kept.
CommitConnect(r, token) ==
    /\ Connecting(r)
    /\ req[r].kind = "imap" => token
    /\ Commit(r)
    /\ LET k == Key(r) IN
        /\ status' = [status EXCEPT ![k] = Connected(work[r].found[work[r].account], @)]
        /\ address' = [address EXCEPT ![k] = AddressAfter(r)]
        /\ cred' = [cred EXCEPT ![k] = IF token THEN work[r].giver ELSE @]
        /\ work' = Disturbed([work EXCEPT ![r] = NoWork], r, {k})
    /\ rowLock' = Unlocked(r)
    /\ UNCHANGED flows

\* disconnect_current_user_gmail: the mailboxes, then their credentials.
Disconnect(r, b) ==
    /\ Authenticated(r, b, "disconnect", "credentials")
    /\ work' = [work EXCEPT ![r] = Reading(None, None, None, owner[cookie[b]],
                                               GmailAccounts)]
    /\ UNCHANGED <<users, session, owner, cookie, mailboxVars, flows>>

LoadCredentials(r) ==
    /\ req[r].at = "credentials"
    /\ work' = [work EXCEPT ![r].creds =
                               [x \in ProviderAccounts |->
                                    IF x \in GmailAccounts THEN cred[<<req[r].user, x>>] ELSE None]]
    /\ Goto(r, "commit")
    /\ UNCHANGED <<users, session, owner, cookie, mailboxVars, flows>>

\* get_db flushes and commits, when the rows it has changed are free.
CommitDisconnect(r) ==
    /\ req[r].kind = "disconnect"
    /\ Commit(r)
    /\ LET taken == {k \in Rows(r) : Taken(work[r].found[k[2]])}
           forgotten == {k \in taken : work[r].creds[k[2]] # None}
       IN
        /\ \A k \in taken : work[r].found[k[2]] # "disconnected" => rowLock[k] = None
        /\ status' = [k \in Keys |->
             IF k \in taken THEN Written(work[r].found[k[2]], status[k], "disconnected")
             ELSE status[k]]
        /\ cred' = [k \in Keys |-> IF k \in forgotten THEN None ELSE cred[k]]
        /\ work' = Disturbed([work EXCEPT ![r] = NoWork], r, taken)
    /\ UNCHANGED <<address, rowLock, flows>>
-----------------------------------------------------------------------------
(* The sync of a mailbox, as far as it concerns its authorisation. *)

BeginSync(r, k) ==
    /\ status[k] = "active"
    /\ \A q \in Requests : req[q].kind = "sync" => Key(q) # k
    /\ Begin(r, [kind |-> "sync", at |-> "lock", from |-> None, user |-> k[1], sid |-> None,
                 found |-> "free"])
    /\ work' = [work EXCEPT ![r] = [NoWork EXCEPT !.account = k[2]]]
    /\ UNCHANGED <<users, session, owner, cookie, mailboxVars, flows>>

\* The flush of last_sync_at takes the row.
FlushSync(r) ==
    /\ req[r].at = "lock" /\ rowLock[Key(r)] = None
    /\ rowLock' = [rowLock EXCEPT ![Key(r)] = r]
    /\ Goto(r, "call")
    /\ UNCHANGED <<users, session, owner, cookie, status, address, cred, flows, work>>

\* The credential is read and used.  Any error of the token endpoint and any of
\* an IMAP login count as a refusal; a credential that is missing does not.
CallProvider(r, refused) ==
    /\ req[r].at = "call"
    /\ refused => cred[Key(r)] # None
    /\ Goto(r, IF refused THEN "report" ELSE "end")
    /\ UNCHANGED <<users, session, owner, cookie, connectionVars>>

\* The commit, with the status the sync had found active.
CommitSync(r) ==
    /\ req[r].at \in {"report", "end"}
    /\ IF req[r].at = "report"
       THEN /\ status' = [status EXCEPT ![Key(r)] = Written("active", @, "reauth_required")]
            /\ work' = Disturbed([work EXCEPT ![r] = NoWork], r, {Key(r)})
       ELSE /\ UNCHANGED status
            /\ work' = [work EXCEPT ![r] = NoWork]
    /\ rowLock' = Unlocked(r)
    /\ End(r)
    /\ UNCHANGED <<users, session, owner, cookie, address, cred, flows>>
-----------------------------------------------------------------------------
AccountStep ==
    /\ \/ \E r \in Requests, b \in Browsers, u \in Users : Register(r, b, u) \/ Login(r, b, u)
       \/ \E r \in Requests : InsertUser(r) \/ InsertConflict(r)
       \/ \E r \in Requests, b \in Browsers : Logout(r, b)
    /\ UNCHANGED connectionVars

RequestStep(r) ==
    \/ \E b \in Browsers : OpenConsent(r, b) \/ Disconnect(r, b)
    \/ \E b \in Browsers, f \in Users, x \in ProviderAccounts, a \in Addresses :
         Callback(r, b, f, x, a) \/ ImapConnect(r, b, x, a)
    \/ AnswerRequest(r)
    \/ CommitAccount(r)
    \/ FailRequest(r)
    \/ InsertMailbox(r)
    \/ \E changed \in BOOLEAN : UpdateMailbox(r, changed)
    \/ MailboxConflict(r)
    \/ \E token \in BOOLEAN : CommitConnect(r, token)
    \/ LoadCredentials(r)
    \/ CommitDisconnect(r)

SyncStep(r) ==
    \/ \E k \in Keys : BeginSync(r, k)
    \/ FlushSync(r)
    \/ \E refused \in BOOLEAN : CallProvider(r, refused)
    \/ CommitSync(r)

Next ==
    \/ AccountStep
    \/ \E r \in Requests : RequestStep(r) \/ SyncStep(r)
    \/ \E f \in Users : FlowEnds(f)

Spec == Init /\ [][Next]_vars
-----------------------------------------------------------------------------
(* Properties. *)

TypeOK ==
    /\ AccountTypeOK
    /\ status \in [Keys -> Statuses] /\ address \in [Keys -> Addresses \cup {None}]
    /\ cred \in [Keys -> Users \cup {None}]
    /\ rowLock \in [Keys -> Requests \cup {None}]
    /\ \A k \in Keys, r \in Requests : rowLock[k] = r =>
         Key(r) = k /\ req[r].at \in {"call", "report", "end", "commit"}
    /\ flows \subseteq users
    /\ \A r \in Requests : req[r] = Idle => work[r] = NoWork

\* The credential of a mailbox was given by its owner: when somebody else has
\* logged in while Google asked for consent, the callback connects nothing.
GrantedByOwner == \A k \in Keys : cred[k] \in {None, k[1]}

\* Two mailboxes of a user at one provider never have one address, whatever is
\* connected again with which address and whatever requests race.  (For one of
\* two accounts with one address docs/contracts/v0.5/provider-mailbox.contract.md:90
\* promises a mailbox of its own; the code answers 500.)
AddressOnce ==
    \A j, k \in Present :
        j # k /\ j[1] = k[1] /\ SameProvider(j[2], k[2]) => address[j] # address[k]

\* Whatever the races before it have left - a status of one session with the
\* credential of another, or none - a connection that nothing interferes with
\* makes the mailbox active, with the credential it was given.
QuietConnectWorks ==
    [][\A r \in Requests, token \in BOOLEAN : CommitConnect(r, token) /\ work[r].quiet =>
         /\ status'[Key(r)] = "active"
         /\ token => cred'[Key(r)] = req[r].user]_vars

\* And so a disconnection that nothing interferes with leaves no credential of
\* the user for Gmail, and no such mailbox connected.
QuietDisconnectForgets ==
    [][\A r \in Requests : CommitDisconnect(r) /\ work[r].quiet =>
         \A k \in Rows(r) : cred'[k] = None /\ status'[k] \in {"absent", "disconnected"}]_vars
=============================================================================
