----------------------------- MODULE MailFetch ------------------------------
(***************************************************************************)
(* What a sync gets from the provider of one mailbox and leaves in emails: *)
(* the paged listing of Gmail and the details of each message, or the UIDs *)
(* of an IMAP folder and a FETCH for each, then the upsert by external_id. *)
(* Messages arrive and disappear meanwhile, and the server of an IMAP      *)
(* folder may renumber it.                                                 *)
(*                                                                         *)
(* The provider is external: a page token of Gmail is taken for a position *)
(* in a list that has new messages in front, so that an arrival makes the  *)
(* last message of a page come again on the next one.  What a deletion     *)
(* does to a listing under way is not modelled.  The window is asked for   *)
(* by UTC dates, which Gmail reads in a zone of its own and an IMAP server *)
(* compares with its local INTERNALDATE: whether the query returns a       *)
(* message is therefore free, and the same for all the syncs of the local  *)
(* day and the UTC date that the model covers.  One sync of a mailbox runs *)
(* at a time (SyncJobs), so its upsert is one step.                        *)
(***************************************************************************)
EXTENDS Naturals, FiniteSets, SequencesExt

CONSTANTS
    MaxMessages,  \* bound: messages that arrive
    PageSize,     \* maxResults: messages per page of a Gmail listing
    MaxRebuilds   \* bound: renumberings of the IMAP folder

Messages == 1..MaxMessages   \* numbered in the order of their arrival
None == 0                    \* no message

ASSUME FetchAssumption ==
    PageSize \in Nat \ {0} /\ MaxMessages \in Nat /\ MaxRebuilds \in Nat

VARIABLES
    provider,   \* mailboxes.provider: "gmail" or "imap"
    announces,  \* the IMAP server answers SELECT with a UIDVALIDITY
    stamp,      \* where the dates of a message lie, to the window and the query
    inbox,      \* the messages of the mailbox, the newest first
    arrived,    \* how many messages are or were in the mailbox
    uid, uidvalidity,  \* the UID of each message in the folder, and its epoch
    phase,      \* the point the sync has reached
    token,      \* pageToken, as the number of messages listed before it
    listed,     \* message_ids, message_uids: still to be fetched
    batch,      \* the messages fetched, as they will be upserted
    present,    \* the messages that were there when the sync began
    skipped,    \* the messages whose FETCH failed
    rows        \* emails: the message a row holds, by external_id; None: no row

boxVars  == <<provider, announces>>
mailVars == <<stamp, inbox, arrived, uid, uidvalidity>>
syncVars == <<phase, token, listed, batch, present, skipped>>
vars == <<boxVars, mailVars, syncVars, rows>>

Epochs == 0..MaxRebuilds
Unknown == MaxRebuilds + 1   \* the "unknown" that stands for a UIDVALIDITY
ExternalIds == (0..Unknown) \X Messages   \* an id of Gmail is written <<0, m>>

Times == {"inside", "outside"}   \* where received_at lies to the window

\* What the query returns is of today by internalDate (gmail) or the Date header
\* (imap), or "other": earlier, or (imap) without a date.  What it does not
\* return is "missed", of today or not.
Stamps == {"today", "other", "missed"}

Init ==
    /\ provider  \in {"gmail", "imap"}
    /\ announces \in IF provider = "imap" THEN BOOLEAN ELSE {FALSE}
    /\ stamp     = [m \in Messages |-> "today"]
    /\ inbox     = <<>>
    /\ arrived   = 0
    /\ uid       = [m \in Messages |-> 0]
    /\ uidvalidity = 0
    /\ phase     = "idle"
    /\ token     = 0
    /\ listed    = <<>>
    /\ batch     = <<>>
    /\ present   = {}
    /\ skipped   = {}
    /\ rows      = [x \in ExternalIds |-> None]
-----------------------------------------------------------------------------
(* Helpers.  The definition after an "and" in a comment is the same code with a
   plausible mistake; nothing uses it but the mutation of the properties. *)

\* The UIDVALIDITY the client knows; the configuration never has one.
Announced == IF announces THEN uidvalidity ELSE Unknown

\* external_id: the id of Gmail, or folder:uidvalidity:uid; and folder:uid.
ByUidAlone(m) == IF provider = "gmail" THEN <<0, m>> ELSE <<Unknown, uid[m]>>
ExternalId(m) == IF provider = "gmail" THEN <<0, m>> ELSE <<Announced, uid[m]>>

\* received_at of a message: internalDate is its arrival, a Date header is at
\* most that; a message without one is received now, after the window closed.
ReceivedAt(m) ==
    IF stamp[m] = "other" THEN {"outside"}
    ELSE IF m \in present THEN {"inside"}
    ELSE IF provider = "gmail" THEN {"outside"} ELSE {"inside", "outside"}

\* The messages that after:/before: (gmail) or SINCE/BEFORE (imap) return.
Returned ==
    LET found[n \in 0..Len(inbox)] ==
          IF n = 0 THEN <<>>
          ELSE IF stamp[inbox[n]] = "missed" THEN found[n - 1]
          ELSE Append(found[n - 1], inbox[n])
    IN  found[Len(inbox)]

\* The messages of the page a token stands for.
Page == SubSeq(Returned, token + 1, Min({token + PageSize, Len(Returned)}))

\* message_ids after a page, whose ids are appended one by one unless they are in
\* seen_message_ids; and without seen_message_ids.
Repeated(page) == listed \o page
Found(page) ==
    LET ids[n \in 0..Len(page)] ==
          IF n = 0 THEN listed
          ELSE IF page[n] \in ToSet(ids[n - 1]) THEN ids[n - 1]
          ELSE Append(ids[n - 1], page[n])
    IN  ids[Len(page)]

\* nextPageToken; and a token made of the number of ids found so far.
TokenOfFound == Len(Found(Page))
NextToken == token + PageSize

\* There is a next page; and if maxResults were enough for a day, or the loop
\* went on as long as it is answered.
OnePage == FALSE
Answered == TRUE
MorePages == token + PageSize < Len(Returned)

\* The sync is in a session with the IMAP server, whose UIDs are fixed then.
Selected == provider = "imap" /\ phase \in {"fetch", "store"}

EndSync ==
    /\ phase' = "idle" /\ token' = 0
    /\ listed' = <<>> /\ batch' = <<>>
    /\ present' = {} /\ skipped' = {}
-----------------------------------------------------------------------------
(* The sync. *)

\* calculate_today_window: the window ends now.
Begin ==
    /\ phase = "idle"
    /\ phase' = "list"
    /\ present' = ToSet(inbox)
    /\ UNCHANGED <<boxVars, mailVars, token, listed, batch, skipped, rows>>

\* _list_message_ids_for_window: one request of its loop.
ListPage ==
    /\ phase = "list" /\ provider = "gmail"
    /\ listed' = Found(Page)
    /\ IF MorePages THEN token' = NextToken /\ phase' = "list"
                    ELSE token' = 0 /\ phase' = "fetch"
    /\ UNCHANGED <<boxVars, mailVars, batch, present, skipped, rows>>

\* Connect, login, SELECT and UID SEARCH.
SearchUids ==
    /\ phase = "list" /\ provider = "imap"
    /\ listed' = Reverse(Returned)
    /\ phase' = "fetch"
    /\ UNCHANGED <<boxVars, mailVars, token, batch, present, skipped, rows>>

\* The details of the next message.
Fetch(at) ==
    /\ phase = "fetch" /\ listed # <<>>
    /\ LET m == Head(listed) IN
        /\ m \in ToSet(inbox)
        /\ at \in ReceivedAt(m)
        /\ batch' = Append(batch, [id |-> ExternalId(m), message |-> m, at |-> at])
    /\ listed' = Tail(listed)
    /\ UNCHANGED <<boxVars, mailVars, phase, token, present, skipped, rows>>

\* A FETCH that fails, or a message that is gone or cannot be parsed, is left
\* out by the IMAP provider.
Skip ==
    /\ phase = "fetch" /\ listed # <<>> /\ provider = "imap"
    /\ skipped' = skipped \cup {Head(listed)}
    /\ listed' = Tail(listed)
    /\ UNCHANGED <<boxVars, mailVars, phase, token, batch, present, rows>>

Fetched ==
    /\ phase = "fetch" /\ listed = <<>>
    /\ phase' = "store"
    /\ UNCHANGED <<boxVars, mailVars, token, listed, batch, present, skipped, rows>>

\* upsert_email_messages and the commit: the messages inside the window, a row
\* for each id that has none.  emails_mailbox_external_id_uq would refuse two new
\* rows with one id, and the sync would fail.
InWindow == {i \in DOMAIN batch : batch[i].at = "inside"}
Duplicated == \E i, j \in InWindow :
                 i # j /\ batch[i].id = batch[j].id /\ rows[batch[i].id] = None
Store ==
    /\ phase = "store" /\ ~Duplicated
    /\ rows' = [x \in ExternalIds |->
                  IF \E i \in InWindow : batch[i].id = x
                  THEN batch[CHOOSE i \in InWindow : batch[i].id = x].message
                  ELSE rows[x]]
    /\ EndSync
    /\ UNCHANGED <<boxVars, mailVars>>

\* A Gmail message that has been deleted since the listing ends the sync.
Gone ==
    /\ phase = "fetch" /\ listed # <<>> /\ provider = "gmail"
    /\ Head(listed) \notin ToSet(inbox)
    /\ EndSync
    /\ UNCHANGED <<boxVars, mailVars, rows>>

\* So does an error of the listing, of a Gmail message, of the IMAP session
\* before its first FETCH, or of the database, a refused row included.
Fail ==
    /\ \/ phase \in {"list", "store"}
       \/ phase = "fetch" /\ provider = "gmail" /\ listed # <<>>
    /\ EndSync
    /\ UNCHANGED <<boxVars, mailVars, rows>>
-----------------------------------------------------------------------------
(* The mailbox at the provider. *)

\* A message arrives, with the next UID of the folder.
Arrive(time) ==
    /\ arrived < MaxMessages
    /\ arrived' = arrived + 1
    /\ stamp' = [stamp EXCEPT ![arrived'] = time]
    /\ inbox' = <<arrived'>> \o inbox
    /\ uid' = [uid EXCEPT ![arrived'] = arrived']
    /\ UNCHANGED <<boxVars, uidvalidity, syncVars, rows>>

\* The user deletes a message, not while a listing of Gmail is under way.
Delete(i) ==
    /\ phase = "list" => provider = "imap"
    /\ inbox' = RemoveAt(inbox, i)
    /\ UNCHANGED <<boxVars, stamp, arrived, uid, uidvalidity, syncVars, rows>>

\* The server rebuilds the folder: a new UIDVALIDITY, and UIDs from 1 on for the
\* messages that are left; no message that is gone keeps one.
Rebuild ==
    /\ provider = "imap" /\ ~Selected
    /\ uidvalidity < MaxRebuilds
    /\ uidvalidity' = uidvalidity + 1
    /\ uid' = [m \in Messages |->
                 IF m \in ToSet(inbox)
                 THEN CHOOSE i \in 1..Len(inbox) : Reverse(inbox)[i] = m
                 ELSE 0]
    /\ UNCHANGED <<boxVars, stamp, inbox, arrived, syncVars, rows>>

SyncStep == \/ ListPage
            \/ SearchUids
            \/ \E at \in Times : Fetch(at)
            \/ Skip
            \/ Gone
            \/ Fetched
            \/ Store

Next == \/ Begin
        \/ SyncStep
        \/ Fail
        \/ \E time \in Stamps : Arrive(time)
        \/ \E i \in DOMAIN inbox : Delete(i)
        \/ Rebuild

Spec == Init /\ [][Next]_vars

\* A call of a provider or of the database has a time-out.
FairSpec == Spec /\ WF_vars(SyncStep)
-----------------------------------------------------------------------------
(* Properties. *)

TypeOK ==
    /\ provider \in {"gmail", "imap"} /\ announces \in BOOLEAN
    /\ stamp \in [Messages -> Stamps]
    /\ arrived \in 0..MaxMessages /\ ToSet(inbox) \subseteq 1..arrived
    /\ Len(inbox) = Cardinality(ToSet(inbox))
    /\ uid \in [Messages -> 0..MaxMessages] /\ uidvalidity \in Epochs
    /\ phase \in {"idle", "list", "fetch", "store"}
    /\ token \in 0..(MaxMessages + PageSize)
    /\ ToSet(listed) \subseteq 1..arrived
    /\ \A b \in ToSet(batch) : b.id \in ExternalIds /\ b.message \in Messages /\ b.at \in Times
    /\ present \subseteq 1..arrived /\ skipped \subseteq 1..arrived
    /\ rows \in [ExternalIds -> Messages \cup {None}]

\* A message that comes on two pages, because another one arrived between them,
\* is in the batch once: two new rows with one external_id would make every
\* sync of that day fail.
BatchDistinct ==
    \A i, j \in DOMAIN batch : i # j => batch[i].id # batch[j].id

\* The row of a message never becomes the row of another one, which would show
\* it with the digest items and the actions of the first: an external_id names
\* one message for ever, if the server announces the UIDVALIDITY of its folder.
StableIdentity ==
    [][provider = "gmail" \/ announces =>
         \A x \in ExternalIds : rows[x] # None => rows'[x] = rows[x]]_vars

\* A sync that succeeds has stored every message of the window that its query
\* returns and that was there from its beginning to its end, but those whose
\* FETCH failed.  A message of the window can be missed by the query for good,
\* with syncs that succeed: the documents promise today's messages all the same
\* (docs/engineering/TASK_BREAKDOWN.md:23).
CompleteSync ==
    [][Store => \A m \in (present \cap ToSet(inbox)) \ skipped :
                   stamp[m] = "today" => \E x \in ExternalIds : rows'[x] = m]_vars

\* A sync ends, whatever arrives during its listing.
SyncEnds == phase = "list" ~> phase = "idle"
=============================================================================
