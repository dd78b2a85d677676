---------------------------- MODULE DigestReview ----------------------------
(***************************************************************************)
(* The user acts on the items of a digest that has been generated: the     *)
(* buttons of an item (mark-done, dismiss, snooze) and POST /actions, both *)
(* through create_action, which checks that mailbox, digest, item and      *)
(* e-mail of an action belong together and fills in what the item implies. *)
(* The generation is that of DigestContent.                                *)
(***************************************************************************)
EXTENDS DigestContent

CONSTANTS
    OtherMailbox,  \* the mailbox of an older digest of the user
    MaxActions     \* bound: actions recorded

ASSUME ReviewAssumption == OtherMailbox \in Mailboxes /\ MaxActions \in Nat

VARIABLE actions   \* user_actions: the scope of each recorded action

reviewVars == <<vars, actions>>

DigestIds == {"this", "older"}
ItemNumbers == 1..MaxItems

\* DailyDigest.mailbox_id of a digest: null for all mailboxes.
DigestMailbox(d) ==
    IF d = "older" THEN OtherMailbox
    ELSE IF kind = "mailbox" THEN CHOOSE m \in scope : TRUE ELSE None

\* _normalize_and_validate_scope accepts the request; and if it trusted the
\* digest and the e-mail of a request that names an item.
Consistent(r) ==
    /\ r.digest # None => DigestMailbox(r.digest) = r.mailbox
    /\ r.email # None => MailboxOf[r.email] = r.mailbox
BelongsAnyhow(r, item) == item.mailbox = r.mailbox
Belongs(r, item) ==
    /\ item.mailbox = r.mailbox
    /\ r.digest # None => r.digest = "this"
    /\ r.email # None /\ item.email # None => item.email = r.email
Valid(r) == Consistent(r) /\ (r.item # None => Belongs(r, outcome.items[r.item]))

\* What is written: digest and e-mail of the item, if there is one.
Normalised(r) ==
    IF r.item = None THEN r
    ELSE [r EXCEPT !.digest = "this",
                   !.email = IF r.email = None THEN outcome.items[r.item].email ELSE r.email]

\* record_digest_item_action asks with everything the item says; and with the
\* mailbox of the digest.
DigestRequest(i) ==
    [mailbox |-> OtherMailbox, digest |-> "this", item |-> i, email |-> outcome.items[i].email]
ItemRequest(i) ==
    [mailbox |-> outcome.items[i].mailbox, digest |-> "this", item |-> i,
     email |-> outcome.items[i].email]

Record(r) ==
    /\ stage = "done" /\ Cardinality(actions) < MaxActions
    /\ Valid(r)
    /\ actions' = actions \cup {Normalised(r)}
    /\ UNCHANGED vars

\* POST /digests/items/{id}/mark-done, dismiss, snooze.
ActOnItem(i) == i \in DOMAIN outcome.items /\ Record(ItemRequest(i))

\* POST /actions.
CreateAction(r) == (r.item # None => r.item \in DOMAIN outcome.items) /\ Record(r)

Requests == [mailbox : Mailboxes, digest : DigestIds \cup {None},
             item : ItemNumbers \cup {None}, email : Emails \cup {None}]

ReviewInit == Init /\ actions = {}
ReviewNext ==
    \/ GenerateNext /\ UNCHANGED actions
    \/ \E i \in ItemNumbers : ActOnItem(i)
    \/ \E r \in Requests : CreateAction(r)
ReviewSpec == ReviewInit /\ [][ReviewNext]_reviewVars
-----------------------------------------------------------------------------
(* Properties. *)

ReviewTypeOK == ContentTypeOK /\ actions \subseteq Requests

\* The references of a recorded action agree: its item is of its digest and its
\* mailbox and about its e-mail, its e-mail of its mailbox.  The history of an
\* e-mail never shows what was done to an item about another one.
ActionsAgree ==
    \A a \in actions :
        /\ a.email # None => MailboxOf[a.email] = a.mailbox
        /\ a.item # None =>
             /\ a.digest = "this"
             /\ outcome.items[a.item].mailbox = a.mailbox
             /\ outcome.items[a.item].email \in {None, a.email}

\* The buttons of every item of the digest of a mailbox work.  (Those of a
\* digest of all mailboxes never do: its mailbox_id is null.)
ItemsActionable ==
    kind = "mailbox" /\ stage = "done" =>
        \A i \in DOMAIN outcome.items : Valid(ItemRequest(i))
=============================================================================
