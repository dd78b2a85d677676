--------------------------- MODULE DigestContent ----------------------------
(***************************************************************************)
(* The inside of one generation of a digest (the step Generate of          *)
(* DigestJobs): the e-mails of the scope become a prompt, the LLM          *)
(* providers are asked in turn, the answer is parsed item by item, and the *)
(* items are inserted under the constraints of digest_items.               *)
(*                                                                         *)
(* The model answers anything.  A raw item keeps the fields that decide    *)
(* what becomes of it; a label that is missing or that no alias maps to an *)
(* allowed one is None, and title, summary and reason are one field: plain *)
(* text, or text PostgreSQL does not store (a NUL, a lone surrogate), for  *)
(* the parser passes text on as it is.  Priorities, categories, suggested  *)
(* actions and deadlines are left out: the parser gives each an allowed    *)
(* value whatever the answer says.                                         *)
(***************************************************************************)
EXTENDS Naturals, Sequences, FiniteSets

CONSTANTS
    Mailboxes,    \* the active mailboxes of the user
    Emails,       \* the e-mails of the day
    MailboxOf,    \* emails.mailbox_id
    ExternalIds,  \* emails.external_id, unique in a mailbox
    MaxProviders, \* bound: providers in AI_PROVIDER_ORDER
    MaxTries,     \* max_retries + 1
    MaxItems,     \* bound: items in an answer
    None          \* null, or missing

ItemTypes == {"email", "todo", "risk"}
Sections  == {"urgent", "review", "ignore", "todo", "risk"}

ASSUME ContentAssumption ==
    /\ MailboxOf \in [Emails -> Mailboxes] /\ IsFiniteSet(Mailboxes)
    /\ MaxProviders \in Nat \ {0} /\ MaxTries \in Nat \ {0} /\ MaxItems \in Nat
    /\ None \notin Mailboxes \cup Emails \cup ExternalIds \cup ItemTypes \cup Sections

VARIABLES
    scope,      \* the mailboxes of the digest
    kind,       \* scope_type: "mailbox" or "all"
    externalId, \* emails.external_id
    byId,       \* emails_by_external_id
    providers,  \* how many providers are configured
    stage,      \* the point the generation has reached
    asked,      \* the provider that is asked
    tries,      \* the requests made to each provider
    parsed,     \* the items parsed so far
    storable,   \* overview, mail_count and token counts fit their columns
    outcome,    \* digest, job and AI run as committed, and the stored items
    givenUp     \* the generation failed because no provider answered

inputVars == <<scope, kind, externalId, byId, providers>>
askVars   == <<asked, tries, givenUp>>
parseVars == <<parsed, storable>>
vars == <<inputVars, stage, askVars, parseVars, outcome>>

Stages == {"start", "ask", "parse", "insert", "finish", "fail", "done"}
NoTries == [p \in 1..MaxProviders |-> 0]
Nothing == [digest |-> "none", job |-> "queued", run |-> "none", items |-> <<>>]

\* The e-mails _list_digest_emails selects.
Prompted(ms) == {e \in Emails : MailboxOf[e] \in ms}

\* {email.external_id: email for email in emails}: of two e-mails with one
\* external_id the later one is kept.
Dictionaries(ms, ids) ==
    LET used == {ids[e] : e \in Prompted(ms)}
    IN {d \in [used -> Emails] : \A x \in used : d[x] \in Prompted(ms) /\ ids[d[x]] = x}

\* An external_id is unique in its mailbox.
Init ==
    /\ scope \in (SUBSET Mailboxes) \ {{}}
    /\ kind \in IF Cardinality(scope) = 1 THEN {"mailbox", "all"} ELSE {"all"}
    /\ externalId \in [Emails -> ExternalIds]
    /\ \A d, e \in Emails : d # e /\ MailboxOf[d] = MailboxOf[e] => externalId[d] # externalId[e]
    /\ byId \in Dictionaries(scope, externalId)
    /\ providers \in 1..MaxProviders
    /\ stage = "start"
    /\ asked = 1
    /\ tries = NoTries
    /\ parsed = <<>>
    /\ storable = TRUE
    /\ outcome = Nothing
    /\ givenUp = FALSE
-----------------------------------------------------------------------------
(* The parser.  The definition after an "and" in a comment is the same code with
   a plausible mistake; nothing uses it but the mutation of the properties. *)

RawItems == [email      : ExternalIds \cup {None, "unknown"},
             type       : ItemTypes \cup {None},
             section    : Sections \cup {None},
             mailbox    : Mailboxes \cup {None, "unknown"},
             confidence : {"number", "nan"},
             text       : {"plain", "unstorable"}]

\* _enum_value with its defaults.
ItemType(raw) ==
    IF raw.type # None THEN raw.type ELSE IF raw.email # None THEN "email" ELSE "todo"
DefaultSection(type) == IF type = "email" THEN "review" ELSE type

\* _coerce_section_item_type; and without its last case.
Fits(section, type) ==
    CASE section = "todo" -> type = "todo"
      [] section = "risk" -> type = "risk"
      [] OTHER -> type = "email"
CoercedInPart(section, type) ==
    IF section \in {"todo", "risk"} /\ ~Fits(section, type) THEN DefaultSection(type) ELSE section
Coerced(section, type) == IF Fits(section, type) THEN section ELSE DefaultSection(type)

Section(raw) ==
    Coerced(IF raw.section = None THEN DefaultSection(ItemType(raw)) ELSE raw.section,
            ItemType(raw))

\* _resolve_email_id: an e-mail item names an e-mail of the prompt.
EmailResolves(raw) == IF raw.email = None THEN ItemType(raw) # "email"
                                          ELSE raw.email \in DOMAIN byId
Email(raw) == IF raw.email = None THEN None ELSE byId[raw.email]

\* _resolve_mailbox_id: the e-mail decides, then the answer, then the scope; and
\* with the answer first.
MailboxResolves(raw) ==
    \/ Email(raw) # None
    \/ raw.mailbox \in scope
    \/ raw.mailbox = None /\ kind = "mailbox"
AnswersMailbox(raw) ==
    IF raw.mailbox \in scope THEN raw.mailbox
    ELSE IF Email(raw) # None THEN MailboxOf[Email(raw)] ELSE CHOOSE m \in scope : TRUE
Mailbox(raw) ==
    IF Email(raw) # None THEN MailboxOf[Email(raw)]
    ELSE IF raw.mailbox # None THEN raw.mailbox ELSE CHOOSE m \in scope : TRUE

Accepted(raw) == EmailResolves(raw) /\ MailboxResolves(raw)

ParsedItem(raw) ==
    [email |-> Email(raw), type |-> ItemType(raw), section |-> Section(raw),
     mailbox |-> Mailbox(raw), confidence |-> raw.confidence, text |-> raw.text]

\* The CHECK constraints of digest_items, where a NaN is greater than any number,
\* and the encoding of its text columns.
RowAllowed(item) ==
    /\ item.type = "email" => item.email # None
    /\ item.section = "todo" => item.type = "todo"
    /\ item.section = "risk" => item.type = "risk"
    /\ item.section \in {"urgent", "review", "ignore"} => item.type = "email"
    /\ item.confidence = "number"
    /\ item.text = "plain"

\* digest_items_email_current_uq is violated.
SameEmailTwice ==
    \E i, j \in DOMAIN parsed :
        /\ i # j /\ parsed[i].email = parsed[j].email
        /\ parsed[i].type = "email" /\ parsed[j].type = "email"

\* A provider is asked again; and one time too few, or too many.
AsksLess(n) == n + 1 < MaxTries
AsksMore(n) == n <= MaxTries
AsksAgain(n) == n < MaxTries

\* The provider asked next, when the last one has failed; and none.
NoOther(p) == FALSE
OtherProvider(p) == p < providers
-----------------------------------------------------------------------------
(* The generation. *)

\* get_llm_provider raises: a profile is incomplete.  There is no AI run yet.
Unconfigured ==
    /\ stage = "start"
    /\ stage' = "fail"
    /\ UNCHANGED <<inputVars, askVars, parseVars, outcome>>

\* create_ai_run.
CreateRun ==
    /\ stage = "start"
    /\ stage' = "ask"
    /\ outcome' = [outcome EXCEPT !.run = "running"]
    /\ UNCHANGED <<inputVars, askVars, parseVars>>

\* A request fails, whatever the reason: another try, the next provider, or
\* the end.
RequestFails ==
    /\ stage = "ask"
    /\ tries' = [tries EXCEPT ![asked] = @ + 1]
    /\ CASE AsksAgain(tries'[asked]) -> UNCHANGED <<stage, asked, givenUp>>
         [] ~AsksAgain(tries'[asked]) /\ OtherProvider(asked) ->
                asked' = asked + 1 /\ UNCHANGED <<stage, givenUp>>
         [] OTHER -> stage' = "fail" /\ givenUp' = TRUE /\ UNCHANGED asked
    /\ UNCHANGED <<inputVars, parseVars, outcome>>

\* An answer with content: the requests before it do not matter any more.
RequestAnswers ==
    /\ stage = "ask"
    /\ asked' = 1 /\ tries' = NoTries
    /\ stage' = "parse"
    /\ UNCHANGED <<inputVars, givenUp, parseVars, outcome>>

ParseItem(raw) ==
    /\ stage = "parse" /\ Len(parsed) < MaxItems
    /\ Accepted(raw)
    /\ parsed' = Append(parsed, ParsedItem(raw))
    /\ UNCHANGED <<inputVars, stage, askVars, storable, outcome>>

\* DigestParseError: the answer is not a JSON object, its items are no array, a
\* text field of an item is no string (or Python reads no number where it is one) ...
RejectAnswer ==
    /\ stage = "parse"
    /\ stage' = "fail"
    /\ UNCHANGED <<inputVars, askVars, parseVars, outcome>>

\* ... or an e-mail or a mailbox does not resolve.
RejectItem(raw) ==
    /\ stage = "parse" /\ Len(parsed) < MaxItems
    /\ ~Accepted(raw)
    /\ stage' = "fail"
    /\ UNCHANGED <<inputVars, askVars, parseVars, outcome>>

\* The end of the answer.  mail_count and the token counts are any numbers that
\* are not negative, and the texts of the overview, JSONB too, are any text.
ParseEnd(fits) ==
    /\ stage = "parse"
    /\ storable' = fits
    /\ stage' = "insert"
    /\ UNCHANGED <<inputVars, askVars, parsed, outcome>>

Insertable == ~SameEmailTwice /\ \A i \in DOMAIN parsed : RowAllowed(parsed[i])

InsertItems ==
    /\ stage = "insert" /\ Insertable
    /\ stage' = "finish"
    /\ UNCHANGED <<inputVars, askVars, parseVars, outcome>>

\* The locals of the generation are gone when it ends.
Done == stage' = "done" /\ parsed' = <<>> /\ storable' = TRUE
RollBack == Done /\ outcome' = Nothing

\* The flush of the items fails.  The handler notes the failure in a session
\* that has been rolled back, and its commit raises: nothing is left.
InsertRefused ==
    /\ stage = "insert" /\ ~Insertable
    /\ RollBack
    /\ UNCHANGED <<inputVars, askVars>>

\* The switch to the new digest, mark_ai_run_succeeded, _succeed_job, the commit.
Finish ==
    /\ stage = "finish" /\ storable
    /\ Done
    /\ outcome' = [digest |-> "fresh", job |-> "succeeded", run |-> "succeeded",
                   items |-> parsed]
    /\ UNCHANGED <<inputVars, askVars>>

\* The last flush is outside the try: a number beyond its column, or text that
\* JSONB does not hold, fails it.
FinishRefused ==
    /\ stage = "finish" /\ ~storable
    /\ RollBack
    /\ UNCHANGED <<inputVars, askVars>>

\* _fail_generation, and the commit of the handler.
FailGeneration ==
    /\ stage = "fail"
    /\ Done
    /\ outcome' = [digest |-> "failed", job |-> "failed", items |-> <<>>,
                   run |-> IF outcome.run = "none" THEN "none" ELSE "failed"]
    /\ UNCHANGED <<inputVars, askVars>>

\* The process dies.
Crash ==
    /\ stage # "done"
    /\ RollBack
    /\ UNCHANGED <<inputVars, askVars>>

GenerateNext ==
    \/ Unconfigured
    \/ CreateRun
    \/ RequestFails
    \/ RequestAnswers
    \/ \E raw \in RawItems : ParseItem(raw) \/ RejectItem(raw)
    \/ RejectAnswer
    \/ \E fits \in BOOLEAN : ParseEnd(fits)
    \/ InsertItems
    \/ InsertRefused
    \/ Finish
    \/ FinishRefused
    \/ FailGeneration
    \/ Crash
-----------------------------------------------------------------------------
(* Properties. *)

Items == [email : Emails \cup {None}, type : ItemTypes, section : Sections,
          mailbox : Mailboxes, confidence : {"number", "nan"}, text : {"plain", "unstorable"}]

ContentTypeOK ==
    /\ scope \in (SUBSET Mailboxes) \ {{}} /\ kind \in {"mailbox", "all"}
    /\ externalId \in [Emails -> ExternalIds]
    /\ byId \in Dictionaries(scope, externalId)
    /\ providers \in 1..MaxProviders /\ asked \in 1..providers
    /\ stage \in Stages
    /\ tries \in [1..MaxProviders -> 0..MaxTries]
    /\ parsed \in Seq(Items) /\ Len(parsed) <= MaxItems
    /\ storable \in BOOLEAN /\ givenUp \in BOOLEAN
    /\ outcome.digest \in {"none", "fresh", "failed"}
    /\ outcome.job \in {"queued", "succeeded", "failed"}
    /\ outcome.run \in {"none", "running", "succeeded", "failed"}
    /\ outcome.items \in Seq(Items)

\* An item is about a mailbox of the digest and, if it names an e-mail, about
\* one of the prompt, in that mailbox, whatever the model has answered.
ItemsInScope ==
    \A i \in DOMAIN parsed :
        /\ parsed[i].mailbox \in scope
        /\ parsed[i].email # None => /\ MailboxOf[parsed[i].email] \in scope
                                     /\ MailboxOf[parsed[i].email] = parsed[i].mailbox

\* What the parser settles the constraints of digest_items accept: an INSERT is
\* refused only for what the parser does not settle, an e-mail that is named
\* twice, a confidence of NaN or text that cannot be stored, never for a section,
\* a type or a missing e-mail.
ParserMeetsSchema ==
    [][InsertRefused =>
         \/ SameEmailTwice
         \/ \E i \in DOMAIN parsed :
               parsed[i].confidence = "nan" \/ parsed[i].text = "unstorable"]_vars

\* A generation is given up only after max_retries + 1 requests to each of the
\* configured providers (openai_compatible_provider).  docs/ai/AI_PIPELINE.md:148
\* allows 3 attempts in all, with a pause of 5 s before the third: the code
\* counts them for each provider by itself and never pauses.
AllProvidersTried == givenUp => \A p \in 1..providers : tries[p] = MaxTries
=============================================================================
