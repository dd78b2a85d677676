------------------------- MODULE DigestReviewProofs -------------------------
(***************************************************************************)
(* Proofs about a generation and the actions on its items, for any         *)
(* mailboxes, e-mails, providers, tries and answers of the model.          *)
(***************************************************************************)
EXTENDS DigestReview, FiniteSetTheorems, TLAPS

\* What every item of an answer is, stored or not: it satisfies each CHECK of
\* digest_items but that of the confidence, and its mailbox and e-mail agree.
Sound(item) ==
    /\ item.type = "email" => item.email # None
    /\ Fits(item.section, item.type)
    /\ item.mailbox \in scope
    /\ item.email # None => MailboxOf[item.email] = item.mailbox

SoundItems(items) == items \in Seq(Items) /\ \A i \in DOMAIN items : Sound(items[i])

\* The e-mails and mailboxes a generation is about.
Inputs ==
    /\ scope \subseteq Mailboxes /\ (\E m \in Mailboxes : m \in scope)
    /\ kind \in {"mailbox", "all"}
    /\ kind = "mailbox" => \E m \in Mailboxes : scope = {m}
    /\ externalId \in [Emails -> ExternalIds]
    /\ byId \in Dictionaries(scope, externalId)
    /\ providers \in 1..MaxProviders

\* The providers before the one that is asked have had all their tries, those
\* after it none.
Asking ==
    /\ stage \in Stages
    /\ asked \in 1..providers /\ givenUp \in BOOLEAN
    /\ tries \in [1..MaxProviders -> 0..MaxTries]
    /\ \A p \in 1..MaxProviders :
         /\ p < asked => tries[p] = MaxTries
         /\ p > asked => tries[p] = 0
    /\ ~givenUp => tries[asked] < MaxTries
    /\ stage \in {"start", "ask", "parse"} => ~givenUp
    /\ givenUp => asked = providers /\ tries[asked] = MaxTries

Parsing ==
    /\ storable \in BOOLEAN
    /\ SoundItems(parsed) /\ Len(parsed) <= MaxItems

Stored ==
    /\ outcome.digest \in {"none", "fresh", "failed"}
    /\ outcome.job \in {"queued", "succeeded", "failed"}
    /\ outcome.run \in {"none", "running", "succeeded", "failed"}
    /\ outcome = [digest |-> outcome.digest, job |-> outcome.job,
                  run |-> outcome.run, items |-> outcome.items]
    /\ SoundItems(outcome.items) /\ Len(outcome.items) <= MaxItems
    /\ stage # "done" => outcome.items = <<>>

Recorded == actions \subseteq Requests /\ (stage # "done" => actions = {}) /\ ActionsAgree

ReviewInv == Inputs /\ Asking /\ Parsing /\ Stored /\ Recorded

\* An item the parser accepts is sound, whatever the answer says.
LEMMA ParserSound ==
    ASSUME Inputs, NEW raw \in RawItems, Accepted(raw)
    PROVE  ParsedItem(raw) \in Items /\ Sound(ParsedItem(raw))
<1> DEFINE item == ParsedItem(raw)
<1>1. /\ raw.email \in ExternalIds \cup {None, "unknown"}
      /\ raw.type \in ItemTypes \cup {None}
      /\ raw.section \in Sections \cup {None}
      /\ raw.mailbox \in Mailboxes \cup {None, "unknown"}
      /\ raw.confidence \in {"number", "nan"}
      /\ raw.text \in {"plain", "unstorable"}
    BY DEF RawItems
<1>2. ItemType(raw) \in ItemTypes
    BY <1>1 DEF ItemType, ItemTypes
<1>3. Section(raw) \in Sections /\ Fits(Section(raw), ItemType(raw))
  <2>1. DefaultSection(ItemType(raw)) \in Sections
      BY <1>2 DEF DefaultSection, ItemTypes, Sections
  <2>2. Fits(DefaultSection(ItemType(raw)), ItemType(raw))
      BY <1>2 DEF DefaultSection, Fits, ItemTypes
  <2> QED BY <1>1, <2>1, <2>2 DEF Section, Coerced
<1>4. ASSUME NEW x \in DOMAIN byId
      PROVE  /\ byId[x] \in Emails /\ byId[x] # None
             /\ MailboxOf[byId[x]] \in scope
    BY ContentAssumption DEF Inputs, Dictionaries, Prompted
<1>5. /\ Email(raw) \in Emails \cup {None}
      /\ Email(raw) # None => MailboxOf[Email(raw)] \in scope
      /\ raw.email # None => Email(raw) # None
    BY <1>4 DEF Accepted, EmailResolves, Email
<1>6. ItemType(raw) = "email" => Email(raw) # None
    BY <1>5 DEF Accepted, EmailResolves
<1>7. /\ Mailbox(raw) \in scope
      /\ Email(raw) # None => MailboxOf[Email(raw)] = Mailbox(raw)
  <2>1. (CHOOSE m \in scope : TRUE) \in scope
    <3>1. \E m : m \in scope
        BY Zenon DEF Inputs
    <3> QED BY <3>1, Zenon
  <2>2. CASE Email(raw) # None
      BY <1>5, <2>2 DEF Mailbox
  <2>3. CASE Email(raw) = None
      BY <2>1, <2>3 DEF Mailbox, Accepted, MailboxResolves
  <2> QED BY <2>2, <2>3
<1>8. Mailbox(raw) \in Mailboxes
    BY <1>7 DEF Inputs
<1> QED BY <1>1, <1>2, <1>3, <1>5, <1>6, <1>7, <1>8 DEF ParsedItem, Items, Sound

LEMMA NonEmptySubset ==
    ASSUME NEW S, NEW T \in (SUBSET S) \ {{}}
    PROVE  T \subseteq S /\ \E m \in S : m \in T
<1>1. T \subseteq S
    OBVIOUS
<1>2. T # {}
  <2>1. T \notin {{}}
      OBVIOUS
  <2>2. {} \in {{}}
      OBVIOUS
  <2> QED BY <2>1, <2>2, Zenon
<1>3. \E m : m \in T
    BY <1>2, Zenon
<1> QED BY <1>1, <1>3

LEMMA InvInit == ReviewInit => ReviewInv
<1> SUFFICES ASSUME ReviewInit PROVE ReviewInv
    OBVIOUS
<1>1. Inputs
  <2>1. ASSUME kind = "mailbox" PROVE \E m \in Mailboxes : scope = {m}
    <3>1. IsFiniteSet(scope)
        BY ContentAssumption, FS_Subset DEF ReviewInit, Init
    <3>2. Cardinality(scope) = 1
        BY <2>1 DEF ReviewInit, Init
    <3>3. \E m : scope = {m}
        BY <3>1, <3>2, FS_Singleton
    <3> QED BY <3>3 DEF ReviewInit, Init
  <2>2. kind \in {"mailbox", "all"}
      BY DEF ReviewInit, Init
  <2>3. scope \subseteq Mailboxes /\ \E m \in Mailboxes : m \in scope
    <3>1. scope \in (SUBSET Mailboxes) \ {{}}
        BY DEF ReviewInit, Init
    <3> QED BY <3>1, NonEmptySubset
  <2> QED BY <2>1, <2>2, <2>3 DEF Inputs, ReviewInit, Init
<1>2. Asking
  <2>1. NoTries \in [1..MaxProviders -> 0..MaxTries] /\ \A p \in 1..MaxProviders : NoTries[p] = 0
      BY ContentAssumption DEF NoTries
  <2>2. /\ providers \in 1..MaxProviders /\ asked = 1 /\ tries = NoTries
        /\ stage = "start" /\ givenUp = FALSE
      BY DEF ReviewInit, Init
  <2>3. /\ asked \in 1..providers /\ 0 < MaxTries /\ tries[asked] = 0
        /\ tries \in [1..MaxProviders -> 0..MaxTries]
        /\ \A p \in 1..MaxProviders : (p < asked => tries[p] = MaxTries) /\ (p > asked => tries[p] = 0)
      BY <2>1, <2>2, ContentAssumption
  <2>4. ~givenUp /\ givenUp \in BOOLEAN
      BY <2>2, Zenon
  <2>5. tries[asked] < MaxTries /\ stage \in Stages
      BY <2>2, <2>3 DEF Stages
  <2> QED BY <2>3, <2>4, <2>5, Zenon DEF Asking
<1>3. Parsing
    BY ContentAssumption DEF Parsing, SoundItems, ReviewInit, Init
<1>4. Stored
    BY ContentAssumption DEF Stored, SoundItems, Nothing, ReviewInit, Init
<1>5. Recorded
    BY DEF Recorded, ActionsAgree, ReviewInit, Init
<1> QED BY <1>1, <1>2, <1>3, <1>4, <1>5 DEF ReviewInv

\* A generation that has ended takes no step.
LEMMA DoneIsEnd == stage = "done" => ~GenerateNext
<1> SUFFICES ASSUME stage = "done", GenerateNext PROVE FALSE
    OBVIOUS
<1> QED BY DEF GenerateNext, Unconfigured, CreateRun, RequestFails, RequestAnswers, ParseItem,
               RejectItem, RejectAnswer, ParseEnd, InsertItems, InsertRefused, Finish,
               FinishRefused, FailGeneration, Crash

\* A step is one of the generation, an action on a finished digest, or a stutter.
LEMMA Steps ==
    ASSUME [ReviewNext]_reviewVars
    PROVE  \/ GenerateNext /\ UNCHANGED actions
           \/ UNCHANGED vars /\ \E r : Record(r) /\ (\/ r \in Requests
                                                     \/ \E i \in DOMAIN outcome.items :
                                                          r = ItemRequest(i))
                                     /\ (r.item # None => r.item \in DOMAIN outcome.items)
           \/ UNCHANGED reviewVars
<1>1. CASE GenerateNext /\ UNCHANGED actions
    BY <1>1
<1>2. ASSUME NEW i \in ItemNumbers, ActOnItem(i)
      PROVE  /\ UNCHANGED vars /\ Record(ItemRequest(i)) /\ i \in DOMAIN outcome.items
             /\ ItemRequest(i).item = i
    BY <1>2 DEF ActOnItem, Record, ItemRequest
<1>3. ASSUME NEW r \in Requests, CreateAction(r)
      PROVE  /\ UNCHANGED vars /\ Record(r)
             /\ r.item # None => r.item \in DOMAIN outcome.items
    BY <1>3 DEF CreateAction, Record
<1> QED BY <1>1, <1>2, <1>3, Zenon DEF ReviewNext

LEMMA InputsStep == ReviewInv /\ [ReviewNext]_reviewVars => UNCHANGED inputVars /\ Inputs'
<1> SUFFICES ASSUME ReviewInv, [ReviewNext]_reviewVars PROVE UNCHANGED inputVars /\ Inputs'
    OBVIOUS
<1>1. UNCHANGED inputVars
  <2>1. CASE GenerateNext
      BY <2>1 DEF GenerateNext, Unconfigured, CreateRun, RequestFails, RequestAnswers, ParseItem,
                  RejectItem, RejectAnswer, ParseEnd, InsertItems, InsertRefused, Finish,
                  FinishRefused, FailGeneration, Crash
  <2>2. CASE UNCHANGED vars
      BY <2>2 DEF vars
  <2> QED BY <2>1, <2>2, Steps DEF reviewVars
<1>2. Inputs'
    BY <1>1 DEF ReviewInv, Inputs, inputVars, Dictionaries, Prompted
<1> QED BY <1>1, <1>2

LEMMA AskingStep == ReviewInv /\ [ReviewNext]_reviewVars => Asking'
<1> SUFFICES ASSUME ReviewInv, [ReviewNext]_reviewVars PROVE Asking'
    OBVIOUS
<1>1. providers' = providers /\ providers \in 1..MaxProviders
    BY InputsStep DEF inputVars, ReviewInv, Inputs
<1> USE ContentAssumption DEF ReviewInv, Asking, Stages
<1>2. CASE RequestFails
  <2>1. /\ asked \in 1..providers /\ asked \in 1..MaxProviders /\ tries[asked] < MaxTries
        /\ ~givenUp /\ stage = "ask"
      BY <1>1, <1>2 DEF RequestFails
  <2>2. /\ tries' \in [1..MaxProviders -> 0..MaxTries]
        /\ tries'[asked] = tries[asked] + 1
        /\ \A p \in 1..MaxProviders : p # asked => tries'[p] = tries[p]
      BY <1>2, <2>1 DEF RequestFails
  <2>3. CASE AsksAgain(tries'[asked])
    <3>1. UNCHANGED <<stage, asked, givenUp>>
        BY <1>2, <2>3 DEF RequestFails
    <3> QED BY <1>1, <2>1, <2>2, <2>3, <3>1 DEF AsksAgain
  <2>4. CASE ~AsksAgain(tries'[asked]) /\ OtherProvider(asked)
    <3>1. asked' = asked + 1 /\ UNCHANGED <<stage, givenUp>>
        BY <1>2, <2>4 DEF RequestFails
    <3>2. tries'[asked] = MaxTries /\ asked + 1 \in 1..providers /\ 0 < MaxTries
        BY <1>1, <2>1, <2>2, <2>4 DEF AsksAgain, OtherProvider
    <3>3. \A p \in 1..MaxProviders : /\ p < asked' => tries'[p] = MaxTries
                                     /\ p > asked' => tries'[p] = 0
        BY <2>1, <2>2, <3>1, <3>2
    <3>4. tries'[asked'] < MaxTries
        BY <1>1, <2>1, <2>2, <3>1, <3>2
    <3> QED BY <1>1, <2>1, <2>2, <3>1, <3>2, <3>3, <3>4
  <2>5. CASE ~AsksAgain(tries'[asked]) /\ ~OtherProvider(asked)
    <3>1. stage' = "fail" /\ givenUp' = TRUE /\ asked' = asked
        BY <1>2, <2>5 DEF RequestFails
    <3>2. tries'[asked] = MaxTries /\ asked = providers
        BY <1>1, <2>1, <2>2, <2>5 DEF AsksAgain, OtherProvider
    <3> QED BY <1>1, <2>1, <2>2, <3>1, <3>2
  <2> QED BY <2>3, <2>4, <2>5
<1>3. CASE RequestAnswers
  <2>1. tries' \in [1..MaxProviders -> 0..MaxTries] /\ \A p \in 1..MaxProviders : tries'[p] = 0
      BY <1>3 DEF RequestAnswers, NoTries
  <2> QED BY <1>1, <1>3, <2>1 DEF RequestAnswers
<1>4. ASSUME UNCHANGED askVars,
             \/ stage' = stage
             \/ stage' \in {"ask", "parse"} /\ ~givenUp
             \/ stage' \in Stages \ {"start", "ask", "parse"}
      PROVE  Asking'
  <2>1. UNCHANGED <<asked, tries, givenUp, providers>> /\ stage' \in Stages
      BY <1>1, <1>4 DEF askVars
  <2>2. stage' \in {"start", "ask", "parse"} => ~givenUp
      BY <1>4
  <2> QED BY <2>1, <2>2 DEF Asking
<1>5. CASE Unconfigured \/ CreateRun
    BY <1>4, <1>5 DEF Unconfigured, CreateRun
<1>6. ASSUME NEW raw \in RawItems, ParseItem(raw) \/ RejectItem(raw) PROVE Asking'
    BY <1>4, <1>6 DEF ParseItem, RejectItem
<1>7. ASSUME NEW fits \in BOOLEAN, RejectAnswer \/ ParseEnd(fits) PROVE Asking'
    BY <1>4, <1>7 DEF RejectAnswer, ParseEnd
<1>8. CASE InsertItems \/ InsertRefused \/ Finish
    BY <1>4, <1>8 DEF InsertItems, InsertRefused, Finish, RollBack, Done
<1>9. CASE FinishRefused \/ FailGeneration \/ Crash
    BY <1>4, <1>9 DEF FinishRefused, FailGeneration, Crash, RollBack, Done
<1>10. CASE UNCHANGED vars
    BY <1>4, <1>10 DEF vars
<1>11. CASE GenerateNext
    BY <1>2, <1>3, <1>5, <1>6, <1>7, <1>8, <1>9, <1>11 DEF GenerateNext
<1> QED BY <1>10, <1>11, Steps DEF reviewVars

\* Sound depends on the scope alone, which no step changes.
LEMMA ParsingStep == ReviewInv /\ [ReviewNext]_reviewVars => Parsing'
<1> SUFFICES ASSUME ReviewInv, [ReviewNext]_reviewVars PROVE Parsing'
    OBVIOUS
<1>1. scope' = scope
    BY InputsStep DEF inputVars
<1>2. storable' \in BOOLEAN /\ Len(parsed) <= MaxItems /\ SoundItems(parsed)
  <2>1. storable' \in BOOLEAN
    <3>1. CASE GenerateNext
        BY <3>1 DEF ReviewInv, Parsing, GenerateNext, Unconfigured, CreateRun, RequestFails,
                    RequestAnswers, ParseItem, RejectItem, RejectAnswer, ParseEnd, InsertItems,
                    InsertRefused, Finish, FinishRefused, FailGeneration, Crash, RollBack, Done,
                    parseVars
    <3>2. CASE UNCHANGED vars
        BY <3>2 DEF ReviewInv, Parsing, vars, parseVars
    <3> QED BY <3>1, <3>2, Steps DEF reviewVars
  <2> QED BY <2>1 DEF ReviewInv, Parsing
<1>3. CASE parsed' = parsed
    BY <1>1, <1>2, <1>3 DEF Parsing, SoundItems, Sound
<1>4. CASE parsed' = <<>>
    BY <1>2, <1>4, ContentAssumption DEF Parsing, SoundItems
<1>5. ASSUME NEW raw \in RawItems, ParseItem(raw) PROVE Parsing'
  <2> DEFINE item == ParsedItem(raw)
  <2>1. item \in Items /\ Sound(item)
      BY <1>5, ParserSound DEF ReviewInv, ParseItem
  <2>2. parsed' = Append(parsed, item) /\ Len(parsed) < MaxItems
      BY <1>5 DEF ParseItem
  <2> HIDE DEF item
  <2>3. SoundItems(parsed')
      BY <1>2, <2>1, <2>2 DEF SoundItems
  <2>4. Len(parsed') <= MaxItems
      BY <1>2, <2>2, ContentAssumption DEF SoundItems
  <2> QED BY <1>1, <1>2, <2>3, <2>4 DEF Parsing, SoundItems, Sound
<1>6. CASE GenerateNext
    BY <1>3, <1>4, <1>5, <1>6 DEF GenerateNext, Unconfigured, CreateRun, RequestFails,
       RequestAnswers, RejectItem, RejectAnswer, ParseEnd, InsertItems, InsertRefused, Finish,
       FinishRefused, FailGeneration, Crash, RollBack, Done, parseVars
<1>7. CASE UNCHANGED vars
    BY <1>3, <1>7 DEF vars, parseVars
<1> QED BY <1>6, <1>7, Steps DEF reviewVars

LEMMA StoredStep == ReviewInv /\ [ReviewNext]_reviewVars => Stored'
<1> SUFFICES ASSUME ReviewInv, [ReviewNext]_reviewVars PROVE Stored'
    OBVIOUS
<1>1. scope' = scope
    BY InputsStep DEF inputVars
<1>2. CASE outcome' = outcome /\ (stage' # "done" => stage # "done")
    BY <1>1, <1>2 DEF ReviewInv, Stored, SoundItems, Sound
<1>3. CASE CreateRun
    BY <1>1, <1>3 DEF CreateRun, ReviewInv, Stored, SoundItems, Sound
<1>4. CASE outcome' = Nothing
    BY <1>1, <1>4, ContentAssumption DEF Nothing, Stored, SoundItems
<1>5. CASE Finish
    BY <1>1, <1>5 DEF Finish, Done, ReviewInv, Parsing, Stored, SoundItems, Sound
<1>6. CASE FailGeneration
    BY <1>1, <1>6, ContentAssumption DEF FailGeneration, Done, Stored, SoundItems
<1>7. CASE InsertRefused \/ FinishRefused \/ Crash
    BY <1>4, <1>7 DEF InsertRefused, FinishRefused, Crash, RollBack
<1>8. CASE Unconfigured \/ RequestFails \/ RequestAnswers \/ RejectAnswer \/ InsertItems
    BY <1>2, <1>8 DEF Unconfigured, RequestFails, RequestAnswers, RejectAnswer, InsertItems
<1>9. ASSUME NEW raw \in RawItems, ParseItem(raw) \/ RejectItem(raw) PROVE Stored'
    BY <1>2, <1>9 DEF ParseItem, RejectItem
<1>10. ASSUME NEW fits \in BOOLEAN, ParseEnd(fits) PROVE Stored'
    BY <1>2, <1>10 DEF ParseEnd
<1>11. CASE GenerateNext
    BY <1>3, <1>5, <1>6, <1>7, <1>8, <1>9, <1>10, <1>11 DEF GenerateNext
<1>12. CASE UNCHANGED vars
    BY <1>2, <1>12 DEF vars
<1> QED BY <1>11, <1>12, Steps DEF reviewVars

\* What is written for a valid request agrees with the stored items.
LEMMA NormalisedAgrees ==
    ASSUME Stored, NEW r \in Requests, Valid(r), r.item # None => r.item \in DOMAIN outcome.items
    PROVE  LET a == Normalised(r)
           IN /\ a \in Requests
              /\ a.email # None => MailboxOf[a.email] = a.mailbox
              /\ a.item # None =>
                   /\ a.digest = "this"
                   /\ outcome.items[a.item].mailbox = a.mailbox
                   /\ outcome.items[a.item].email \in {None, a.email}
<1>1. CASE r.item = None
    BY <1>1 DEF Normalised, Valid, Consistent
<1>2. CASE r.item # None
  <2> DEFINE item == outcome.items[r.item]
  <2>1. item \in Items /\ Sound(item)
      BY <1>2 DEF Stored, SoundItems
  <2>2. Belongs(r, item) /\ Consistent(r)
      BY <1>2 DEF Valid
  <2> HIDE DEF item
  <2>3. Normalised(r) = [r EXCEPT !.digest = "this",
                                  !.email = IF r.email = None THEN item.email ELSE r.email]
      BY <1>2 DEF Normalised, item
  <2>4. CASE r.email = None
    <3>1. Normalised(r) = [mailbox |-> r.mailbox, digest |-> "this", item |-> r.item,
                           email |-> item.email]
        BY <2>3, <2>4 DEF Requests
    <3> QED BY <1>2, <2>1, <2>2, <3>1 DEF Requests, Items, Sound, Belongs, DigestIds, item
  <2>5. CASE r.email # None
    <3>1. Normalised(r) = [mailbox |-> r.mailbox, digest |-> "this", item |-> r.item,
                           email |-> r.email]
        BY <2>3, <2>5 DEF Requests
    <3> QED BY <1>2, <2>1, <2>2, <2>5, <3>1
            DEF Requests, Items, Sound, Belongs, Consistent, DigestIds, item
  <2> QED BY <2>4, <2>5
<1> QED BY <1>1, <1>2

LEMMA RecordedStep == ReviewInv /\ [ReviewNext]_reviewVars => Recorded'
<1> SUFFICES ASSUME ReviewInv, [ReviewNext]_reviewVars PROVE Recorded'
    OBVIOUS
<1>1. CASE GenerateNext /\ UNCHANGED actions
  <2>1. actions' = {}
      BY <1>1, DoneIsEnd DEF ReviewInv, Recorded
  <2> QED BY <2>1 DEF Recorded, ActionsAgree
<1>2. CASE UNCHANGED reviewVars
    BY <1>2 DEF ReviewInv, Recorded, ActionsAgree, Requests, reviewVars, vars
<1>3. ASSUME UNCHANGED vars, NEW r, Record(r), r.item # None => r.item \in DOMAIN outcome.items,
             r \in Requests \/ \E i \in DOMAIN outcome.items : r = ItemRequest(i)
      PROVE  Recorded'
  <2>1. r \in Requests
    <3>1. ASSUME NEW i \in DOMAIN outcome.items, r = ItemRequest(i) PROVE r \in Requests
      <4>1. outcome.items \in Seq(Items) /\ Len(outcome.items) <= MaxItems /\ MaxItems \in Nat
          BY ContentAssumption DEF ReviewInv, Stored, SoundItems
      <4>2. i \in 1..MaxItems /\ outcome.items[i] \in Items
          BY <4>1
      <4> QED BY <3>1, <4>2 DEF ItemRequest, Requests, Items, DigestIds, ItemNumbers
    <3> QED BY <1>3, <3>1
  <2> DEFINE a == Normalised(r)
  <2>2. /\ a \in Requests
        /\ a.email # None => MailboxOf[a.email] = a.mailbox
        /\ a.item # None => /\ a.digest = "this"
                            /\ outcome.items[a.item].mailbox = a.mailbox
                            /\ outcome.items[a.item].email \in {None, a.email}
      BY <1>3, <2>1, NormalisedAgrees DEF ReviewInv, Record
  <2>3. actions' = actions \cup {a} /\ stage = "done"
      BY <1>3 DEF Record
  <2>4. stage' = "done" /\ outcome' = outcome
      BY <1>3, <2>3 DEF vars
  <2> HIDE DEF a
  <2>5. actions' \subseteq Requests
      BY <2>2, <2>3 DEF ReviewInv, Recorded
  <2>6. ActionsAgree'
      BY <2>2, <2>3, <2>4 DEF ReviewInv, Recorded, ActionsAgree
  <2> QED BY <2>4, <2>5, <2>6 DEF Recorded, Requests
<1> QED BY <1>1, <1>2, <1>3, Steps

LEMMA Invariance == ReviewSpec => []ReviewInv
<1>1. ReviewInv /\ [ReviewNext]_reviewVars => ReviewInv'
    BY InputsStep, AskingStep, ParsingStep, StoredStep, RecordedStep DEF ReviewInv
<1> QED BY InvInit, <1>1, PTL DEF ReviewSpec
-----------------------------------------------------------------------------
(* Theorems. *)

\* Every state of a generation and of the actions on its items is well formed.
THEOREM ReviewTypeCorrect == ReviewSpec => []ReviewTypeOK
<1>1. ReviewInv => ReviewTypeOK
  <2> SUFFICES ASSUME ReviewInv PROVE ReviewTypeOK
      OBVIOUS
  <2>1. scope \in (SUBSET Mailboxes) \ {{}}
      BY DEF ReviewInv, Inputs
  <2>2. /\ parsed \in Seq(Items) /\ Len(parsed) <= MaxItems /\ storable \in BOOLEAN
        /\ outcome.items \in Seq(Items)
      BY DEF ReviewInv, Parsing, Stored, SoundItems
  <2>3. asked \in 1..providers /\ stage \in Stages /\ tries \in [1..MaxProviders -> 0..MaxTries]
      BY DEF ReviewInv, Asking
  <2>4. givenUp \in BOOLEAN
      BY Zenon DEF ReviewInv, Asking
  <2>5. /\ outcome.digest \in {"none", "fresh", "failed"}
        /\ outcome.job \in {"queued", "succeeded", "failed"}
        /\ outcome.run \in {"none", "running", "succeeded", "failed"}
      BY DEF ReviewInv, Stored
  <2>6. /\ kind \in {"mailbox", "all"} /\ externalId \in [Emails -> ExternalIds]
        /\ byId \in Dictionaries(scope, externalId) /\ providers \in 1..MaxProviders
        /\ actions \subseteq Requests
      BY DEF ReviewInv, Inputs, Recorded
  <2> QED BY <2>1, <2>2, <2>3, <2>4, <2>5, <2>6 DEF ReviewTypeOK, ContentTypeOK
<1> QED BY <1>1, Invariance, PTL

\* Whatever the model has answered, an item is about a mailbox of the digest, and
\* its e-mail is of that mailbox (digest_parser).
THEOREM ScopeKept == ReviewSpec => []ItemsInScope
<1>1. ReviewInv => ItemsInScope
    BY DEF ReviewInv, Parsing, SoundItems, Sound, ItemsInScope
<1> QED BY <1>1, Invariance, PTL

\* A generation is given up only when no configured provider has a try left
\* (FallbackLLMProvider and the loop of each provider).
THEOREM GivenUpLast == ReviewSpec => []AllProvidersTried
<1>1. ReviewInv => AllProvidersTried
  <2> SUFFICES ASSUME ReviewInv, givenUp, NEW p \in 1..providers PROVE tries[p] = MaxTries
      BY DEF AllProvidersTried
  <2>1. asked = providers /\ tries[asked] = MaxTries
      BY Zenon DEF ReviewInv, Asking
  <2>2. p \in 1..MaxProviders /\ (p < asked \/ p = asked)
      BY <2>1, ContentAssumption DEF ReviewInv, Inputs
  <2> QED BY <2>1, <2>2 DEF ReviewInv, Asking
<1> QED BY <1>1, Invariance, PTL

\* The references of a recorded action agree with each other and with the stored
\* item (_normalize_and_validate_scope of create_action).
THEOREM ReferencesAgree == ReviewSpec => []ActionsAgree
<1>1. ReviewInv => ActionsAgree
    BY DEF ReviewInv, Recorded
<1> QED BY <1>1, Invariance, PTL

\* The buttons of every item of the digest of one mailbox work (create_action with
\* the request record_digest_item_action builds).
THEOREM ButtonsWork == ReviewSpec => []ItemsActionable
<1>1. ReviewInv => ItemsActionable
  <2> SUFFICES ASSUME ReviewInv, kind = "mailbox", NEW i \in DOMAIN outcome.items
               PROVE  Valid(ItemRequest(i))
      BY DEF ItemsActionable
  <2> DEFINE item == outcome.items[i]
  <2>1. item \in Items /\ Sound(item)
      BY DEF ReviewInv, Stored, SoundItems
  <2>2. DigestMailbox("this") = item.mailbox
    <3>1. PICK m \in Mailboxes : scope = {m}
        BY DEF ReviewInv, Inputs
    <3>2. (CHOOSE n \in scope : TRUE) = m
        BY <3>1
    <3>3. DigestMailbox("this") = CHOOSE n \in scope : TRUE
        BY Zenon DEF DigestMailbox
    <3> QED BY <2>1, <3>1, <3>2, <3>3 DEF Sound
  <2>3. Consistent(ItemRequest(i))
      BY <2>1, <2>2 DEF Consistent, ItemRequest, Sound
  <2>4. Belongs(ItemRequest(i), item)
      BY DEF Belongs, ItemRequest
  <2>5. ItemRequest(i).item = i
      BY DEF ItemRequest
  <2> QED BY <2>3, <2>4, <2>5 DEF Valid
<1> QED BY <1>1, Invariance, PTL

\* What the parser settles meets the CHECK constraints of digest_items: the INSERT
\* of a generation is refused only for an e-mail named twice, a NaN or text that
\* cannot be stored.
THEOREM SchemaMet == ReviewSpec => ParserMeetsSchema
<1>1. ReviewInv /\ [ReviewNext]_reviewVars =>
        [InsertRefused =>
           \/ SameEmailTwice
           \/ \E i \in DOMAIN parsed :
                 parsed[i].confidence = "nan" \/ parsed[i].text = "unstorable"]_vars
  <2> SUFFICES ASSUME ReviewInv, InsertRefused, ~SameEmailTwice
               PROVE  \E i \in DOMAIN parsed :
                        parsed[i].confidence = "nan" \/ parsed[i].text = "unstorable"
      OBVIOUS
  <2>1. PICK i \in DOMAIN parsed : ~RowAllowed(parsed[i])
      BY DEF InsertRefused, Insertable
  <2>2. parsed[i] \in Items /\ Sound(parsed[i])
      BY DEF ReviewInv, Parsing, SoundItems
  <2> QED BY <2>1, <2>2 DEF RowAllowed, Items, Sound, Fits, Sections, ItemTypes
<1> QED BY <1>1, Invariance, PTL DEF ReviewSpec, ParserMeetsSchema
=============================================================================
