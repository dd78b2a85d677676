-------------------------- MODULE MailFetchProofs --------------------------
(***************************************************************************)
(* Proofs about MailFetch, for any number of messages, pages of any size   *)
(* and any number of renumberings.                                         *)
(***************************************************************************)
EXTENDS MailFetch, SequenceTheorems, FiniteSetTheorems, WellFoundedInduction, TLAPS

Mail == [id : ExternalIds, message : Messages, at : Times]
Distinct(s) == \A i, j \in DOMAIN s : i # j => s[i] # s[j]

Types ==
    /\ provider \in {"gmail", "imap"} /\ announces \in BOOLEAN
    /\ stamp \in [Messages -> Stamps]
    /\ arrived \in 0..MaxMessages /\ inbox \in Seq(Messages)
    /\ uid \in [Messages -> 0..MaxMessages] /\ uidvalidity \in Epochs
    /\ phase \in {"idle", "list", "fetch", "store"}
    /\ token \in 0..(MaxMessages + PageSize)
    /\ listed \in Seq(Messages) /\ batch \in Seq(Mail)
    /\ present \subseteq 1..arrived /\ skipped \subseteq 1..arrived
    /\ rows \in [ExternalIds -> Messages \cup {None}]

\* The newest message is first: at position i there are i - 1 newer ones.
Folder ==
    /\ Distinct(inbox)
    /\ \A i \in DOMAIN inbox : inbox[i] + i <= arrived + 1

\* A UID names one message of the folder, and none that has not arrived.
Numbered ==
    /\ \A m \in Messages : uid[m] <= arrived /\ (m > arrived => uid[m] = 0)
    /\ \A m, n \in Messages : m # n /\ uid[m] = uid[n] => uid[m] = 0
    /\ \A i \in DOMAIN inbox : uid[inbox[i]] # 0

\* What is still to be fetched is new to the batch and named once.
Listing ==
    /\ token # 0 => phase = "list" /\ provider = "gmail"
    /\ phase \in {"idle", "store"} => listed = <<>>
    /\ phase \in {"idle", "list"} => batch = <<>>
    /\ phase = "list" /\ provider = "imap" => listed = <<>>
    /\ \A i \in DOMAIN listed : listed[i] <= arrived
    /\ Distinct(listed)
    /\ \A i \in DOMAIN batch, j \in DOMAIN listed : batch[i].message # listed[j]
    /\ \A i, j \in DOMAIN batch : i # j => batch[i].message # batch[j].message

\* The ids in the batch are those the messages have now.
Identified ==
    \A i \in DOMAIN batch :
        /\ batch[i].id = ExternalId(batch[i].message)
        /\ provider = "imap" => uid[batch[i].message] # 0

\* A row has the id its message has now, or one of an earlier epoch.
Named ==
    provider = "gmail" \/ announces =>
      \A e \in 0..Unknown, u \in Messages :
        rows[<<e, u>>] # None =>
          IF provider = "gmail" THEN e = 0 /\ rows[<<e, u>>] = u
          ELSE e <= uidvalidity /\ (e = uidvalidity => uid[rows[<<e, u>>]] = u)

\* No message that was there when the sync began, and that the query returns, has
\* been passed over: the pages read cover the front of what it returns, where only
\* newer messages are inserted.
Reached(m) ==
    \/ m \in ToSet(listed)
    \/ m \in skipped
    \/ \E i \in DOMAIN batch : /\ batch[i].message = m
                               /\ stamp[m] = "today" => batch[i].at = "inside"
Covered ==
    /\ phase = "list" /\ provider = "gmail" =>
         \A i \in DOMAIN Returned : Returned[i] \in present /\ i <= token =>
                                      Returned[i] \in ToSet(listed)
    /\ phase \in {"fetch", "store"} =>
         \A i \in DOMAIN inbox : inbox[i] \in present /\ stamp[inbox[i]] # "missed" =>
                                   Reached(inbox[i])

FetchInv ==
    Types /\ Folder /\ Numbered /\ Listing /\ Identified /\ Named /\ Covered
-----------------------------------------------------------------------------
(* Induction, for sets of numbers. *)

LEMMA Induction ==
    ASSUME NEW S \in SUBSET Nat, 0 \in S, \A n \in S : n + 1 \in S PROVE S = Nat
<1> SUFFICES ASSUME Nat \ S # {} PROVE FALSE
    OBVIOUS
<1>1. PICK x \in Nat \ S : \A y \in Nat \ S : <<y, x>> \notin OpToRel(<, Nat)
    BY NatLessThanWellFounded, WFMin
<1>2. \A y \in Nat \ S : ~(y < x)
    BY <1>1 DEF OpToRel
<1>3. x # 0 /\ x - 1 \in Nat /\ x - 1 \in S
    BY <1>2
<1> QED BY <1>3

(* Sequences of messages. *)

LEMMA Removed ==
    ASSUME NEW s \in Seq(Messages), NEW i \in DOMAIN s
    PROVE  /\ RemoveAt(s, i) \in Seq(Messages) /\ Len(RemoveAt(s, i)) = Len(s) - 1
           /\ \A k \in 1..(Len(s) - 1) :
                RemoveAt(s, i)[k] = s[IF k < i THEN k ELSE k + 1]
<1> DEFINE a == SubSeq(s, 1, i - 1)
           b == SubSeq(s, i + 1, Len(s))
<1>0. i \in 1..Len(s) /\ Len(s) \in Nat /\ \A k \in 1..Len(s) : s[k] \in Messages
    BY LenProperties
<1>1. /\ a \in Seq(Messages) /\ Len(a) = i - 1
      /\ \A k \in 1..(i - 1) : a[k] = s[k]
  <2>1. \A k \in 1..(i - 1) : s[k] \in Messages
      BY <1>0
  <2>2. /\ a \in Seq(Messages) /\ Len(a) = IF 1 <= i - 1 THEN (i - 1) - 1 + 1 ELSE 0
        /\ \A k \in 1..((i - 1) - 1 + 1) : a[k] = s[1 + k - 1]
      BY <1>0, <2>1, SubSeqProperties
  <2> HIDE DEF a
  <2> QED BY <1>0, <2>2
<1>2. /\ b \in Seq(Messages) /\ Len(b) = Len(s) - i
      /\ \A k \in 1..(Len(s) - i) : b[k] = s[i + k]
  <2>1. \A k \in (i + 1)..Len(s) : s[k] \in Messages
      BY <1>0
  <2>2. /\ b \in Seq(Messages)
        /\ Len(b) = IF i + 1 <= Len(s) THEN Len(s) - (i + 1) + 1 ELSE 0
        /\ \A k \in 1..(Len(s) - (i + 1) + 1) : b[k] = s[(i + 1) + k - 1]
      BY <1>0, <2>1, SubSeqProperties
  <2> HIDE DEF b
  <2> QED BY <1>0, <2>2
<1> HIDE DEF a, b
<1>3. /\ a \o b \in Seq(Messages) /\ Len(a \o b) = Len(s) - 1
      /\ \A k \in 1..(Len(s) - 1) : (a \o b)[k] = IF k <= i - 1 THEN a[k] ELSE b[k - (i - 1)]
  <2>1. /\ a \o b \in Seq(Messages) /\ Len(a \o b) = Len(a) + Len(b)
        /\ \A k \in 1..(Len(a) + Len(b)) :
             (a \o b)[k] = IF k <= Len(a) THEN a[k] ELSE b[k - Len(a)]
      BY <1>1, <1>2, ConcatProperties
  <2>2. Len(a) + Len(b) = Len(s) - 1
      BY <1>0, <1>1, <1>2
  <2> QED BY <1>1, <2>1, <2>2
<1>4. RemoveAt(s, i) = a \o b
    BY DEF RemoveAt, a, b
<1>5. ASSUME NEW k \in 1..(Len(s) - 1)
      PROVE  (a \o b)[k] = s[IF k < i THEN k ELSE k + 1]
  <2>1. CASE k < i
      BY <1>0, <1>1, <1>3, <2>1
  <2>2. CASE ~(k < i)
    <3> DEFINE l == k - (i - 1)
    <3>1. l \in 1..(Len(s) - i) /\ i + l = k + 1 /\ ~(k <= i - 1)
        BY <1>0, <2>2
    <3>2. (a \o b)[k] = b[l]
        BY <1>3, <3>1
    <3> HIDE DEF l
    <3>3. b[l] = s[k + 1]
        BY <1>2, <3>1
    <3> QED BY <2>2, <3>2, <3>3
  <2> QED BY <2>1, <2>2
<1> QED BY <1>3, <1>4, <1>5

LEMMA Reversed ==
    ASSUME NEW s \in Seq(Messages)
    PROVE  /\ Reverse(s) \in Seq(Messages) /\ Len(Reverse(s)) = Len(s)
           /\ \A i \in 1..Len(s) : Reverse(s)[i] = s[Len(s) - i + 1]
           /\ ToSet(Reverse(s)) = ToSet(s)
           /\ Distinct(s) => Distinct(Reverse(s))
<1>0. DOMAIN s = 1..Len(s) /\ Len(s) \in Nat /\ \A i \in 1..Len(s) : s[i] \in Messages
    BY LenProperties
<1>1. Reverse(s) \in [1..Len(s) -> Messages]
    BY <1>0 DEF Reverse
<1>2. Reverse(s) \in Seq(Messages) /\ Len(Reverse(s)) = Len(s)
    BY <1>0, <1>1
<1>3. \A i \in 1..Len(s) : Reverse(s)[i] = s[Len(s) - i + 1]
    BY <1>0 DEF Reverse
<1>4. \A i \in 1..Len(s) : s[i] = Reverse(s)[Len(s) - i + 1]
    BY <1>0, <1>3
<1>5. ToSet(Reverse(s)) = ToSet(s)
  <2>1. \A i \in 1..Len(s) : Len(s) - i + 1 \in 1..Len(s)
      BY <1>0
  <2>2. DOMAIN Reverse(s) = 1..Len(s)
      BY <1>1
  <2> QED BY <1>0, <1>3, <1>4, <2>1, <2>2 DEF ToSet
<1>6. Distinct(s) => Distinct(Reverse(s))
    BY <1>0, <1>1, <1>3 DEF Distinct
<1> QED BY <1>2, <1>3, <1>5, <1>6

LEMMA Appended ==
    ASSUME NEW s \in Seq(Messages), Distinct(s), NEW e \in Messages, e \notin ToSet(s)
    PROVE  /\ Append(s, e) \in Seq(Messages) /\ Distinct(Append(s, e))
           /\ ToSet(Append(s, e)) = ToSet(s) \cup {e}
<1> DEFINE t == Append(s, e)
<1>0. DOMAIN s = 1..Len(s) /\ Len(s) \in Nat
    BY LenProperties
<1>1. /\ t \in Seq(Messages) /\ Len(t) = Len(s) + 1 /\ t[Len(s) + 1] = e
      /\ \A i \in 1..Len(s) : t[i] = s[i]
    BY AppendProperties
<1> HIDE DEF t
<1>2. DOMAIN t = 1..(Len(s) + 1)
    BY <1>1, LenProperties
<1>3. \A i \in 1..Len(s) : s[i] # e
    BY <1>0 DEF ToSet
<1>4. Distinct(t)
    BY <1>0, <1>1, <1>2, <1>3 DEF Distinct
<1>5. ToSet(t) = ToSet(s) \cup {e}
  <2>1. 1..(Len(s) + 1) = 1..Len(s) \cup {Len(s) + 1}
      BY <1>0
  <2> QED BY <1>0, <1>1, <1>2, <2>1 DEF ToSet
<1> QED BY <1>1, <1>4, <1>5 DEF t

\* The loop over a page: what a recursive function over 0..Len(page) computes.
Ids(page, ids, n) ==
    IF n = 0 THEN listed
    ELSE IF page[n] \in ToSet(ids[n - 1]) THEN ids[n - 1]
    ELSE Append(ids[n - 1], page[n])

LEMMA LoopRuns ==
    ASSUME NEW page, Len(page) \in Nat
    PROVE  \E ids : ids = [n \in 0..Len(page) |-> Ids(page, ids, n)]
<1> DEFINE Upto(n) == \E f : f = [i \in 0..n |-> Ids(page, f, i)]
           S == {n \in Nat : Upto(n)}
<1>1. 0 \in S
  <2> DEFINE f == [i \in 0..0 |-> listed]
  <2>1. f = [i \in 0..0 |-> Ids(page, f, i)]
    BY DEF Ids
  <2> QED BY <2>1
<1>2. ASSUME NEW n \in S PROVE n + 1 \in S
  <2>1. PICK f : f = [i \in 0..n |-> Ids(page, f, i)]
    BY <1>2
  <2> DEFINE last == Ids(page, f, n + 1)
             g == [i \in 0..(n + 1) |-> IF i = n + 1 THEN last ELSE f[i]]
  <2>2. \A i \in 0..n : g[i] = f[i]
    OBVIOUS
  <2>3. \A i \in 0..n : g[i] = Ids(page, f, i)
    BY <2>1, <2>2
  <2>4. \A i \in 0..n : Ids(page, g, i) = Ids(page, f, i)
    BY <2>2 DEF Ids
  <2>5. g[n + 1] = last /\ last = Ids(page, g, n + 1)
    BY <2>2 DEF Ids
  <2>6. g = [i \in 0..(n + 1) |-> g[i]]
    OBVIOUS
  <2> HIDE DEF g
  <2>7. ASSUME NEW i \in 0..(n + 1) PROVE g[i] = Ids(page, g, i)
    <3>1. CASE i = n + 1
      BY <2>5, <3>1
    <3>2. CASE i \in 0..n
      BY <2>3, <2>4, <3>2
    <3> QED BY <3>1, <3>2
  <2>8. g = [i \in 0..(n + 1) |-> Ids(page, g, i)]
    BY <2>6, <2>7, Zenon
  <2>9. Upto(n + 1)
    BY <2>8
  <2> QED BY <2>9
<1>3. Len(page) \in S
    BY <1>1, <1>2, Induction
<1> QED BY <1>3

\* message_ids after a page: the old ids and those of the page, each of them once.
LEMMA FoundIs ==
    ASSUME listed \in Seq(Messages), Distinct(listed), NEW page \in Seq(Messages)
    PROVE  /\ Found(page) \in Seq(Messages) /\ Distinct(Found(page))
           /\ ToSet(Found(page)) = ToSet(listed) \cup ToSet(page)
<1>0. Len(page) \in Nat /\ DOMAIN page = 1..Len(page)
      /\ \A n \in 1..Len(page) : page[n] \in Messages
    BY LenProperties
<1> DEFINE ids == CHOOSE f : f = [n \in 0..Len(page) |-> Ids(page, f, n)]
<1>1. ids = [n \in 0..Len(page) |-> Ids(page, ids, n)]
    BY <1>0, LoopRuns
<1>2. Found(page) = ids[Len(page)]
    BY DEF Found, Ids
<1> HIDE DEF ids
<1>3. \A n \in 0..Len(page) : ids[n] = Ids(page, ids, n)
    BY <1>1
<1> DEFINE Once(n) == /\ ids[n] \in Seq(Messages) /\ Distinct(ids[n])
                      /\ ToSet(ids[n]) = ToSet(listed) \cup {page[k] : k \in 1..n}
           S == {n \in Nat : n <= Len(page) => Once(n)}
<1>4. 0 \in S
  <2>1. ids[0] = listed
      BY <1>0, <1>3 DEF Ids
  <2>2. {page[k] : k \in 1..0} = {}
      OBVIOUS
  <2> QED BY <2>1, <2>2
<1>5. ASSUME NEW n \in S PROVE n + 1 \in S
  <2> SUFFICES ASSUME n + 1 <= Len(page) PROVE Once(n + 1)
      OBVIOUS
  <2>1. n \in Nat /\ n \in 0..Len(page) /\ n + 1 \in 0..Len(page) /\ Once(n)
      BY <1>0
  <2>2. ids[n + 1] = IF page[n + 1] \in ToSet(ids[n]) THEN ids[n]
                     ELSE Append(ids[n], page[n + 1])
      BY <1>3, <2>1 DEF Ids
  <2>3. page[n + 1] \in Messages
      BY <1>0, <2>1
  <2>4. {page[k] : k \in 1..(n + 1)} = {page[k] : k \in 1..n} \cup {page[n + 1]}
    <3>1. 1..(n + 1) = 1..n \cup {n + 1}
        BY <2>1
    <3> QED BY <3>1
  <2>5. CASE page[n + 1] \in ToSet(ids[n])
    <3>1. ids[n + 1] = ids[n]
        BY <2>2, <2>5
    <3> QED BY <2>1, <2>4, <2>5, <3>1
  <2>6. CASE page[n + 1] \notin ToSet(ids[n])
    <3>1. ids[n + 1] = Append(ids[n], page[n + 1])
        BY <2>2, <2>6
    <3>2. /\ ids[n + 1] \in Seq(Messages) /\ Distinct(ids[n + 1])
          /\ ToSet(ids[n + 1]) = ToSet(ids[n]) \cup {page[n + 1]}
        BY <2>1, <2>3, <2>6, <3>1, Appended
    <3> QED BY <2>1, <2>4, <3>2
  <2> QED BY <2>5, <2>6
<1>6. Once(Len(page))
  <2> HIDE DEF Once
  <2>1. S = Nat
      BY <1>4, <1>5, Induction
  <2> QED BY <1>0, <2>1
<1>7. ToSet(page) = {page[k] : k \in 1..Len(page)}
    BY <1>0 DEF ToSet
<1> QED BY <1>2, <1>6, <1>7

\* The messages the query returns, found one by one.
Kept(mail, time, found, n) ==
    IF n = 0 THEN <<>>
    ELSE IF time[mail[n]] = "missed" THEN found[n - 1]
    ELSE Append(found[n - 1], mail[n])
Filters(f, mail, time) == f = [n \in 0..Len(mail) |-> Kept(mail, time, f, n)]

\* The messages of the first n that the query returns.
AreKept(s, mail, time, n) ==
    /\ s \in Seq(Messages) /\ Distinct(s) /\ Len(s) <= n
    /\ \A m : m \in ToSet(s) <=> \E k \in 1..n : m = mail[k] /\ time[m] # "missed"

LEMMA FilterRuns ==
    ASSUME NEW mail, NEW time, Len(mail) \in Nat
    PROVE  \E f : Filters(f, mail, time)
<1> DEFINE Upto(n) == \E f : f = [i \in 0..n |-> Kept(mail, time, f, i)]
           S == {n \in Nat : Upto(n)}
<1>1. 0 \in S
  <2> DEFINE f == [i \in 0..0 |-> <<>>]
  <2>1. f = [i \in 0..0 |-> Kept(mail, time, f, i)]
    BY DEF Kept
  <2> QED BY <2>1
<1>2. ASSUME NEW n \in S PROVE n + 1 \in S
  <2>1. PICK f : f = [i \in 0..n |-> Kept(mail, time, f, i)]
    BY <1>2
  <2> DEFINE last == Kept(mail, time, f, n + 1)
             g == [i \in 0..(n + 1) |-> IF i = n + 1 THEN last ELSE f[i]]
  <2>2. \A i \in 0..n : g[i] = f[i]
    OBVIOUS
  <2>3. \A i \in 0..n : g[i] = Kept(mail, time, f, i)
    BY <2>1, <2>2
  <2>4. \A i \in 0..n : Kept(mail, time, g, i) = Kept(mail, time, f, i)
    BY <2>2 DEF Kept
  <2>5. g[n + 1] = last /\ last = Kept(mail, time, g, n + 1)
    BY <2>2 DEF Kept
  <2>6. g = [i \in 0..(n + 1) |-> g[i]]
    OBVIOUS
  <2> HIDE DEF g
  <2>7. ASSUME NEW i \in 0..(n + 1) PROVE g[i] = Kept(mail, time, g, i)
    <3>1. CASE i = n + 1
      BY <2>5, <3>1
    <3>2. CASE i \in 0..n
      BY <2>3, <2>4, <3>2
    <3> QED BY <3>1, <3>2
  <2>8. g = [i \in 0..(n + 1) |-> Kept(mail, time, g, i)]
    BY <2>6, <2>7, Zenon
  <2>9. Upto(n + 1)
    BY <2>8
  <2> QED BY <2>9
<1>3. Len(mail) \in S
    BY <1>1, <1>2, Induction
<1> QED BY <1>3 DEF Filters

LEMMA Filtered ==
    ASSUME NEW mail \in Seq(Messages), Distinct(mail), NEW time, NEW f, Filters(f, mail, time)
    PROVE  \A n \in 0..Len(mail) : AreKept(f[n], mail, time, n)
<1>0. Len(mail) \in Nat /\ DOMAIN mail = 1..Len(mail)
      /\ \A n \in 1..Len(mail) : mail[n] \in Messages
    BY LenProperties
<1>1. \A n \in 0..Len(mail) : f[n] = Kept(mail, time, f, n)
    BY DEF Filters
<1> DEFINE Right(n) ==
             /\ f[n] \in Seq(Messages) /\ Distinct(f[n]) /\ Len(f[n]) <= n
             /\ \A m : m \in ToSet(f[n]) <=> \E k \in 1..n : m = mail[k] /\ time[m] # "missed"
           S == {n \in Nat : n <= Len(mail) => Right(n)}
<1>2. 0 \in S
  <2>1. f[0] = <<>>
      BY <1>0, <1>1 DEF Kept
  <2>2. <<>> \in Seq(Messages) /\ Len(<<>>) = 0 /\ ToSet(<<>>) = {} /\ Distinct(<<>>)
      BY DEF ToSet, Distinct
  <2>3. Right(0)
    <3>1. 1..0 = {}
        OBVIOUS
    <3> QED BY <2>1, <2>2, <3>1
  <2> QED BY <2>3
<1>3. ASSUME NEW n \in S PROVE n + 1 \in S
  <2> SUFFICES ASSUME n + 1 <= Len(mail) PROVE Right(n + 1)
      OBVIOUS
  <2>1. n \in Nat /\ n + 1 \in 0..Len(mail) /\ n + 1 \in 1..Len(mail) /\ Right(n)
      BY <1>0
  <2> DEFINE new == mail[n + 1]
  <2>2. f[n + 1] = IF time[new] = "missed" THEN f[n] ELSE Append(f[n], new)
      BY <1>1, <2>1 DEF Kept
  <2>3. new \in Messages
      BY <1>0, <2>1
  <2>4. \A k \in 1..(n + 1) : k \in 1..n \/ k = n + 1
      BY <2>1
  <2>5. \A k \in 1..n : k \in 1..(n + 1) /\ mail[k] # new
      BY <1>0, <2>1 DEF Distinct
  <2>6. n + 1 \in 1..(n + 1)
      BY <2>1
  <2>7. CASE time[new] = "missed"
    <3>1. f[n + 1] = f[n]
        BY <2>2, <2>7
    <3>2. Len(f[n]) \in Nat
        BY <2>1, LenProperties
    <3>3. ASSUME NEW m
          PROVE  m \in ToSet(f[n]) <=> \E k \in 1..(n + 1) : m = mail[k] /\ time[m] # "missed"
        BY <2>1, <2>4, <2>5, <2>7
    <3> QED BY <2>1, <3>1, <3>2, <3>3
  <2>8. CASE time[new] # "missed"
    <3>1. f[n + 1] = Append(f[n], new)
        BY <2>2, <2>8
    <3>2. new \notin ToSet(f[n])
        BY <2>1, <2>5
    <3>3. /\ f[n + 1] \in Seq(Messages) /\ Distinct(f[n + 1])
          /\ ToSet(f[n + 1]) = ToSet(f[n]) \cup {new}
        BY <2>1, <2>3, <3>1, <3>2, Appended
    <3>4. Len(f[n + 1]) <= n + 1
        BY <2>1, <2>3, <3>1, LenProperties, AppendProperties
    <3>5. ASSUME NEW m
          PROVE  m \in ToSet(f[n + 1])
                   <=> \E k \in 1..(n + 1) : m = mail[k] /\ time[m] # "missed"
        BY <2>1, <2>4, <2>5, <2>6, <2>8, <3>3
    <3> QED BY <3>3, <3>4, <3>5
  <2> QED BY <2>7, <2>8
<1> HIDE DEF Right
<1>4. \A n \in 0..Len(mail) : Right(n)
  <2>1. S = Nat
      BY <1>2, <1>3, Induction
  <2> QED BY <1>0, <2>1
<1>5. \A n \in 0..Len(mail) : Right(n) => AreKept(f[n], mail, time, n)
    BY Zenon DEF Right, AreKept
<1> QED BY <1>4, <1>5

\* The query returns messages of the inbox, each of them once.
LEMMA ReturnedIs ==
    ASSUME inbox \in Seq(Messages), Distinct(inbox)
    PROVE  /\ Returned \in Seq(Messages) /\ Distinct(Returned)
           /\ Len(Returned) \in Nat /\ Len(Returned) <= Len(inbox)
           /\ DOMAIN Returned = 1..Len(Returned)
           /\ ToSet(Returned) \subseteq ToSet(inbox)
           /\ \A m \in ToSet(inbox) : stamp[m] # "missed" => m \in ToSet(Returned)
<1> DEFINE f == CHOOSE found : Filters(found, inbox, stamp)
<1>0. Len(inbox) \in Nat /\ DOMAIN inbox = 1..Len(inbox)
    BY LenProperties
<1>1. Filters(f, inbox, stamp)
    BY <1>0, FilterRuns
<1>2. Returned = f[Len(inbox)]
    BY DEF Returned, Filters, Kept
<1> HIDE DEF f
<1>3. /\ Returned \in Seq(Messages) /\ Distinct(Returned) /\ Len(Returned) <= Len(inbox)
      /\ \A m : m \in ToSet(Returned)
                  <=> \E k \in 1..Len(inbox) : m = inbox[k] /\ stamp[m] # "missed"
  <2>1. Len(inbox) \in 0..Len(inbox)
      BY <1>0
  <2>2. AreKept(f[Len(inbox)], inbox, stamp, Len(inbox))
      BY <1>1, <2>1, Filtered
  <2> QED BY <1>2, <2>2, Zenon DEF AreKept
<1>4. \A m : m \in ToSet(inbox) <=> \E k \in 1..Len(inbox) : m = inbox[k]
    BY <1>0 DEF ToSet
<1>5. Len(Returned) \in Nat /\ DOMAIN Returned = 1..Len(Returned)
    BY <1>3, LenProperties
<1> QED BY <1>3, <1>4, <1>5

\* A message that arrives comes in front of what the query returned, if at all.
LEMMA AppendAfter ==
    ASSUME NEW a \in Seq(Messages), NEW b \in Seq(Messages), NEW e \in Messages
    PROVE  Append(a \o b, e) = a \o Append(b, e)
<1>0. <<e>> \in Seq(Messages)
    OBVIOUS
<1>1. PICK c \in Seq(Messages) : c = <<e>>
    BY <1>0
<1>2. a \o b \in Seq(Messages)
    BY ConcatProperties
<1>3. Append(a \o b, e) = (a \o b) \o c /\ Append(b, e) = b \o c
    BY <1>1, <1>2, AppendIsConcat
<1>4. (a \o b) \o c = a \o (b \o c)
    BY ConcatAssociative
<1> QED BY <1>3, <1>4

Agree(mail, time, later) == \A n \in DOMAIN mail : later[mail[n]] = time[mail[n]]
Joins(s, front, rest) == s = front \o rest
InFront(new, later) == IF later[new] = "missed" THEN <<>> ELSE <<new>>
LEMMA FilteredFront ==
    ASSUME NEW mail \in Seq(Messages), Distinct(mail), NEW new \in Messages,
           NEW time \in [Messages -> Stamps], NEW later \in [Messages -> Stamps],
           Agree(mail, time, later),
           NEW all \in Seq(Messages), Joins(all, <<new>>, mail),
           NEW f, Filters(f, mail, time), NEW g, Filters(g, all, later)
    PROVE  \A n \in 0..Len(mail) : Joins(g[n + 1], InFront(new, later), f[n])
<1> DEFINE front == InFront(new, later)
<1>0. Len(mail) \in Nat /\ DOMAIN mail = 1..Len(mail)
      /\ \A n \in 1..Len(mail) : mail[n] \in Messages
    BY LenProperties
<1>1. /\ Len(all) = Len(mail) + 1 /\ all[1] = new
      /\ \A n \in 1..Len(mail) : all[n + 1] = mail[n]
  <2>1. <<new>> \in Seq(Messages) /\ Len(<<new>>) = 1 /\ <<new>>[1] = new
      OBVIOUS
  <2>2. /\ Len(all) = 1 + Len(mail)
        /\ \A i \in 1..(1 + Len(mail)) : all[i] = IF i <= 1 THEN <<new>>[i] ELSE mail[i - 1]
      BY <2>1, ConcatProperties DEF Joins
  <2>3. 1 \in 1..(1 + Len(mail))
      BY <1>0
  <2>4. \A n \in 1..Len(mail) :
          n + 1 \in 1..(1 + Len(mail)) /\ ~(n + 1 <= 1) /\ (n + 1) - 1 = n
      BY <1>0
  <2> QED BY <1>0, <2>1, <2>2, <2>3, <2>4
<1>2. \A n \in 0..Len(all) : g[n] = Kept(all, later, g, n)
    BY DEF Filters
<1>3. /\ \A n \in 0..Len(mail) : f[n] = Kept(mail, time, f, n)
      /\ \A n \in 0..Len(mail) : f[n] \in Seq(Messages)
  <2>1. \A n \in 0..Len(mail) : f[n] = Kept(mail, time, f, n)
      BY DEF Filters
  <2>2. \A n \in 0..Len(mail) : f[n] \in Seq(Messages)
    <3>1. \A n \in 0..Len(mail) : AreKept(f[n], mail, time, n)
        BY Filtered
    <3> QED BY <3>1, Zenon DEF AreKept
  <2> QED BY <2>1, <2>2
<1>4. front \in Seq(Messages) /\ front = IF later[new] = "missed" THEN <<>> ELSE <<new>>
    BY DEF InFront
<1> HIDE DEF front
<1> DEFINE Right(n) == g[n + 1] = front \o f[n]
           S == {n \in Nat : n <= Len(mail) => Right(n)}
<1>6. 0 \in S
  <2>1. f[0] = <<>> /\ g[0] = <<>> /\ 1 \in 0..Len(all)
    <3>1. 0 \in 0..Len(mail) /\ 0 \in 0..Len(all) /\ 1 \in 0..Len(all)
        BY <1>0, <1>1
    <3>2. f[0] = Kept(mail, time, f, 0) /\ g[0] = Kept(all, later, g, 0)
        BY <1>2, <1>3, <3>1
    <3> QED BY <3>1, <3>2 DEF Kept
  <2>2. g[1] = IF later[new] = "missed" THEN <<>> ELSE Append(<<>>, new)
    <3>1. g[1] = Kept(all, later, g, 1)
        BY <1>2, <2>1
    <3>2. 1 - 1 = 0 /\ 1 # 0
        OBVIOUS
    <3> QED BY <1>1, <2>1, <3>1, <3>2, Zenon DEF Kept
  <2>3. Append(<<>>, new) = <<new>>
      OBVIOUS
  <2>4. front \o <<>> = front
      BY <1>4, ConcatEmptySeq
  <2>5. Right(0)
      BY <1>4, <2>1, <2>2, <2>3, <2>4
  <2> HIDE DEF Right
  <2> QED BY <2>5
<1>7. ASSUME NEW n \in S PROVE n + 1 \in S
  <2> HIDE DEF Right
  <2>0. n \in Nat /\ (n <= Len(mail) => Right(n))
      OBVIOUS
  <2> SUFFICES ASSUME n + 1 <= Len(mail) PROVE Right(n + 1)
      BY <2>0
  <2> USE DEF Right
  <2> DEFINE e == mail[n + 1]
  <2>1. /\ n \in Nat /\ n \in 0..Len(mail) /\ n + 1 \in 1..Len(mail) /\ n + 1 \in 0..Len(mail)
        /\ (n + 1) + 1 \in 0..Len(all) /\ g[n + 1] = front \o f[n]
        /\ e \in Messages /\ all[(n + 1) + 1] = e /\ later[e] = time[e]
    <3>1. /\ n \in Nat /\ n \in 0..Len(mail) /\ n + 1 \in 1..Len(mail) /\ n + 1 \in 0..Len(mail)
          /\ (n + 1) + 1 \in 0..(Len(mail) + 1) /\ n <= Len(mail)
        BY <1>0, <2>0
    <3>2. g[n + 1] = front \o f[n]
        BY <2>0, <3>1
    <3> QED BY <1>0, <1>1, <3>1, <3>2 DEF Agree
  <2>2. f[n + 1] = IF time[e] = "missed" THEN f[n] ELSE Append(f[n], e)
      BY <1>3, <2>1 DEF Kept
  <2> HIDE DEF e
  <2>3. g[(n + 1) + 1] = IF time[e] = "missed" THEN g[n + 1] ELSE Append(g[n + 1], e)
    <3> DEFINE k == (n + 1) + 1
    <3>1. k - 1 = n + 1 /\ k # 0 /\ k \in 0..Len(all) /\ all[k] = e
        BY <2>1
    <3> HIDE DEF k
    <3>2. g[k] = IF later[e] = "missed" THEN g[k - 1] ELSE Append(g[k - 1], e)
        BY <1>2, <3>1 DEF Kept
    <3> QED BY <2>1, <3>1, <3>2 DEF k
  <2>4. Append(front \o f[n], e) = front \o Append(f[n], e)
      BY <1>3, <1>4, <2>1, AppendAfter
  <2> QED BY <2>1, <2>2, <2>3, <2>4
<1> HIDE DEF Right
<1>8. S = Nat
    BY <1>6, <1>7, Induction
<1>9. \A n \in 0..Len(mail) : Right(n)
    BY <1>0, <1>8
<1> QED BY <1>9 DEF Right, front, Joins

LEMMA ReturnedGrows ==
    ASSUME inbox \in Seq(Messages), Distinct(inbox), NEW new \in Messages,
           inbox' = <<new>> \o inbox,
           stamp \in [Messages -> Stamps], stamp' \in [Messages -> Stamps],
           \A n \in DOMAIN inbox : stamp'[inbox[n]] = stamp[inbox[n]]
    PROVE  Returned' = IF stamp'[new] = "missed" THEN Returned ELSE <<new>> \o Returned
<1> DEFINE f == CHOOSE found : Filters(found, inbox, stamp)
           g == CHOOSE found : Filters(found, inbox', stamp')
<1>0. Len(inbox) \in Nat /\ DOMAIN inbox = 1..Len(inbox) /\ Len(inbox') = Len(inbox) + 1
  <2>1. <<new>> \in Seq(Messages) /\ Len(<<new>>) = 1
      OBVIOUS
  <2> QED BY <2>1, LenProperties, ConcatProperties
<1>1. Filters(f, inbox, stamp) /\ Filters(g, inbox', stamp')
  <2>1. Len(inbox) \in Nat /\ Len(inbox') \in Nat
      BY <1>0
  <2>2. (\E found : Filters(found, inbox, stamp)) /\ (\E found : Filters(found, inbox', stamp'))
      BY <2>1, FilterRuns, Zenon
  <2> QED BY <2>2, Zenon
<1>2. Returned = f[Len(inbox)]
    BY DEF Returned, Filters, Kept
<1>3. Returned' = g[Len(inbox')]
    BY DEF Returned, Filters, Kept
<1> HIDE DEF f, g
<1> DEFINE front == InFront(new, stamp')
<1>4. \A n \in 0..Len(inbox) : g[n + 1] = front \o f[n]
  <2>1. Agree(inbox, stamp, stamp')
      BY DEF Agree
  <2>2. inbox' \in Seq(Messages)
    <3>1. <<new>> \in Seq(Messages)
        OBVIOUS
    <3> QED BY <3>1, ConcatProperties
  <2>3. Joins(inbox', <<new>>, inbox)
      BY DEF Joins
  <2>4. \A n \in 0..Len(inbox) : Joins(g[n + 1], front, f[n])
      BY <1>1, <2>1, <2>2, <2>3, FilteredFront
  <2> QED BY <2>4 DEF Joins
<1>5. Returned' = front \o Returned
  <2> HIDE DEF front
  <2>1. Len(inbox) \in 0..Len(inbox)
      BY <1>0
  <2> QED BY <1>0, <1>2, <1>3, <1>4, <2>1
<1>6. <<>> \o Returned = Returned
    BY ReturnedIs, ConcatEmptySeq
<1> QED BY <1>5, <1>6 DEF InFront

LEMMA ReturnedStays == UNCHANGED <<inbox, stamp>> => Returned' = Returned
BY DEF Returned

LEMMA Least ==
    ASSUME NEW a \in Nat, NEW b \in Nat
    PROVE  Min({a, b}) \in Nat /\ Min({a, b}) = IF a <= b THEN a ELSE b
<1>1. \E x \in {a, b} : \A y \in {a, b} : x <= y
    OBVIOUS
<1> QED BY <1>1 DEF Min

LEMMA PageIs ==
    ASSUME Returned \in Seq(Messages), token \in Nat
    PROVE  /\ Page \in Seq(Messages) /\ ToSet(Page) \subseteq ToSet(Returned)
           /\ \A i \in DOMAIN Returned :
                token < i /\ i <= token + PageSize => Returned[i] \in ToSet(Page)
<1> DEFINE size == Len(Returned)
           last == Min({token + PageSize, size})
<1>0. /\ PageSize \in Nat /\ size \in Nat /\ DOMAIN Returned = 1..size
      /\ \A i \in 1..size : Returned[i] \in Messages
    BY FetchAssumption, LenProperties
<1>1. Page = SubSeq(Returned, token + 1, last)
    BY DEF Page
<1> HIDE DEF size
<1>2. last \in Nat /\ last = IF token + PageSize <= size THEN token + PageSize ELSE size
    BY <1>0, Least
<1> HIDE DEF last
<1>3. \A i \in (token + 1)..last : Returned[i] \in Messages
    BY <1>0, <1>2
<1>4. /\ Page \in Seq(Messages)
      /\ Len(Page) = IF token + 1 <= last THEN last - (token + 1) + 1 ELSE 0
      /\ \A i \in 1..(last - (token + 1) + 1) : Page[i] = Returned[(token + 1) + i - 1]
    BY <1>1, <1>2, <1>3, SubSeqProperties
<1>5. DOMAIN Page = 1..Len(Page)
    BY <1>4, LenProperties
<1>6. ASSUME NEW k \in DOMAIN Page PROVE Page[k] \in ToSet(Returned)
  <2>1. k \in 1..(last - (token + 1) + 1) /\ (token + 1) + k - 1 \in 1..size
      BY <1>0, <1>2, <1>4, <1>5
  <2> QED BY <1>0, <1>4, <2>1 DEF ToSet
<1>7. ASSUME NEW i \in DOMAIN Returned, token < i, i <= token + PageSize
      PROVE  Returned[i] \in ToSet(Page)
  <2>1. i - token \in DOMAIN Page /\ Page[i - token] = Returned[i]
      BY <1>0, <1>2, <1>4, <1>5, <1>7
  <2> QED BY <2>1 DEF ToSet
<1> QED BY <1>4, <1>6, <1>7 DEF ToSet

LEMMA Taken ==
    ASSUME NEW s \in Seq(Messages), s # <<>>
    PROVE  /\ 1 \in DOMAIN s /\ Head(s) = s[1] /\ Tail(s) \in Seq(Messages)
           /\ \A i \in DOMAIN Tail(s) : i + 1 \in DOMAIN s /\ i + 1 # 1 /\ Tail(s)[i] = s[i + 1]
           /\ \A i \in DOMAIN s : i # 1 => i - 1 \in DOMAIN Tail(s) /\ Tail(s)[i - 1] = s[i]
<1>1. Len(s) \in Nat \ {0} /\ DOMAIN s = 1..Len(s)
    BY EmptySeq, LenProperties
<1>2. Head(s) = s[1]
    BY <1>1
<1>3. /\ Tail(s) \in Seq(Messages) /\ Len(Tail(s)) = Len(s) - 1
      /\ \A i \in 1..Len(Tail(s)) : Tail(s)[i] = s[i + 1]
    BY HeadTailProperties
<1>4. DOMAIN Tail(s) = 1..(Len(s) - 1)
    BY <1>3, LenProperties
<1> QED BY <1>1, <1>2, <1>3, <1>4
-----------------------------------------------------------------------------
(* The invariant. *)

LEMMA Sizes ==
    ASSUME Types, Folder
    PROVE  /\ MaxMessages \in Nat /\ Messages = 1..MaxMessages /\ arrived \in Nat
           /\ Len(inbox) \in Nat /\ DOMAIN inbox = 1..Len(inbox)
           /\ \A i \in DOMAIN inbox : inbox[i] \in Messages /\ inbox[i] \in 1..arrived
           /\ Len(inbox) <= arrived
           /\ Len(listed) \in Nat /\ DOMAIN listed = 1..Len(listed)
           /\ \A i \in DOMAIN listed : listed[i] \in Messages
           /\ Len(batch) \in Nat /\ DOMAIN batch = 1..Len(batch)
           /\ \A i \in DOMAIN batch : batch[i] \in Mail
<1>1. MaxMessages \in Nat /\ Messages = 1..MaxMessages /\ arrived \in Nat
    BY FetchAssumption DEF Types, Messages
<1>2. /\ Len(inbox) \in Nat /\ DOMAIN inbox = 1..Len(inbox)
      /\ \A i \in DOMAIN inbox : inbox[i] \in Messages
    BY LenProperties DEF Types
<1>3. \A i \in DOMAIN inbox : inbox[i] \in 1..arrived
    BY <1>1, <1>2 DEF Folder
<1>4. Len(inbox) <= arrived
  <2>1. CASE Len(inbox) = 0
      BY <1>1, <2>1
  <2>2. CASE Len(inbox) # 0
    <3>1. Len(inbox) \in DOMAIN inbox
        BY <1>2, <2>2
    <3> DEFINE n == Len(inbox)
               m == inbox[n]
    <3>2. n \in Nat /\ m \in 1..arrived /\ m + n <= arrived + 1
        BY <1>2, <1>3, <3>1 DEF Folder
    <3> HIDE DEF n, m
    <3>3. n <= arrived
        BY <1>1, <3>2
    <3> QED BY <3>3 DEF n
  <2> QED BY <2>1, <2>2
<1>5. /\ Len(listed) \in Nat /\ DOMAIN listed = 1..Len(listed)
      /\ \A i \in DOMAIN listed : listed[i] \in Messages
    BY LenProperties DEF Types
<1>6. /\ Len(batch) \in Nat /\ DOMAIN batch = 1..Len(batch)
      /\ \A i \in DOMAIN batch : batch[i] \in Mail
    BY LenProperties DEF Types
<1> QED BY <1>1, <1>2, <1>3, <1>4, <1>5, <1>6

LEMMA InvInit == Init => FetchInv
<1> SUFFICES ASSUME Init PROVE FetchInv
    OBVIOUS
<1>1. /\ inbox = <<>> /\ listed = <<>> /\ batch = <<>> /\ present = {} /\ arrived = 0
      /\ phase = "idle" /\ token = 0
    BY DEF Init
<1>2. Types
  <2>1. \A S : <<>> \in Seq(S)
      BY EmptySeq
  <2>2. provider \in {"gmail", "imap"} /\ announces \in BOOLEAN
      BY DEF Init
  <2>3. stamp \in [Messages -> Stamps] /\ uid \in [Messages -> 0..MaxMessages]
      BY FetchAssumption DEF Init, Stamps
  <2>4. rows \in [ExternalIds -> Messages \cup {None}]
      BY DEF Init
  <2>5. arrived \in 0..MaxMessages /\ uidvalidity \in Epochs /\ token \in 0..(MaxMessages + PageSize)
      BY FetchAssumption DEF Init, Epochs
  <2>6. present \subseteq 1..arrived /\ skipped \subseteq 1..arrived
      BY DEF Init
  <2> QED BY <1>1, <2>1, <2>2, <2>3, <2>4, <2>5, <2>6 DEF Types
<1>3. \A i \in DOMAIN <<>> : FALSE
    OBVIOUS
<1>4. Folder /\ Listing /\ Identified /\ Covered
    BY <1>1, <1>3 DEF Folder, Distinct, Listing, Identified, Covered
<1>5. Numbered
    BY <1>1, <1>3 DEF Numbered, Init
<1>6. Named
    BY DEF Named, Init, ExternalIds
<1> QED BY <1>2, <1>4, <1>5, <1>6 DEF FetchInv

\* A step of the sync leaves the mailbox as it is.
LEMMA MailboxStays ==
    ASSUME FetchInv, UNCHANGED <<boxVars, mailVars>>
    PROVE  /\ Folder' /\ Numbered'
           /\ \A m \in Messages : ExternalId(m)' = ExternalId(m)
           /\ rows' = rows => Named'
<1>1. Folder' /\ Numbered'
    BY DEF FetchInv, Folder, Numbered, Distinct, mailVars
<1>2. \A m \in Messages : ExternalId(m)' = ExternalId(m)
    BY DEF ExternalId, Announced, boxVars, mailVars
<1>3. rows' = rows => Named'
    BY DEF FetchInv, Named, boxVars, mailVars
<1> QED BY <1>1, <1>2, <1>3

LEMMA SyncBegins == FetchInv /\ Begin => FetchInv'
<1> SUFFICES ASSUME FetchInv, Begin PROVE FetchInv'
    OBVIOUS
<1> USE DEF boxVars, mailVars
<1>1. Folder' /\ Numbered' /\ Named' /\ \A m \in Messages : ExternalId(m)' = ExternalId(m)
    BY MailboxStays DEF Begin
<1>2. ToSet(inbox) \subseteq 1..arrived
    BY Sizes DEF FetchInv, ToSet
<1>3. Types'
    BY <1>2 DEF FetchInv, Types, Begin
<1>4. listed = <<>> /\ batch = <<>> /\ token = 0 /\ \A i \in DOMAIN <<>> : FALSE
    BY DEF FetchInv, Listing, Begin
<1>5. Listing' /\ Identified'
    BY <1>4 DEF Begin, Listing, Distinct, Identified
<1>6. Covered'
    BY <1>4, Sizes DEF FetchInv, Begin, Covered
<1> QED BY <1>1, <1>3, <1>5, <1>6 DEF FetchInv

LEMMA PageListed == FetchInv /\ ListPage => FetchInv'
<1> SUFFICES ASSUME FetchInv, ListPage PROVE FetchInv'
    OBVIOUS
<1> USE DEF boxVars, mailVars
<1>1. Folder' /\ Numbered' /\ Named' /\ \A m \in Messages : ExternalId(m)' = ExternalId(m)
    BY MailboxStays DEF ListPage
<1>2. /\ phase = "list" /\ provider = "gmail" /\ batch = <<>> /\ batch' = <<>>
      /\ inbox' = inbox /\ arrived' = arrived /\ present' = present /\ provider' = provider
      /\ \A i \in DOMAIN <<>> : FALSE
    BY DEF FetchInv, Listing, ListPage
<1>3. /\ Len(inbox) \in Nat /\ DOMAIN inbox = 1..Len(inbox) /\ Len(inbox) <= MaxMessages
      /\ token \in Nat /\ PageSize \in Nat /\ MaxMessages \in Nat
      /\ \A i \in DOMAIN inbox : inbox[i] \in 1..arrived
    BY Sizes, FetchAssumption DEF FetchInv, Types
<1>0. /\ Returned \in Seq(Messages) /\ Len(Returned) \in Nat /\ Len(Returned) <= Len(inbox)
      /\ DOMAIN Returned = 1..Len(Returned) /\ ToSet(Returned) \subseteq ToSet(inbox)
      /\ \A m \in ToSet(inbox) : stamp[m] # "missed" => m \in ToSet(Returned)
      /\ Returned' = Returned
  <2>1. inbox \in Seq(Messages) /\ Distinct(inbox)
      BY DEF FetchInv, Types, Folder
  <2> QED BY <2>1, ReturnedIs, ReturnedStays DEF ListPage
<1>4. /\ listed' \in Seq(Messages) /\ Distinct(listed')
      /\ ToSet(listed') = ToSet(listed) \cup ToSet(Page)
      /\ ToSet(Page) \subseteq ToSet(inbox)
      /\ \A i \in DOMAIN Returned :
           token < i /\ i <= token + PageSize => Returned[i] \in ToSet(Page)
  <2>1. listed \in Seq(Messages) /\ Distinct(listed)
      BY DEF FetchInv, Types, Listing
  <2>2. /\ Page \in Seq(Messages) /\ ToSet(Page) \subseteq ToSet(Returned)
        /\ \A i \in DOMAIN Returned :
             token < i /\ i <= token + PageSize => Returned[i] \in ToSet(Page)
      BY <1>0, <1>3, PageIs
  <2>3. /\ Found(Page) \in Seq(Messages) /\ Distinct(Found(Page))
        /\ ToSet(Found(Page)) = ToSet(listed) \cup ToSet(Page)
      BY <2>1, <2>2, FoundIs
  <2>4. listed' = Found(Page)
      BY DEF ListPage
  <2> QED BY <1>0, <2>2, <2>3, <2>4
\* The listing goes on at the next token, or it is complete.
<1>5. \/ phase' = "list" /\ token' = token + PageSize /\ token + PageSize < Len(Returned)
      \/ phase' = "fetch" /\ token' = 0 /\ ~(token + PageSize < Len(Returned))
    BY DEF ListPage, MorePages, NextToken
<1>6. Types'
    BY <1>0, <1>2, <1>3, <1>4, <1>5 DEF FetchInv, Types, ListPage
<1>7. \A i \in DOMAIN listed' : listed'[i] <= arrived
  <2>1. \A m \in ToSet(listed) \cup ToSet(inbox) : m <= arrived
      BY <1>3 DEF FetchInv, Listing, ToSet
  <2> QED BY <1>4, <2>1 DEF ToSet
<1>8. Listing' /\ Identified'
  <2>1. token' # 0 => phase' = "list" /\ provider' = "gmail"
      BY <1>2, <1>5
  <2>2. phase' \notin {"idle", "store"} /\ provider' # "imap"
      BY <1>2, <1>5
  <2> QED BY <1>2, <1>4, <1>7, <2>1, <2>2 DEF Listing, Identified
<1>9. ASSUME NEW i \in DOMAIN Returned, Returned[i] \in present, i <= token + PageSize
      PROVE  Returned[i] \in ToSet(listed')
  <2>1. CASE i <= token
    <3>1. Returned[i] \in ToSet(listed)
        BY <1>2, <1>9, <2>1 DEF FetchInv, Covered
    <3> QED BY <1>4, <3>1
  <2>2. CASE ~(i <= token)
      BY <1>0, <1>3, <1>4, <1>9, <2>2
  <2> QED BY <2>1, <2>2
<1>10. Covered'
  <2>0. ToSet(listed)' = ToSet(listed')
      BY DEF ToSet
  <2>1. CASE phase' = "list"
    <3>1. token' = token + PageSize
        BY <1>5, <2>1
    <3> QED BY <1>0, <1>2, <1>9, <2>0, <2>1, <3>1 DEF Covered
  <2>2. CASE phase' = "fetch"
    <3>1. \A i \in DOMAIN Returned : i <= token + PageSize
        BY <1>0, <1>3, <1>5, <2>2
    <3>2. ASSUME NEW i \in DOMAIN inbox, inbox[i] \in present, stamp[inbox[i]] # "missed"
          PROVE  inbox[i] \in ToSet(listed')
      <4>1. inbox[i] \in ToSet(Returned)
          BY <1>0, <3>2 DEF ToSet
      <4>2. PICK k \in DOMAIN Returned : Returned[k] = inbox[i]
          BY <4>1 DEF ToSet
      <4> QED BY <1>9, <3>1, <3>2, <4>2
    <3>3. stamp' = stamp
        BY DEF ListPage
    <3> QED BY <1>2, <2>0, <2>2, <3>2, <3>3 DEF Covered, Reached
  <2> QED BY <1>5, <2>1, <2>2
<1> QED BY <1>1, <1>6, <1>8, <1>10 DEF FetchInv

LEMMA UidsSearched == FetchInv /\ SearchUids => FetchInv'
<1> SUFFICES ASSUME FetchInv, SearchUids PROVE FetchInv'
    OBVIOUS
<1> USE DEF boxVars, mailVars
<1>1. Folder' /\ Numbered' /\ Named' /\ \A m \in Messages : ExternalId(m)' = ExternalId(m)
    BY MailboxStays DEF SearchUids
<1>2. /\ token = 0 /\ token' = 0
      /\ batch = <<>> /\ batch' = <<>> /\ phase' = "fetch" /\ provider' = "imap"
      /\ inbox' = inbox /\ arrived' = arrived /\ present' = present
      /\ \A i \in DOMAIN <<>> : FALSE
    BY DEF FetchInv, Listing, SearchUids
<1>3. inbox \in Seq(Messages) /\ Distinct(inbox) /\ \A i \in DOMAIN inbox : inbox[i] \in 1..arrived
    BY Sizes DEF FetchInv, Types, Folder
<1>4. /\ listed' \in Seq(Messages) /\ Distinct(listed') /\ ToSet(listed') \subseteq ToSet(inbox)
      /\ \A m \in ToSet(inbox) : stamp[m] # "missed" => m \in ToSet(listed')
  <2>1. /\ Returned \in Seq(Messages) /\ Distinct(Returned)
        /\ ToSet(Returned) \subseteq ToSet(inbox)
        /\ \A m \in ToSet(inbox) : stamp[m] # "missed" => m \in ToSet(Returned)
      BY <1>3, ReturnedIs
  <2>2. listed' = Reverse(Returned)
      BY DEF SearchUids
  <2>3. /\ Reverse(Returned) \in Seq(Messages) /\ Distinct(Reverse(Returned))
        /\ ToSet(Reverse(Returned)) = ToSet(Returned)
      BY <2>1, Reversed
  <2> QED BY <2>1, <2>2, <2>3
<1>5. Types'
    BY <1>2, <1>4 DEF FetchInv, Types, SearchUids
<1>6. \A i \in DOMAIN listed' : listed'[i] <= arrived
  <2>1. \A m \in ToSet(inbox) : m <= arrived
      BY <1>3, Sizes DEF FetchInv, ToSet
  <2> QED BY <1>4, <2>1 DEF ToSet
<1>8. Covered'
  <2>1. ToSet(listed)' = ToSet(listed') /\ \A i \in DOMAIN inbox : inbox[i] \in ToSet(inbox)
      BY DEF ToSet
  <2>2. stamp' = stamp
      BY DEF SearchUids
  <2> QED BY <1>2, <1>4, <2>1, <2>2 DEF Covered, Reached
<1>7. Listing' /\ Identified'
    BY <1>2, <1>4, <1>6 DEF Listing, Identified
<1> QED BY <1>1, <1>5, <1>7, <1>8 DEF FetchInv

\* The next of the listed messages is gone from the list.
LEMMA NextTaken ==
    ASSUME FetchInv, phase = "fetch", listed # <<>>, listed' = Tail(listed)
    PROVE  /\ listed' \in Seq(Messages) /\ Distinct(listed')
           /\ Head(listed) \in Messages /\ Head(listed) <= arrived
           /\ ToSet(listed) = ToSet(listed') \cup {Head(listed)}
           /\ Head(listed) \notin ToSet(listed')
           /\ \A i \in DOMAIN batch : batch[i].message # Head(listed)
           /\ \A j \in DOMAIN listed' : \E k \in DOMAIN listed : listed'[j] = listed[k]
<1>1. /\ 1 \in DOMAIN listed /\ Head(listed) = listed[1] /\ listed' \in Seq(Messages)
      /\ \A i \in DOMAIN listed' :
           i + 1 \in DOMAIN listed /\ i + 1 # 1 /\ listed'[i] = listed[i + 1]
      /\ \A i \in DOMAIN listed :
           i # 1 => i - 1 \in DOMAIN listed' /\ listed'[i - 1] = listed[i]
    BY Taken DEF FetchInv, Types
<1>2. /\ Distinct(listed) /\ listed[1] <= arrived /\ listed[1] \in Messages
      /\ \A i \in DOMAIN batch : batch[i].message # listed[1]
    BY <1>1, Sizes DEF FetchInv, Listing
<1>3. DOMAIN listed' \subseteq Nat
    BY <1>1, LenProperties
<1>4. Distinct(listed')
    BY <1>1, <1>2, <1>3 DEF Distinct
<1>5. ToSet(listed) = ToSet(listed') \cup {listed[1]}
  <2>1. ASSUME NEW i \in DOMAIN listed PROVE listed[i] \in ToSet(listed') \cup {listed[1]}
      BY <1>1 DEF ToSet
  <2>2. ASSUME NEW i \in DOMAIN listed' PROVE listed'[i] \in ToSet(listed)
      BY <1>1 DEF ToSet
  <2>3. listed[1] \in ToSet(listed)
      BY <1>1 DEF ToSet
  <2>4. ToSet(listed) \subseteq ToSet(listed') \cup {listed[1]}
      BY <2>1 DEF ToSet
  <2>5. ToSet(listed') \subseteq ToSet(listed)
      BY <2>2 DEF ToSet
  <2> QED BY <2>3, <2>4, <2>5
<1>6. listed[1] \notin ToSet(listed')
    BY <1>1, <1>2 DEF Distinct, ToSet
<1> QED BY <1>1, <1>2, <1>4, <1>5, <1>6

LEMMA MessageSkipped == FetchInv /\ Skip => FetchInv'
<1> SUFFICES ASSUME FetchInv, Skip PROVE FetchInv'
    OBVIOUS
<1> USE DEF boxVars, mailVars
<1>1. Folder' /\ Numbered' /\ Named' /\ \A m \in Messages : ExternalId(m)' = ExternalId(m)
    BY MailboxStays DEF Skip
<1>2. /\ phase = "fetch" /\ phase' = "fetch" /\ provider' = provider /\ batch' = batch
      /\ inbox' = inbox /\ arrived' = arrived /\ present' = present /\ stamp' = stamp
      /\ uid' = uid /\ token' = token /\ skipped' = skipped \cup {Head(listed)}
      /\ listed # <<>> /\ listed' = Tail(listed)
    BY DEF Skip
<1>3. /\ listed' \in Seq(Messages) /\ Distinct(listed')
      /\ Head(listed) \in Messages /\ Head(listed) <= arrived
      /\ ToSet(listed) = ToSet(listed') \cup {Head(listed)}
      /\ \A j \in DOMAIN listed' : \E k \in DOMAIN listed : listed'[j] = listed[k]
    BY <1>2, NextTaken
<1>4. Head(listed) \in 1..arrived
    BY <1>3, Sizes DEF FetchInv
<1>5. Types'
    BY <1>2, <1>3, <1>4 DEF FetchInv, Types, Skip
<1>6. Listing'
  <2>1. \A j \in DOMAIN listed' : listed'[j] <= arrived
      BY <1>3 DEF FetchInv, Listing
  <2>2. \A i \in DOMAIN batch, j \in DOMAIN listed' : batch[i].message # listed'[j]
      BY <1>3 DEF FetchInv, Listing
  <2> QED BY <1>2, <1>3, <2>1, <2>2 DEF FetchInv, Listing
<1>7. Identified'
    BY <1>1, <1>2, Sizes DEF FetchInv, Identified, Mail
<1>8. Covered'
  <2>1. ASSUME NEW m, Reached(m) PROVE Reached(m)'
    <3>1. ToSet(listed)' = ToSet(listed')
        BY DEF ToSet
    <3> QED BY <1>2, <1>3, <2>1, <3>1 DEF Reached
  <2> QED BY <1>2, <2>1 DEF FetchInv, Covered
<1> QED BY <1>1, <1>5, <1>6, <1>7, <1>8 DEF FetchInv

LEMMA MessageFetched == ASSUME FetchInv, NEW at \in Times, Fetch(at) PROVE FetchInv'
<1> USE DEF boxVars, mailVars
<1> DEFINE m == Head(listed)
           mail == [id |-> ExternalId(m), message |-> m, at |-> at]
<1>1. Folder' /\ Numbered' /\ Named' /\ \A n \in Messages : ExternalId(n)' = ExternalId(n)
    BY MailboxStays DEF Fetch
<1>2. /\ phase = "fetch" /\ phase' = "fetch" /\ provider' = provider
      /\ batch' = Append(batch, mail) /\ m \in ToSet(inbox) /\ at \in ReceivedAt(m)
      /\ inbox' = inbox /\ arrived' = arrived /\ present' = present /\ stamp' = stamp
      /\ uid' = uid /\ token' = token /\ skipped' = skipped
      /\ listed # <<>> /\ listed' = Tail(listed)
    BY DEF Fetch
<1>3. /\ listed' \in Seq(Messages) /\ Distinct(listed') /\ m \in Messages /\ m <= arrived
      /\ ToSet(listed) = ToSet(listed') \cup {m} /\ m \notin ToSet(listed')
      /\ \A i \in DOMAIN batch : batch[i].message # m
      /\ \A j \in DOMAIN listed' : \E k \in DOMAIN listed : listed'[j] = listed[k]
    BY <1>2, NextTaken
<1>4. uid[m] # 0 /\ uid[m] \in 0..MaxMessages /\ ExternalId(m) \in ExternalIds
  <2>1. uid[m] # 0 /\ uid[m] \in 0..MaxMessages
      BY <1>2, <1>3 DEF FetchInv, Numbered, ToSet, Types
  <2>2. uid[m] \in Messages
      BY <2>1, FetchAssumption DEF Messages
  <2>3. Announced \in 0..Unknown /\ 0 \in 0..Unknown
      BY FetchAssumption DEF FetchInv, Types, Announced, Epochs, Unknown
  <2> QED BY <1>3, <2>1, <2>2, <2>3 DEF ExternalId, ExternalIds
<1>5. mail \in Mail
    BY <1>3, <1>4 DEF Mail
<1>6. mail.id = ExternalId(m) /\ mail.message = m /\ mail.at = at
    OBVIOUS
<1> HIDE DEF mail, m
<1>7. /\ batch' \in Seq(Mail) /\ DOMAIN batch' = 1..(Len(batch) + 1)
      /\ batch'[Len(batch) + 1] = mail /\ \A i \in DOMAIN batch : batch'[i] = batch[i]
      /\ Len(batch) \in Nat /\ DOMAIN batch = 1..Len(batch)
      /\ \A i \in DOMAIN batch : batch[i] \in Mail
  <2>1. batch \in Seq(Mail)
      BY DEF FetchInv, Types
  <2>2. /\ batch' \in Seq(Mail) /\ Len(batch') = Len(batch) + 1
        /\ batch'[Len(batch) + 1] = mail /\ \A i \in 1..Len(batch) : batch'[i] = batch[i]
      BY <1>2, <1>5, <2>1, AppendProperties
  <2> QED BY <2>1, <2>2, LenProperties, Sizes DEF FetchInv
<1>8. \A i \in DOMAIN batch' : i \in DOMAIN batch \/ i = Len(batch) + 1
    BY <1>7
<1>9. Types'
    BY <1>2, <1>3, <1>7 DEF FetchInv, Types, Fetch
<1>10. Listing'
  <2>1. \A j \in DOMAIN listed' : listed'[j] <= arrived
      BY <1>3 DEF FetchInv, Listing
  <2>2. \A j \in DOMAIN listed' : listed'[j] # m
      BY <1>3 DEF ToSet
  <2>3. \A i \in DOMAIN batch', j \in DOMAIN listed' : batch'[i].message # listed'[j]
      BY <1>3, <1>6, <1>7, <1>8, <2>2 DEF FetchInv, Listing
  <2>4. \A i, j \in DOMAIN batch' : i # j => batch'[i].message # batch'[j].message
      BY <1>3, <1>6, <1>7, <1>8 DEF FetchInv, Listing
  <2> QED BY <1>2, <1>3, <2>1, <2>3, <2>4 DEF FetchInv, Listing
<1>11. Identified'
  <2>1. \A i \in DOMAIN batch : batch[i].message \in Messages
      BY <1>7 DEF Mail
  <2>2. ASSUME NEW i \in DOMAIN batch'
        PROVE  /\ batch'[i].id = ExternalId(batch'[i].message)
               /\ provider = "imap" => uid[batch'[i].message] # 0
    <3>1. CASE i \in DOMAIN batch
        BY <1>7, <3>1 DEF FetchInv, Identified
    <3>2. CASE i = Len(batch) + 1
        BY <1>4, <1>6, <1>7, <3>2
    <3> QED BY <1>8, <3>1, <3>2
  <2>3. \A i \in DOMAIN batch' : batch'[i].message \in Messages
      BY <1>3, <1>6, <1>7, <1>8, <2>1
  <2> QED BY <1>1, <1>2, <2>2, <2>3 DEF Identified
<1>12. Covered'
  <2>1. ASSUME NEW n \in DOMAIN inbox, inbox[n] \in present, Reached(inbox[n])
        PROVE  Reached(inbox[n])'
    <3>0. ToSet(listed)' = ToSet(listed')
        BY DEF ToSet
    <3>1. CASE inbox[n] # m
        BY <1>2, <1>3, <1>7, <1>8, <2>1, <3>0, <3>1 DEF Reached
    <3>2. CASE inbox[n] = m
      <4>1. stamp[m] = "today" => at = "inside"
          BY <1>2, <2>1, <3>2 DEF ReceivedAt
      <4> QED BY <1>2, <1>6, <1>7, <3>2, <4>1 DEF Reached
    <3> QED BY <3>1, <3>2
  <2> QED BY <1>2, <2>1 DEF FetchInv, Covered
<1> QED BY <1>1, <1>9, <1>10, <1>11, <1>12 DEF FetchInv

LEMMA AllFetched == FetchInv /\ Fetched => FetchInv'
<1> SUFFICES ASSUME FetchInv, Fetched PROVE FetchInv'
    OBVIOUS
<1> USE DEF boxVars, mailVars
<1>1. Folder' /\ Numbered' /\ Named' /\ \A m \in Messages : ExternalId(m)' = ExternalId(m)
    BY MailboxStays DEF Fetched
<1>2. Types'
    BY DEF FetchInv, Types, Fetched
<1>3. Listing'
    BY DEF FetchInv, Listing, Fetched, Distinct
<1>4. Identified'
    BY <1>1, Sizes DEF FetchInv, Identified, Fetched, Mail
<1>5. Covered'
    BY DEF FetchInv, Covered, Reached, Fetched, ToSet
<1> QED BY <1>1, <1>2, <1>3, <1>4, <1>5 DEF FetchInv

\* A sync ends, whether it has stored something or failed.
LEMMA SyncOver ==
    ASSUME FetchInv, EndSync, UNCHANGED <<boxVars, mailVars>>,
           rows' \in [ExternalIds -> Messages \cup {None}], Named'
    PROVE  FetchInv'
<1> USE DEF boxVars, mailVars
<1>1. Folder' /\ Numbered'
    BY MailboxStays
<1>2. /\ phase' = "idle" /\ token' = 0 /\ listed' = <<>> /\ batch' = <<>>
      /\ present' = {} /\ skipped' = {} /\ \A i \in DOMAIN <<>> : FALSE
    BY DEF EndSync
<1>3. Types'
  <2>1. \A S : <<>> \in Seq(S)
      BY EmptySeq
  <2>2. token' \in 0..(MaxMessages + PageSize)
      BY <1>2, FetchAssumption
  <2> QED BY <1>2, <2>1, <2>2 DEF FetchInv, Types
<1>4. Listing' /\ Identified' /\ Covered'
    BY <1>2 DEF Listing, Distinct, Identified, Covered
<1> QED BY <1>1, <1>3, <1>4 DEF FetchInv

LEMMA SyncFails == FetchInv /\ (Gone \/ Fail) => FetchInv'
<1> SUFFICES ASSUME FetchInv, Gone \/ Fail PROVE FetchInv'
    OBVIOUS
<1>1. EndSync /\ UNCHANGED <<boxVars, mailVars>> /\ rows' = rows
    BY DEF Gone, Fail
<1>2. rows' \in [ExternalIds -> Messages \cup {None}] /\ Named'
    BY <1>1, MailboxStays DEF FetchInv, Types
<1> QED BY <1>1, <1>2, SyncOver

\* Two mails of a batch have different ids: their messages are different, and
\* each has a UID of its own.
LEMMA DistinctIds == FetchInv => BatchDistinct
<1> SUFFICES ASSUME FetchInv, NEW i \in DOMAIN batch, NEW j \in DOMAIN batch, i # j
             PROVE  batch[i].id # batch[j].id
    BY DEF BatchDistinct
<1> DEFINE m == batch[i].message
           n == batch[j].message
<1>1. /\ m \in Messages /\ n \in Messages /\ m # n
      /\ batch[i].id = ExternalId(m) /\ batch[j].id = ExternalId(n)
      /\ provider = "imap" => uid[m] # 0 /\ uid[n] # 0
    BY Sizes DEF FetchInv, Listing, Identified, Mail
<1> HIDE DEF m, n
<1>2. CASE provider = "gmail"
    BY <1>1, <1>2 DEF ExternalId
<1>3. CASE provider = "imap"
  <2>1. uid[m] # uid[n]
      BY <1>1, <1>3 DEF FetchInv, Numbered
  <2> QED BY <1>1, <1>3, <2>1 DEF ExternalId
<1> QED BY <1>2, <1>3 DEF FetchInv, Types

\* A row that is written has the id and the message of one mail of the batch.
LEMMA RowsStored ==
    ASSUME FetchInv, Store
    PROVE  /\ rows' \in [ExternalIds -> Messages \cup {None}]
           /\ \A x \in ExternalIds :
                \/ rows'[x] = rows[x]
                \/ \E m \in Messages : /\ x = ExternalId(m) /\ rows'[x] = m
                                       /\ provider = "imap" => uid[m] # 0
           /\ \A i \in InWindow : /\ batch[i].id \in ExternalIds
                                  /\ rows'[batch[i].id] = batch[i].message
<1> DEFINE named(x) == CHOOSE i \in InWindow : batch[i].id = x
           row(x) == IF \E i \in InWindow : batch[i].id = x THEN batch[named(x)].message
                     ELSE rows[x]
<1>1. rows' = [x \in ExternalIds |-> row(x)]
    BY DEF Store
<1>2. \A i \in InWindow :
        /\ i \in DOMAIN batch /\ batch[i].id \in ExternalIds /\ batch[i].message \in Messages
        /\ batch[i].id = ExternalId(batch[i].message)
        /\ provider = "imap" => uid[batch[i].message] # 0
    BY Sizes DEF FetchInv, Identified, InWindow, Mail
<1>3. \A x : (\E i \in InWindow : batch[i].id = x) =>
               named(x) \in InWindow /\ batch[named(x)].id = x
    OBVIOUS
<1> HIDE DEF named
<1>4. rows \in [ExternalIds -> Messages \cup {None}]
    BY DEF FetchInv, Types
<1>5. \A x \in ExternalIds : row(x) \in Messages \cup {None}
    BY <1>2, <1>3, <1>4
<1>6. \A x \in ExternalIds :
        \/ row(x) = rows[x]
        \/ \E m \in Messages : /\ x = ExternalId(m) /\ row(x) = m
                               /\ provider = "imap" => uid[m] # 0
    BY <1>2, <1>3
<1>7. ASSUME NEW i \in InWindow PROVE row(batch[i].id) = batch[i].message
  <2>1. named(batch[i].id) = i
      BY <1>2, <1>3, DistinctIds DEF BatchDistinct
  <2> QED BY <2>1
<1> HIDE DEF row
<1> QED BY <1>1, <1>2, <1>5, <1>6, <1>7

\* A row that is there has the message it had.
LEMMA RowsKept ==
    ASSUME FetchInv, Store, provider = "gmail" \/ announces,
           NEW x \in ExternalIds, rows[x] # None
    PROVE  rows'[x] = rows[x]
<1>1. PICK e \in 0..Unknown, u \in Messages : x = <<e, u>>
    BY DEF ExternalIds
<1>2. SUFFICES ASSUME NEW m \in Messages, x = ExternalId(m), rows'[x] = m,
                      provider = "imap" => uid[m] # 0
               PROVE  m = rows[x]
    BY RowsStored
<1>3. rows[x] \in Messages /\ provider \in {"gmail", "imap"}
    BY DEF FetchInv, Types
<1>4. IF provider = "gmail" THEN e = 0 /\ rows[x] = u
      ELSE e <= uidvalidity /\ (e = uidvalidity => uid[rows[x]] = u)
    BY <1>1 DEF FetchInv, Named
<1>5. CASE provider = "gmail"
  <2>1. u = m
      BY <1>1, <1>2, <1>5 DEF ExternalId
  <2> QED BY <1>4, <1>5, <2>1
<1>6. CASE provider = "imap"
  <2>1. e = uidvalidity /\ u = uid[m] /\ uid[m] # 0
      BY <1>1, <1>2, <1>6 DEF ExternalId, Announced
  <2>2. uid[rows[x]] = uid[m]
      BY <1>4, <1>6, <2>1
  <2> QED BY <1>2, <1>3, <2>1, <2>2 DEF FetchInv, Numbered
<1> QED BY <1>3, <1>5, <1>6

LEMMA BatchStored == FetchInv /\ Store => FetchInv'
<1> SUFFICES ASSUME FetchInv, Store PROVE FetchInv'
    OBVIOUS
<1>1. EndSync /\ UNCHANGED <<boxVars, mailVars>>
    BY DEF Store
<1>2. Named'
  <2> SUFFICES ASSUME provider = "gmail" \/ announces, NEW e \in 0..Unknown, NEW u \in Messages,
                      rows'[<<e, u>>] # None
               PROVE  IF provider = "gmail" THEN e = 0 /\ rows'[<<e, u>>] = u
                      ELSE e <= uidvalidity /\ (e = uidvalidity => uid[rows'[<<e, u>>]] = u)
      BY <1>1 DEF Named, boxVars, mailVars
  <2>1. <<e, u>> \in ExternalIds
      BY DEF ExternalIds
  <2>2. CASE rows'[<<e, u>>] = rows[<<e, u>>]
      BY <2>2 DEF FetchInv, Named
  <2>3. ASSUME NEW m \in Messages, <<e, u>> = ExternalId(m), rows'[<<e, u>>] = m
        PROVE  IF provider = "gmail" THEN e = 0 /\ rows'[<<e, u>>] = u
               ELSE e <= uidvalidity /\ (e = uidvalidity => uid[rows'[<<e, u>>]] = u)
    <3>1. CASE provider = "gmail"
        BY <2>3, <3>1 DEF ExternalId
    <3>2. CASE provider # "gmail"
      <4>1. e = uidvalidity /\ u = uid[m]
          BY <2>3, <3>2 DEF ExternalId, Announced
      <4>2. uidvalidity <= uidvalidity
          BY FetchAssumption DEF FetchInv, Types, Epochs
      <4> QED BY <2>3, <3>2, <4>1, <4>2
    <3> QED BY <3>1, <3>2
  <2> QED BY <2>1, <2>2, <2>3, RowsStored
<1> QED BY <1>1, <1>2, RowsStored, SyncOver

LEMMA MessageArrives == ASSUME FetchInv, NEW time \in Stamps, Arrive(time) PROVE FetchInv'
<1> USE DEF boxVars, syncVars
<1>1. /\ arrived' = arrived + 1 /\ arrived + 1 \in Messages /\ arrived \in Nat
      /\ arrived < MaxMessages /\ MaxMessages \in Nat
    BY Sizes, FetchAssumption DEF FetchInv, Arrive
<1>2. /\ inbox' \in Seq(Messages) /\ DOMAIN inbox' = 1..(Len(inbox) + 1)
      /\ inbox'[1] = arrived + 1
      /\ \A i \in DOMAIN inbox' : i # 1 => i - 1 \in DOMAIN inbox /\ inbox'[i] = inbox[i - 1]
      /\ Len(inbox) \in Nat /\ \A i \in DOMAIN inbox : inbox[i] \in 1..arrived
  <2> DEFINE new == <<arrived + 1>>
  <2>1. new \in Seq(Messages) /\ Len(new) = 1 /\ new[1] = arrived + 1
      BY <1>1
  <2>2. inbox \in Seq(Messages) /\ Len(inbox) \in Nat /\ DOMAIN inbox = 1..Len(inbox)
      BY Sizes DEF FetchInv, Types
  <2> HIDE DEF new
  <2>3. /\ new \o inbox \in Seq(Messages) /\ Len(new \o inbox) = Len(new) + Len(inbox)
        /\ \A i \in 1..(Len(new) + Len(inbox)) :
             (new \o inbox)[i] = IF i <= Len(new) THEN new[i] ELSE inbox[i - Len(new)]
      BY <2>1, <2>2, ConcatProperties
  <2>4. inbox' = new \o inbox
      BY <1>1 DEF Arrive, new
  <2>5. DOMAIN inbox' = 1..(Len(inbox) + 1)
      BY <2>1, <2>2, <2>3, <2>4, LenProperties
  <2>6. inbox'[1] = arrived + 1
      BY <2>1, <2>2, <2>3, <2>4
  <2>7. ASSUME NEW i \in DOMAIN inbox', i # 1
        PROVE  i - 1 \in DOMAIN inbox /\ inbox'[i] = inbox[i - 1]
      BY <2>1, <2>2, <2>3, <2>4, <2>5, <2>7
  <2>8. \A i \in DOMAIN inbox : inbox[i] \in 1..arrived
      BY Sizes DEF FetchInv
  <2> QED BY <2>2, <2>3, <2>4, <2>5, <2>6, <2>7, <2>8
<1>3. /\ uid' = [uid EXCEPT ![arrived + 1] = arrived + 1]
      /\ stamp' = [stamp EXCEPT ![arrived + 1] = time]
      /\ uid'[arrived + 1] = arrived + 1
      /\ \A m \in Messages : m # arrived + 1 => uid'[m] = uid[m] /\ stamp'[m] = stamp[m]
      /\ \A m \in Messages : uid[m] \in 0..MaxMessages /\ uid[m] <= arrived
    BY <1>1 DEF FetchInv, Types, Numbered, Arrive
<1>4. Types'
  <2>1. 1..arrived \subseteq 1..arrived' /\ arrived' \in 0..MaxMessages
      BY <1>1
  <2>2. uid' \in [Messages -> 0..MaxMessages]
      BY <1>1, <1>3 DEF FetchInv, Types
  <2>3. stamp' \in [Messages -> Stamps]
      BY <1>3 DEF FetchInv, Types
  <2> QED BY <1>2, <2>1, <2>2, <2>3 DEF FetchInv, Types, Arrive
<1>5. Folder'
  <2>1. Distinct(inbox')
    <3> SUFFICES ASSUME NEW i \in DOMAIN inbox', NEW j \in DOMAIN inbox', i # j
                 PROVE  inbox'[i] # inbox'[j]
        BY DEF Distinct
    <3>1. CASE i = 1
        BY <1>1, <1>2, <3>1
    <3>2. CASE j = 1
        BY <1>1, <1>2, <3>2
    <3>3. CASE i # 1 /\ j # 1
      <4>1. i - 1 # j - 1
          BY <1>2
      <4> QED BY <1>2, <3>3, <4>1 DEF FetchInv, Folder, Distinct
    <3> QED BY <3>1, <3>2, <3>3
  <2>2. ASSUME NEW i \in DOMAIN inbox' PROVE inbox'[i] + i <= arrived' + 1
    <3>1. CASE i = 1
        BY <1>1, <1>2, <3>1
    <3>2. CASE i # 1
      <4>1. inbox[i - 1] + (i - 1) <= arrived + 1 /\ inbox[i - 1] \in Nat /\ i \in Nat
          BY <1>2, <3>2 DEF FetchInv, Folder
      <4> QED BY <1>1, <1>2, <3>2, <4>1
    <3> QED BY <3>1, <3>2
  <2>3. Distinct(inbox)'
      BY <2>1 DEF Distinct
  <2> QED BY <2>2, <2>3 DEF Folder
<1>6. Numbered'
  <2>1. \A m \in Messages : uid'[m] <= arrived'
      BY <1>1, <1>3
  <2>2. ASSUME NEW m \in Messages, NEW n \in Messages, m # n, uid'[m] = uid'[n]
        PROVE  uid'[m] = 0
    <3>1. m # arrived + 1 /\ n # arrived + 1
        BY <1>1, <1>3, <2>2
    <3> QED BY <1>3, <2>2, <3>1 DEF FetchInv, Numbered
  <2>3. ASSUME NEW i \in DOMAIN inbox' PROVE uid'[inbox'[i]] # 0
    <3>1. CASE i = 1
        BY <1>1, <1>2, <1>3, <3>1
    <3>2. CASE i # 1
      <4>1. uid[inbox[i - 1]] # 0 /\ inbox[i - 1] # arrived + 1 /\ inbox[i - 1] \in Messages
          BY <1>1, <1>2, <3>2, Sizes DEF FetchInv, Numbered
      <4> QED BY <1>2, <1>3, <3>2, <4>1
    <3> QED BY <3>1, <3>2
  <2>4. \A m \in Messages : m > arrived' => uid'[m] = 0
      BY <1>1, <1>3, Sizes DEF FetchInv, Numbered
  <2> QED BY <2>1, <2>2, <2>3, <2>4 DEF Numbered
<1>7. Listing'
  <2>1. \A i \in DOMAIN listed : listed[i] <= arrived'
      BY <1>1, Sizes DEF FetchInv, Listing
  <2> QED BY <2>1 DEF FetchInv, Listing, Arrive, Distinct
<1>8. Identified'
  <2>1. ASSUME NEW i \in DOMAIN batch
        PROVE  /\ batch[i].id = ExternalId(batch[i].message)'
               /\ provider = "imap" => uid'[batch[i].message] # 0
    <3> DEFINE m == batch[i].message
    <3>1. /\ m \in Messages /\ batch[i].id = ExternalId(m)
          /\ provider = "imap" => uid[m] # 0
        BY Sizes DEF FetchInv, Identified, Mail
    <3>2. batch' = batch /\ m' = m
        BY DEF Arrive
    <3> HIDE DEF m
    <3>3. provider = "imap" => uid'[m] = uid[m]
      <4> SUFFICES ASSUME provider = "imap" PROVE m # arrived + 1
          BY <1>3, <3>1
      <4> QED BY <1>1, <3>1 DEF FetchInv, Numbered
    <3>4. ExternalId(m)' = ExternalId(m)
      <4>1. provider' = provider /\ announces' = announces /\ uidvalidity' = uidvalidity
          BY DEF Arrive
      <4>2. provider \in {"gmail", "imap"}
          BY DEF FetchInv, Types
      <4>3. Announced' = Announced
          BY <4>1, Zenon DEF Announced
      <4>4. CASE provider = "gmail"
          BY <3>2, <4>1, <4>4 DEF ExternalId
      <4>5. CASE provider = "imap"
          BY <3>2, <3>3, <4>1, <4>3, <4>5 DEF ExternalId
      <4> QED BY <4>2, <4>4, <4>5
    <3>5. batch[i].message' = batch[i].message
        BY <3>2
    <3> QED BY <3>1, <3>3, <3>4, <3>5 DEF m
  <2> QED BY <2>1 DEF Identified, Arrive
<1>9. Named'
  <2> SUFFICES ASSUME provider = "gmail" \/ announces, NEW e \in 0..Unknown, NEW u \in Messages,
                      rows[<<e, u>>] # None
               PROVE  IF provider = "gmail" THEN e = 0 /\ rows[<<e, u>>] = u
                      ELSE e <= uidvalidity /\ (e = uidvalidity => uid'[rows[<<e, u>>]] = u)
      BY DEF Named, Arrive
  <2>1. IF provider = "gmail" THEN e = 0 /\ rows[<<e, u>>] = u
        ELSE e <= uidvalidity /\ (e = uidvalidity => uid[rows[<<e, u>>]] = u)
      BY DEF FetchInv, Named
  <2>2. rows[<<e, u>>] \in Messages
      BY DEF FetchInv, Types, ExternalIds
  <2>3. uid[rows[<<e, u>>]] = u => uid'[rows[<<e, u>>]] = u
    <3> SUFFICES ASSUME uid[rows[<<e, u>>]] = u PROVE rows[<<e, u>>] # arrived + 1
        BY <1>3, <2>2
    <3>1. u # 0 /\ uid[arrived + 1] = 0
        BY <1>1, Sizes DEF FetchInv, Numbered
    <3> QED BY <3>1
  <2> QED BY <2>1, <2>3
<1>10. Covered'
  <2>1. ASSUME NEW i \in DOMAIN inbox', inbox'[i] \in present
        PROVE  i # 1 /\ i - 1 \in DOMAIN inbox /\ inbox'[i] = inbox[i - 1]
    <3>1. inbox'[1] \notin present
        BY <1>1, <1>2 DEF FetchInv, Types
    <3> QED BY <1>2, <2>1, <3>1
  <2>2. ASSUME NEW m \in Messages, m # arrived + 1, Reached(m) PROVE Reached(m)'
      BY <1>3, <2>2 DEF Reached, Arrive, ToSet
  <2>3. \A i \in DOMAIN inbox : inbox[i] \in Messages /\ inbox[i] # arrived + 1
      BY <1>1, <1>2, Sizes DEF FetchInv
  <2>4. ASSUME NEW i \in DOMAIN inbox', NEW m \in Messages, m = inbox'[i], m \in present,
               stamp'[m] # "missed", phase \in {"fetch", "store"}
        PROVE  Reached(m)'
    <3> DEFINE k == i - 1
    <3>1. i # 1 /\ k \in DOMAIN inbox /\ m = inbox[k]
        BY <2>1, <2>4
    <3> HIDE DEF k
    <3>2. stamp[m] # "missed"
        BY <1>3, <2>3, <2>4, <3>1
    <3>3. Reached(m)
        BY <2>4, <3>1, <3>2 DEF FetchInv, Covered
    <3> QED BY <2>2, <2>3, <3>1, <3>3
\* What the query returns has the new message in front, or not at all.
  <2>5. Returned' = IF stamp'[arrived + 1] = "missed" THEN Returned
                    ELSE <<arrived + 1>> \o Returned
    <3>1. inbox \in Seq(Messages) /\ Distinct(inbox) /\ stamp \in [Messages -> Stamps]
        BY DEF FetchInv, Types, Folder
    <3>2. inbox' = <<arrived + 1>> \o inbox /\ stamp' \in [Messages -> Stamps]
        BY <1>1, <1>4 DEF Arrive, Types
    <3>3. \A n \in DOMAIN inbox : stamp'[inbox[n]] = stamp[inbox[n]]
        BY <1>3, <2>3
    <3> QED BY <1>1, <3>1, <3>2, <3>3, ReturnedGrows
  <2>6. /\ Returned \in Seq(Messages) /\ Len(Returned) \in Nat /\ DOMAIN Returned = 1..Len(Returned)
        /\ token \in Nat
    BY ReturnedIs, FetchAssumption DEF FetchInv, Types, Folder
  <2>7. ASSUME phase = "list", provider = "gmail", NEW i \in DOMAIN Returned',
               NEW m, m = Returned'[i], m \in present, i <= token
        PROVE  m \in ToSet(listed)
    <3>1. CASE Returned' = Returned
        BY <2>7, <3>1 DEF FetchInv, Covered
    <3>2. CASE Returned' = <<arrived + 1>> \o Returned
      <4> DEFINE new == <<arrived + 1>>
                 all == new \o Returned
                 k == i - 1
      <4>1. new \in Seq(Messages) /\ Len(new) = 1 /\ new[1] = arrived + 1
          BY <1>1
      <4> HIDE DEF new
      <4>2. /\ all \in Seq(Messages) /\ Len(all) = 1 + Len(Returned)
            /\ \A n \in 1..(1 + Len(Returned)) :
                 all[n] = IF n <= 1 THEN new[n] ELSE Returned[n - 1]
        <5>1. /\ all \in Seq(Messages) /\ Len(all) = Len(new) + Len(Returned)
              /\ \A n \in 1..(Len(new) + Len(Returned)) :
                   all[n] = IF n <= Len(new) THEN new[n] ELSE Returned[n - Len(new)]
            BY <2>6, <4>1, ConcatProperties
        <5> HIDE DEF all
        <5> QED BY <4>1, <5>1
      <4>3. all = Returned'
          BY <3>2 DEF new
      <4> HIDE DEF all
      <4>4. i \in 1..(1 + Len(Returned))
          BY <2>7, <4>2, <4>3, LenProperties
      <4>5. i # 1
          BY <1>1, <2>7, <4>1, <4>2, <4>3, <4>4 DEF FetchInv, Types
      <4>6. k \in DOMAIN Returned /\ m = Returned[k] /\ k <= token
          BY <2>6, <2>7, <4>2, <4>3, <4>4, <4>5
      <4> HIDE DEF k
      <4> QED BY <2>7, <4>6 DEF FetchInv, Covered
    <3> QED BY <2>5, <3>1, <3>2
  <2>8. \A i \in DOMAIN inbox' : inbox'[i] \in Messages
      BY <1>2, LenProperties
  <2>9. UNCHANGED <<phase, provider, token, listed, present>> /\ ToSet(listed)' = ToSet(listed)
      BY DEF Arrive, ToSet
  <2>10. phase' = "list" /\ provider' = "gmail" =>
           \A i \in DOMAIN Returned' : Returned'[i] \in present' /\ i <= token' =>
                                         Returned'[i] \in ToSet(listed)'
      BY <2>7, <2>9
  <2> QED BY <2>4, <2>8, <2>9, <2>10 DEF Covered
<1> QED BY <1>4, <1>5, <1>6, <1>7, <1>8, <1>9, <1>10 DEF FetchInv

LEMMA MessageDeleted == ASSUME FetchInv, NEW i \in DOMAIN inbox, Delete(i) PROVE FetchInv'
<1> USE DEF boxVars, syncVars
<1>0. /\ Len(inbox) \in Nat /\ DOMAIN inbox = 1..Len(inbox) /\ i \in 1..Len(inbox)
      /\ \A k \in DOMAIN inbox : inbox[k] \in Messages /\ inbox[k] \in 1..arrived
      /\ arrived \in Nat
    BY Sizes DEF FetchInv
<1> DEFINE old(k) == IF k < i THEN k ELSE k + 1
<1>1. /\ inbox' \in Seq(Messages) /\ DOMAIN inbox' = 1..(Len(inbox) - 1)
      /\ \A k \in DOMAIN inbox' : inbox'[k] = inbox[old(k)]
  <2>1. /\ inbox' \in Seq(Messages) /\ Len(inbox') = Len(inbox) - 1
        /\ \A k \in 1..(Len(inbox) - 1) : inbox'[k] = inbox[IF k < i THEN k ELSE k + 1]
      BY Removed DEF FetchInv, Types, Delete
  <2>2. DOMAIN inbox' = 1..(Len(inbox) - 1)
      BY <2>1, LenProperties
  <2> QED BY <2>1, <2>2
\* What is left has moved towards the front, if it has moved at all.
<1>2. \A k \in DOMAIN inbox' : old(k) \in DOMAIN inbox /\ k <= old(k) /\ k \in Nat
    BY <1>0, <1>1
<1>3. \A k, l \in DOMAIN inbox' : k # l => old(k) # old(l)
    BY <1>0, <1>1
<1> HIDE DEF old
<1>4. UNCHANGED <<provider, announces, stamp, arrived, uid, uidvalidity, phase, token, listed,
                  batch, present, skipped, rows>>
    BY DEF Delete
<1>5. Types' /\ Named'
    BY <1>1, <1>4 DEF FetchInv, Types, Named
<1>6. Folder'
  <2>1. Distinct(inbox)'
      BY <1>1, <1>2, <1>3 DEF FetchInv, Folder, Distinct
  <2>2. ASSUME NEW k \in DOMAIN inbox' PROVE inbox'[k] + k <= arrived + 1
    <3> DEFINE l == old(k)
    <3>1. inbox[l] + l <= arrived + 1 /\ inbox[l] \in 1..arrived /\ k <= l /\ l \in Nat /\ k \in Nat
        BY <1>0, <1>2 DEF FetchInv, Folder
    <3>2. inbox'[k] = inbox[l]
        BY <1>1
    <3> HIDE DEF l
    <3> QED BY <1>0, <3>1, <3>2
  <2> QED BY <1>4, <2>1, <2>2 DEF Folder
<1>7. Numbered'
    BY <1>1, <1>2, <1>4 DEF FetchInv, Numbered
<1>8. Listing' /\ Identified'
    BY <1>4 DEF FetchInv, Listing, Distinct, Identified, ExternalId, Announced
<1>9. Covered'
  <2>1. ~(phase = "list" /\ provider = "gmail")
      BY DEF Delete
  <2>2. ASSUME NEW k \in DOMAIN inbox', NEW m \in Messages, m = inbox'[k], m \in present,
               stamp[m] # "missed", phase \in {"fetch", "store"}
        PROVE  Reached(m)'
    <3>1. Reached(m)
        BY <1>1, <1>2, <2>2 DEF FetchInv, Covered
    <3> QED BY <1>4, <3>1 DEF Reached, ToSet
  <2>3. \A k \in DOMAIN inbox' : inbox'[k] \in Messages
      BY <1>1, LenProperties
  <2> QED BY <1>4, <2>1, <2>2, <2>3 DEF Covered
<1> QED BY <1>5, <1>6, <1>7, <1>8, <1>9 DEF FetchInv

LEMMA FolderRebuilt == FetchInv /\ Rebuild => FetchInv'
<1> SUFFICES ASSUME FetchInv, Rebuild PROVE FetchInv'
    OBVIOUS
<1> USE DEF boxVars, syncVars
<1> DEFINE place(m) == CHOOSE i \in 1..Len(inbox) : Reverse(inbox)[i] = m
<1>1. /\ Len(inbox) \in Nat /\ DOMAIN inbox = 1..Len(inbox) /\ Len(inbox) <= arrived
      /\ \A i \in DOMAIN inbox : inbox[i] \in Messages /\ inbox[i] \in 1..arrived
      /\ arrived \in Nat /\ arrived <= MaxMessages
    BY Sizes DEF FetchInv, Types
<1>2. /\ provider = "imap" /\ phase \in {"idle", "list"} /\ uidvalidity < MaxRebuilds
      /\ uidvalidity' = uidvalidity + 1
      /\ \A m \in Messages : uid'[m] = IF m \in ToSet(inbox) THEN place(m) ELSE 0
      /\ uid' = [m \in Messages |-> IF m \in ToSet(inbox) THEN place(m) ELSE 0]
      /\ UNCHANGED <<provider, announces, stamp, inbox, arrived, phase, token, listed, batch,
                     present, skipped, rows>>
    BY DEF Rebuild, Selected, FetchInv, Types
<1>3. ASSUME NEW m \in ToSet(inbox)
      PROVE  place(m) \in 1..Len(inbox) /\ Reverse(inbox)[place(m)] = m
  <2>1. m \in ToSet(Reverse(inbox)) /\ DOMAIN Reverse(inbox) = 1..Len(inbox)
      BY Reversed, LenProperties DEF FetchInv, Types
  <2>2. \E i \in 1..Len(inbox) : Reverse(inbox)[i] = m
      BY <2>1 DEF ToSet
  <2> QED BY <2>2
<1> HIDE DEF place
<1>4. Folder' /\ Listing'
    BY <1>2 DEF FetchInv, Folder, Listing, Distinct
<1>5. Numbered'
  <2>1. \A m \in Messages : uid'[m] \in 0..arrived
      BY <1>1, <1>2, <1>3
  <2>2. ASSUME NEW m \in Messages, m > arrived PROVE uid'[m] = 0
    <3>1. m \notin ToSet(inbox)
        BY <1>1, <2>2, Sizes DEF FetchInv, ToSet
    <3> QED BY <1>2, <3>1
  <2>3. ASSUME NEW m \in Messages, NEW n \in Messages, m # n, uid'[m] = uid'[n]
        PROVE  uid'[m] = 0
      BY <1>1, <1>2, <1>3, <2>3
  <2>4. ASSUME NEW i \in DOMAIN inbox PROVE uid'[inbox[i]] # 0
    <3>1. inbox[i] \in ToSet(inbox) /\ inbox[i] \in Messages
        BY <1>1 DEF ToSet
    <3> QED BY <1>1, <1>2, <1>3, <3>1
  <2>5. \A m \in Messages : uid'[m] <= arrived
      BY <1>1, <2>1
  <2>6. inbox' = inbox /\ arrived' = arrived
      BY <1>2
  <2> QED BY <2>2, <2>3, <2>4, <2>5, <2>6 DEF Numbered
<1>6. Types'
  <2> DEFINE number(m) == IF m \in ToSet(inbox) THEN place(m) ELSE 0
  <2>0. \A m \in Messages : number(m) \in 0..MaxMessages
      BY <1>1, <1>3, FetchAssumption
  <2>1. uid' \in [Messages -> 0..MaxMessages]
      BY <1>2, <2>0
  <2>2. uidvalidity' \in Epochs
      BY <1>2, FetchAssumption DEF FetchInv, Types, Epochs
  <2> QED BY <1>2, <2>1, <2>2 DEF FetchInv, Types
<1>7. Identified' /\ batch = <<>>
    BY <1>2 DEF FetchInv, Listing, Identified
<1>8. Named'
  <2> SUFFICES ASSUME announces, NEW e \in 0..Unknown, NEW u \in Messages,
                      rows[<<e, u>>] # None
               PROVE  e <= uidvalidity' /\ e # uidvalidity'
      BY <1>2 DEF Named
  <2>1. e <= uidvalidity
      BY <1>2 DEF FetchInv, Named
  <2> QED BY <1>2, <2>1, FetchAssumption DEF FetchInv, Types, Epochs, Unknown
<1>9. Covered'
    BY <1>2 DEF FetchInv, Covered
<1> QED BY <1>4, <1>5, <1>6, <1>7, <1>8, <1>9 DEF FetchInv

LEMMA InvStep == FetchInv /\ [Next]_vars => FetchInv'
<1> SUFFICES ASSUME FetchInv, [Next]_vars PROVE FetchInv'
    OBVIOUS
<1>1. CASE UNCHANGED vars
  <2>1. Returned' = Returned
      BY <1>1, ReturnedStays DEF vars, mailVars
  <2>2. Covered'
      BY <1>1, <2>1 DEF FetchInv, Covered, Reached, ToSet, vars, boxVars, mailVars, syncVars
  <2>3. Types' /\ Folder' /\ Numbered' /\ Listing' /\ Identified' /\ Named'
      BY <1>1 DEF FetchInv, Types, Folder, Numbered, Listing, Identified, Named,
                  Distinct, ExternalId, Announced, vars, boxVars, mailVars, syncVars
  <2> QED BY <2>2, <2>3 DEF FetchInv
<1>2. CASE Next
    BY <1>2, SyncBegins, PageListed, UidsSearched, MessageFetched, MessageSkipped, SyncFails,
       AllFetched, BatchStored, MessageArrives, MessageDeleted, FolderRebuilt
    DEF Next, SyncStep
<1> QED BY <1>1, <1>2

LEMMA Invariance == Spec => []FetchInv
BY InvInit, InvStep, PTL DEF Spec
-----------------------------------------------------------------------------
(* Theorems. *)

\* A sequence without repetitions is as long as the set of its elements.
LEMMA DistinctLength ==
    ASSUME NEW s \in Seq(Messages), Distinct(s) PROVE Cardinality(ToSet(s)) = Len(s)
<1> DEFINE f == [i \in 1..Len(s) |-> s[i]]
<1>1. Len(s) \in Nat /\ DOMAIN s = 1..Len(s)
    BY LenProperties
<1>2. f \in Bijection(1..Len(s), ToSet(s))
    BY <1>1 DEF Distinct, ToSet, Bijection, Injection, Surjection, IsInjective
<1>3. ExistsBijection(1..Len(s), ToSet(s))
    BY <1>2 DEF ExistsBijection
<1> QED BY <1>1, <1>3, FS_CountingElements

\* Type correctness: the inbox holds no message twice, every external_id of the
\* batch is well formed, and a page token stays within the inbox and one page.
THEOREM TypeCorrect == Spec => []TypeOK
<1>1. FetchInv => TypeOK
  <2> SUFFICES ASSUME FetchInv PROVE TypeOK
      OBVIOUS
  <2>1. ToSet(inbox) \subseteq 1..arrived
      BY Sizes DEF FetchInv, ToSet
  <2>2. ToSet(listed) \subseteq 1..arrived
    <3>1. \A i \in DOMAIN listed : listed[i] \in Messages /\ listed[i] <= arrived
        BY Sizes DEF FetchInv, Listing
    <3>2. \A i \in DOMAIN listed : listed[i] \in 1..arrived
        BY <3>1, Sizes DEF FetchInv
    <3> QED BY <3>2 DEF ToSet
  <2>3. \A b \in ToSet(batch) : b.id \in ExternalIds /\ b.message \in Messages /\ b.at \in Times
      BY Sizes DEF FetchInv, ToSet, Mail
  <2>4. Len(inbox) = Cardinality(ToSet(inbox))
      BY DistinctLength DEF FetchInv, Types, Folder
  <2> QED BY <2>1, <2>2, <2>3, <2>4 DEF FetchInv, Types, TypeOK
<1> QED BY <1>1, Invariance, PTL

\* A message that comes on two pages is in the batch once, and no two messages of
\* a folder have one UID, so that the database never refuses the rows of a sync.
THEOREM BatchOnce == Spec => []BatchDistinct
BY DistinctIds, Invariance, PTL

\* An external_id names one message for ever, through arrivals, deletions and
\* renumberings, if the server announces the UIDVALIDITY of its folder.
THEOREM Stable == Spec => StableIdentity
<1>1. FetchInv /\ [Next]_vars =>
        [provider = "gmail" \/ announces =>
           \A x \in ExternalIds : rows[x] # None => rows'[x] = rows[x]]_vars
  <2> SUFFICES ASSUME FetchInv, Next
               PROVE  provider = "gmail" \/ announces =>
                        \A x \in ExternalIds : rows[x] # None => rows'[x] = rows[x]
      OBVIOUS
  <2>1. CASE Store
      BY <2>1, RowsKept
  <2>2. CASE ~Store
    <3>1. rows' = rows
        BY <2>2 DEF Next, SyncStep, Begin, ListPage, SearchUids, Fetch, Skip, Gone, Fetched, Fail,
                    Arrive, Delete, Rebuild
    <3> QED BY <3>1
  <2> QED BY <2>1, <2>2
<1> QED BY <1>1, Invariance, PTL DEF Spec, StableIdentity

\* Whatever arrives between two pages, a sync that succeeds has stored every
\* message of the window that its query returns and that was there from its
\* beginning to its end.  Nothing is proved of a message the query misses.
THEOREM Complete == Spec => CompleteSync
<1>1. FetchInv /\ [Next]_vars =>
        [Store => \A m \in (present \cap ToSet(inbox)) \ skipped :
                    stamp[m] = "today" => \E x \in ExternalIds : rows'[x] = m]_vars
  <2> SUFFICES ASSUME FetchInv, Store, NEW m \in (present \cap ToSet(inbox)) \ skipped,
                      stamp[m] = "today"
               PROVE  \E x \in ExternalIds : rows'[x] = m
      OBVIOUS
  <2>1. phase = "store" /\ listed = <<>>
      BY DEF FetchInv, Listing, Store
  <2>2. m \notin ToSet(listed)
      BY <2>1 DEF ToSet
  <2>3. Reached(m)
      BY <2>1 DEF FetchInv, Covered, ToSet
  <2>4. PICK i \in DOMAIN batch : batch[i].message = m /\ batch[i].at = "inside"
      BY <2>2, <2>3 DEF Reached
  <2>5. batch[i].id \in ExternalIds /\ rows'[batch[i].id] = m
      BY <2>4, RowsStored DEF InWindow
  <2> QED BY <2>5
<1> QED BY <1>1, Invariance, PTL DEF Spec, CompleteSync
=============================================================================
