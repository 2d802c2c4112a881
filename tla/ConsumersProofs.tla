--------------------------- MODULE ConsumersProofs ---------------------------
(***************************************************************************)
(* What the consumers of RabbitMQ's queues promise: Matching, for any      *)
(* texts and any number of overlapping visits, and Notifications, for any  *)
(* notifications, recipients and number of stops.                          *)
(***************************************************************************)
EXTENDS Matching, Notifications, FiniteSetTheorems, TLAPS

-----------------------------------------------------------------------------
(* Matching.                                                               *)

(***************************************************************************)
(* As much of TypeOK as the proof needs: what a visit is.  The invariant   *)
(* is inductive with it as it stands, because Save sets crossed anew: when *)
(* no visit stood between its read and its write, there is none whose text *)
(* could be another one.                                                   *)
(***************************************************************************)
VisitType ==
  visit \in [Visit -> [at : {"idle", "read", "embed", "store", "query"},
                       text : Text \cup {None}]]
TextType == {vibe, cache, form} \subseteq Text \cup {None} /\ current \subseteq Visit
VectorInv == VisitType /\ TextType /\ StaleOnlyIfCrossed

-----------------------------------------------------------------------------
LEMMA VectorInit == Init => VectorInv
BY DEF Init, VectorInv, VisitType, TextType, StaleOnlyIfCrossed, Idle, HasRead

\* The steps that write the profile's row.
LEMMA ProfileKeeps ==
  ASSUME VectorInv, SaveFails \/ Save \/ \E t \in Text : Submit(t)
  PROVE  VectorInv'
<1>1. CASE SaveFails \/ \E t \in Text : Submit(t)
  BY <1>1 DEF VectorInv, VisitType, TextType, StaleOnlyIfCrossed, HasRead, SaveFails, Submit
<1>2. CASE Save
  BY <1>2 DEF VectorInv, VisitType, TextType, StaleOnlyIfCrossed, HasRead, Save
<1> QED
  BY <1>1, <1>2

LEMMA VisitKeeps ==
  ASSUME VectorInv, NEW v \in Visit,
         \/ Begin(v) \/ ReadProfile(v) \/ EmbedProfile(v)
         \/ StoreVector(v) \/ QueryMatches(v) \/ VisitFails(v)
  PROVE  VectorInv'
<1> USE DEF VectorInv, VisitType, TextType, StaleOnlyIfCrossed, HasRead, Go, Answer, At, Idle, profile
<1>1. CASE Begin(v)
  BY <1>1 DEF Begin
<1>2. CASE ReadProfile(v)
  <2>1. CASE cache # None
    <3>1. visit' = [visit EXCEPT ![v] = [at |-> "query", text |-> cache]]
      BY <1>2, <2>1 DEF ReadProfile
    <3>2. VisitType' /\ TextType'
      BY <1>2, <3>1 DEF ReadProfile
    <3>3. ~crossed => cache = vibe
      BY <2>1
    <3> QED
      BY <1>2, <3>1, <3>2, <3>3 DEF ReadProfile
  <2>2. CASE cache = None
    <3>1. visit' = [visit EXCEPT ![v] = [at |-> "embed", text |-> vibe]]
      BY <1>2, <2>2 DEF ReadProfile
    <3> QED
      BY <1>2, <3>1 DEF ReadProfile
  <2> QED
    BY <2>1, <2>2
<1>3. CASE EmbedProfile(v)
  BY <1>3 DEF EmbedProfile
<1>4. CASE StoreVector(v)
  BY <1>4 DEF StoreVector
<1>5. CASE QueryMatches(v)
  BY <1>5 DEF QueryMatches
<1>6. CASE VisitFails(v)
  BY <1>6 DEF VisitFails
<1> QED
  BY <1>1, <1>2, <1>3, <1>4, <1>5, <1>6

\* The listing's side leaves the renter's alone.
LEMMA OtherSide ==
  ASSUME Next
  PROVE  \/ Visits \/ SaveFails \/ Save \/ \E t \in Text : Submit(t)
         \/ UNCHANGED <<profile, visit>>
BY DEF Next, ReadRow, CommitEdit, Publishing, RereadRow, PublishNewListing, Consumer,
       Consume, Upsert, Acknowledge, Reject, Crash

LEMMA VectorStep == VectorInv /\ [Next]_vars => VectorInv'
<1> SUFFICES ASSUME VectorInv, [Next]_vars
             PROVE  VectorInv'
  OBVIOUS
<1>1. CASE Visits
  BY <1>1, VisitKeeps DEF Visits
<1>2. CASE SaveFails \/ Save \/ \E t \in Text : Submit(t)
  BY <1>2, ProfileKeeps
<1>3. CASE UNCHANGED <<profile, visit>>
  BY <1>3 DEF VectorInv, VisitType, TextType, StaleOnlyIfCrossed, HasRead, profile
<1> QED
  BY <1>1, <1>2, <1>3, OtherSide DEF vars

-----------------------------------------------------------------------------
(***************************************************************************)
(* The stored vector is of the stored profile, and a visit begun after a   *)
(* save looks for what was saved, unless a visit had read the profile and  *)
(* not yet written its vector when it was saved.                           *)
(* (_load_or_compute_user_embedding, main.py:60-116; POST /profile.)       *)
(***************************************************************************)
THEOREM VectorsAreCurrent == Spec => []StaleOnlyIfCrossed
<1>1. VectorInv => StaleOnlyIfCrossed
  BY DEF VectorInv
<1> QED
  BY <1>1, VectorInit, VectorStep, PTL DEF Spec

-----------------------------------------------------------------------------
(* Notifications.                                                          *)

(***************************************************************************)
(* HeldWhileHandled says nothing of a deaf process.  Its handlers run on,  *)
(* but all of their messages are queued again, and the process gets its    *)
(* consumers back only by Restart, which leaves no handler.                *)
(***************************************************************************)
DeafHoldsNone ==
  process = "deaf" =>
    \A m \in Notification : held[m] # "delivered" /\ (Running(m) => held[m] = "queued")

(***************************************************************************)
(* Each delivery of a message grants one round of its mails; as many       *)
(* deliveries were there as the broker took the message back, and one more *)
(* if it is delivered or settled.  What a handler has still to write is    *)
(* due, and within what was granted.                                       *)
(***************************************************************************)
Granted(m) == requeued[m] + (IF held[m] \in {"delivered"} \cup Settled THEN 1 ELSE 0)
Due(m, r) ==
  IF handler[m] = "lookup" THEN Occurrences(m, r)
  ELSE IF handler[m] = "mail" THEN Cardinality(left[m] \cap Places(m, {r}))
  ELSE 0
WithinGrant ==
  \A m \in Notification, r \in Recipient :
    tried[m][r] + Due(m, r) <= Occurrences(m, r) * Granted(m)

MailInv == MailTypeOK /\ HeldWhileHandled /\ DeafHoldsNone /\ WithinGrant

LEMMA PlacesFinite ==
  ASSUME NEW m \in Notification, NEW r \in Recipient
  PROVE  /\ IsFiniteSet(Places(m, {r}))
         /\ Occurrences(m, r) \in Nat
<1>1. DOMAIN ToWhom[m] = 1 .. Len(ToWhom[m]) /\ Len(ToWhom[m]) \in Nat
  BY ToWhomAssumption
<1>2. IsFiniteSet(DOMAIN ToWhom[m])
  BY <1>1, FS_Interval
<1>3. IsFiniteSet(Places(m, {r}))
  BY <1>2, FS_Subset DEF Places
<1> QED
  BY <1>3, FS_CardinalityType DEF Occurrences

LEMMA PartOfPlaces ==
  ASSUME NEW m \in Notification, NEW r \in Recipient, NEW X \in SUBSET Places(m, {r})
  PROVE  /\ IsFiniteSet(X) /\ Cardinality(X) \in Nat
         /\ Cardinality(X) <= Occurrences(m, r)
BY PlacesFinite, FS_Subset, FS_CardinalityType DEF Occurrences

LEMMA OneRoundMore ==
  ASSUME NEW o \in Nat, NEW g \in Nat
  PROVE  o * g \in Nat /\ o * (g + 1) = o * g + o /\ o * 0 = 0
OBVIOUS

LEMMA GrantNumbers ==
  ASSUME MailTypeOK, NEW m \in Notification, NEW r \in Recipient
  PROVE  tried[m][r] \in Nat /\ Granted(m) \in Nat /\ Due(m, r) \in Nat
<1>1. tried[m][r] \in Nat /\ Granted(m) \in Nat
  BY DEF MailTypeOK, Granted
<1>2. left[m] \cap Places(m, {r}) \in SUBSET Places(m, {r})
  OBVIOUS
<1>3. Due(m, r) \in Nat
  BY <1>2, PlacesFinite, PartOfPlaces DEF Due
<1> QED
  BY <1>1, <1>3

\* What keeps WithinGrant: for each message as many rounds as before, and no
\* more tried or due than before.
LEMMA GrantKeeps ==
  ASSUME MailTypeOK, MailTypeOK', WithinGrant,
         \A m \in Notification : Granted(m)' = Granted(m),
         \A m \in Notification, r \in Recipient :
           tried'[m][r] + Due(m, r)' <= tried[m][r] + Due(m, r)
  PROVE  WithinGrant'
<1> SUFFICES ASSUME NEW m \in Notification, NEW r \in Recipient
             PROVE  tried'[m][r] + Due(m, r)' <= Occurrences(m, r) * Granted(m)'
  BY DEF WithinGrant, Occurrences, Places
<1> DEFINE bound == Occurrences(m, r) * Granted(m)
<1>1. tried[m][r] + Due(m, r) <= bound
  BY DEF WithinGrant
<1>2. bound \in Nat
  BY PlacesFinite, GrantNumbers, OneRoundMore
<1>3. tried'[m][r] \in Nat /\ Due(m, r)' \in Nat
  <2>1. left'[m] \cap Places(m, {r}) \in SUBSET Places(m, {r})
    OBVIOUS
  <2>2. Due(m, r)' \in Nat
    BY <2>1, PlacesFinite, PartOfPlaces DEF Due, Occurrences, Places
  <2> QED
    BY <2>2 DEF MailTypeOK
<1>4. Granted(m)' = Granted(m)
  OBVIOUS
<1> HIDE DEF bound
<1>5. tried'[m][r] + Due(m, r)' <= bound
  BY <1>1, <1>2, <1>3, GrantNumbers
<1> QED
  BY <1>4, <1>5 DEF bound

-----------------------------------------------------------------------------
LEMMA MailInitInv == MailInit => MailInv
<1> SUFFICES ASSUME MailInit
             PROVE  MailInv
  OBVIOUS
<1>1. MailTypeOK
  BY DEF MailInit, MailTypeOK, Settled
<1>2. HeldWhileHandled /\ DeafHoldsNone
  BY DEF MailInit, HeldWhileHandled, DeafHoldsNone, Running
<1>3. WithinGrant
  <2> SUFFICES ASSUME NEW m \in Notification, NEW r \in Recipient
               PROVE  tried[m][r] + Due(m, r) <= Occurrences(m, r) * Granted(m)
    BY DEF WithinGrant
  <2>1. tried[m][r] = 0 /\ Due(m, r) = 0 /\ Granted(m) = 0
    BY DEF MailInit, Due, Granted, Settled
  <2>2. Occurrences(m, r) * 0 = 0
    BY PlacesFinite, OneRoundMore
  <2>3. tried[m][r] + Due(m, r) = 0
    BY <2>1
  <2> QED
    BY <2>1, <2>2, <2>3
<1> QED
  BY <1>1, <1>2, <1>3 DEF MailInv

LEMMA RestartKeeps ==
  ASSUME MailInv, Restart, stops' \in Nat
  PROVE  MailInv'
<1> USE DEF MailInv
<1>1. MailTypeOK'
  BY DEF MailTypeOK, Restart, TakeBack, Settled
<1>2. HeldWhileHandled' /\ DeafHoldsNone'
  BY DEF MailTypeOK, HeldWhileHandled, DeafHoldsNone, Running, Restart, TakeBack, Settled
<1>3. WithinGrant'
  <2>1. \A m \in Notification : Granted(m)' = Granted(m)
    BY DEF MailTypeOK, Granted, Restart, TakeBack, Settled
  <2>2. ASSUME NEW m \in Notification, NEW r \in Recipient
        PROVE  tried'[m][r] + Due(m, r)' <= tried[m][r] + Due(m, r)
    <3>1. tried' = tried /\ Due(m, r)' = 0
      BY DEF Restart, Due
    <3> QED
      BY <3>1, GrantNumbers
  <2> QED
    BY <1>1, <2>1, <2>2, GrantKeeps
<1> QED
  BY <1>1, <1>2, <1>3

LEMMA LoseConnectionKeeps ==
  ASSUME MailInv, LoseConnection
  PROVE  MailInv'
<1> USE DEF MailInv
<1>1. MailTypeOK'
  BY DEF MailTypeOK, LoseConnection, TakeBack, Settled
<1>2. HeldWhileHandled' /\ DeafHoldsNone'
  BY DEF MailTypeOK, HeldWhileHandled, DeafHoldsNone, Running, LoseConnection, TakeBack, Settled
<1>3. WithinGrant'
  <2>1. \A m \in Notification : Granted(m)' = Granted(m)
    BY DEF MailTypeOK, Granted, LoseConnection, TakeBack, Settled
  <2>2. ASSUME NEW m \in Notification, NEW r \in Recipient
        PROVE  tried'[m][r] + Due(m, r)' <= tried[m][r] + Due(m, r)
    <3>1. tried' = tried /\ Due(m, r)' = Due(m, r)
      BY DEF LoseConnection, Due, Occurrences, Places
    <3> QED
      BY <3>1, GrantNumbers
  <2> QED
    BY <1>1, <2>1, <2>2, GrantKeeps
<1> QED
  BY <1>1, <1>2, <1>3

LEMMA PublishKeeps ==
  ASSUME MailInv, NEW m \in Notification, Publish(m)
  PROVE  MailInv'
<1> USE DEF MailInv
<1>1. MailTypeOK'
  BY DEF MailTypeOK, Publish, Settled
<1>2. HeldWhileHandled' /\ DeafHoldsNone'
  BY DEF MailTypeOK, HeldWhileHandled, DeafHoldsNone, Running, Publish
<1>3. WithinGrant'
  <2>1. \A n \in Notification : Granted(n)' = Granted(n)
    BY DEF MailTypeOK, Granted, Publish, Settled
  <2>2. ASSUME NEW n \in Notification, NEW r \in Recipient
        PROVE  tried'[n][r] + Due(n, r)' <= tried[n][r] + Due(n, r)
    <3>1. tried' = tried /\ Due(n, r)' = Due(n, r)
      BY DEF Publish, Due, Occurrences, Places
    <3> QED
      BY <3>1, GrantNumbers
  <2> QED
    BY <1>1, <2>1, <2>2, GrantKeeps
<1> QED
  BY <1>1, <1>2, <1>3

\* The one step that grants a round, and makes all of it due.
LEMMA DeliverKeeps ==
  ASSUME MailInv, NEW m \in Notification, Deliver(m)
  PROVE  MailInv'
<1> USE DEF MailInv
<1>1. MailTypeOK'
  BY DEF MailTypeOK, Deliver, Settled
<1>2. HeldWhileHandled' /\ DeafHoldsNone'
  BY DEF MailTypeOK, HeldWhileHandled, DeafHoldsNone, Running, Deliver
<1>3. WithinGrant'
  <2> SUFFICES ASSUME NEW n \in Notification, NEW r \in Recipient
               PROVE  tried'[n][r] + Due(n, r)' <= Occurrences(n, r) * Granted(n)'
    BY DEF WithinGrant, Occurrences, Places
  <2>1. tried[n][r] + Due(n, r) <= Occurrences(n, r) * Granted(n)
    BY DEF WithinGrant
  <2>2. CASE n = m
    <3>1. handler[m] = "idle"
      BY DEF Deliver, HeldWhileHandled, Running
    <3>2. Due(m, r) = 0 /\ Due(m, r)' = Occurrences(m, r) /\ tried' = tried
      BY <3>1 DEF MailTypeOK, Deliver, Due, Occurrences, Places
    <3>3. Granted(m)' = Granted(m) + 1
      BY DEF MailTypeOK, Deliver, Granted, Settled
    <3>4. Occurrences(m, r) * (Granted(m) + 1)
            = Occurrences(m, r) * Granted(m) + Occurrences(m, r)
      BY PlacesFinite, GrantNumbers, OneRoundMore
    <3>5. Occurrences(m, r) * Granted(m) \in Nat
      BY PlacesFinite, GrantNumbers, OneRoundMore
    <3> DEFINE bound == Occurrences(m, r) * Granted(m)
    <3>6. tried[m][r] + 0 <= bound
      BY <2>1, <2>2, <3>2
    <3> HIDE DEF bound
    <3>7. bound \in Nat /\ tried[m][r] \in Nat /\ Occurrences(m, r) \in Nat
      BY <3>5, PlacesFinite, GrantNumbers DEF bound
    <3>8. tried[m][r] + Occurrences(m, r) <= bound + Occurrences(m, r)
      BY <3>6, <3>7
    <3> QED
      BY <2>2, <3>2, <3>3, <3>4, <3>8 DEF bound
  <2>3. CASE n # m
    <3>1. tried' = tried /\ Due(n, r)' = Due(n, r) /\ Granted(n)' = Granted(n)
      BY <2>3 DEF MailTypeOK, Deliver, Due, Granted, Occurrences, Places
    <3> QED
      BY <2>1, <3>1
  <2> QED
    BY <2>2, <2>3
<1> QED
  BY <1>1, <1>2, <1>3

\* A step of m's handler that moves neither m nor what is due of the others.
LEMMA HandlerKeeps ==
  ASSUME MailInv, NEW m \in Notification, MailTypeOK',
         UNCHANGED <<process, broker>>,
         Running(m), Running(m)',
         \A n \in Notification \ {m} :
           handler'[n] = handler[n] /\ left'[n] = left[n] /\ tried'[n] = tried[n],
         \A r \in Recipient : tried'[m][r] + Due(m, r)' <= tried[m][r] + Due(m, r)
  PROVE  MailInv'
<1> USE DEF MailInv
<1>1. HeldWhileHandled' /\ DeafHoldsNone'
  BY DEF HeldWhileHandled, DeafHoldsNone, Running, broker
<1>2. \A n \in Notification : Granted(n)' = Granted(n)
  BY DEF Granted, broker
<1>3. ASSUME NEW n \in Notification, NEW r \in Recipient
      PROVE  tried'[n][r] + Due(n, r)' <= tried[n][r] + Due(n, r)
  <2>1. CASE n = m
    BY <2>1
  <2>2. CASE n # m
    <3>1. tried'[n][r] = tried[n][r] /\ Due(n, r)' = Due(n, r)
      BY <2>2 DEF Due, Occurrences, Places
    <3> QED
      BY <3>1, GrantNumbers
  <2> QED
    BY <2>1, <2>2
<1>4. WithinGrant'
  BY <1>2, <1>3, GrantKeeps
<1> QED
  BY <1>1, <1>4

LEMMA LookupKeeps ==
  ASSUME MailInv, NEW m \in Notification, Lookup(m)
  PROVE  MailInv'
<1>1. MailTypeOK'
  <2>1. DOMAIN ToWhom[m] \subseteq Nat
    BY ToWhomAssumption
  <2>2. PICK X \in SUBSET DOMAIN ToWhom[m] : left' = [left EXCEPT ![m] = X]
    BY DEF Lookup, Places
  <2>3. left' \in [Notification -> SUBSET Nat]
    BY <2>1, <2>2 DEF MailInv, MailTypeOK
  <2>4. \A n \in Notification : left'[n] \subseteq DOMAIN ToWhom[n]
    BY <2>2 DEF MailInv, MailTypeOK
  <2> QED
    BY <2>3, <2>4 DEF MailInv, MailTypeOK, Lookup, broker
<1>2. ASSUME NEW r \in Recipient
      PROVE  tried'[m][r] + Due(m, r)' <= tried[m][r] + Due(m, r)
  <2>1. Due(m, r) = Occurrences(m, r) /\ tried' = tried
    BY DEF Lookup, Due
  <2>2. Due(m, r)' = Cardinality(left'[m] \cap Places(m, {r}))
    BY DEF MailInv, MailTypeOK, Lookup, Due, Occurrences, Places
  <2>3. left'[m] \cap Places(m, {r}) \in SUBSET Places(m, {r})
    OBVIOUS
  <2>4. Due(m, r)' \in Nat /\ Due(m, r)' <= Occurrences(m, r)
    BY <2>2, <2>3, PartOfPlaces
  <2> QED
    BY <2>1, <2>4, GrantNumbers, PlacesFinite DEF MailInv
<1> QED
  BY <1>1, <1>2, HandlerKeeps DEF MailInv, MailTypeOK, Lookup, Running

\* The call of Resend that was due is made.
LEMMA CallPays ==
  ASSUME MailInv, NEW m \in Notification, NEW k \in DOMAIN ToWhom[m], Call(m, k),
         NEW r \in Recipient
  PROVE  tried'[m][r] + Cardinality((left[m] \ {k}) \cap Places(m, {r}))
           <= tried[m][r] + Due(m, r)
<1> DEFINE rest == (left[m] \ {k}) \cap Places(m, {r})
           all == left[m] \cap Places(m, {r})
<1>1. IsFiniteSet(all) /\ Cardinality(all) \in Nat
  BY PartOfPlaces
<1>2. Due(m, r) = Cardinality(all) /\ tried[m][r] \in Nat
  BY DEF MailInv, MailTypeOK, Call, Due
<1>3. rest = all \ {k}
  OBVIOUS
<1>4. CASE ToWhom[m][k] = r
  <2>1. k \in all
    BY <1>4 DEF Call, Places
  <2>2. Cardinality(rest) = Cardinality(all) - 1
    BY <1>1, <1>3, <2>1, FS_RemoveElement
  <2>3. tried'[m][r] = tried[m][r] + 1
    <3>1. tried' = [tried EXCEPT ![m][r] = @ + 1]
      BY <1>4 DEF Call
    <3> QED
      BY <3>1 DEF MailInv, MailTypeOK
  <2> HIDE DEF rest, all
  <2>4. tried'[m][r] + Cardinality(rest) <= tried[m][r] + Cardinality(all)
    BY <1>1, <1>2, <2>2, <2>3
  <2> QED
    BY <1>2, <2>4 DEF rest
<1>5. CASE ToWhom[m][k] # r
  <2>1. k \notin all
    BY <1>5 DEF Places
  <2>2. rest = all
    BY <1>3, <2>1
  <2>3. tried'[m][r] = tried[m][r]
    BY <1>5 DEF MailInv, MailTypeOK, Call
  <2> HIDE DEF rest, all
  <2>4. tried'[m][r] + Cardinality(rest) <= tried[m][r] + Cardinality(all)
    BY <1>1, <1>2, <2>2, <2>3
  <2> QED
    BY <1>2, <2>4 DEF rest
<1> QED
  BY <1>4, <1>5

LEMMA CallTypes ==
  ASSUME MailInv, NEW m \in Notification, NEW k \in DOMAIN ToWhom[m], Call(m, k)
  PROVE  /\ tried' \in [Notification -> [Recipient -> Nat]]
         /\ \A n \in Notification \ {m} : tried'[n] = tried[n]
<1>1. ToWhom[m][k] \in Recipient
  BY ToWhomAssumption
<1> QED
  BY <1>1 DEF MailInv, MailTypeOK, Call

LEMMA MailKeeps ==
  ASSUME MailInv, NEW m \in Notification, Mail(m)
  PROVE  MailInv'
<1>1. PICK k \in DOMAIN ToWhom[m] :
        Call(m, k) /\ left' = [left EXCEPT ![m] = @ \ {k}]
  BY DEF Mail
<1>2. MailTypeOK'
  BY <1>1, CallTypes DEF MailInv, MailTypeOK, Mail, broker
<1>3. ASSUME NEW r \in Recipient
      PROVE  tried'[m][r] + Due(m, r)' <= tried[m][r] + Due(m, r)
  <2>1. Due(m, r)' = Cardinality((left[m] \ {k}) \cap Places(m, {r}))
    BY <1>1 DEF MailInv, MailTypeOK, Mail, Call, Due, Occurrences, Places
  <2> QED
    BY <1>1, <2>1, CallPays
<1> QED
  BY <1>1, <1>2, <1>3, CallTypes, HandlerKeeps
  DEF MailInv, MailTypeOK, Mail, Call, Running

LEMMA ThrowKeeps ==
  ASSUME MailInv, NEW m \in Notification, Throw(m)
  PROVE  MailInv'
<1>1. /\ UNCHANGED <<process, broker, left>> /\ Running(m) /\ Running(m)'
      /\ \A n \in Notification \ {m} : handler'[n] = handler[n]
      /\ handler'[m] = "failed"
      /\ handler' \in [Notification -> {"idle", "lookup", "mail", "failed"}]
  BY DEF MailInv, MailTypeOK, Throw, Call, Running
<1>2. \A r \in Recipient : Due(m, r)' = 0
  BY <1>1 DEF Due
<1>3. CASE UNCHANGED tried
  <2>1. MailTypeOK'
    BY <1>1, <1>3 DEF MailInv, MailTypeOK, Throw, broker
  <2>2. \A r \in Recipient : tried'[m][r] + Due(m, r)' <= tried[m][r] + Due(m, r)
    BY <1>2, <1>3, GrantNumbers DEF MailInv
  <2> QED
    BY <1>1, <1>3, <2>1, <2>2, HandlerKeeps
<1>4. ASSUME NEW k \in DOMAIN ToWhom[m], Call(m, k)
      PROVE  MailInv'
  <2>1. MailTypeOK'
    BY <1>1, <1>4, CallTypes DEF MailInv, MailTypeOK, Throw, broker
  <2>2. ASSUME NEW r \in Recipient
        PROVE  tried'[m][r] + Due(m, r)' <= tried[m][r] + Due(m, r)
    <3> DEFINE rest == Cardinality((left[m] \ {k}) \cap Places(m, {r}))
    <3>1. rest \in Nat
      BY PartOfPlaces
    <3>2. tried'[m][r] \in Nat
      BY <2>1 DEF MailTypeOK
    <3>3. tried'[m][r] + rest <= tried[m][r] + Due(m, r)
      BY <1>4, CallPays
    <3> HIDE DEF rest
    <3> QED
      BY <1>2, <3>1, <3>2, <3>3, GrantNumbers DEF MailInv
  <2> QED
    BY <1>1, <1>4, <2>1, <2>2, CallTypes, HandlerKeeps
<1> QED
  BY <1>3, <1>4 DEF Throw

LEMMA SettlesKeeps ==
  ASSUME MailInv, NEW m \in Notification, Ack(m) \/ Nack(m)
  PROVE  MailInv'
<1> USE DEF MailInv
<1>1. PICK where \in Settled : Finish(m, where) /\ Running(m)
  BY DEF Ack, Nack, Done, Settled, Running
<1>2. held[m] = "delivered"
  BY <1>1 DEF HeldWhileHandled, Finish
<1>3. MailTypeOK'
  BY <1>1 DEF MailTypeOK, Finish
<1>4. HeldWhileHandled' /\ DeafHoldsNone'
  BY <1>1 DEF MailTypeOK, HeldWhileHandled, DeafHoldsNone, Running, Finish, Settled
<1>5. \A n \in Notification : Granted(n)' = Granted(n)
  BY <1>1, <1>2 DEF MailTypeOK, Granted, Finish, Settled
<1>6. ASSUME NEW n \in Notification, NEW r \in Recipient
      PROVE  tried'[n][r] + Due(n, r)' <= tried[n][r] + Due(n, r)
  <2>1. tried' = tried
    BY <1>1 DEF Finish
  <2>2. CASE n = m
    <3>1. Due(n, r)' = 0
      BY <1>1, <2>2 DEF MailTypeOK, Finish, Due
    <3> QED
      BY <2>1, <3>1, GrantNumbers
  <2>3. CASE n # m
    <3>1. Due(n, r)' = Due(n, r)
      BY <1>1, <2>3 DEF MailTypeOK, Finish, Due, Occurrences, Places
    <3> QED
      BY <2>1, <3>1, GrantNumbers
  <2> QED
    BY <2>2, <2>3
<1>7. WithinGrant'
  BY <1>3, <1>5, <1>6, GrantKeeps
<1> QED
  BY <1>3, <1>4, <1>7

LEMMA MailStep == MailInv /\ [MailNext]_mailVars => MailInv'
<1> SUFFICES ASSUME MailInv, [MailNext]_mailVars
             PROVE  MailInv'
  OBVIOUS
<1>1. CASE UNCHANGED mailVars
  BY <1>1 DEF mailVars, broker, MailInv, MailTypeOK, HeldWhileHandled, DeafHoldsNone,
              WithinGrant, Running, Granted, Due, Occurrences, Places
<1>2. CASE Stop
  BY <1>2, RestartKeeps DEF Stop, MailInv, MailTypeOK
<1>3. CASE LoseConnection
  BY <1>3, LoseConnectionKeeps
<1>4. ASSUME NEW m \in Notification, Publish(m) \/ Deliver(m)
      PROVE  MailInv'
  BY <1>4, PublishKeeps, DeliverKeeps
<1>5. ASSUME NEW m \in Notification, Handle(m)
      PROVE  MailInv'
  <2>1. CASE SettleOnClosedChannel(m)
    BY <2>1, RestartKeeps DEF SettleOnClosedChannel, MailInv, MailTypeOK
  <2> QED
    BY <1>5, <2>1, LookupKeeps, MailKeeps, ThrowKeeps, SettlesKeeps DEF Handle
<1> QED
  BY <1>1, <1>2, <1>3, <1>4, <1>5 DEF MailNext

-----------------------------------------------------------------------------
(***************************************************************************)
(* Nothing is acknowledged before it is handled and nothing handled is     *)
(* already given up by the broker, for any number of messages at once      *)
(* (consumeNotifications, index.js:201-262).                               *)
(***************************************************************************)
THEOREM BrokerHolds == MailSpec => []HeldWhileHandled
<1>1. MailInv => HeldWhileHandled
  BY DEF MailInv
<1> QED
  BY <1>1, MailInitInv, MailStep, PTL DEF MailSpec

(***************************************************************************)
(* Whoever is written to more often than ToWhom names them is so because   *)
(* the broker took the message back, for any order of the mails and any    *)
(* point at which one throws (sendMatchConfirmedEmail, index.js:66-132).   *)
(***************************************************************************)
THEOREM RepeatsAreRequeued == MailSpec => []RepeatsOnlyAfterRequeue
<1>1. MailInv => RepeatsOnlyAfterRequeue
  <2> SUFFICES ASSUME MailInv, NEW m \in Notification, NEW r \in Recipient
               PROVE  tried[m][r] <= Occurrences(m, r) * (1 + requeued[m])
    BY DEF RepeatsOnlyAfterRequeue
  <2> DEFINE used == tried[m][r]
             round == Occurrences(m, r)
             granted == round * Granted(m)
             allowed == round * requeued[m]
  <2>1. used + Due(m, r) <= granted /\ used \in Nat /\ Due(m, r) \in Nat
    BY GrantNumbers DEF MailInv, WithinGrant
  <2>2. requeued[m] \in Nat /\ round \in Nat
    BY PlacesFinite DEF MailInv, MailTypeOK
  <2>3. allowed \in Nat /\ round * (requeued[m] + 1) = allowed + round
    BY <2>2, OneRoundMore
  <2>4. Granted(m) \in {requeued[m], requeued[m] + 1}
    BY <2>2 DEF Granted
  <2>5. granted \in {allowed, allowed + round}
    BY <2>3, <2>4
  <2>6. requeued[m] + 1 = 1 + requeued[m]
    BY <2>2
  <2> HIDE DEF used, round, granted, allowed
  <2>7. used <= allowed + round
    BY <2>1, <2>2, <2>3, <2>5
  <2>8. round * (1 + requeued[m]) = allowed + round
    BY <2>3, <2>6
  <2> QED
    BY <2>7, <2>8 DEF used, round
<1> QED
  BY <1>1, MailInitInv, MailStep, PTL DEF MailSpec
=============================================================================
