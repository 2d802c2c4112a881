------------------------- MODULE MatchPaymentProofs -------------------------
(***************************************************************************)
(* What MatchPayment promises for any number of conversations, sessions,   *)
(* visits and deliveries.                                                  *)
(***************************************************************************)
EXTENDS MatchPayment, TLAPS

-----------------------------------------------------------------------------
(* Types.                                                                  *)

LEMMA FeeRange ==
  ASSUME NEW cents \in Nat
  PROVE  calculateMatchFee(cents) \in Fees
BY DEF calculateMatchFee, Fees

LEMMA CallType ==
  ASSUME TypeOK, NEW k \in Call, call[k].pc # "idle"
  PROVE  call[k] \in UnderWay
BY DEF TypeOK, Idle

LEMMA CallIdle ==
  ASSUME TypeOK, NEW k \in Call, call[k] # Idle
  PROVE  call[k] \in UnderWay
BY DEF TypeOK

LEMMA SessionType ==
  ASSUME TypeOK, NEW s \in Session, session[s].state # "none"
  PROVE  session[s] \in Created
BY DEF TypeOK, NotCreated

\* A call that goes on keeps what it is about.
LEMMA GotoType ==
  ASSUME TypeOK, NEW k \in Call, call[k] \in UnderWay,
         NEW pc \in {"select", "update", "publish", "newly", "no-op"}, Goto(k, pc)
  PROVE  /\ call' \in [Call -> {Idle} \cup UnderWay]
         /\ call'[k] = [call[k] EXCEPT !.pc = pc]
         /\ call'[k].pc = pc
         /\ call'[k].conversation = call[k].conversation
         /\ call'[k].session = call[k].session
         /\ call'[k].verified = call[k].verified
         /\ \A j \in Call \ {k} : call'[j] = call[j]
BY DEF TypeOK, Goto, UnderWay

(***************************************************************************)
(* Stripe delivers events of sessions that were paid, so that their        *)
(* metadata names a conversation.                                          *)
(***************************************************************************)
EventsPaid == \A s \in events : session[s].state = "paid"

LEMMA TypeStep == TypeOK /\ EventsPaid /\ [Next]_vars => TypeOK'
<1> SUFFICES ASSUME TypeOK, EventsPaid, [Next]_vars PROVE TypeOK'
  OBVIOUS
<1> USE DEF conversations, stripe, Fault
<1>1. CASE UNCHANGED vars
  BY <1>1 DEF TypeOK, vars
<1>2. ASSUME NEW cents \in Rent, EditRent(cents)
      PROVE  TypeOK'
  BY <1>2 DEF TypeOK, EditRent
<1>3. ASSUME NEW c \in Conversation, ReadRent(c) \/ InsertConversation(c)
      PROVE  TypeOK'
  BY <1>3 DEF TypeOK, ReadRent, InsertConversation, KeepOrSet
<1>4. ASSUME NEW c \in Conversation, KeyLapses(c)
      PROVE  TypeOK'
  <2>1. key[c] \in Session
    BY <1>4 DEF TypeOK, KeyLapses
  <2>2. session' \in [Session -> {NotCreated} \cup Created]
    <3>1. CASE session[key[c]].state = "open"
      <4>1. session[key[c]] \in Created
        BY <2>1, <3>1, SessionType
      <4>2. [session[key[c]] EXCEPT !.state = "expired"] \in Created
        BY <4>1 DEF Created
      <4> QED
        BY <1>4, <2>1, <3>1, <4>2 DEF TypeOK, KeyLapses
    <3>2. CASE session[key[c]].state # "open"
      <4>1. [session[key[c]] EXCEPT !.state = session[key[c]].state] = session[key[c]]
        BY <2>1 DEF TypeOK, Created, NotCreated
      <4> QED
        BY <1>4, <2>1, <3>2, <4>1 DEF TypeOK, KeyLapses
    <3> QED
      BY <3>1, <3>2
  <2> QED
    BY <1>4, <2>2 DEF TypeOK, KeyLapses
<1>5. ASSUME NEW c \in Conversation, NEW s \in Session, createCheckoutSession(c, s)
      PROVE  TypeOK'
  <2>1. initialRent[c] \in Nat
    BY <1>5, RentAssumption DEF TypeOK, createCheckoutSession, Exists
  <2>2. calculateMatchFee(initialRent[c]) \in Fees
    BY <2>1, FeeRange
  <2> QED
    BY <1>5, <2>2 DEF TypeOK, createCheckoutSession, Created
<1>6. CASE DeleteListing
  BY <1>6 DEF TypeOK, DeleteListing
<1>7. ASSUME NEW s \in Session, Pay(s) \/ Redeliver(s)
      PROVE  TypeOK'
  <2>1. CASE Pay(s)
    <3>1. session[s] \in Created
      BY <2>1, SessionType DEF Pay
    <3>2. [session[s] EXCEPT !.state = "paid"] \in Created
      BY <3>1 DEF Created
    <3> QED
      BY <2>1, <3>2 DEF TypeOK, Pay
  <2>2. CASE Redeliver(s)
    BY <2>2 DEF TypeOK, Redeliver
  <2> QED
    BY <1>7, <2>1, <2>2
<1>8. ASSUME NEW v \in Visit, NEW c \in Conversation, NEW s \in Session,
             VisitSuccessPage(v, c, s)
      PROVE  TypeOK'
  BY <1>8 DEF TypeOK, VisitSuccessPage, Confirming, UnderWay, Call, SessionId
<1>11. ASSUME NEW v \in Visit, NEW c \in Conversation, NEW id \in PostedId,
             PostConfirm(v, c, id)
       PROVE  TypeOK'
  BY <1>11, PostedAssumption
     DEF TypeOK, PostConfirm, Confirming, UnderWay, Call, SessionId
<1>9. ASSUME NEW k \in Call, CallStep(k) \/ CallFails(k) \/ PublishFails(k) \/ WebStops(k)
      PROVE  TypeOK'
  <2>1. call[k] \in UnderWay
    BY <1>9, CallType, CallIdle
       DEF CallStep, SelectConversation, ConversationGone, NewlyConfirm,
           AlreadyConfirmed, PublishMatchConfirmed, Return, CallFails, PublishFails,
           WebStops
  <2>2. call[k].conversation \in Conversation /\ call[k].session \in SessionId
    BY <2>1 DEF UnderWay
  <2>3. CASE SelectConversation(k)
    <3>1. Goto(k, "update")
      BY <2>3 DEF SelectConversation
    <3>2. call' \in [Call -> {Idle} \cup UnderWay]
      BY <2>1, <3>1, GotoType
    <3> QED
      BY <2>3, <3>2 DEF TypeOK, SelectConversation
  <2>4. CASE AlreadyConfirmed(k)
    <3>1. Goto(k, "no-op")
      BY <2>4 DEF AlreadyConfirmed
    <3>2. call' \in [Call -> {Idle} \cup UnderWay]
      BY <2>1, <3>1, GotoType
    <3> QED
      BY <2>4, <3>2 DEF TypeOK, AlreadyConfirmed
  <2>5. CASE NewlyConfirm(k)
    <3>1. Goto(k, "publish")
      BY <2>5 DEF NewlyConfirm
    <3>2. call' \in [Call -> {Idle} \cup UnderWay]
      BY <2>1, <3>1, GotoType
    <3> QED
      BY <2>2, <2>5, <3>2 DEF TypeOK, NewlyConfirm
  <2>8. CASE PublishMatchConfirmed(k) \/ PublishFails(k)
    <3>1. Goto(k, "newly")
      BY <2>8 DEF PublishMatchConfirmed, PublishFails
    <3>2. call' \in [Call -> {Idle} \cup UnderWay]
      BY <2>1, <3>1, GotoType
    <3> QED
      BY <2>2, <2>8, <3>2 DEF TypeOK, PublishMatchConfirmed, PublishFails
  <2>6. CASE ConversationGone(k) \/ Return(k) \/ CallFails(k)
    BY <2>2, <2>6 DEF TypeOK, ConversationGone, Return, CallFails, Acknowledge
  <2>7. CASE WebStops(k)
    <3>1. [call[k] EXCEPT !.heard = FALSE] \in UnderWay
      BY <2>1 DEF UnderWay
    <3> QED
      BY <2>7, <3>1 DEF TypeOK, WebStops
  <2> QED
    BY <1>9, <2>3, <2>4, <2>5, <2>6, <2>7, <2>8 DEF CallStep
<1>10. ASSUME NEW h \in Hook, NEW s \in Session, DeliverEvent(h, s)
       PROVE  TypeOK'
  <2>1. session[s].state = "paid"
    BY <1>10 DEF DeliverEvent, EventsPaid
  <2>2. session[s].conversation \in Conversation
    BY <2>1, SessionType DEF Created
  <2> QED
    BY <1>10, <2>2 DEF TypeOK, DeliverEvent, Confirming, UnderWay, Call, SessionId
<1> QED
  BY <1>1, <1>2, <1>3, <1>4, <1>5, <1>6, <1>7, <1>8, <1>9, <1>10,
     <1>11 DEF Next

-----------------------------------------------------------------------------
(* Payments.                                                               *)

(***************************************************************************)
(* A call of the success page or the webhook to the confirm endpoint is    *)
(* about a session that is paid, for the conversation it is to confirm; and*)
(* so is what it confirmed.                                                *)
(***************************************************************************)
CallsPaid ==
  \A k \in Call :
    call[k] # Idle /\ call[k].verified =>
      /\ call[k].session \in Session
      /\ session[call[k].session].state = "paid"
      /\ session[call[k].session].conversation = call[k].conversation

PaidInv == TypeOK /\ EventsPaid /\ CallsPaid /\ ConfirmedIsPaid

\* What Stripe knows of a session stays, and what is paid stays paid.
SessionsKept ==
  \A s \in Session :
    session[s].state # "none" =>
      /\ session'[s].state # "none"
      /\ session'[s].conversation = session[s].conversation
      /\ session'[s].amount = session[s].amount
      /\ session[s].state = "paid" => session'[s].state = "paid"

LEMMA SessionsStep == TypeOK /\ [Next]_vars => SessionsKept
<1> SUFFICES ASSUME TypeOK, [Next]_vars, NEW s \in Session, session[s].state # "none"
             PROVE  /\ session'[s].state # "none"
                    /\ session'[s].conversation = session[s].conversation
                    /\ session'[s].amount = session[s].amount
                    /\ session[s].state = "paid" => session'[s].state = "paid"
  BY DEF SessionsKept
<1>0. session[s] \in Created
  BY SessionType
<1>1. ASSUME NEW c \in Conversation, KeyLapses(c), key[c] = s
      PROVE  session'[s] = [session[s] EXCEPT !.state =
                              IF session[s].state = "open" THEN "expired"
                              ELSE session[s].state]
  BY <1>1 DEF TypeOK, KeyLapses
<1>2. ASSUME Pay(s)
      PROVE  session'[s] = [session[s] EXCEPT !.state = "paid"]
  BY <1>2 DEF TypeOK, Pay
<1>3. \/ session'[s] = session[s]
      \/ \E c \in Conversation : KeyLapses(c) /\ key[c] = s
      \/ Pay(s)
  <2>1. ASSUME NEW c \in Conversation, NEW t \in Session, createCheckoutSession(c, t)
        PROVE  session'[s] = session[s]
    BY <2>1 DEF TypeOK, createCheckoutSession, NotCreated
  <2>2. ASSUME NEW c \in Conversation, KeyLapses(c), key[c] # s
        PROVE  session'[s] = session[s]
    BY <2>2 DEF TypeOK, KeyLapses
  <2>3. ASSUME NEW t \in Session, Pay(t), t # s
        PROVE  session'[s] = session[s]
    BY <2>3 DEF TypeOK, Pay
  <2>4. CASE UNCHANGED session
    BY <2>4
  <2> QED
    BY <2>1, <2>2, <2>3, <2>4
       DEF Next, EditRent, ReadRent, InsertConversation, DeleteListing, Redeliver,
           VisitSuccessPage, PostConfirm, DeliverEvent, CallStep, SelectConversation,
           ConversationGone, NewlyConfirm, AlreadyConfirmed, PublishMatchConfirmed,
           Return, CallFails, PublishFails, WebStops, stripe, vars
<1>4. ASSUME NEW st \in {"paid", "expired", session[s].state},
             session'[s] = [session[s] EXCEPT !.state = st]
      PROVE  /\ session'[s].state = st
             /\ session'[s].conversation = session[s].conversation
             /\ session'[s].amount = session[s].amount
  BY <1>0, <1>4 DEF Created
<1>5. CASE \E c \in Conversation : KeyLapses(c) /\ key[c] = s
  <2>1. CASE session[s].state = "open"
    BY <1>1, <1>4, <1>5, <2>1
  <2>2. CASE session[s].state # "open"
    BY <1>1, <1>4, <1>5, <2>2
  <2> QED
    BY <2>1, <2>2
<1>6. CASE Pay(s)
  BY <1>2, <1>4, <1>6
<1> QED
  BY <1>3, <1>5, <1>6

\* How a step moves a call: it starts, ends, or stays about the same session.
CallsKept ==
  \A k \in Call :
    \/ call'[k] = Idle
    \/ /\ call[k] # Idle
       /\ call'[k].conversation = call[k].conversation
       /\ call'[k].session = call[k].session
       /\ call'[k].verified = call[k].verified
    \/ call'[k].pc = "select" /\ ~call'[k].verified
    \/ /\ call'[k].pc = "select"
       /\ session[call'[k].session].state = "paid"
       /\ session[call'[k].session].conversation = call'[k].conversation
       /\ call'[k].session \in Session

LEMMA CallsStep == TypeOK /\ EventsPaid /\ [Next]_vars => CallsKept
<1> SUFFICES ASSUME TypeOK, EventsPaid, [Next]_vars PROVE CallsKept
  OBVIOUS
<1>1. CASE UNCHANGED call
  BY <1>1 DEF CallsKept
<1>2. ASSUME NEW v \in Visit, NEW c \in Conversation, NEW s \in Session,
             VisitSuccessPage(v, c, s)
      PROVE  CallsKept
  BY <1>2 DEF CallsKept, TypeOK, VisitSuccessPage, VerifiedFor, Confirming
<1>5. ASSUME NEW v \in Visit, NEW c \in Conversation, NEW id \in PostedId,
             PostConfirm(v, c, id)
      PROVE  CallsKept
  BY <1>5 DEF CallsKept, TypeOK, PostConfirm, Confirming
<1>3. ASSUME NEW h \in Hook, NEW s \in Session, DeliverEvent(h, s)
      PROVE  CallsKept
  BY <1>3 DEF CallsKept, TypeOK, EventsPaid, DeliverEvent, Confirming
<1>4. ASSUME NEW k \in Call, CallStep(k) \/ CallFails(k) \/ PublishFails(k) \/ WebStops(k)
      PROVE  CallsKept
  <2>1. call[k] \in UnderWay /\ call[k] # Idle
    BY <1>4, CallType, CallIdle
       DEF CallStep, SelectConversation, ConversationGone, NewlyConfirm,
           AlreadyConfirmed, PublishMatchConfirmed, Return, CallFails, PublishFails,
           WebStops, Idle
  <2>2. CASE call' = [call EXCEPT ![k] = Idle]
    BY <2>2 DEF CallsKept, TypeOK
  <2>3. ASSUME NEW pc \in {"update", "publish", "newly", "no-op"}, Goto(k, pc)
        PROVE  CallsKept
    BY <2>1, <2>3, GotoType DEF CallsKept
  <2>4. CASE WebStops(k)
    BY <2>1, <2>4 DEF CallsKept, TypeOK, WebStops, UnderWay
  <2> QED
    BY <1>4, <2>2, <2>3, <2>4
       DEF CallStep, SelectConversation, ConversationGone, NewlyConfirm,
           AlreadyConfirmed, PublishMatchConfirmed, Return, CallFails, PublishFails
<1> QED
  BY <1>1, <1>2, <1>3, <1>4, <1>5
     DEF Next, EditRent, ReadRent, InsertConversation, DeleteListing,
         createCheckoutSession, Pay, Redeliver, KeyLapses, vars

LEMMA PaidInit == Init => PaidInv
BY RentAssumption, SessionAssumption
   DEF Init, PaidInv, TypeOK, EventsPaid, CallsPaid, ConfirmedIsPaid

LEMMA PaidStep == PaidInv /\ [Next]_vars => PaidInv'
<1> SUFFICES ASSUME PaidInv, [Next]_vars PROVE PaidInv'
  OBVIOUS
<1>1. TypeOK /\ TypeOK' /\ SessionsKept /\ CallsKept
  BY TypeStep, SessionsStep, CallsStep DEF PaidInv
<1>2. EventsPaid'
  <2>1. \A s \in events' : s \in events \/ session'[s].state = "paid"
    <3>1. ASSUME NEW s \in Session, Pay(s)
          PROVE  events' = events \cup {s} /\ session'[s].state = "paid"
      BY <1>1, <3>1, SessionType DEF TypeOK, Pay, Created
    <3>2. ASSUME NEW s \in Session, Redeliver(s)
          PROVE  events' = events \cup {s} /\ session'[s].state = "paid"
      BY <1>1, <3>2 DEF Redeliver, stripe
    <3>3. CASE events' \subseteq events
      BY <3>3
    <3> QED
      BY <3>1, <3>2, <3>3
         DEF Next, EditRent, ReadRent, InsertConversation, DeleteListing,
             createCheckoutSession, KeyLapses, VisitSuccessPage, PostConfirm, DeliverEvent,
             CallStep, SelectConversation, ConversationGone, NewlyConfirm,
             AlreadyConfirmed, PublishMatchConfirmed, Return, Acknowledge, CallFails,
             PublishFails, WebStops, vars
  <2> QED
    BY <1>1, <2>1 DEF PaidInv, EventsPaid, SessionsKept, TypeOK
<1>3. CallsPaid'
  <2> SUFFICES ASSUME NEW k \in Call, call'[k] # Idle
               PROVE  call'[k].verified =>
                        /\ call'[k].session \in Session
                        /\ session'[call'[k].session].state = "paid"
                        /\ session'[call'[k].session].conversation = call'[k].conversation
    BY DEF CallsPaid
  <2>1. CASE call[k] # Idle /\ call'[k].conversation = call[k].conversation
             /\ call'[k].session = call[k].session
             /\ call'[k].verified = call[k].verified
    BY <1>1, <2>1 DEF PaidInv, CallsPaid, SessionsKept
  <2>3. CASE ~call'[k].verified
    BY <2>3
  <2>2. CASE /\ session[call'[k].session].state = "paid"
             /\ session[call'[k].session].conversation = call'[k].conversation
             /\ call'[k].session \in Session
    BY <1>1, <2>2 DEF SessionsKept
  <2> QED
    BY <1>1, <2>1, <2>2, <2>3 DEF CallsKept
<1>4. ConfirmedIsPaid'
  <2>1. CASE confirmedBy' = confirmedBy \/ \A c \in Conversation : confirmedBy'[c] = NoSession
    <3>1. unverified' = unverified \/ \E k \in Call : NewlyConfirm(k)
      BY DEF Next, EditRent, ReadRent, InsertConversation, DeleteListing,
             createCheckoutSession, KeyLapses, Pay, Redeliver, VisitSuccessPage,
             PostConfirm, DeliverEvent, CallStep, SelectConversation,
             ConversationGone, AlreadyConfirmed, PublishMatchConfirmed, Return,
             CallFails, PublishFails, WebStops, vars
    <3>2. unverified \subseteq unverified'
      BY <3>1 DEF NewlyConfirm
    <3> QED
      BY <1>1, <2>1, <3>2 DEF PaidInv, ConfirmedIsPaid, SessionsKept, TypeOK
  <2>2. ASSUME NEW k \in Call, NewlyConfirm(k)
        PROVE  ConfirmedIsPaid'
    <3>1. call[k] \in UnderWay /\ call[k] # Idle
      BY <1>1, <2>2, CallType DEF NewlyConfirm, Idle
    <3>2. call[k].verified =>
            /\ call[k].session \in Session
            /\ session[call[k].session].state = "paid"
            /\ session[call[k].session].conversation = call[k].conversation
      BY <3>1 DEF PaidInv, CallsPaid
    <3>3. /\ session' = session
          /\ confirmedBy' = [confirmedBy EXCEPT ![call[k].conversation] = call[k].session]
          /\ unverified \subseteq unverified'
          /\ ~call[k].verified => call[k].conversation \in unverified'
      BY <1>1, <2>2, <3>1 DEF NewlyConfirm, stripe, TypeOK
    <3> QED
      BY <1>1, <3>2, <3>3 DEF PaidInv, ConfirmedIsPaid, TypeOK
  <2> QED
    BY <2>1, <2>2
       DEF Next, EditRent, ReadRent, InsertConversation, DeleteListing,
           createCheckoutSession, KeyLapses, Pay, Redeliver, VisitSuccessPage,
           PostConfirm, DeliverEvent, CallStep, SelectConversation, ConversationGone,
           AlreadyConfirmed, PublishMatchConfirmed, Return, CallFails, PublishFails,
           WebStops, vars
<1> QED
  BY <1>1, <1>2, <1>3, <1>4 DEF PaidInv

LEMMA PaidInvHolds == Spec => []PaidInv
BY PaidInit, PaidStep, PTL DEF Spec

(***************************************************************************)
(* Every value stays in its range, for any sets of conversations, sessions *)
(* and calls (main.go:1285-1347, actions.ts:282-355).                      *)
(***************************************************************************)
THEOREM TypeCorrect == Spec => []TypeOK
<1>1. PaidInv => TypeOK
  BY DEF PaidInv
<1> QED
  BY <1>1, PaidInvHolds, PTL

(***************************************************************************)
(* A match that the success page or the webhook confirmed was paid for with*)
(* the session it records, however many visits, deliveries, failures,      *)
(* direct calls and lapsed keys there are (verifyAndConfirmMatch           *)
(* actions.ts:333-342, route.ts:25-29, main.go:1302-1326).                 *)
(***************************************************************************)
THEOREM ConfirmedWasPaid == Spec => []ConfirmedIsPaid
<1>1. PaidInv => ConfirmedIsPaid
  BY DEF PaidInv
<1> QED
  BY <1>1, PaidInvHolds, PTL

(***************************************************************************)
(* A later call of the same or another session never changes the session a *)
(* match is confirmed with (main.go:1319-1326).                            *)
(***************************************************************************)
THEOREM ConfirmedOnce == Spec => ConfirmationStays
<1>1. ASSUME PaidInv, [Next]_vars, NEW c \in Conversation, confirmedBy[c] # NoSession,
             rent' # NoRent
      PROVE  confirmedBy'[c] = confirmedBy[c]
  <2>1. ASSUME NEW k \in Call, NewlyConfirm(k)
        PROVE  confirmedBy'[c] = confirmedBy[c]
    BY <1>1, <2>1 DEF PaidInv, TypeOK, NewlyConfirm, Unconfirmed
  <2>2. CASE UNCHANGED confirmedBy
    BY <2>2
  <2> QED
    BY <1>1, <2>1, <2>2
       DEF Next, EditRent, ReadRent, InsertConversation, DeleteListing,
           createCheckoutSession, KeyLapses, Pay, Redeliver, VisitSuccessPage,
           PostConfirm, DeliverEvent, CallStep, SelectConversation, ConversationGone,
           AlreadyConfirmed, PublishMatchConfirmed, Return, CallFails, PublishFails,
           WebStops, vars
<1>2. PaidInv /\ [Next]_vars
        => [\A c \in Conversation :
              confirmedBy[c] # NoSession
                => confirmedBy'[c] = confirmedBy[c] \/ rent' = NoRent]_vars
  BY <1>1
<1> QED
  BY <1>2, PaidInvHolds, PTL DEF Spec, ConfirmationStays

-----------------------------------------------------------------------------
(* The one call that confirmed.                                            *)

\* The call whose UPDATE set confirmed_at, until its answer is delivered.
Winner(k) == call[k].pc \in {"publish", "newly"}

\* With the listing its conversations are gone.
GoneInv == rent = NoRent => \A c \in Conversation : ~Exists(c)

(***************************************************************************)
(* A conversation has one such call; before it published, nothing was      *)
(* announced, and before it returned, nothing was captured; and while the  *)
(* listing is there, a conversation without confirmed_at had none.         *)
(***************************************************************************)
OneWinner ==
  \A j, k \in Call :
    Winner(j) /\ Winner(k) /\ call[j].conversation = call[k].conversation => j = k
WinnerInv ==
  \A k \in Call :
    Winner(k) =>
      /\ captured[call[k].conversation] = {}
      /\ call[k].pc = "publish" => announced[call[k].conversation] = 0
      /\ rent # NoRent => confirmedBy[call[k].conversation] = call[k].session
CountInv ==
  \A c \in Conversation :
    /\ announced[c] \in {0, 1}
    /\ \A s, t \in captured[c] : s = t
    /\ rent # NoRent => captured[c] \subseteq {confirmedBy[c]}
UnconfirmedInv ==
  \A c \in Conversation :
    rent # NoRent /\ confirmedBy[c] = NoSession =>
      /\ announced[c] = 0
      /\ captured[c] = {}
      /\ \A k \in Call : Winner(k) => call[k].conversation # c

OnceInv == GoneInv /\ OneWinner /\ WinnerInv /\ CountInv /\ UnconfirmedInv

LEMMA OnceInit == Init => OnceInv
BY RentAssumption
   DEF Init, OnceInv, GoneInv, OneWinner, WinnerInv, CountInv, UnconfirmedInv, Winner,
       Exists, Idle

LEMMA GoneStep == TypeOK /\ GoneInv /\ [Next]_vars => GoneInv'
<1> SUFFICES ASSUME TypeOK, GoneInv, [Next]_vars PROVE GoneInv'
  OBVIOUS
<1>1. CASE UNCHANGED <<rent, initialRent>>
  BY <1>1 DEF GoneInv, Exists
<1>2. ASSUME NEW cents \in Rent, EditRent(cents) PROVE GoneInv'
  BY <1>2, RentAssumption DEF GoneInv, EditRent
<1>3. ASSUME NEW c \in Conversation, InsertConversation(c) PROVE GoneInv'
  BY <1>3 DEF GoneInv, Exists, InsertConversation
<1>4. CASE DeleteListing
  BY <1>4 DEF GoneInv, Exists, DeleteListing
<1> QED
  BY <1>1, <1>2, <1>3, <1>4
     DEF Next, ReadRent, createCheckoutSession, KeyLapses, Pay, Redeliver,
         VisitSuccessPage, PostConfirm, DeliverEvent, CallStep, SelectConversation,
         ConversationGone, NewlyConfirm, AlreadyConfirmed, PublishMatchConfirmed,
         Return, CallFails, PublishFails, WebStops, conversations, vars

\* A step that confirms, announces and captures nothing, and by which no call
\* becomes a winner, keeps the invariant.
LEMMA OnceFrame ==
  ASSUME OnceInv, GoneInv', UNCHANGED <<announced, captured>>,
         rent' # NoRent => rent # NoRent /\ confirmedBy' = confirmedBy,
         \A k \in Call :
           call'[k].pc \in {"publish", "newly"} =>
             /\ Winner(k)
             /\ call'[k].conversation = call[k].conversation
             /\ call'[k].session = call[k].session
             /\ call'[k].pc = "publish" => call[k].pc = "publish"
  PROVE  OnceInv'
<1>1. \A k \in Call : Winner(k)' => Winner(k)
  BY DEF Winner
<1>2. OneWinner'
  BY <1>1 DEF OnceInv, OneWinner, Winner
<1>3. WinnerInv'
  BY <1>1 DEF OnceInv, WinnerInv, Winner
<1>4. CountInv'
  BY DEF OnceInv, CountInv
<1>5. UnconfirmedInv'
  BY <1>1 DEF OnceInv, UnconfirmedInv, Winner
<1> QED
  BY <1>2, <1>3, <1>4, <1>5 DEF OnceInv

LEMMA NewlyConfirmOnce ==
  ASSUME PaidInv, OnceInv, GoneInv', NEW k \in Call, NewlyConfirm(k)
  PROVE  OnceInv'
<1> DEFINE c == call[k].conversation
           s == call[k].session
<1>1. TypeOK /\ call[k] \in UnderWay /\ c \in Conversation /\ s \in SessionId
  BY CallType DEF PaidInv, NewlyConfirm, UnderWay
<1>2. /\ call'[k].pc = "publish" /\ call'[k].conversation = c /\ call'[k].session = s
      /\ \A j \in Call \ {k} : call'[j] = call[j]
  <2>1. Goto(k, "publish")
    BY DEF NewlyConfirm
  <2> QED
    BY <1>1, <2>1, GotoType
<1>3. /\ confirmedBy' = [confirmedBy EXCEPT ![c] = s]
      /\ UNCHANGED <<rent, announced, captured>>
  BY DEF NewlyConfirm, conversations
<1>4. rent # NoRent /\ confirmedBy[c] = NoSession
  BY <1>1 DEF NewlyConfirm, Unconfirmed, OnceInv, GoneInv
<1>5. /\ announced[c] = 0 /\ captured[c] = {}
      /\ \A j \in Call : Winner(j) => call[j].conversation # c
  BY <1>1, <1>4 DEF OnceInv, UnconfirmedInv
<1>6. \A j \in Call : Winner(j)' <=> j = k \/ (j # k /\ Winner(j))
  BY <1>2 DEF Winner
<1> HIDE DEF c, s
<1>7. OneWinner'
  BY <1>2, <1>5, <1>6 DEF OnceInv, OneWinner
<1>8. WinnerInv'
  <2> SUFFICES ASSUME NEW j \in Call, Winner(j)'
               PROVE  /\ captured'[call'[j].conversation] = {}
                      /\ call'[j].pc = "publish" => announced'[call'[j].conversation] = 0
                      /\ rent' # NoRent =>
                           confirmedBy'[call'[j].conversation] = call'[j].session
    BY DEF WinnerInv
  <2>1. CASE j = k
    BY <1>1, <1>2, <1>3, <1>5, <2>1 DEF TypeOK
  <2>2. CASE j # k
    <3>1. Winner(j) /\ call'[j] = call[j] /\ call[j].conversation # c
      BY <1>2, <1>5, <1>6, <2>2
    <3>2. call[j].conversation \in Conversation
      BY <1>1, <3>1, CallType DEF Winner, UnderWay
    <3> QED
      BY <1>1, <1>3, <3>1, <3>2 DEF OnceInv, WinnerInv, TypeOK
  <2> QED
    BY <2>1, <2>2
<1>9. CountInv'
  BY <1>1, <1>3, <1>5 DEF OnceInv, CountInv, TypeOK
<1>10. UnconfirmedInv'
  BY <1>1, <1>2, <1>3, <1>6, SessionAssumption DEF OnceInv, UnconfirmedInv, TypeOK, SessionId
<1> QED
  BY <1>7, <1>8, <1>9, <1>10 DEF OnceInv

LEMMA PublishOnce ==
  ASSUME PaidInv, OnceInv, GoneInv', NEW k \in Call, PublishMatchConfirmed(k)
  PROVE  OnceInv'
<1> DEFINE c == call[k].conversation
<1>1. TypeOK /\ call[k] \in UnderWay /\ c \in Conversation
  BY CallType DEF PaidInv, PublishMatchConfirmed, UnderWay
<1>2. /\ call'[k].pc = "newly" /\ call'[k].conversation = c
      /\ call'[k].session = call[k].session
      /\ \A j \in Call \ {k} : call'[j] = call[j]
  <2>1. Goto(k, "newly")
    BY DEF PublishMatchConfirmed
  <2> QED
    BY <1>1, <2>1, GotoType
<1>3. /\ announced' = [announced EXCEPT ![c] = announced[c] + 1]
      /\ UNCHANGED <<rent, confirmedBy, captured>>
  BY DEF PublishMatchConfirmed, conversations
<1>4. Winner(k) /\ announced[c] = 0
  BY DEF PublishMatchConfirmed, Winner, OnceInv, WinnerInv
<1>5. \A j \in Call : Winner(j)' <=> Winner(j)
  BY <1>2, <1>4 DEF Winner
<1>6. \A j \in Call : Winner(j) /\ j # k => call[j].conversation # c
  BY <1>4 DEF OnceInv, OneWinner
<1> HIDE DEF c
<1>7. OneWinner'
  BY <1>2, <1>5, <1>6 DEF OnceInv, OneWinner
<1>8. WinnerInv'
  <2> SUFFICES ASSUME NEW j \in Call, Winner(j)'
               PROVE  /\ captured'[call'[j].conversation] = {}
                      /\ call'[j].pc = "publish" => announced'[call'[j].conversation] = 0
                      /\ rent' # NoRent =>
                           confirmedBy'[call'[j].conversation] = call'[j].session
    BY DEF WinnerInv
  <2>1. Winner(j)
    BY <1>5
  <2>2. CASE j = k
    BY <1>2, <1>3, <2>1, <2>2 DEF OnceInv, WinnerInv, c
  <2>3. CASE j # k
    <3>1. call'[j] = call[j] /\ call[j].conversation # c
      BY <1>2, <1>6, <2>1, <2>3
    <3>2. call[j].conversation \in Conversation
      BY <1>1, <2>1, CallType DEF Winner, UnderWay
    <3> QED
      BY <1>1, <1>3, <2>1, <3>1, <3>2 DEF OnceInv, WinnerInv, TypeOK
  <2> QED
    BY <2>2, <2>3
<1>9. CountInv'
  BY <1>1, <1>3, <1>4 DEF OnceInv, CountInv, TypeOK
<1>10. UnconfirmedInv'
  <2>1. rent # NoRent => confirmedBy[c] # NoSession
    BY <1>1, <1>4 DEF OnceInv, UnconfirmedInv, c
  <2> QED
    BY <1>1, <1>2, <1>3, <1>5, <2>1 DEF OnceInv, UnconfirmedInv, TypeOK
<1> QED
  BY <1>7, <1>8, <1>9, <1>10 DEF OnceInv

LEMMA ReturnOnce ==
  ASSUME PaidInv, OnceInv, GoneInv', NEW k \in Call, Return(k)
  PROVE  OnceInv'
<1> DEFINE c == call[k].conversation
           s == call[k].session
<1>1. TypeOK /\ c \in Conversation /\ s \in SessionId
  BY CallType DEF PaidInv, Return, UnderWay
<1>2. /\ call' = [call EXCEPT ![k] = Idle]
      /\ UNCHANGED <<rent, confirmedBy, announced>>
  BY DEF Return, conversations
<1>3. \A j \in Call : Winner(j)' => j # k /\ Winner(j) /\ call'[j] = call[j]
  BY <1>1, <1>2 DEF Winner, TypeOK, Idle
<1>4. CASE captured' = captured
  <2>1. \A j \in Call : call'[j] = call[j] \/ call'[j].pc = "idle"
    BY <1>1, <1>2 DEF TypeOK, Idle
  <2> QED
    BY <1>2, <1>4, <2>1, OnceFrame DEF Winner
<1>5. CASE Newly(k) /\ captured' = [captured EXCEPT ![c] = captured[c] \cup {s}]
  <2>1. Winner(k) /\ captured[c] = {} /\ (rent # NoRent => confirmedBy[c] = s)
    BY <1>5 DEF Newly, Winner, OnceInv, WinnerInv
  <2>2. \A j \in Call : Winner(j)' => call[j].conversation # c
    BY <1>3, <2>1 DEF OnceInv, OneWinner
  <2> HIDE DEF c, s
  <2>3. OneWinner'
    BY <1>3 DEF OnceInv, OneWinner
  <2>4. WinnerInv'
    BY <1>1, <1>2, <1>3, <1>5, <2>2 DEF OnceInv, WinnerInv, TypeOK
  <2>5. CountInv'
    BY <1>1, <1>2, <1>5, <2>1 DEF OnceInv, CountInv, TypeOK
  <2>6. UnconfirmedInv'
    BY <1>1, <1>2, <1>3, <1>5, <2>1, SessionAssumption DEF OnceInv, UnconfirmedInv, TypeOK, SessionId
  <2> QED
    BY <2>3, <2>4, <2>5, <2>6 DEF OnceInv
<1> QED
  BY <1>4, <1>5 DEF Return

LEMMA OnceStep == PaidInv /\ OnceInv /\ [Next]_vars => OnceInv'
<1> SUFFICES ASSUME PaidInv, OnceInv, [Next]_vars PROVE OnceInv'
  OBVIOUS
<1>1. TypeOK /\ GoneInv'
  BY GoneStep DEF PaidInv, OnceInv
<1>2. CASE UNCHANGED <<confirmedBy, call, announced, captured>>
           /\ (rent' # NoRent => rent # NoRent)
  BY <1>1, <1>2, OnceFrame DEF Winner
<1>3. CASE DeleteListing
  BY <1>1, <1>3, OnceFrame DEF DeleteListing, Winner
<1>4. ASSUME NEW v \in Visit, NEW c \in Conversation, NEW s \in Session,
             VisitSuccessPage(v, c, s)
      PROVE  OnceInv'
  <2>1. \A k \in Call : call'[k] = call[k] \/ call'[k].pc = "select"
    BY <1>1, <1>4 DEF TypeOK, VisitSuccessPage, Confirming
  <2> QED
    BY <1>1, <1>4, <2>1, OnceFrame DEF VisitSuccessPage, Winner, conversations
<1>13. ASSUME NEW v \in Visit, NEW c \in Conversation, NEW id \in PostedId,
             PostConfirm(v, c, id)
       PROVE  OnceInv'
  <2>1. \A k \in Call : call'[k] = call[k] \/ call'[k].pc = "select"
    BY <1>1, <1>13 DEF TypeOK, PostConfirm, Confirming
  <2> QED
    BY <1>1, <1>13, <2>1, OnceFrame DEF PostConfirm, Winner, conversations
<1>5. ASSUME NEW h \in Hook, NEW s \in Session, DeliverEvent(h, s)
      PROVE  OnceInv'
  <2>1. \A k \in Call : call'[k] = call[k] \/ call'[k].pc = "select"
    BY <1>1, <1>5 DEF TypeOK, DeliverEvent, Confirming
  <2> QED
    BY <1>1, <1>5, <2>1, OnceFrame DEF DeliverEvent, Winner, conversations
<1>6. ASSUME NEW k \in Call, NEW pc \in {"update", "no-op"}, Goto(k, pc),
             call[k].pc # "idle",
             UNCHANGED <<rent, confirmedBy, announced, captured>>
      PROVE  OnceInv'
  <2>1. call[k] \in UnderWay
    BY <1>1, <1>6, CallType
  <2>2. \A j \in Call : call'[j] = call[j] \/ call'[j].pc \in {"update", "no-op"}
    BY <1>1, <1>6, <2>1, GotoType
  <2> QED
    BY <1>1, <1>6, <2>2, OnceFrame DEF Winner
<1>7. ASSUME NEW k \in Call, ConversationGone(k) \/ CallFails(k)
      PROVE  OnceInv'
  <2>1. \A j \in Call : call'[j] = call[j] \/ call'[j].pc = "idle"
    BY <1>1, <1>7 DEF TypeOK, ConversationGone, CallFails, Idle
  <2> QED
    BY <1>1, <1>7, <2>1, OnceFrame
       DEF ConversationGone, CallFails, Winner, conversations
<1>8. ASSUME NEW k \in Call, PublishFails(k)
      PROVE  OnceInv'
  <2>1. call[k] \in UnderWay /\ Goto(k, "newly") /\ call[k].pc = "publish"
    BY <1>1, <1>8, CallType DEF PublishFails
  <2>2. /\ call'[k].pc = "newly" /\ call'[k].conversation = call[k].conversation
        /\ call'[k].session = call[k].session
        /\ \A j \in Call \ {k} : call'[j] = call[j]
    BY <1>1, <2>1, GotoType
  <2>3. Winner(k)
    BY <2>1 DEF Winner
  <2> QED
    BY <1>1, <1>8, <2>2, <2>3, OnceFrame DEF PublishFails, Winner, conversations
<1>9. ASSUME NEW k \in Call, WebStops(k)
      PROVE  OnceInv'
  <2>1. call[k] \in UnderWay
    BY <1>1, <1>9, CallIdle DEF WebStops
  <2>2. \A j \in Call : /\ call'[j].pc = call[j].pc
                        /\ j # k => call'[j] = call[j]
                        /\ call'[k].conversation = call[k].conversation
                        /\ call'[k].session = call[k].session
    BY <1>1, <1>9, <2>1 DEF TypeOK, WebStops, UnderWay
  <2> QED
    BY <1>1, <1>9, <2>2, OnceFrame DEF WebStops, Winner, conversations
<1>10. ASSUME NEW k \in Call, NewlyConfirm(k) \/ PublishMatchConfirmed(k) \/ Return(k)
       PROVE  OnceInv'
  BY <1>1, <1>10, NewlyConfirmOnce, PublishOnce, ReturnOnce
<1>11. ASSUME NEW k \in Call, SelectConversation(k) \/ AlreadyConfirmed(k)
       PROVE  OnceInv'
  BY <1>6, <1>11 DEF SelectConversation, AlreadyConfirmed, conversations
<1>12. ASSUME NEW cents \in Rent, EditRent(cents)
       PROVE  OnceInv'
  BY <1>2, <1>12 DEF EditRent
<1> QED
  BY <1>2, <1>3, <1>4, <1>5, <1>7, <1>8, <1>9, <1>10, <1>11, <1>12, <1>13
     DEF Next, ReadRent, InsertConversation, createCheckoutSession, KeyLapses,
         Pay, Redeliver, CallStep, conversations, vars

LEMMA OnceInvHolds == Spec => []OnceInv
<1>1. Init => OnceInv
  BY OnceInit
<1> QED
  BY <1>1, OnceStep, PaidInvHolds, PTL DEF Spec

(***************************************************************************)
(* Success pages, webhooks and their repetitions, in any number, publish   *)
(* match_confirmed at most once, for a conversation that is confirmed      *)
(* (handleConfirmConversation, main.go:1315-1344).                         *)
(***************************************************************************)
THEOREM AnnouncedAtMostOnce == Spec => []AnnouncedOnce
<1>1. PaidInv /\ OnceInv => AnnouncedOnce
  BY DEF PaidInv, TypeOK, OnceInv, GoneInv, CountInv, UnconfirmedInv, AnnouncedOnce,
         Exists
<1> QED
  BY <1>1, PaidInvHolds, OnceInvHolds, PTL

(***************************************************************************)
(* payment_completed is captured for one session at most, the one the match*)
(* is confirmed with (route.ts:30-34, 54-69).                              *)
(***************************************************************************)
THEOREM CapturedAtMostOnce == Spec => []CapturedIsRecorded
<1>1. PaidInv /\ OnceInv => CapturedIsRecorded
  BY DEF PaidInv, TypeOK, OnceInv, GoneInv, CountInv, CapturedIsRecorded, Exists
<1> QED
  BY <1>1, PaidInvHolds, OnceInvHolds, PTL

-----------------------------------------------------------------------------
(* The fee.                                                                *)

(***************************************************************************)
(* While the listing is there, each session asks for the fee of the rent   *)
(* its conversation started with.                                          *)
(***************************************************************************)
AmountInv ==
  \A s \in Session :
    Opened(s) /\ rent # NoRent =>
      /\ Exists(session[s].conversation)
      /\ session[s].amount = calculateMatchFee(initialRent[session[s].conversation])

FeeInv == GoneInv /\ AmountInv /\ FeeLocked

\* A step that opens no session keeps the amounts there are.
LEMMA FeeLockedFrame ==
  ASSUME TypeOK, FeeInv, SessionsKept, \A s \in Session : Opened(s)' => Opened(s)
  PROVE  FeeLocked'
BY DEF FeeInv, FeeLocked, SessionsKept, Opened

\* If moreover listing and conversations keep their rents, so do the sessions.
LEMMA AmountFrame ==
  ASSUME TypeOK, FeeInv, SessionsKept, \A s \in Session : Opened(s)' => Opened(s),
         rent' # NoRent => rent # NoRent,
         \A c \in Conversation : Exists(c) => initialRent'[c] = initialRent[c]
  PROVE  AmountInv'
<1> SUFFICES ASSUME NEW s \in Session, Opened(s)', rent' # NoRent
             PROVE  /\ Exists(session[s].conversation)'
                    /\ session'[s].amount
                         = calculateMatchFee(initialRent[session[s].conversation])'
  BY DEF AmountInv
<1> DEFINE c == session[s].conversation
<1>1. Opened(s) /\ session'[s].conversation = c /\ session'[s].amount = session[s].amount
  BY DEF SessionsKept, Opened
<1>2. c \in Conversation
  BY <1>1, SessionType DEF Opened, Created
<1>3. Exists(c) /\ session[s].amount = calculateMatchFee(initialRent[c])
  BY <1>1 DEF FeeInv, AmountInv
<1>4. initialRent'[c] = initialRent[c]
  BY <1>2, <1>3
<1> QED
  BY <1>1, <1>3, <1>4 DEF Exists, calculateMatchFee

LEMMA CheckoutFee ==
  ASSUME TypeOK, FeeInv, NEW c \in Conversation, NEW s \in Session,
         createCheckoutSession(c, s)
  PROVE  AmountInv' /\ FeeLocked'
<1> DEFINE fee == calculateMatchFee(initialRent[c])
<1>1. /\ session'[s].conversation = c /\ session'[s].amount = fee
      /\ \A t \in Session \ {s} : session'[t] = session[t]
      /\ UNCHANGED <<rent, initialRent>>
  BY DEF TypeOK, createCheckoutSession, conversations
<1>2. Exists(c) /\ rent # NoRent
  BY DEF createCheckoutSession, FeeInv, GoneInv
<1>3. \A t \in Session \ {s} :
        Opened(t) /\ session[t].conversation = c => session[t].amount = fee
  BY <1>2 DEF FeeInv, AmountInv
<1> HIDE DEF fee
<1>4. FeeLocked'
  BY <1>1, <1>3 DEF FeeInv, FeeLocked, Opened
<1>5. AmountInv'
  <2> SUFFICES ASSUME NEW t \in Session, Opened(t)'
               PROVE  /\ Exists(session[t].conversation)'
                      /\ session'[t].amount
                           = calculateMatchFee(initialRent[session[t].conversation])'
    BY DEF AmountInv
  <2>1. CASE t = s
    BY <1>1, <1>2, <2>1 DEF fee, Exists, calculateMatchFee
  <2>2. CASE t # s
    <3>1. Opened(t) /\ session'[t] = session[t]
      BY <1>1, <2>2 DEF Opened
    <3>2. /\ Exists(session[t].conversation)
          /\ session[t].amount = calculateMatchFee(initialRent[session[t].conversation])
      BY <1>2, <3>1 DEF FeeInv, AmountInv
    <3> QED
      BY <1>1, <3>1, <3>2 DEF Exists, calculateMatchFee
  <2> QED
    BY <2>1, <2>2
<1> QED
  BY <1>4, <1>5

LEMMA FeeStep == TypeOK /\ FeeInv /\ [Next]_vars => FeeInv'
<1> SUFFICES ASSUME TypeOK, FeeInv, [Next]_vars PROVE FeeInv'
  OBVIOUS
<1>1. GoneInv' /\ SessionsKept
  BY GoneStep, SessionsStep DEF FeeInv
<1>2. ASSUME NEW c \in Conversation, NEW s \in Session, createCheckoutSession(c, s)
      PROVE  FeeInv'
  BY <1>1, <1>2, CheckoutFee DEF FeeInv
<1>3. CASE /\ \A s \in Session : Opened(s)' => Opened(s)
           /\ rent' # NoRent => rent # NoRent
           /\ \A c \in Conversation : Exists(c) => initialRent'[c] = initialRent[c]
  BY <1>1, <1>3, FeeLockedFrame, AmountFrame DEF FeeInv
<1>4. CASE DeleteListing
  <2>1. \A s \in Session : Opened(s)' => Opened(s)
    BY <1>4 DEF DeleteListing, stripe, Opened
  <2>2. AmountInv'
    BY <1>4 DEF DeleteListing, AmountInv
  <2> QED
    BY <1>1, <2>1, <2>2, FeeLockedFrame DEF FeeInv
<1>5. ASSUME NEW c \in Conversation, InsertConversation(c)
      PROVE  FeeInv'
  <2>1. \A d \in Conversation : Exists(d) => initialRent'[d] = initialRent[d]
    BY <1>5 DEF TypeOK, InsertConversation, KeepOrSet
  <2>2. UNCHANGED <<rent, session>>
    BY <1>5 DEF InsertConversation, stripe
  <2> QED
    BY <1>3, <2>1, <2>2 DEF Opened
<1>6. ASSUME NEW c \in Conversation, KeyLapses(c)
      PROVE  FeeInv'
  <2>1. \A s \in Session : Opened(s)' => Opened(s)
    <3> SUFFICES ASSUME NEW s \in Session, session[s].state = "none"
                 PROVE  session'[s].state = "none"
      BY DEF Opened
    <3>1. session[s] = NotCreated
      BY DEF TypeOK, Created
    <3>2. session'[s] = session[s]
          \/ session'[s] = [session[s] EXCEPT !.state = session[s].state]
      BY <1>6 DEF TypeOK, KeyLapses
    <3> QED
      BY <3>1, <3>2 DEF NotCreated
  <2>2. UNCHANGED <<rent, initialRent>>
    BY <1>6 DEF KeyLapses, conversations
  <2> QED
    BY <1>3, <2>1, <2>2
<1>7. ASSUME NEW s \in Session, Pay(s)
      PROVE  FeeInv'
  <2>1. \A t \in Session : Opened(t)' => Opened(t)
    BY <1>7 DEF TypeOK, Pay, Opened
  <2>2. UNCHANGED <<rent, initialRent>>
    BY <1>7 DEF Pay, conversations
  <2> QED
    BY <1>3, <2>1, <2>2
<1>8. ASSUME NEW cents \in Rent, EditRent(cents)
      PROVE  FeeInv'
  BY <1>3, <1>8 DEF EditRent, stripe, Opened
<1>9. CASE UNCHANGED <<rent, initialRent, session>>
  BY <1>3, <1>9 DEF Opened
<1> QED
  BY <1>2, <1>4, <1>5, <1>6, <1>7, <1>8, <1>9
     DEF Next, ReadRent, Redeliver, VisitSuccessPage, PostConfirm, DeliverEvent, CallStep,
         SelectConversation, ConversationGone, NewlyConfirm, AlreadyConfirmed,
         PublishMatchConfirmed, Return, CallFails, PublishFails, WebStops,
         conversations, stripe, vars

(***************************************************************************)
(* Every checkout of a conversation asks for the fee of the rent it started*)
(* with, whatever the listing's rent becomes and however often the renter  *)
(* opens it again (README.md:218-220; main.go:786-795, actions.ts:297-298).*)
(***************************************************************************)
THEOREM FeeStaysLocked == Spec => []FeeLocked
<1>1. Init => FeeInv
  BY RentAssumption
     DEF Init, FeeInv, GoneInv, AmountInv, FeeLocked, Exists, Opened, NotCreated
<1>2. PaidInv => TypeOK
  BY DEF PaidInv
<1>3. FeeInv => FeeLocked
  BY DEF FeeInv
<1> QED
  BY <1>1, <1>2, <1>3, FeeStep, PaidInvHolds, PTL DEF Spec
=============================================================================
