---------------------------- MODULE MatchPayment ----------------------------
(***************************************************************************)
(* Paying for a match and confirming it.                                   *)
(*                                                                         *)
(* The lister of a listing confirms a match with one of its renters.  A    *)
(* server action of src/web opens a Stripe checkout; when it is paid, two  *)
(* paths confirm the conversation, each by calling handleConfirmConver-    *)
(* sation of the listings service: the success page the browser is sent to,*)
(* which may be opened often or never, and Stripe's webhook, which Stripe  *)
(* delivers until it is answered 200.  Either call may fail, the service   *)
(* may stop between its UPDATE and its publish, and the web server may stop*)
(* while a call is under way.  The endpoint is also open to the lister     *)
(* through the gateway, with any session id, and asks nobody whether it was*)
(* paid.                                                                   *)
(*                                                                         *)
(* One listing is modelled, with a conversation for each of its renters.   *)
(* Stripe is external: a session is paid only while it is open, it expires *)
(* when its idempotency key lapses (both after 24 hours), and a request    *)
(* that repeats a live key is answered with the session it stands for.     *)
(***************************************************************************)
EXTENDS Naturals

CONSTANTS
  Conversation,  \* one for each renter of the listing
  Session,       \* Stripe checkout sessions
  OtherId,       \* a stripe_session_id that is no session's
  PostedId,      \* bound: the ids the lister's direct calls name
  Rent,          \* monthly rents of the listing, in cents
  Visit,         \* slots for the lister's calls in flight
  Hook,          \* slots for webhook deliveries in flight
  NoRent,        \* no row to hold a rent
  NoSession,     \* no session
  MaxFaults      \* bound: failed calls, lost publishes, stops, redeliveries

ASSUME RentAssumption == Rent \subseteq Nat /\ NoRent \notin Rent
ASSUME SessionAssumption ==
  OtherId \notin Session /\ NoSession \notin Session \cup {OtherId}
ASSUME PostedAssumption == PostedId \subseteq Session \cup {OtherId}
ASSUME SlotAssumption == Visit \cap Hook = {}
ASSUME FaultsAssumption == MaxFaults \in Nat

VARIABLES
  rent,         \* listings.rent_cents, NoRent once the listing is deleted
  opening,      \* the rent a create request of each renter has read
  initialRent,  \* conversations.initial_rent_cents, NoRent without the row
  confirmedBy,  \* conversations.stripe_session_id once confirmed_at is set
  session,      \* Stripe's checkout sessions
  key,          \* the session a live idempotency key stands for
  events,       \* sessions whose webhook event Stripe still delivers
  call,         \* where each confirmation under way stands
  announced,    \* notifications.match_confirmed published, per conversation
  captured,     \* sessions payment_completed was captured for, per conversation
  missed,       \* history: conversations a webhook was answered 200 for
                \* although its confirmation failed
  unverified,   \* history: conversations a direct call confirmed
  faults        \* faults so far, up to MaxFaults

conversations == <<rent, opening, initialRent>>
stripe == <<session, key>>
vars == <<rent, opening, initialRent, confirmedBy, session, key, events,
          call, announced, captured, missed, unverified, faults>>

SessionId == Session \cup {OtherId}
Call == Visit \cup Hook
Exists(c) == initialRent[c] # NoRent

NotCreated == [state |-> "none"]
Opened(s) == session[s].state # "none"
Idle == [pc |-> "idle"]

Init ==
  /\ rent \in Rent
  /\ opening = [c \in Conversation |-> NoRent]
  /\ initialRent = [c \in Conversation |-> NoRent]
  /\ confirmedBy = [c \in Conversation |-> NoSession]
  /\ session = [s \in Session |-> NotCreated]
  /\ key = [c \in Conversation |-> NoSession]
  /\ events = {}
  /\ call = [k \in Call |-> Idle]
  /\ announced = [c \in Conversation |-> 0]
  /\ captured = [c \in Conversation |-> {}]
  /\ missed = {}
  /\ unverified = {}
  /\ faults = 0

Fault == faults < MaxFaults /\ faults' = faults + 1

-----------------------------------------------------------------------------
(* The listing and its conversations.                                      *)

\* handleUpdate changes rent_cents.
EditRent(cents) ==
  /\ rent # NoRent
  /\ cents # rent
  /\ rent' = cents
  /\ UNCHANGED <<opening, initialRent, confirmedBy, stripe, events, call,
                 announced, captured, missed, unverified, faults>>

\* handleCreateConversation: the SELECT of the listing's rent (404 without it).
ReadRent(c) ==
  /\ opening[c] = NoRent
  /\ rent # NoRent
  /\ opening' = [opening EXCEPT ![c] = rent]
  /\ UNCHANGED <<rent, initialRent, confirmedBy, stripe, events, call,
                 announced, captured, missed, unverified, faults>>

\* Mutant of KeepOrSet: ON CONFLICT DO UPDATE writes the new rent.
OverwriteRent(c) == opening[c]
\* ON CONFLICT DO UPDATE assigns listing_id only: the first rent stays.
KeepOrSet(c) == IF Exists(c) THEN initialRent[c] ELSE opening[c]

\* ... and the INSERT, which the foreign key refuses without the listing.
InsertConversation(c) ==
  /\ opening[c] # NoRent
  /\ initialRent' = IF rent = NoRent THEN initialRent
                    ELSE [initialRent EXCEPT ![c] = KeepOrSet(c)]
  /\ opening' = [opening EXCEPT ![c] = NoRent]
  /\ UNCHANGED <<rent, confirmedBy, stripe, events, call, announced, captured,
                 missed, unverified, faults>>

\* handleDelete: the cascade takes the conversations along.
DeleteListing ==
  /\ rent # NoRent
  /\ rent' = NoRent
  /\ initialRent' = [c \in Conversation |-> NoRent]
  /\ confirmedBy' = [c \in Conversation |-> NoSession]
  /\ UNCHANGED <<opening, stripe, events, call, announced, captured, missed,
                 unverified, faults>>

-----------------------------------------------------------------------------
(* Checkout.                                                               *)

Fees == {2900, 4900, 7900}
calculateMatchFee(cents) ==
  CASE cents < 100000 -> 2900
    [] cents >= 100000 /\ cents < 200000 -> 4900
    [] OTHER -> 7900

(***************************************************************************)
(* createCheckoutSession with a key that has lapsed or was never used; the *)
(* same call while the key lives sends the browser to the session there is.*)
(* It is called from a thread page that was loaded while confirmed_at was  *)
(* unset.  Such a page may stay open, and nothing asks again.              *)
(***************************************************************************)
createCheckoutSession(c, s) ==
  /\ Exists(c)
  /\ key[c] = NoSession
  /\ session[s] = NotCreated
  /\ session' = [session EXCEPT ![s] =
                   [state |-> "open", conversation |-> c,
                    amount |-> calculateMatchFee(initialRent[c])]]
  /\ key' = [key EXCEPT ![c] = s]
  /\ UNCHANGED <<conversations, confirmedBy, events, call, announced, captured,
                 missed, unverified, faults>>

\* Stripe: the customer pays an open session, and the event is to be delivered.
Pay(s) ==
  /\ session[s].state = "open"
  /\ session' = [session EXCEPT ![s].state = "paid"]
  /\ events' = events \cup {s}
  /\ UNCHANGED <<conversations, confirmedBy, key, call, announced, captured,
                 missed, unverified, faults>>

\* Stripe: 24 hours later the key is free again; a session not paid is over.
KeyLapses(c) ==
  /\ key[c] # NoSession
  /\ session' = [session EXCEPT ![key[c]].state = IF @ = "open" THEN "expired" ELSE @]
  /\ key' = [key EXCEPT ![c] = NoSession]
  /\ UNCHANGED <<conversations, confirmedBy, events, call, announced, captured,
                 missed, unverified, faults>>

-----------------------------------------------------------------------------
(* The two callers, up to their call of the confirm endpoint.              *)

\* "verified" tells the callers that looked at the payment from the one that
\* does not; "heard" whether the caller still waits for the answer.
Confirming(c, s, verified) ==
  [pc |-> "select", conversation |-> c, session |-> s, verified |-> verified,
   heard |-> TRUE]

\* Mutant of VerifiedFor: payment_status is not looked at.
VerifiedUnpaid(c, s) == Opened(s) /\ session[s].conversation = c
\* verifyAndConfirmMatch: the session is paid, and it is this conversation's.
VerifiedFor(c, s) ==
  /\ session[s].state = "paid"
  /\ session[s].conversation = c

(***************************************************************************)
(* A visit of the success page for a conversation with a session in its    *)
(* URL.  One that does not verify is shown an error and changes nothing.   *)
(***************************************************************************)
VisitSuccessPage(v, c, s) ==
  /\ call[v] = Idle
  /\ VerifiedFor(c, s)
  /\ call' = [call EXCEPT ![v] = Confirming(c, s, TRUE)]
  /\ UNCHANGED <<conversations, confirmedBy, stripe, events, announced,
                 captured, missed, unverified, faults>>

(***************************************************************************)
(* The lister's own POST to the endpoint, with whatever session id (bound: *)
(* one of PostedId).                                                       *)
(***************************************************************************)
PostConfirm(v, c, id) ==
  /\ call[v] = Idle
  /\ call' = [call EXCEPT ![v] = Confirming(c, id, FALSE)]
  /\ UNCHANGED <<conversations, confirmedBy, stripe, events, announced,
                 captured, missed, unverified, faults>>

(***************************************************************************)
(* The webhook's POST handler; Stripe delivers the event until a delivery  *)
(* of it is answered, and may have several under way.                      *)
(***************************************************************************)
DeliverEvent(h, s) ==
  /\ call[h] = Idle
  /\ s \in events
  /\ call' = [call EXCEPT ![h] = Confirming(session[s].conversation, s, TRUE)]
  /\ UNCHANGED <<conversations, confirmedBy, stripe, events, announced,
                 captured, missed, unverified, faults>>

(***************************************************************************)
(* The call is over for its caller.  The webhook answers 200 in any case,  *)
(* after it captured payment_completed if its own call confirmed the match.*)
(* The success page shows "Match confirmed!" in any case.                  *)
(***************************************************************************)
AnswersStripe(k) == k \in Hook /\ call[k].heard
Acknowledge(k) ==
  events' = IF AnswersStripe(k) THEN events \ {call[k].session} ELSE events

-----------------------------------------------------------------------------
(* handleConfirmConversation, called by k.                                 *)

Goto(k, pc) == call' = [call EXCEPT ![k].pc = pc]

SelectConversation(k) ==
  /\ call[k].pc = "select"
  /\ Exists(call[k].conversation)
  /\ Goto(k, "update")
  /\ UNCHANGED <<conversations, confirmedBy, stripe, events, announced,
                 captured, missed, unverified, faults>>

\* 404: the conversation went with its listing.
ConversationGone(k) ==
  /\ call[k].pc = "select"
  /\ ~Exists(call[k].conversation)
  /\ Acknowledge(k)
  /\ call' = [call EXCEPT ![k] = Idle]
  /\ UNCHANGED <<conversations, confirmedBy, stripe, announced, captured,
                 missed, unverified, faults>>

\* Mutant of Unconfirmed: WHERE id = $1 only.
UnconfirmedOrNot(c) == Exists(c)
\* The rows the UPDATE matches: WHERE id = $1 AND confirmed_at IS NULL.
Unconfirmed(c) == Exists(c) /\ confirmedBy[c] = NoSession

NewlyConfirm(k) ==
  LET c == call[k].conversation IN
  /\ call[k].pc = "update"
  /\ Unconfirmed(c)
  /\ confirmedBy' = [confirmedBy EXCEPT ![c] = call[k].session]
  /\ unverified' = IF call[k].verified THEN unverified ELSE unverified \cup {c}
  /\ Goto(k, "publish")
  /\ UNCHANGED <<conversations, stripe, events, announced, captured, missed,
                 faults>>

\* No row: already confirmed, or deleted since the SELECT; answered 200.
AlreadyConfirmed(k) ==
  /\ call[k].pc = "update"
  /\ ~Unconfirmed(call[k].conversation)
  /\ Goto(k, "no-op")
  /\ UNCHANGED <<conversations, confirmedBy, stripe, events, announced,
                 captured, missed, unverified, faults>>

PublishMatchConfirmed(k) ==
  /\ call[k].pc = "publish"
  /\ announced' = [announced EXCEPT ![call[k].conversation] = @ + 1]
  /\ Goto(k, "newly")
  /\ UNCHANGED <<conversations, confirmedBy, stripe, events, captured, missed,
                 unverified, faults>>

\* Mutant of Newly: the webhook does not look at newly_confirmed.
AnyAnswer(k) == call[k].pc \in {"newly", "no-op"}
Newly(k) == call[k].pc = "newly"

\* The answer 200 reaches the caller, if the caller still is there.
Return(k) ==
  /\ call[k].pc \in {"newly", "no-op"}
  /\ captured' = IF AnswersStripe(k) /\ Newly(k)
                 THEN [captured EXCEPT ![call[k].conversation] = @ \cup {call[k].session}]
                 ELSE captured
  /\ Acknowledge(k)
  /\ call' = [call EXCEPT ![k] = Idle]
  /\ UNCHANGED <<conversations, confirmedBy, stripe, announced, missed,
                 unverified, faults>>

-----------------------------------------------------------------------------
(* What goes wrong.                                                        *)

(***************************************************************************)
(* The gateway, the listings service or the database fails at any point of *)
(* the call.  The webhook logs it and answers 200.                         *)
(***************************************************************************)
CallFails(k) ==
  /\ call[k] # Idle
  /\ Fault
  /\ Acknowledge(k)
  /\ missed' = IF AnswersStripe(k) THEN missed \cup {call[k].conversation}
               ELSE missed
  /\ call' = [call EXCEPT ![k] = Idle]
  /\ UNCHANGED <<conversations, confirmedBy, stripe, announced, captured,
                 unverified>>

\* publishNotification fails, which is logged, and the handler goes on.
PublishFails(k) ==
  /\ call[k].pc = "publish"
  /\ Fault
  /\ Goto(k, "newly")
  /\ UNCHANGED <<conversations, confirmedBy, stripe, events, announced,
                 captured, missed, unverified>>

\* Mutant of WebStops: the webhook answers before it confirms.
StopsAfterAnswer(k) ==
  /\ call[k] # Idle
  /\ call[k].heard
  /\ Fault
  /\ call' = [call EXCEPT ![k] = Idle]
  /\ Acknowledge(k)
  /\ UNCHANGED <<conversations, confirmedBy, stripe, announced, captured,
                 missed, unverified>>
\* The web server stops: nobody hears the answer, and Stripe gets none.
WebStops(k) ==
  /\ call[k] # Idle
  /\ call[k].verified /\ call[k].heard
  /\ Fault
  /\ call' = [call EXCEPT ![k].heard = FALSE]
  /\ UNCHANGED <<conversations, confirmedBy, stripe, events, announced,
                 captured, missed, unverified>>

\* Stripe delivers an event again that was answered.
Redeliver(s) ==
  /\ session[s].state = "paid"
  /\ s \notin events
  /\ Fault
  /\ events' = events \cup {s}
  /\ UNCHANGED <<conversations, confirmedBy, stripe, call, announced, captured,
                 missed, unverified>>

-----------------------------------------------------------------------------

CallStep(k) ==
  \/ SelectConversation(k) \/ ConversationGone(k)
  \/ NewlyConfirm(k) \/ AlreadyConfirmed(k)
  \/ PublishMatchConfirmed(k) \/ Return(k)

Next ==
  \/ \E cents \in Rent : EditRent(cents)
  \/ \E c \in Conversation :
       \/ ReadRent(c) \/ InsertConversation(c)
       \/ KeyLapses(c)
       \/ \E s \in Session : createCheckoutSession(c, s)
  \/ DeleteListing
  \/ \E s \in Session : Pay(s) \/ Redeliver(s)
  \/ \E v \in Visit, c \in Conversation :
       \/ \E s \in Session : VisitSuccessPage(v, c, s)
       \/ \E id \in PostedId : PostConfirm(v, c, id)
  \/ \E h \in Hook, s \in Session : DeliverEvent(h, s)
  \/ \E k \in Call : CallStep(k) \/ CallFails(k) \/ PublishFails(k) \/ WebStops(k)

(***************************************************************************)
(* A call under way runs on, and Stripe delivers each event it has no      *)
(* answer for.  Nobody has to pay, and nobody has to open the success page.*)
(***************************************************************************)
Fairness ==
  /\ \A k \in Call : WF_vars(CallStep(k))
  /\ \A s \in Session : SF_vars(\E h \in Hook : DeliverEvent(h, s))

Spec == Init /\ [][Next]_vars
FairSpec == Spec /\ Fairness

-----------------------------------------------------------------------------
(* What lister and renter are promised.                                    *)

Created ==
  [state: {"open", "paid", "expired"}, conversation: Conversation, amount: Fees]
UnderWay ==
  [pc: {"select", "update", "publish", "newly", "no-op"},
   conversation: Conversation, session: SessionId, verified: BOOLEAN,
   heard: BOOLEAN]

TypeOK ==
  /\ rent \in Rent \cup {NoRent}
  /\ opening \in [Conversation -> Rent \cup {NoRent}]
  /\ initialRent \in [Conversation -> Rent \cup {NoRent}]
  /\ confirmedBy \in [Conversation -> SessionId \cup {NoSession}]
  /\ session \in [Session -> {NotCreated} \cup Created]
  /\ key \in [Conversation -> Session \cup {NoSession}]
  /\ events \in SUBSET Session
  /\ call \in [Call -> {Idle} \cup UnderWay]
  /\ announced \in [Conversation -> Nat]
  /\ captured \in [Conversation -> SUBSET SessionId]
  /\ missed \in SUBSET Conversation
  /\ unverified \in SUBSET Conversation
  /\ faults \in Nat

(***************************************************************************)
(* However often success page and webhook confirm, fail and are repeated,  *)
(* renter and lister are told once, of a conversation that is confirmed as *)
(* long as it is there.  (The comment "Idempotent", main.go:1315-1317.)    *)
(***************************************************************************)
AnnouncedOnce ==
  \A c \in Conversation :
    announced[c] # 0 => announced[c] = 1
                        /\ (Exists(c) => confirmedBy[c] # NoSession)

(***************************************************************************)
(* A confirmed match was paid for, and the session it records is one of its*)
(* own, unless the call that confirmed it came from the lister directly:   *)
(* handleConfirmConversation itself looks at no payment.                   *)
(* (verifyAndConfirmMatch actions.ts:333-342, route.ts:25-29,              *)
(* main.go:1302-1326.)                                                     *)
(***************************************************************************)
ConfirmedIsPaid ==
  \A c \in Conversation :
    confirmedBy[c] # NoSession =>
      \/ c \in unverified
      \/ /\ confirmedBy[c] \in Session
         /\ session[confirmedBy[c]].state = "paid"
         /\ session[confirmedBy[c]].conversation = c

(***************************************************************************)
(* A repeated or late call, of the same session or another, does not change*)
(* which session a match was confirmed with.  (main.go:1319-1326.)         *)
(***************************************************************************)
ConfirmationStays ==
  [][\A c \in Conversation :
       confirmedBy[c] # NoSession
         => confirmedBy'[c] = confirmedBy[c] \/ rent' = NoRent]_vars

(***************************************************************************)
(* README.md:218-220, "Payment fee locked to initial rent": whatever the   *)
(* rent became, and however often the renter opened the conversation again,*)
(* each checkout of a conversation asks for the same fee.                  *)
(***************************************************************************)
FeeLocked ==
  \A s, t \in Session :
    Opened(s) /\ Opened(t)
      /\ session[s].conversation = session[t].conversation
        => session[s].amount = session[t].amount

(***************************************************************************)
(* payment_completed is captured at most once for a match, of the session  *)
(* the match was confirmed with.  (The comment of route.ts:30-34.)         *)
(***************************************************************************)
CapturedIsRecorded ==
  \A c \in Conversation :
    /\ \A s, t \in captured[c] : s = t
    /\ Exists(c) => captured[c] \subseteq {confirmedBy[c]}

(***************************************************************************)
(* A match that was paid is confirmed although nobody opens the success    *)
(* page and although the web server stops during deliveries, unless a      *)
(* webhook was answered whose confirmation had failed, or the listing is   *)
(* deleted.  (README.md:130, "Webhook route as backup confirmation path".) *)
(***************************************************************************)
PaidIsConfirmed ==
  \A s \in Session, c \in Conversation :
    session[s].state = "paid" /\ session[s].conversation = c
      ~> confirmedBy[c] # NoSession \/ c \in missed \/ rent = NoRent

(***************************************************************************)
(* README.md:141: "Subly charges the lister a one-time match confirmation  *)
(* fee": a match that was confirmed by a payment is not paid again.        *)
(***************************************************************************)
NotChargedAgain ==
  [][\A s \in Session :
       session'[s] # session[s] /\ session'[s].state = "paid"
         => \/ confirmedBy[session[s].conversation] = NoSession
            \/ session[s].conversation \in unverified]_vars
=============================================================================
