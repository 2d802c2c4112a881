--------------------------- MODULE Notifications ----------------------------
(***************************************************************************)
(* The notification mails of the auth service                              *)
(* (src/services/auth/src/index.js): four queues, one consumer each, that  *)
(* look up addresses, call Resend once per recipient and then acknowledge  *)
(* the message, or dead-letter it when anything throws.                    *)
(*                                                                         *)
(* The consumers are not limited to one message at a time, so the handlers *)
(* of all delivered messages interleave.  The process may stop at any      *)
(* point and is started again; the broker then delivers what was not       *)
(* acknowledged once more.  connectMQ is called once, at the start: when   *)
(* it fails, or when the broker closes the connection later, the process   *)
(* goes on without consumers ("deaf").                                     *)
(*                                                                         *)
(* Resend's SDK tells most failures by a value, { error }, that no caller  *)
(* looks at: such a call is one that returned, as far as the code can tell.*)
(* A call may also throw.                                                  *)
(***************************************************************************)
EXTENDS Naturals, Sequences, FiniteSets

CONSTANTS
  Notification,  \* what the listings service publishes
  Recipient,     \* rows of users
  ToWhom,        \* whom each is sent to, in the order of the calls
  MaxStops       \* bound: stops of the process and lost connections

ASSUME ToWhomAssumption == ToWhom \in [Notification -> Seq(Recipient)]
ASSUME MaxStopsAssumption == MaxStops \in Nat

VARIABLES
  configured,  \* RESEND_API_KEY is set
  process,     \* whether the auth service has its consumers
  held,        \* where the broker has each message
  handler,     \* the step its handler is at
  left,        \* those of ToWhom the handler has still to write to, by their places
  tried,       \* how often Resend was called for each recipient
  requeued,    \* ghost: how often the broker took the message back
  stops

broker == <<held, requeued>>
mailVars == <<configured, process, broker, handler, left, tried, stops>>

Settled == {"acked", "dead"}
Running(m) == handler[m] # "idle"
Recipients(m) == {ToWhom[m][k] : k \in DOMAIN ToWhom[m]}
Places(m, recipients) == {k \in DOMAIN ToWhom[m] : ToWhom[m][k] \in recipients}

MailInit ==
  /\ configured \in BOOLEAN
  /\ process \in {"consuming", "deaf"}
  /\ held = [m \in Notification |-> "none"]
  /\ handler = [m \in Notification |-> "idle"]
  /\ left = [m \in Notification |-> {}]
  /\ tried = [m \in Notification |-> [r \in Recipient |-> 0]]
  /\ requeued = [m \in Notification |-> 0]
  /\ stops = 0

-----------------------------------------------------------------------------
(* The broker.                                                             *)

\* publishNotification of the listings service: a durable queue, a
\* persistent message.
Publish(m) ==
  /\ held[m] = "none"
  /\ held' = [held EXCEPT ![m] = "queued"]
  /\ UNCHANGED <<configured, process, requeued, handler, left, tried, stops>>

\* Mutant of Deliver: consumed with noAck.
DeliverNoAck(m) ==
  /\ process = "consuming"
  /\ held[m] = "queued"
  /\ held' = [held EXCEPT ![m] = "acked"]
  /\ handler' = [handler EXCEPT ![m] = "lookup"]
  /\ UNCHANGED <<configured, process, requeued, left, tried, stops>>
Deliver(m) ==
  /\ process = "consuming"
  /\ held[m] = "queued"
  /\ held' = [held EXCEPT ![m] = "delivered"]
  /\ handler' = [handler EXCEPT ![m] = "lookup"]
  /\ UNCHANGED <<configured, process, requeued, left, tried, stops>>

TakeBack ==
  /\ held' = [m \in Notification |->
                 IF held[m] = "delivered" THEN "queued" ELSE held[m]]
  /\ requeued' = [m \in Notification |->
                 IF held[m] = "delivered" THEN requeued[m] + 1 ELSE requeued[m]]

\* The process ends and is started again; connectMQ succeeds or does not.
Restart ==
  /\ process' \in {"consuming", "deaf"}
  /\ TakeBack
  /\ handler' = [m \in Notification |-> "idle"]
  /\ left' = [m \in Notification |-> {}]
  /\ UNCHANGED <<configured, tried>>

Stop ==
  /\ stops < MaxStops
  /\ stops' = stops + 1
  /\ Restart

\* The broker closes the connection; the handlers that run go on.
LoseConnection ==
  /\ stops < MaxStops
  /\ stops' = stops + 1
  /\ process = "consuming"
  /\ process' = "deaf"
  /\ TakeBack
  /\ UNCHANGED <<configured, handler, left, tried>>

-----------------------------------------------------------------------------
(* A handler.                                                              *)

\* Mutant of Lookup: a recipient without an address ends the handler.
LookupReturns(m) ==
  /\ handler[m] = "lookup"
  /\ \E known \in SUBSET Recipients(m) :
       /\ left' = [left EXCEPT ![m] =
                    IF configured THEN Places(m, known) ELSE {}]
       /\ handler' = [handler EXCEPT ![m] =
                        IF known = {} THEN "idle" ELSE "mail"]
  /\ UNCHANGED <<configured, process, broker, tried, stops>>
\* sendMatchConfirmedEmail and the others up to their first mail: without a
\* key nothing is sent, without an address nobody is written to.
Lookup(m) ==
  /\ handler[m] = "lookup"
  /\ \E known \in SUBSET Recipients(m) :
       left' = [left EXCEPT ![m] = IF configured THEN Places(m, known) ELSE {}]
  /\ handler' = [handler EXCEPT ![m] = "mail"]
  /\ UNCHANGED <<configured, process, broker, tried, stops>>

\* The next call of Resend, for the k-th of ToWhom.
Call(m, k) ==
  /\ handler[m] = "mail"
  /\ k \in left[m] /\ \A j \in left[m] : k <= j
  /\ tried' = [tried EXCEPT ![m][ToWhom[m][k]] = @ + 1]

\* One await of resend.emails.send that returns.
Mail(m) ==
  /\ \E k \in DOMAIN ToWhom[m] :
       Call(m, k) /\ left' = [left EXCEPT ![m] = @ \ {k}]
  /\ UNCHANGED <<configured, process, broker, handler, stops>>

\* A query or the call of Resend throws: the catch block is next.
Throw(m) ==
  /\ \/ /\ handler[m] = "lookup"
        /\ UNCHANGED tried
     \/ \E k \in DOMAIN ToWhom[m] : Call(m, k)
  /\ handler' = [handler EXCEPT ![m] = "failed"]
  /\ UNCHANGED <<configured, process, broker, left, stops>>

Finish(m, where) ==
  /\ process = "consuming"
  /\ held' = [held EXCEPT ![m] = where]
  /\ handler' = [handler EXCEPT ![m] = "idle"]
  /\ left' = [left EXCEPT ![m] = {}]
  /\ UNCHANGED <<configured, process, requeued, tried, stops>>

\* ch.ack(msg), after the last mail.
Done(m) == handler[m] = "mail" /\ left[m] = {}
Ack(m) == Done(m) /\ Finish(m, "acked")

\* Mutant of Nack: back to the queue instead of the dead letters.
NackRequeue(m) == handler[m] = "failed" /\ Finish(m, "queued")
\* ch.nack(msg, false, false): to dead.notifications.
Nack(m) == handler[m] = "failed" /\ Finish(m, "dead")

\* On a closed channel ack and nack throw, the rejection is not handled and
\* Node ends the process.
SettleOnClosedChannel(m) ==
  /\ process = "deaf"
  /\ handler[m] = "failed" \/ Done(m)
  /\ Restart
  /\ UNCHANGED stops

-----------------------------------------------------------------------------
Handle(m) ==
  Lookup(m) \/ Mail(m) \/ Throw(m) \/ Ack(m) \/ Nack(m) \/ SettleOnClosedChannel(m)

MailNext ==
  \/ Stop \/ LoseConnection
  \/ \E m \in Notification : Publish(m) \/ Deliver(m) \/ Handle(m)

MailSpec == MailInit /\ [][MailNext]_mailVars

\* The broker delivers to a consumer, and an async function goes on.
MailFairness == \A m \in Notification : WF_mailVars(Deliver(m)) /\ WF_mailVars(Handle(m))

FairMailSpec == MailSpec /\ MailFairness

-----------------------------------------------------------------------------
(* Properties.                                                             *)

\* Every variable keeps its range.
MailTypeOK ==
  /\ configured \in BOOLEAN
  /\ process \in {"consuming", "deaf"}
  /\ held \in [Notification -> {"none", "queued", "delivered"} \cup Settled]
  /\ handler \in [Notification -> {"idle", "lookup", "mail", "failed"}]
  /\ left \in [Notification -> SUBSET Nat]
  /\ \A m \in Notification : left[m] \subseteq DOMAIN ToWhom[m]
  /\ tried \in [Notification -> [Recipient -> Nat]]
  /\ requeued \in [Notification -> Nat]
  /\ stops \in Nat

(***************************************************************************)
(* A message leaves its queue for good only when its handler has gone      *)
(* through: while it is queued no handler answers for it, and while a      *)
(* handler of a live connection runs the broker still holds it, so a stop  *)
(* in between loses nothing (at-least-once).                               *)
(***************************************************************************)
HeldWhileHandled ==
  process = "consuming" =>
    \A m \in Notification : Running(m) <=> held[m] = "delivered"

(***************************************************************************)
(* A recipient is written to again about the same thing only after the     *)
(* broker took the message back: a handler that fails half-way dead-letters*)
(* the message and never repeats the mails it has sent (index.js:202-204). *)
(* Nothing consumes dead.notifications, so the mails that were left are    *)
(* never sent: a dead letter is not a retry.                               *)
(***************************************************************************)
Occurrences(m, r) == Cardinality(Places(m, {r}))
RepeatsOnlyAfterRequeue ==
  \A m \in Notification, r \in Recipient :
    tried[m][r] <= Occurrences(m, r) * (1 + requeued[m])

(***************************************************************************)
(* While the process has its consumers, each published message is          *)
(* acknowledged or dead-lettered in the end, whatever throws on the way.   *)
(***************************************************************************)
EachSettles ==
  <>[](process = "consuming") =>
    \A m \in Notification : (held[m] = "queued") ~> (held[m] \in Settled)
=============================================================================
