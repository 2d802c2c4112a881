# Subly, specified in TLA+

Subly is a marketplace for student subleases: a Next.js front end, a Go
gateway, an auth service in Node, a listings service in Go, matching and trust
services in Python, PostgreSQL, RabbitMQ, and Clerk, Stripe, OpenAI, Pinecone,
S3 and Resend behind them. This directory specifies the parts whose difficulty
is order: requests that are several statements long, queues that deliver twice
or not at all, calls to outside services between a read and a write, and
processes that stop between two steps. Line numbers refer to the repository's
files under `src/`; `PROJECT.json` maps each definition to its lines.

## The system

| component | state | operations | talks to |
| --- | --- | --- | --- |
| Gateway (`gateway/`) | token buckets per client, in memory | route, strip internal headers, authenticate by calling auth `/validate`, rate limit | auth, all services |
| Accounts (`services/auth`) | `users`: edu_verified, status, preference_*, deleted_at | verify-edu, validate, profile, DELETE /me, purge every 6 hours | Clerk; `users` is also read by listings and matching; pauses `listings` |
| Invites (`services/auth`) | `invite_requests`: status, tokens, redeemed_at | request, approve or reject (route and script), verify, redeem | publishes `notifications.invite_approved`; writes `users` |
| Notification mails (`services/auth`) | queues `notifications.*`, `dead.notifications` | one consumer per queue; mail, then acknowledge or dead-letter | Resend |
| Listings (`services/listings`) | `listings`: status, scam_score, content, available_to | create, PATCH, delete, hourly expiry | publishes `listing.scam_check`, `listings.new`, `notifications.listing_expired` |
| Trust (`services/trust`) | the queue `listing.scam_check` | read row, ask the model, write score and activate | `listings`, OpenAI |
| Matching (`services/matching`) | Pinecone vectors, `users.preference_embedding` | embed a listing, compute and cache a user's vector, matches, search | `listings`, `users`, OpenAI, Pinecone |
| Conversations (`services/listings`) | `conversations`: initial_rent, last_message_at, read marks, confirmed_at | create, list, unread count, confirm | publishes `notifications.match_confirmed` |
| Messages (`services/listings`) | `messages` | send, read a page, mark read | publishes `notifications.new_message` |
| Viewing proposals (`services/listings`) | `messages.viewing` | propose, accept, decline | publishes `notifications.new_message`, `.viewing_responded` |
| Match payment (`web`) | Stripe checkout sessions | checkout, success page, webhook | Stripe; confirms the conversation |
| Reviews, reports, saved, statistics (`services/listings`) | one table each | insert, list, delete, resolve | - |
| Thread page (`web`) | bubbles shown, disabled buttons, queue of calls | send, propose, answer, poll every few seconds | listings |
| Listing form and cards (`web`) | a copy of the row per tab, photos, a card's status | post, edit, upload, pause, lease, delete | listings, S3 |
| Pages and navigation (`web`) | the route under way, the view | middleware, guard, redirects, sign-up, onboarding | auth, listings, matching |

How they interact: the browser calls server actions, those call the gateway,
which asks auth for the identity and forwards the request. The services share
one database, and that is where they meet: four programs write
`listings.status`, two write `users`. RabbitMQ carries work from listings to
trust and matching, and mails to auth. Nothing but PostgreSQL orders two
requests, and most handlers are several statements without a transaction.

### What is hard here, and what correctness means

* **Listing and trust pipeline.** A PATCH reads the row, compares, writes and
  publishes, one statement each. The trust worker reads the row, waits seconds
  for a model, then writes. Correct means: no order strands a draft that a create
  or an edit made; the score of a row is that of its text, unless an edit
  overlapped the check or another edit; an answer that comes late undoes no pause,
  lease, expiry or deletion; drafts get published and overdue listings expire.
* **Viewing proposals.** Overlapping transactions of both parties, racing
  answers, rollbacks, and a deletion that cascades table by table. Correct means:
  one answerable proposal; one announced answer, the stored one; nothing announced
  that is rolled back; no request waits for ever (one circle of locks exists, with
  a deletion, and the database has to break it).
* **Match payment.** A payment is confirmed by the success page or the webhook,
  each of which may fail or be repeated. Correct means: what these two confirm is
  paid for, is recorded once and announced once, at the fee of the rent the
  conversation started with. (The endpoint behind them trusts its caller: see the
  findings.)
* **Accounts and invites.** Read-check-write handlers without transactions
  around soft deletion and purge; links meant to be used once, which two requests
  can both use. Correct means: a deleted account stays deleted, a verification was
  earned, a used-up link has verified somebody, a purge takes nobody else along.
* **Messages and the thread page.** One queue of calls for clicks, refreshes and
  polls; answers that come late; message times taken before the commit. Correct
  means: one sees what one has sent, nothing shown vanishes, no button stays
  disabled, and an open thread catches up as long as its conversation exists.
* **Notifications.** At-least-once delivery, two mails to one message. Correct
  means: the broker holds a message until its handler is done, a mail is repeated
  only after a redelivery, and each message is acknowledged or dead-lettered (which
  is its end: nothing consumes the dead letters).
* **Navigation.** Pages that redirect to each other on reads of their own that
  may fail, while another tab does the same. Correct means: every visit ends at a
  view, and it takes named failures or crossings to leave somebody at the gate who
  should be let in.
* **Matching.** Caches filled after an `await`, payloads built after the write.
  Correct means: a vector is stale only in the cases the properties name (a save
  that crosses a visit; overlapping, lost or unpublished edits).
* **Listing form and cards.** Copies of the row in several tabs. Correct means:
  what reaches the row is what a form showed; photos exist; no duplicate listing.
* **Gateway.** Buckets evicted and recreated under load. Correct means: eviction
  gives nobody more requests than the bucket would, and memory is given back.

`PROJECT.json` lists the hazards at their lines, with the properties that cover
them.

## The modules

### ListingTrust

The life of `listings.status`, `content`, `scam_score` and `available_to`.

| in the module | in the code |
| --- | --- |
| `Create`, `PublishScamCheck` | `handleCreate`: the INSERT, then `publishScamCheck` |
| `StartUpdate`; `ResetToDraft`, `PlainUpdate`, `UpdateNothing`; `PublishScamCheck` | `handleUpdate`: its SELECT, its UPDATE, its publish |
| `AbandonRequest` | the process stops, the request is cancelled, or a publish fails (logged, not retried) |
| `Delete` | `handleDelete` |
| `PauseForAccount` | the second statement of `DELETE /me` in auth |
| `DatePasses`, `Expire` | the calendar; `startExpirationWorker` |
| `ReadListing`, `SkipMissing`, `WriteScore`, `Acknowledge`, `CheckFails`, `WorkerRestart` | `consume_scam_queue` and `run_trust_checks`, split at each `await` |

`content` stands for the fields a PATCH compares, and a score is modelled by
the content it was computed of: that is all the properties tell apart. The
arithmetic of the score is left out, as is the validation of single fields.
A PATCH may name any status (`RowStatus`): `handleUpdate` writes what it is sent,
`draft` and `expired` included, and publishes no check for it; the application's
own pages send `active`, `paused` and `leased` only. `lost`, `parked` and `crossed`
are history variables that no guard reads: listings a check was lost of, listings
a PATCH made drafts by name, and listings edited under a check or an older edit,
whose score may be of an older text.

### Viewings, ViewingSlot, MCViewings

`Viewings` is one conversation with its propose and respond requests. A propose
request is the SELECT (`ReadConversation`), the advisory lock (`TakeLock`), the
UPDATE of pending proposals (`Supersede`), the INSERT (`Insert`), `Commit`, and
the publish (`Announce`), any of which may instead be a `Rollback` or a lost
publish. Uncommitted writes live in `superseding` and `pc`, and are seen by
nobody; rows a transaction has updated make the others wait (`RowLocked`).
Respond and confirm are single statements. A deletion is one too, but its cascade
locks the conversation's row first (`BeginDelete`) and then waits for the rows of
its messages (`FinishDelete`), so that it can meet a propose request in a circle
(`Deadlocked`). PostgreSQL breaks it by aborting one of the two (`Rollback`,
`AbortDelete`).

`ViewingSlot` is what the two parties are promised: one slot, taken by a
proposal, cleared by an answer. `ImplementsSlot` says that `Viewings`
implements it, with `slot` the pending proposal and `closed` the final states.

### MatchPayment

The conversations of one listing, their checkout sessions at Stripe, and the
confirmations under way, each called by a visit of the success page or by a
delivery of the webhook.

| in the module | in the code |
| --- | --- |
| `EditRent`, `DeleteListing` | `handleUpdate`, `handleDelete` with its cascade |
| `ReadRent`, `InsertConversation` | `handleCreateConversation`: the SELECT, then the upsert |
| `createCheckoutSession`, `calculateMatchFee` | the server action and the fee it asks for |
| `VisitSuccessPage` | `verifyAndConfirmMatch` |
| `PostConfirm` | the lister's own POST to `/confirm` through the gateway |
| `DeliverEvent`, `Return`, `Acknowledge` | the webhook's POST handler, up to and from its call |
| `SelectConversation`, `ConversationGone`, `NewlyConfirm`, `AlreadyConfirmed`, `PublishMatchConfirmed` | `handleConfirmConversation`, statement by statement |
| `CallFails`, `PublishFails` | a failure anywhere in the call; of the publish |
| `WebStops`, `Redeliver`, `Pay`, `KeyLapses` | external: the web server's process, Stripe |

Reading the conversation and creating the session are one step of
`createCheckoutSession`, because what it reads of the conversation, the initial
rent, never changes. `heard` says whether the caller of a call still is there,
`verified` whether it looked at the payment: the page and the webhook do,
`handleConfirmConversation` does not, and `unverified` (history) holds the
conversations a direct POST confirmed. `PostedId` bounds the ids such a POST names:
one of a session, or one of none.
A title that is edited while an idempotency key lives makes Stripe refuse the
repeated request; that refusal changes nothing and is left out.

### Accounts, MCAccounts

The rows of `users` by id, the invites by address, and the accounts at Clerk.
`verify-edu` is `ReadPrimaryEmail`, `CheckDeleted` and one of `UpdateRow`,
`InsertRow`, `UpsertClashes`; `redeem` is `ReadInvite`, one of `GrantToRow`,
`GrantNewRow`, `GrantClashes`, and `MarkRedeemed`: one action per statement, any
of which may fail (`RequestFails`). `SoftDelete` is `DELETE /me`, whose second
statement is `PauseForAccount` of `ListingTrust`. A purge is `SelectDue`, then
for each row `RemoveClerk` and `DeleteRow`, or `SkipUser`. `DaysPass` lets a
deleted row become due; `older` keeps it from doing so while a request is in
flight that began before the deletion, since no request lasts 30 days.
`MCAccounts` adds the symmetry.

### Thread

One conversation as one of its parties sees it. `log` is the conversation in the
order of `created_at`, which is the start of the transaction that inserts a row:
a row has a place in `log` before it is committed. `calls` is the queue of
server actions of the page, which the browser runs one at a time.

| in the module | in the code |
| --- | --- |
| `Open`, `Leave`, `Poll`, `User` | `ThreadPage`; `ThreadClient`'s timer and handlers up to their call |
| `Server` | the server actions and, behind them, `handleSendMessage`, `handleProposeViewing`, `handleRespondViewing`, `handleGetMessages` with its read mark |
| `CallFails`, `CallRejected` | an action that answers with an error value; one that throws |
| `Return` | what the handler does with the answer, its refresh included |
| `OtherBegins`, `OtherAnswers`, `Settle` | the other party; commit or rollback of a transaction |
| `Delete` | the listing or a party's account is deleted, and the conversation with it |

The transactions of a proposal are in `Viewings`; here each is its begin and its
commit, and a deletion waits for those that are open. A confirmation only takes
handlers away and is left out.

### Notifications, MCNotifications

The four consumers of `auth`. A handler is the lookup of the addresses, one call of
Resend after the other, and the acknowledgement or the dead-lettering, with any
number of messages handled at once. `Stop` is a stop of the process with its
restart, which may not reach the broker (`process = "deaf"`); `LoseConnection`
leaves it deaf until it stops, if only because a handler settles its message on the
closed channel (`SettleOnClosedChannel`). `ToWhom` says whom a queue's handler
writes to: a confirmed match is two mails. `held` is where the broker has the
message, `left` the places of `ToWhom` still to write to, `Call` the next call of
Resend. A mail that Resend refuses is a call that returned (finding below), one that
throws is not. A dead-lettered message is at its end: no program consumes
`dead.notifications`.

### Navigation

A visit of one person to a route: `Middleware`, then one step per `await` of the
page, until it shows a view or redirects. One action per page or group of pages
that do the same; `GateRefresh` is the gate's retry in the browser. The account
is what `auth` stores of the person; `Person` is what the person does: sign in
and out, follow a link, submit a form, ask for an invite, delete the account.

`OtherTab` is a second tab of the browser, or a visit the person left and the
server goes on with, as far as it changes what the first one reads: its dashboard
between its read of the account and its POST to verify-edu (`other`), its
redemption of the invite, and what it asks for, saves, deletes and signs in to.
One such dashboard at a time is a bound. A session that ends while a visit is under
way counts as a failure of that visit; one that ends between two visits is free.
`crossed` (history): an invite was redeemed between a dashboard's read and its POST.

### Matching

The renter's vector: `Submit` and `Save` are the onboarding form and
`POST /profile`, which clears the cache; a visit reads the row, calls OpenAI,
writes the vector back and queries, one action each. The listing's vector:
`ReadRow` and `CommitEdit` are the PATCH up to its UPDATE, `Publishing` the payload
it publishes after reading the row again, `Consumer` is the embedding consumer,
`Crash` and `Reject` its restart and its failures. What is embedded (`Content`) has
two parts: the fields a PATCH compares with what it read, and the details (the
university, rooms, amenities), which it does not compare: an edit of these alone is
not published. A vector is what it was made of. `crossed`, `overlapped`, `silent`
and `lost` are history variables.

### ListingEditor, MCListingEditor

Tabs with the form, each a copy of the row from when it was opened, and the
owner's card. `Type` and `ChoosePlace` are the two ways to an address, `PickPhotos`
and `Uploading` the upload one file after the other, `Submit`, `Serving` and
`SubmitFails` the post or PATCH and its answer, `ChangeStatus` the card's
buttons. `Score` and `Expire` change the row meanwhile; a handler of the
listings service is one step, its inside is `ListingTrust`. `fresh`, `gone`,
`crossed`, `bare`, `stale`, `heard` and `unheard` are history variables.
`MCListingEditor` adds the symmetry.

### Gateway, TokenBucket

`ArriveInternal`, `ArriveProtected`, `Validated` and `Refused` are
`authMiddleware`, `ArrivePublic` is `stripInternalHeaders`. `LookUp` is the part
of `allow` under the mutex, `TakeToken` and `WriteRateLimited` the part after it,
`EvictStale` the eviction, `Proxied` the answer of the upstream or 502. There is
no absolute time: a bucket has an age since its last use, and `Tick` ages and
refills all. The assumptions on the numbers are those of the defaults: a bucket
is full again before it can be evicted, and a 429 asks for more time than a
token takes. A request stands between the mutex and its token across one tick at
most; a tick is seconds, the code in between a few instructions. A behaviour is
the life of one process.

`TokenBucket` is what a client is promised: a bucket that is never evicted.
`ImplementsBucket` says that `Gateway` implements it, an evicted bucket counting
as full.

### The proof modules

`ListingTrustProofs`, `ViewingsProofs`, `MatchPaymentProofs`, `AccountsProofs`,
`ThreadProofs`, `ListingEditorProofs`, `ConsumersProofs` (of `Notifications` and
`Matching`, the consumers of the broker that write no listing) and
`RequestsProofs` (of `Navigation` and `Gateway`, the way of a request) hold the
theorems, see below. The last two extend two components each, which is why
`Notifications` and `Gateway` have their component in the names of `Init`, `Next`
and the like.

## What is checked

| run | bounds | what it shows |
| --- | --- | --- |
| `listing_trust` | 1 listing, 2 contents, any status, 2 handlers, 4 requests, 2 faults, fair | `ScoreIsCurrent`, `DraftAwaitsCheck`, `ScoringPublishesDrafts`, `OnlyOwnerReopens`, `DraftResolves`, `OverdueExpires` |
| `viewings` | 3 proposals (two of one party, one of the other), 2 responders, a deletion, fair | `AtMostOnePending`, `OneAnswerAnnounced`, `AnnouncedIsStored`, `ImplementsSlot`, `ProposalsFinish` |
| `payments` | 1 conversation, 2 rents on both sides of a fee's limit, 2 sessions, 1 visit or direct POST and 1 delivery at a time, 1 fault, fair | `AnnouncedOnce`, `ConfirmedIsPaid`, `CapturedIsRecorded`, `FeeLocked`, `PaidIsConfirmed` |
| `accounts` | 2 addresses (one .edu), 2 accounts at Clerk, 3 rows, 2 requests, 1 purge, 1 fault | `VerifiedIsEarned`, `RedeemedVerified`, `DeletionIsFinal` |
| `accounts_liveness` | 2 .edu addresses, 2 accounts, 3 rows, 1 request, 2 purges of one row each, 1 fault, fair | `PurgeSparesOthers`, `DeletedIsPurged` |
| `thread` | 2 messages, pages of 2, 1 handler beside the timer, 1 rejected call, a deletion, fair | `BusyIsWaited`, `StaysShown`, `ShowsOwn`, `CatchesUp` |
| `notifications` | a confirmed match (two mails) and a new message, 2 stops or lost connections, fair | `HeldWhileHandled`, `RepeatsOnlyAfterRequeue`, `EachSettles` |
| `navigation` | any account, any route, a second tab, 3 failed calls, fair | `GateIsDeserved`, `VisitSettles` |
| `matching` | 1 visit at a time, 2 saves, 2 edits of either part, 2 texts, 1 fault, 1 crash, fair | `StaleOnlyIfCrossed`, `VectorCatchesUp` |
| `listing_editor` | 2 tabs and the card, 2 places, 2 photos, a limit of 1, 2 inputs, 2 submissions, 1 fault, symmetry | `PhotosAreStored`, `RemovedStaysRemoved`, `CoordinatesFit`, `OneListingPerForm`, `UnscoredOnlyFromStaleCard` |
| `gateway` | 1 user, 1 address, 2 requests at a time, a token of 2 ticks, a burst of 2, eviction after 4 ticks, fair | `RetryIsAdmitted`, `ImplementsBucket`, `BucketsAreReclaimed` |
| `payments_twice` | 1 conversation, 1 rent, 2 sessions, no fault | finding 1 |

Each property of a passing run has a mutant in `PROJECT.json`: a plausible bug
in one definition, defined beside it, under which the property fails.

Why the bounds are enough to be interesting. Four listing requests give a create
and three edits, two of which overlap each other and the worker; two faults
allow a restart and then a lost check. Three proposals are the first number at
which a transaction supersedes a proposal while another waits for the lock and a
third was just answered. A visit and a delivery at a time are two confirmations
that race, two sessions and a rent that changes two checkouts of one match. Two
accounts at Clerk suffice for an address to change hands while a request of the
old owner is under way, a limit of one row for a purge to leave another for
later, and two purges to read the same row; three rows leave one to be made
anew after a purge. Two messages are one of each party, begun in one order
and committed in the other, and they fill a page; what a full page leaves out is left
to the theorems, which hold for any numbers. One message with two mails and one with one
suffice for two handlers to interleave and for a stop between two mails. Three
failed calls are one more than the gate needs, so that it is seen to hold with
two and to stay after three. A visit across two saves has one before and one
after its read; two edits are a pair that may publish in the other order,
and an unpublished one before or after a published one; `First`, the text a listing
begins with, is fixed because texts may be renamed. Two
tabs are one that has saved what the other does not know. Two requests of one
key are one that takes the last token while the other stands at it. Cases that
need two listings or two conversations (a session used for the wrong one) are
covered by the theorems, which hold for any number of them.

`CHECK_DEADLOCK FALSE` is set where requests or messages are bounded and users
may stop: a behaviour in which all requests are over is not a deadlock. That
no request waits for ever, in a circle or otherwise, is `ProposalsFinish`.
`navigation` and `gateway` check deadlock.

`TypeOK` states the range of every variable in each module. Where a module has
proofs it is proved as far as they need it; the runs spend their time on the
other properties.

Bounds are the constants whose names begin with `Max` (guards of the actions
that count; `MaxRows` is the guard `RoomForRows`: a request begins only while
there is a row left for it) and the sizes of the sets, each named in the `.cfg`.

### Fairness

`ListingTrust`: weak fairness of a handler that has started (Go runs it to its end),
of the trust worker (it reconnects for ever and consumes one message at a time) and
of expiry (a ticker). None for users, none for faults. `Viewings`: weak fairness of
the steps of a propose request that has started, one request at a time; a lock that
is released while nobody else takes it for ever is granted. Strong fairness of
`Insert`, because PostgreSQL wakes those that wait for a row in the order they came,
and one deletion that is aborted after the other must not overtake it for ever; weak
fairness of a cascade's end. A propose request whose conversation is gone is
answered with an error by its foreign key, and one that waits in a circle with a
deletion is aborted by the deadlock detector, unless the deletion is: `ProposeStep`
contains these two rollbacks. `MatchPayment`: weak fairness of each confirmation
under way, which nothing blocks, and strong fairness of Stripe's delivery of each
event it has no answer for: Stripe retries, but a delivery has to wait while all
slots are taken. None for payments, the success page or the thread page. `Accounts`:
weak fairness of each request that began, of the purge workers (an interval in each
instance) and of time; none for anything people do. `Thread`: weak fairness of the
timer, of transactions under way, of the server and of the page's handlers, and
strong fairness of a poll's being marked read, read and taken, which says that polls
do not fail for ever. None for the user and the other party. `Notifications`: weak
fairness of the broker's deliveries and of each handler; nothing makes a deaf
process start anew that has no message in hand. `Navigation`: weak fairness of a
visit under way and of the gate's refresh. `Matching`: weak fairness of the consumer
and of the publishing of an edit. `Gateway`: weak fairness of each request's
handler, of time and of the eviction's ticker; none for clients. `ListingEditor` has
safety properties only. In the fair runs faults stay possible: `DraftResolves`
therefore excludes listings whose check was lost and those a PATCH parked as drafts,
and nothing else.

## What was found

1. **A confirmed match is charged again** (`NotChargedAgain`, run
   `payments_twice`). Only the thread page looks at `confirmed_at`, when it is
   loaded, and Stripe forgets the idempotency key after a day: a page left open
   that long opens a second checkout. README line 141 speaks of a one-time fee.

The following were met while modelling and follow from one action or two of the
modules, which model the code as it is; the properties state the exceptions they
make for them. All are listed in `PROJECT.json` with the lines that disagree.

* **Listings.** `PATCH {status: "draft"}` on a scored listing leaves a draft that
  keeps its score and gets no check: nothing publishes it again (`PlainUpdate`, the
  exception `parked`). The trust worker activates whatever draft it finds when the
  model answers, so an edit in between is published under the score of the old text
  (`WriteScore`). Editing a paused or leased listing makes it a draft, which the
  check then activates (`ResetToDraft`). A PATCH that edits and names a status
  assigns the column `status` twice, which PostgreSQL refuses (`UpdateNothing`).
* **Viewings.** `confirmed_at` is read before the transaction and not again: a
  proposal can land in a confirmed conversation (`ReadConversation`). A proposal and
  the deletion of its listing can deadlock (`Deadlocked`): the database aborts one
  of them, which its caller sees as a 500.
* **Payment.** `POST /conversations/{id}/confirm` accepts any session id from the
  lister and looks at no payment: called directly it confirms an unpaid match
  (`PostConfirm`, the exception `unverified`). The success page shows "Match
  confirmed!" although the confirmation failed; `payment_completed` is not captured
  when it confirms first.
* **Accounts.** `redeem` reads `redeemed_at` and writes it two statements later: an
  invite can verify two users; it verifies a soft-deleted row again; the signup page
  waits for a 409 that `redeem` never answers; the mailed link does not expire after
  30 minutes.
* **Thread.** A page left open when its conversation is deleted keeps its messages
  for good unless its user acts: a poll that answers nothing is ignored (`Polled`,
  the exception `~exists`).
* **Navigation.** When `GET /me` fails once for an account an invite verified, the
  dashboard asks to verify its address, which is no .edu one, and so takes the
  verification away. Two tabs do it without a failure: one redeems the invite between
  the other's read of the account and its POST (`OtherRedeem`, the exception
  `crossed`).
* **Notifications.** A mail Resend refuses is acknowledged like one it took. A mail
  that throws is dead-lettered and never sent: `src/README.md:289` says failed mails
  are "retried via dead-lettering", but nothing consumes `dead.notifications`.
* **Matching.** A save between a visit's read and its write leaves the vector of the
  old text in the cache for good; a listing not scored yet is among the matches; an
  edit of the university, the rooms or the amenities alone is not embedded
  (`CommitEdit`, the exception `silent`).
* **Listing form.** A typed address leaves the coordinates of the old one; a card
  that does not know of an edit reactivates a draft without a score; the limit of
  eight photos is not one of the listing's; an expired listing can be edited.
* **Gateway.** The bypass for the internal secret on public routes is never taken.

## What is proved

All theorems hold for every value of the constants that satisfies the named
assumptions (`UnscoredAssumption`, `KeepAssumption`, `BoundsAssumption`:
the two special values are not contents, the bounds are numbers;
`NoProposalAssumption`, `SentByAssumption`; `RentAssumption`, `SessionAssumption`,
`SlotAssumption`; `EmailAssumption`, `GoneAssumption`: the special values are no
rents, sessions or addresses, and a visit is no delivery; and the assumptions
named in the newer modules, of the same kind).

**ListingTrustProofs.** `TypeCorrect` needs that the message in the worker's hands
is the head of the queue (`WorkerHoldsHead`), or `Acknowledge` could take the tail
of an empty queue. `ScoresAreCurrent` needs that a row that does not exist has no
score, because `Create` does not write the column, and that the text the worker asks
the model about is the row's unless the row was edited meanwhile (`ScoreInv`).
`DraftsAwaitChecks` is inductive with these two: every action that removes a check
from where it is either hands it on, records it as lost, or leaves the row no draft
or parks it. `ScoresPublishDrafts` and `OwnersReopen` follow from the type
invariant, action by action.

**ViewingsProofs.** `OnePending` needs `TxInv`: only the holder of the advisory
lock is inside a transaction (`LockInv`), the rows it holds are all the pending
ones once it superseded them (`RowsInv`), and the row it will insert is not there
yet (`FreshInv`). No other request can make a row pending meanwhile, so at
`Commit` the new proposal is the only one. `AnswersAgree` needs to know of the
responder that is about to publish that nothing was published for its message
(`AnswersInv`), `AnnouncedAreStored` that a committed proposal is stored
(`StoredInv`). `Refinement` uses `TxInv`: `Commit` is the abstract `Propose`,
`Respond` is `Answer`, `FinishDelete` is `Vanish`, all other steps stutter.

**MatchPaymentProofs.** `TypeCorrect` needs that only events of paid sessions are
delivered (`EventsPaid`): the event of a session that does not exist would name no
conversation. `ConfirmedWasPaid` needs the same of every call under way that looked
at the payment (`CallsPaid`); for the conversations of `unverified` it claims
nothing. `ConfirmedOnce` claims of every conversation that a repeated or late call,
a direct one too, leaves the recorded session alone. `AnnouncedAtMostOnce` and
`CapturedAtMostOnce` follow from `OnceInv`: of the calls of a conversation at most
one is between its UPDATE and its answer as the one that confirmed (`OneWinner`),
its session is the recorded one and nothing is captured or, before its publish,
announced (`WinnerInv`), nothing is counted twice (`CountInv`), and an unconfirmed
conversation has been announced and captured by nobody (`UnconfirmedInv`). A
conversation that went with its listing never returns (`GoneInv`), or all of it
would begin again. `FeeStaysLocked` needs that the amount of each session is the fee
of the initial rent (`AmountInv`).

**AccountsProofs.** `DeletionFinal` and `PurgeSpares` rest on `PurgeInv`. What a
purge has read of a row still holds, or another purge removed both account and
row (`BatchInv`, `DoomedInv`). The only thing that could change a row under it is
an upsert of `verify-edu`; one that passed its check of `deleted_at` is older than
the deletion (`CheckInv`), a row that is due has no request that old (`DueInv`),
so the upsert touches no row that is due. That nobody else's account is removed
needs that `clerk_id` is unique (`OneRowEach`). `VerificationEarned` needs that
the address a request carries is one its account had (`ClaimInv`, `HeldInv`),
`RedemptionsVerify` that a redemption about to mark its invite has verified
somebody (`SpentInv`).

**ThreadProofs.** `ButtonsComeBack` needs of each handler's flag that a call of it
is somewhere in the queue unless it was rejected (`Waited`), that nothing is
disabled while no thread is open (`Quiet`), and that a call's operation says which
flag waits for it (`Matched`). The queue is handled through the set of its elements,
so that taking the head and appending are facts of sets. `ShownStays` and
`OwnIsShown` need what a call knows before the page has heard of it (`Knows`): a
page that was read contains all that is displayed meanwhile and, after a message of
mine, that message, unless the page is full or the conversation is gone; a message
whose transaction was answered with success is committed. It stays true because a
stored message stays committed until the conversation goes, whatever becomes of its
state (`StoredStays`), because only the running call has a result (`OnlyFirstRuns`),
and because the first `PageLimit` of a set of positions are all of them or
`PageLimit` many (`FirstFew`, from the least position left out and the greatest
taken).

**ListingEditorProofs.** All five properties of the run, for any sets of tabs,
photos, places and inputs. `ShownAreStored` needs that the photos in each form,
each upload that has ended, each request and the row are in the bucket
(`AllStored`). `RemovedStayOut` needs that, until a stale tab is saved, a fresh tab
and the request it sent lack what was removed (`NoneBack`), and that a photo once
picked is not picked again (`AllPicked`, `Resting`, `SentForms`). `MapShowsAddress`
needs that the coordinates fit in each form and request, not only in the row
(`AllFit`). `FormsMakeOne` needs to count: the listings made are those whose answer
was heard, those whose answer was lost and the ones a tab is about to hear of
(`Counted`), and a tab has one request at a time (`OneRequestPerTab`).
`UnscoredWasStale` needs that a row in the open without a score was put there by a
card that did not know of the edit (`ScoredUnlessStale`).

**RequestsProofs.** *Navigation.* `GateTakesFailures` needs to know of each step of the
dashboard's visit what it has cost to come there (`GateCosts`, `OnDashboard`,
whatever the second tab does meanwhile) and of an invite's verification that no
dashboard is about to take it away, neither the visit's nor the second tab's, unless
a call failed or the redemption crossed its read (`InviteCosts`).

*Gateway.* From `RateAssumption`, `RefillAssumption` and
`RetryAssumption`, which the default numbers meet with room to spare.
`Refinement` and `RetriesAreAdmitted` rest on `Refilled`: a bucket unused for
some ticks was refilled in each but the first, in which a token could still be
taken (`JustUsed`), so one that may be evicted is full, and one unused for longer
than a 429 asks holds a token. `TakeToken` is the abstract `Admit`, `Tick` is
`Refill`, all other steps stutter.

**ConsumersProofs.** *Matching.* `VectorsAreCurrent`: the property is inductive with
the type of a visit, because `Save` sets `crossed` anew: when no visit stood between
its read and its write, there is none with another text.

*Notifications.* `BrokerHolds` (`HeldWhileHandled`) is inductive with the type
invariant and with a deaf process holding nothing (`DeafHoldsNone`).
`RepeatsAreRequeued` is the harder one: that a recipient is mailed again only
after a requeue is a count over calls. `WithinGrant` says it inductively: the calls
made for a recipient and those the handler under way has still to make for it are
at most its places in `ToWhom` times the deliveries granted, one and one for each
requeue. The places left are a set, so that what is due is a cardinality, which
the library's theorems reason about.

Every invariant and action property of the passing runs and the two refinements
`ImplementsSlot` and `ImplementsBucket` are proved. Only model-checked are the
liveness properties, which are out of the prover's reach: `DraftResolves`,
`OverdueExpires`, `ProposalsFinish`, `PaidIsConfirmed`, `DeletedIsPurged`,
`CatchesUp`, `EachSettles`, `VisitSettles`, `VectorCatchesUp` and
`BucketsAreReclaimed`. The theorems `ClosedStaysClosed` (implied by
`ImplementsSlot`) and `ConfirmedOnce` are proved and not part of a run.

## What is not modelled

* The arithmetic of scores and embeddings, ranking and filters of matches,
  validation, formatting, search, sorting and paging of lists, CORS, logging,
  analytics.
* Reviews, reports, saved listings and statistics: single statements whose only
  invariant is a unique constraint.
* In `Thread`, what a thread missed while it was closed: a message that commits
  behind the read mark is never counted as unread, and the page asks for the oldest
  100 messages, so that it shows no later one. `CatchesUp` covers the first page of a
  thread that stays open.
* What pages look like, and the admin pages behind their layout.
* PostgreSQL, RabbitMQ and the outside services, beyond what the code uses:
  statements are atomic and READ COMMITTED, rows and advisory locks block,
  messages are redelivered until acknowledged.

## Plan

Done, in the order of the weight of what they model: `ListingTrust`, `Viewings`
implementing `ViewingSlot`, `MatchPayment`, `Accounts`, `Thread`, `Navigation`,
`Matching`, `Gateway` implementing `TokenBucket`, `Notifications` and
`ListingEditor`, each with proofs of all its safety properties.

Left:

1. `Accounts` composed with the edit of `ListingTrust` that is under way when an
   account is deleted.
2. `Notifications` composed with `MatchPayment`: the confirmed match and its two
   mails, end to end.
3. Larger instances: two conversations that share sessions, two listings that
   compete for the worker.
