---------------------------- MODULE ListingTrust ----------------------------
(***************************************************************************)
(* The life of a listing row and of the fraud check that publishes it.     *)
(*                                                                         *)
(* Four programs write listings.status and listings.scam_score:            *)
(*   - the listings service (src/services/listings/main.go), whose create  *)
(*     and PATCH handlers run concurrently and are several statements each,*)
(*     none of them in a transaction;                                      *)
(*   - the trust worker (src/services/trust/main.py), which takes listing  *)
(*     ids from the queue listing.scam_check one at a time, reads the row, *)
(*     waits for a language model, and writes the score;                   *)
(*   - the hourly expiration worker of the listings service;               *)
(*   - the auth service, which pauses the listings of an account it deletes*)
(*     (src/services/auth/src/index.js).                                   *)
(*                                                                         *)
(* What a step between two statements of a handler can change is modelled  *)
(* by splitting the handler there.  "content" stands for the fields that a *)
(* PATCH compares and the score is computed from (title, description and   *)
(* rent_cents), and a score is modelled by the content it was computed of. *)
(* (The score also looks at university_near and bedrooms, which a PATCH    *)
(* may change without a new check; they are not part of "content".)        *)
(***************************************************************************)
EXTENDS Naturals, Sequences

CONSTANTS
  Listing,       \* listing ids
  Content,       \* values of the trust-relevant fields
  Request,       \* slots for handlers in flight in the listings service
  Unscored,      \* scam_score = 0: the column's default, written by a reset
  Keep,          \* a field the body of a PATCH leaves out
  MaxRequests,   \* bound: create and PATCH requests over a behaviour
  MaxFaults      \* bound: lost publishes, failed checks, restarts

(***************************************************************************)
(* The values of listing_status.  A PATCH may name any of them, since      *)
(* handleUpdate writes body.Status as it comes; src/web sends active,      *)
(* paused and leased only.                                                 *)
(***************************************************************************)
RowStatus == {"draft", "active", "paused", "leased", "expired"}

ASSUME UnscoredAssumption == Unscored \notin Content
ASSUME KeepAssumption == Keep \notin Content \cup RowStatus
ASSUME BoundsAssumption == MaxRequests \in Nat /\ MaxFaults \in Nat

VARIABLES
  status,      \* listing_status, or "none" before the INSERT, "deleted" after
  content,     \* the trust-relevant columns
  score,       \* scam_score
  overdue,     \* listings whose available_to lies before CURRENT_DATE
  handler,     \* where each handler in flight of the listings service stands
  checks,      \* the queue listing.scam_check; its head may be unacknowledged
  worker,      \* where the trust worker stands with the message at the head
  lost,        \* history: listings one of whose checks was lost
  parked,      \* history: listings a PATCH made drafts by naming that status
  crossed,     \* history: listings edited under a check or an older edit
  requests,    \* requests started so far, up to MaxRequests
  faults       \* faults so far, up to MaxFaults

row == <<status, content, score, overdue>>
vars == <<status, content, score, overdue, handler, checks, worker, lost,
          parked, crossed, requests, faults>>

Exists(l) == status[l] \in RowStatus

Idle == [pc |-> "idle"]
AtUpdate == [pc: {"update"}, listing: Listing, seen: Content]
AtPublish == [pc: {"publish"}, listing: Listing]
WorkerIdle == [pc |-> "idle"]
Scoring == [pc: {"scoring"}, listing: Listing, seen: Content]
AtAck == [pc: {"ack"}, listing: Listing]

Init ==
  /\ status = [l \in Listing |-> "none"]
  /\ \E c \in Content : content = [l \in Listing |-> c]
  /\ score = [l \in Listing |-> Unscored]
  /\ overdue = {}
  /\ handler = [r \in Request |-> Idle]
  /\ checks = <<>>
  /\ worker = WorkerIdle
  /\ lost = {}
  /\ parked = {}
  /\ crossed = {}
  /\ requests = 0
  /\ faults = 0

Fault == faults < MaxFaults /\ faults' = faults + 1

-----------------------------------------------------------------------------
(* The listings service.                                                   *)

(***************************************************************************)
(* handleCreate: one INSERT with status 'draft' and the default scam_score;*)
(* the scam check is published afterwards.                                 *)
(***************************************************************************)
Create(r, l, c) ==
  /\ handler[r] = Idle
  /\ requests < MaxRequests
  /\ status[l] = "none"
  /\ status' = [status EXCEPT ![l] = "draft"]
  /\ content' = [content EXCEPT ![l] = c]
  /\ handler' = [handler EXCEPT ![r] = [pc |-> "publish", listing |-> l]]
  /\ requests' = requests + 1
  /\ UNCHANGED <<score, overdue, checks, worker, lost, parked, crossed, faults>>

(***************************************************************************)
(* handleUpdate up to the UPDATE: it reads the row (404 without one) and   *)
(* keeps the trust-relevant columns to compare the body with.              *)
(***************************************************************************)
StartUpdate(r, l) ==
  /\ handler[r] = Idle
  /\ requests < MaxRequests
  /\ Exists(l)
  /\ handler' = [handler EXCEPT
                   ![r] = [pc |-> "update", listing |-> l, seen |-> content[l]]]
  /\ requests' = requests + 1
  /\ UNCHANGED <<row, checks, worker, lost, parked, crossed, faults>>

(***************************************************************************)
(* A PATCH changes the trust-relevant fields when the merged values differ *)
(* from the ones the handler read, whatever the row holds by now.          *)
(***************************************************************************)
TrustRelevantChange(r, newContent) ==
  newContent # Keep /\ newContent # handler[r].seen

\* The columns the body names, written whatever the row holds.
WriteContent(l, newContent) ==
  content' = IF newContent = Keep THEN content
             ELSE [content EXCEPT ![l] = newContent]
WriteDate(l, past) ==
  overdue' = IF past THEN overdue \cup {l} ELSE overdue \ {l}

\* History: what the UPDATE does to the two exceptions of the properties.
Park(l, newStatus) ==
  parked' = IF newStatus = "draft" /\ status[l] # "draft" THEN parked \cup {l}
            ELSE IF newStatus \in RowStatus \ {"draft"} THEN parked \ {l}
            ELSE parked
UnderCheck(l) == worker.pc = "scoring" /\ worker.listing = l

\* The second half of a reset: scam_score = 0, in the same statement.
NoClear(l) == UNCHANGED score                           \* mutant of ClearScore
ClearScore(l) == score' = [score EXCEPT ![l] = Unscored]

(***************************************************************************)
(* handleUpdate's UPDATE when the fields changed: content, status 'draft'  *)
(* and scam_score 0 in one statement, and the check still to be published. *)
(***************************************************************************)
ResetToDraft(r, newContent, past) ==
  LET l == handler[r].listing IN
  /\ handler[r].pc = "update"
  /\ TrustRelevantChange(r, newContent)
  /\ Exists(l)
  /\ status' = [status EXCEPT ![l] = "draft"]
  /\ ClearScore(l)
  /\ WriteContent(l, newContent)
  /\ WriteDate(l, past)
  /\ parked' = parked \ {l}
  /\ crossed' = IF UnderCheck(l) THEN crossed \cup {l} ELSE crossed \ {l}
  /\ handler' = [handler EXCEPT ![r] = [pc |-> "publish", listing |-> l]]
  /\ UNCHANGED <<checks, worker, lost, requests, faults>>

(***************************************************************************)
(* handleUpdate's UPDATE when nothing it compares changed: the columns the *)
(* body names are written, the status among them, and nothing is published.*)
(***************************************************************************)
PlainUpdate(r, newContent, newStatus, past) ==
  LET l == handler[r].listing IN
  /\ handler[r].pc = "update"
  /\ ~TrustRelevantChange(r, newContent)
  /\ Exists(l)
  /\ status' = IF newStatus = Keep THEN status
               ELSE [status EXCEPT ![l] = newStatus]
  /\ WriteContent(l, newContent)
  /\ WriteDate(l, past)
  /\ Park(l, newStatus)
  /\ crossed' = IF content' = content THEN crossed ELSE crossed \cup {l}
  /\ handler' = [handler EXCEPT ![r] = Idle]
  /\ UNCHANGED <<score, checks, worker, lost, requests, faults>>

(***************************************************************************)
(* handleUpdate's UPDATE that writes nothing: the row was deleted since it *)
(* was read (404), or the body changes the fields and names a status, so   *)
(* that the statement assigns the column status twice, which Postgres      *)
(* refuses (500).                                                          *)
(***************************************************************************)
UpdateNothing(r, newContent, newStatus) ==
  /\ handler[r].pc = "update"
  /\ \/ ~Exists(handler[r].listing)
     \/ newStatus # Keep /\ TrustRelevantChange(r, newContent)
  /\ handler' = [handler EXCEPT ![r] = Idle]
  /\ UNCHANGED <<row, checks, worker, lost, parked, crossed, requests, faults>>

(***************************************************************************)
(* publishScamCheck, after the statement that made the row a draft.        *)
(***************************************************************************)
\* Mutant of PublishScamCheck: the edit forgets to publish.
ForgetScamCheck(r) ==
  /\ handler[r].pc = "publish"
  /\ handler' = [handler EXCEPT ![r] = Idle]
  /\ UNCHANGED <<row, checks, worker, lost, parked, crossed, requests, faults>>
PublishScamCheck(r) ==
  /\ handler[r].pc = "publish"
  /\ checks' = Append(checks, handler[r].listing)
  /\ handler' = [handler EXCEPT ![r] = Idle]
  /\ UNCHANGED <<row, worker, lost, parked, crossed, requests, faults>>

(***************************************************************************)
(* The handler ends early: the service stops, the request is cancelled, or *)
(* Publish fails, which is logged and not retried.  A row already written  *)
(* stays written, without a check.                                         *)
(***************************************************************************)
AbandonRequest(r) ==
  /\ handler[r] # Idle
  /\ Fault
  /\ lost' = IF handler[r].pc = "publish" THEN lost \cup {handler[r].listing}
             ELSE lost
  /\ handler' = [handler EXCEPT ![r] = Idle]
  /\ UNCHANGED <<row, checks, worker, parked, crossed, requests>>

\* handleDelete: one DELETE; messages that name the listing stay queued.
Delete(l) ==
  /\ Exists(l)
  /\ status' = [status EXCEPT ![l] = "deleted"]
  /\ score' = [score EXCEPT ![l] = Unscored]
  /\ overdue' = overdue \ {l}
  /\ UNCHANGED <<content, handler, checks, worker, lost, parked, crossed,
                 requests, faults>>

(***************************************************************************)
(* DELETE /me of the auth service: one UPDATE pauses the active and draft  *)
(* listings of the account.  (Its purge after 30 days deletes the rows.)   *)
(***************************************************************************)
PauseForAccount(owned) ==
  /\ owned # {}
  /\ status' = [l \in Listing |-> IF l \in owned THEN "paused" ELSE status[l]]
  /\ UNCHANGED <<content, score, overdue, handler, checks, worker, lost,
                 parked, crossed, requests, faults>>
Pausable == {l \in Listing : status[l] \in {"active", "draft"}}

-----------------------------------------------------------------------------
(* The expiration worker, and the calendar.                                *)

DatePasses(l) ==
  /\ Exists(l)
  /\ l \notin overdue
  /\ overdue' = overdue \cup {l}
  /\ UNCHANGED <<status, content, score, handler, checks, worker, lost, parked,
                 crossed, requests, faults>>

(***************************************************************************)
(* startExpirationWorker's UPDATE: every active row past its date at once. *)
(* The notifications it publishes afterwards touch nothing modelled here.  *)
(***************************************************************************)
ExpireAnyStatus == {l \in overdue : Exists(l)}                 \* mutant of Due
ExpireFutureOnes == {l \in Listing \ overdue : status[l] = "active"}  \* another
Due == {l \in overdue : status[l] = "active"}

Expire ==
  /\ Due # {}
  /\ status' = [l \in Listing |-> IF l \in Due THEN "expired" ELSE status[l]]
  /\ UNCHANGED <<content, score, overdue, handler, checks, worker, lost,
                 parked, crossed, requests, faults>>

-----------------------------------------------------------------------------
(* The trust worker: consume_scam_queue and run_trust_checks.              *)

\* The row is read, and the language model is asked.
ReadListing ==
  /\ worker = WorkerIdle
  /\ checks # <<>>
  /\ Exists(Head(checks))
  /\ worker' = [pc |-> "scoring", listing |-> Head(checks),
                seen |-> content[Head(checks)]]
  /\ UNCHANGED <<row, handler, checks, lost, parked, crossed, requests,
                 faults>>

\* No such row: run_trust_checks returns and the message is acknowledged.
SkipMissing ==
  /\ worker = WorkerIdle
  /\ checks # <<>>
  /\ ~Exists(Head(checks))
  /\ checks' = Tail(checks)
  /\ UNCHANGED <<row, handler, worker, lost, parked, crossed, requests,
                 faults>>

(***************************************************************************)
(* The answer arrived: UPDATE ... SET scam_score, status = 'active' WHERE  *)
(* status = 'draft'.  It does not look at the content any more.            *)
(***************************************************************************)
Publish(l, seen) ==
  /\ status' = [status EXCEPT ![l] = "active"]
  /\ score' = [score EXCEPT ![l] = seen]
\* Mutant of SetScore: the UPDATE without AND status = 'draft'.
SetScoreAnyway(l, seen) ==
  IF Exists(l) THEN Publish(l, seen) ELSE UNCHANGED <<status, score>>
SetScore(l, seen) ==
  IF status[l] = "draft" THEN Publish(l, seen) ELSE UNCHANGED <<status, score>>

WriteScore ==
  LET l == worker.listing IN
  /\ worker.pc = "scoring"
  /\ SetScore(l, worker.seen)
  /\ worker' = [pc |-> "ack", listing |-> l]
  /\ UNCHANGED <<content, overdue, handler, checks, lost, parked, crossed,
                 requests, faults>>

\* message.process() leaves without an exception.
Acknowledge ==
  /\ worker.pc = "ack"
  /\ checks' = Tail(checks)
  /\ worker' = WorkerIdle
  /\ UNCHANGED <<row, handler, lost, parked, crossed, requests, faults>>

(***************************************************************************)
(* An exception before the score is written (the model's answer is late,   *)
(* refused or not JSON; the database fails): message.process() rejects the *)
(* message without requeueing it, and the queue has no dead-letter queue.  *)
(***************************************************************************)
CheckFails ==
  /\ worker.pc = "scoring"
  /\ Fault
  /\ lost' = lost \cup {worker.listing}
  /\ checks' = Tail(checks)
  /\ worker' = WorkerIdle
  /\ UNCHANGED <<row, handler, parked, crossed, requests>>

\* Mutant of WorkerRestart: the broker counts a message as done on delivery.
RestartForgets ==
  /\ worker # WorkerIdle
  /\ Fault
  /\ worker' = WorkerIdle
  /\ checks' = Tail(checks)
  /\ UNCHANGED <<row, handler, lost, parked, crossed, requests>>
\* The worker stops before it acknowledged: the broker delivers again.
WorkerRestart ==
  /\ worker # WorkerIdle
  /\ Fault
  /\ worker' = WorkerIdle
  /\ UNCHANGED <<row, handler, checks, lost, parked, crossed, requests>>

-----------------------------------------------------------------------------

FinishUpdate(r) ==
  \/ \E c \in Content, past \in BOOLEAN : ResetToDraft(r, c, past)
  \/ \E c \in Content \cup {Keep}, s \in RowStatus \cup {Keep} :
       \/ \E past \in BOOLEAN : PlainUpdate(r, c, s, past)
       \/ UpdateNothing(r, c, s)

TrustWorker == ReadListing \/ SkipMissing \/ WriteScore \/ Acknowledge

Next ==
  \/ \E r \in Request :
       \/ \E l \in Listing : StartUpdate(r, l) \/ \E c \in Content : Create(r, l, c)
       \/ FinishUpdate(r)
       \/ PublishScamCheck(r)
       \/ AbandonRequest(r)
  \/ \E l \in Listing : Delete(l) \/ DatePasses(l)
  \/ \E owned \in SUBSET Pausable : PauseForAccount(owned)
  \/ Expire
  \/ TrustWorker
  \/ CheckFails
  \/ WorkerRestart

(***************************************************************************)
(* A handler that has started runs on, the trust worker keeps consuming    *)
(* (it reconnects for ever) and the expiration worker ticks every hour.    *)
(* No user has to do anything, and no fault has to happen.                 *)
(***************************************************************************)
Fairness ==
  /\ \A r \in Request : WF_vars(FinishUpdate(r) \/ PublishScamCheck(r))
  /\ WF_vars(TrustWorker)
  /\ WF_vars(Expire)

Spec == Init /\ [][Next]_vars
FairSpec == Spec /\ Fairness

-----------------------------------------------------------------------------
(* What the pipeline promises.                                             *)

TypeOK ==
  /\ status \in [Listing -> RowStatus \cup {"none", "deleted"}]
  /\ content \in [Listing -> Content]
  /\ score \in [Listing -> Content \cup {Unscored}]
  /\ overdue \in SUBSET Listing
  /\ handler \in [Request -> {Idle} \cup AtUpdate \cup AtPublish]
  /\ checks \in Seq(Listing)
  /\ worker \in {WorkerIdle} \cup Scoring \cup AtAck
  /\ lost \in SUBSET Listing
  /\ parked \in SUBSET Listing
  /\ crossed \in SUBSET Listing
  /\ requests \in Nat
  /\ faults \in Nat

(***************************************************************************)
(* A score belongs to the row it stands on: a draft carries none, unless a *)
(* PATCH made it one by naming that status, and any other row carries none *)
(* or that of its own text, unless the text was edited while the model was *)
(* being asked, or written back by an edit that compared with an older row.*)
(* (handleUpdate main.go:583-664; run_trust_checks main.py:165-200.)       *)
(***************************************************************************)
ScoreIsCurrent ==
  \A l \in Listing :
    /\ status[l] = "draft" => score[l] = Unscored \/ l \in parked
    /\ score[l] \in {Unscored, content[l]} \/ l \in crossed

(***************************************************************************)
(* Where the check of a draft is while it is not lost: still to be         *)
(* published by the handler that reset the row, in the queue, or in the    *)
(* hands of the worker before it wrote the score.                          *)
(***************************************************************************)
CheckToPublish(l) ==
  \E r \in Request : handler[r].pc = "publish" /\ handler[r].listing = l
CheckQueued(l) ==
  \E i \in 1..Len(checks) :
    checks[i] = l /\ ~(i = 1 /\ worker.pc = "ack")

(***************************************************************************)
(* A listing is never stranded as a draft by the order in which handlers,  *)
(* worker, redeliveries and deletions happen to run: a draft whose check   *)
(* nobody holds had one of its checks lost to a fault, or is a draft only  *)
(* because a PATCH named that status, for which no check is published      *)
(* (main.go:629, 684).  (README.md:230-242, "Listings stuck in draft".)    *)
(***************************************************************************)
DraftAwaitsCheck ==
  \A l \in Listing :
    status[l] = "draft"
      => l \in lost \cup parked \/ CheckToPublish(l) \/ CheckQueued(l)

(***************************************************************************)
(* A score and the status active are set together, on a draft only: a      *)
(* pause, lease, expiry or deletion that lands while the model is being    *)
(* asked survives the answer, and a redelivered check changes nothing.     *)
(* (main.py:193-200.)                                                      *)
(***************************************************************************)
ScoringPublishesDrafts ==
  [][\A l \in Listing :
       score'[l] \notin {score[l], Unscored}
         => status[l] = "draft" /\ status'[l] = "active"]_vars

(***************************************************************************)
(* A listing leaves paused, leased or expired only by the owner's own      *)
(* PATCH or deletion: no answer, redelivery or tick that was under way when*)
(* it got there moves it.  (startExpirationWorker main.go:1944-1948,       *)
(* run_trust_checks main.py:193-200.)                                      *)
(***************************************************************************)
OnlyOwnerReopens ==
  [][\A l \in Listing :
       status[l] \in {"expired", "paused", "leased"} /\ status'[l] # status[l]
         => \/ status'[l] = "deleted"
            \/ \E r \in Request : handler[r].pc = "update"
                                   /\ handler[r].listing = l
                                   /\ handler'[r] # handler[r]]_vars

(***************************************************************************)
(* Every draft is scored and published, unless one of its checks was lost, *)
(* a PATCH made it a draft by naming the status, the owner took it         *)
(* elsewhere or the row is deleted: the worker never starves it.           *)
(***************************************************************************)
DraftResolves ==
  \A l \in Listing :
    status[l] = "draft" ~> status[l] # "draft" \/ l \in lost \cup parked

(***************************************************************************)
(* A listing past its date does not stay active: however its edits, its    *)
(* check and the hourly worker interleave, it expires, is moved on or is   *)
(* given another date.                                                     *)
(***************************************************************************)
OverdueExpires ==
  \A l \in Listing :
    l \in overdue /\ status[l] = "active"
      ~> ~(l \in overdue /\ status[l] = "active")
=============================================================================
