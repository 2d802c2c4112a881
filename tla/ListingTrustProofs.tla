------------------------- MODULE ListingTrustProofs -------------------------
(***************************************************************************)
(* What ListingTrust promises for any set of listings, contents and        *)
(* handlers, and whatever the bounds on requests and faults are.           *)
(***************************************************************************)
EXTENDS ListingTrust, TLAPS

(***************************************************************************)
(* The message the worker has in hand is the one at the head of the queue: *)
(* handlers append behind it and only the worker takes it off.             *)
(***************************************************************************)
WorkerHoldsHead ==
  worker # WorkerIdle => checks # <<>> /\ worker.listing = Head(checks)

\* The part every other proof starts from: Tail is only taken of a queue that
\* holds a message.
TypeInv == TypeOK /\ WorkerHoldsHead

-----------------------------------------------------------------------------
(* Facts about one step.                                                   *)

LEMMA HandlerTypes ==
  ASSUME TypeOK, NEW r \in Request
  PROVE  /\ handler[r].pc \in {"idle", "update", "publish"}
         /\ handler[r].pc = "update" => handler[r] \in AtUpdate
         /\ handler[r].pc = "publish" => handler[r] \in AtPublish
         /\ handler[r].pc = "idle" => handler[r] = Idle
BY DEF TypeOK, Idle, AtUpdate, AtPublish

LEMMA WorkerTypes ==
  ASSUME TypeOK
  PROVE  /\ worker.pc \in {"idle", "scoring", "ack"}
         /\ worker.pc = "scoring" => worker \in Scoring
         /\ worker.pc = "ack" => worker \in AtAck
         /\ worker.pc = "idle" <=> worker = WorkerIdle
BY DEF TypeOK, WorkerIdle, Scoring, AtAck

LEMMA FinishUpdateType ==
  ASSUME TypeInv, NEW r \in Request, FinishUpdate(r)
  PROVE  TypeInv'
<1> USE DEF TypeInv, TypeOK, WorkerHoldsHead, row, RowStatus,
            Idle, AtUpdate, AtPublish, Park
<1>1. handler[r].pc = "update" => handler[r].listing \in Listing
  BY HandlerTypes
<1>2. ASSUME NEW c \in Content, NEW past \in BOOLEAN, ResetToDraft(r, c, past)
      PROVE  TypeInv'
  BY <1>1, <1>2 DEF ResetToDraft, ClearScore, WriteContent, WriteDate
<1>3. ASSUME NEW c \in Content \cup {Keep}, NEW s \in RowStatus \cup {Keep},
             NEW past \in BOOLEAN, PlainUpdate(r, c, s, past)
      PROVE  TypeInv'
  BY <1>1, <1>3 DEF PlainUpdate, WriteContent, WriteDate
<1>4. ASSUME NEW c \in Content \cup {Keep}, NEW s \in RowStatus \cup {Keep},
             UpdateNothing(r, c, s)
      PROVE  TypeInv'
  BY <1>4 DEF UpdateNothing
<1> HIDE DEF TypeInv
<1> QED
  BY <1>2, <1>3, <1>4 DEF FinishUpdate

LEMMA ServiceType ==
  ASSUME TypeInv, NEW r \in Request,
         \/ \E l \in Listing : StartUpdate(r, l) \/ \E c \in Content : Create(r, l, c)
         \/ PublishScamCheck(r)
         \/ AbandonRequest(r)
  PROVE  TypeInv'
<1> USE DEF TypeInv, TypeOK, row, RowStatus, Idle, AtUpdate, AtPublish
<1>1. ASSUME NEW l \in Listing, StartUpdate(r, l)
      PROVE  TypeInv'
  BY <1>1 DEF StartUpdate, WorkerHoldsHead
<1>2. ASSUME NEW l \in Listing, NEW c \in Content, Create(r, l, c)
      PROVE  TypeInv'
  BY <1>2 DEF Create, WorkerHoldsHead
<1>3. CASE PublishScamCheck(r)
  <2>1. handler[r].listing \in Listing
    BY <1>3, HandlerTypes DEF PublishScamCheck
  <2>2. /\ checks' \in Seq(Listing)
        /\ checks # <<>> => checks' # <<>> /\ Head(checks') = Head(checks)
    BY <1>3, <2>1 DEF PublishScamCheck
  <2>3. TypeOK'
    BY <1>3, <2>2 DEF PublishScamCheck
  <2>4. WorkerHoldsHead'
    BY <1>3, <2>2 DEF PublishScamCheck, WorkerHoldsHead, WorkerIdle
  <2> QED
    BY <2>3, <2>4
<1>4. CASE AbandonRequest(r)
  BY <1>4, HandlerTypes DEF AbandonRequest, Fault, WorkerHoldsHead
<1> QED
  BY <1>1, <1>2, <1>3, <1>4

LEMMA RowType ==
  ASSUME TypeInv,
         \/ Expire
         \/ \E l \in Listing : Delete(l) \/ DatePasses(l)
         \/ \E owned \in SUBSET Pausable : PauseForAccount(owned)
  PROVE  TypeInv'
BY DEF TypeInv, TypeOK, WorkerHoldsHead, RowStatus,
       Expire, Delete, DatePasses, Pausable, PauseForAccount

LEMMA WorkerType ==
  ASSUME TypeInv, TrustWorker \/ CheckFails \/ WorkerRestart
  PROVE  TypeInv'
<1> USE DEF TypeInv, TypeOK, row, RowStatus
<1>1. CASE ReadListing
  <2>1. Head(checks) \in Listing
    BY <1>1 DEF ReadListing
  <2> QED
    BY <1>1, <2>1 DEF ReadListing, WorkerHoldsHead, Scoring, WorkerIdle
<1>2. CASE SkipMissing
  <2>1. Tail(checks) \in Seq(Listing)
    BY <1>2 DEF SkipMissing
  <2> QED
    BY <1>2, <2>1 DEF SkipMissing, WorkerHoldsHead
<1>3. CASE WriteScore
  <2>1. worker \in Scoring
    BY <1>3, WorkerTypes DEF WriteScore
  <2> QED
    BY <1>3, <2>1 DEF WriteScore, SetScore, Publish, Scoring, AtAck,
                      WorkerHoldsHead, WorkerIdle
<1>4. CASE Acknowledge \/ CheckFails
  <2>1. worker # WorkerIdle /\ worker.listing \in Listing
    BY <1>4, WorkerTypes DEF Acknowledge, CheckFails, Scoring, AtAck
  <2>2. checks # <<>> /\ Tail(checks) \in Seq(Listing)
    BY <1>4, <2>1 DEF Acknowledge, CheckFails, WorkerHoldsHead, WorkerIdle
  <2>3. lost' \in SUBSET Listing /\ faults' \in Nat /\ worker' = WorkerIdle
    BY <1>4, <2>1 DEF Acknowledge, CheckFails, Fault
  <2>5. TypeOK'
    BY <1>4, <2>2, <2>3 DEF Acknowledge, CheckFails
  <2>4. WorkerHoldsHead'
    BY <2>3 DEF WorkerHoldsHead
  <2> QED
    BY <2>4, <2>5
<1>5. CASE WorkerRestart
  BY <1>5 DEF WorkerRestart, Fault, WorkerHoldsHead
<1> QED
  BY <1>1, <1>2, <1>3, <1>4, <1>5 DEF TrustWorker

LEMMA TypeStep == TypeInv /\ [Next]_vars => TypeInv'
<1>1. ASSUME TypeInv, UNCHANGED vars PROVE TypeInv'
  BY <1>1 DEF TypeInv, TypeOK, WorkerHoldsHead, vars
<1> QED
  BY <1>1, FinishUpdateType, ServiceType, RowType, WorkerType DEF Next

LEMMA TypeInit == Init => TypeInv
BY DEF Init, TypeInv, TypeOK, WorkerHoldsHead, Idle, WorkerIdle

LEMMA TypeInvHolds == Spec => []TypeInv
BY TypeInit, TypeStep, PTL DEF Spec

(***************************************************************************)
(* Every value stays in the range the schema and the code give it          *)
(* (init.sql:24-47, the columns handlers and workers write).               *)
(***************************************************************************)
THEOREM TypeCorrect == Spec => []TypeOK
<1>1. TypeInv => TypeOK
  BY DEF TypeInv
<1> QED
  BY <1>1, TypeInvHolds, PTL

-----------------------------------------------------------------------------
(* Drafts and scores.                                                      *)

\* A row that is not there yet has the default score its INSERT will leave, and
\* the worker asks about text the row still holds.
ScoreInv ==
  \A l \in Listing :
    /\ status[l] = "none" => score[l] = Unscored
    /\ status[l] = "draft" => score[l] = Unscored \/ l \in parked
    /\ score[l] \in {Unscored, content[l]} \/ l \in crossed
    /\ UnderCheck(l)
         => status[l] # "none" /\ (worker.seen = content[l] \/ l \in crossed)

\* The same of one listing.
Current(l) ==
  /\ status[l] = "none" => score[l] = Unscored
  /\ status[l] = "draft" => score[l] = Unscored \/ l \in parked
  /\ score[l] \in {Unscored, content[l]} \/ l \in crossed
  /\ UnderCheck(l)
       => status[l] # "none" /\ (worker.seen = content[l] \/ l \in crossed)

LEMMA ServiceScores ==
  ASSUME TypeInv, ScoreInv, NEW k \in Listing, NEW r \in Request,
         \/ \E l \in Listing, c \in Content : Create(r, l, c)
         \/ FinishUpdate(r)
  PROVE  Current(k)'
<1>1. /\ status \in [Listing -> RowStatus \cup {"none", "deleted"}]
      /\ score \in [Listing -> Content \cup {Unscored}]
      /\ content \in [Listing -> Content]
      /\ Current(k)
  BY DEF TypeInv, TypeOK, ScoreInv, Current
<1>2. ASSUME NEW l \in Listing, NEW c \in Content, Create(r, l, c)
      PROVE  Current(k)'
  BY <1>1, <1>2 DEF Create, Current, UnderCheck
<1>3. ASSUME NEW c \in Content, NEW past \in BOOLEAN, ResetToDraft(r, c, past)
      PROVE  Current(k)'
  <2>1. handler[r].listing \in Listing
    BY <1>3, HandlerTypes DEF TypeInv, ResetToDraft, AtUpdate
  <2> QED
    BY <1>1, <1>3, <2>1, UnscoredAssumption
       DEF ResetToDraft, ClearScore, WriteContent, Current, UnderCheck, Exists,
           RowStatus
<1>4. ASSUME NEW c \in Content \cup {Keep}, NEW s \in RowStatus \cup {Keep},
             NEW past \in BOOLEAN, PlainUpdate(r, c, s, past)
      PROVE  Current(k)'
  <2>1. handler[r].listing \in Listing
    BY <1>4, HandlerTypes DEF TypeInv, PlainUpdate, AtUpdate
  <2>2. CASE handler[r].listing # k
    BY <1>1, <1>4, <2>1, <2>2
       DEF PlainUpdate, WriteContent, Park, Current, UnderCheck
  <2>3. CASE handler[r].listing = k
    <3>1. /\ status[k] # "none" /\ score' = score /\ worker' = worker
          /\ crossed \subseteq crossed'
          /\ content'[k] # content[k] => k \in crossed'
      BY <1>1, <1>4, <2>1, <2>3 DEF PlainUpdate, Exists, RowStatus
    <3>2. /\ status'[k] # "none"
          /\ status'[k] = "draft" => score[k] = Unscored \/ k \in parked'
      <4>1. CASE s = Keep
        BY <1>1, <1>4, <2>1, <2>3, <4>1, KeepAssumption
           DEF PlainUpdate, Park, Exists, RowStatus, Current
      <4>2. CASE s # Keep
        BY <1>1, <1>4, <2>1, <2>3, <4>2
           DEF PlainUpdate, Park, Exists, RowStatus, Current
      <4> QED
        BY <4>1, <4>2
    <3> QED
      BY <1>1, <3>1, <3>2 DEF Current, UnderCheck
  <2> QED
    BY <2>2, <2>3
<1>5. ASSUME NEW c \in Content \cup {Keep}, NEW s \in RowStatus \cup {Keep},
             UpdateNothing(r, c, s)
      PROVE  Current(k)'
  BY <1>1, <1>5 DEF UpdateNothing, row, Current, UnderCheck
<1> QED
  BY <1>2, <1>3, <1>4, <1>5 DEF FinishUpdate

LEMMA ScoreStep == TypeInv /\ ScoreInv /\ [Next]_vars => ScoreInv'
<1> SUFFICES ASSUME TypeInv, ScoreInv, [Next]_vars, NEW k \in Listing
             PROVE  Current(k)'
  BY DEF ScoreInv, Current
<1>1. /\ status \in [Listing -> RowStatus \cup {"none", "deleted"}]
      /\ score \in [Listing -> Content \cup {Unscored}]
      /\ content \in [Listing -> Content]
      /\ Current(k)
  BY DEF TypeInv, TypeOK, ScoreInv, Current
<1>2. ASSUME NEW r \in Request,
             FinishUpdate(r) \/ \E l \in Listing, c \in Content : Create(r, l, c)
      PROVE  Current(k)'
  BY <1>2, ServiceScores
<1>3. ASSUME NEW l \in Listing, Delete(l)
      PROVE  Current(k)'
  BY <1>1, <1>3 DEF Delete, Current, UnderCheck, Exists, RowStatus
<1>4. CASE Expire \/ \E owned \in SUBSET Pausable : PauseForAccount(owned)
  BY <1>1, <1>4 DEF Expire, Due, PauseForAccount, Pausable, Current, UnderCheck
<1>5. CASE WriteScore
  BY <1>1, <1>5 DEF WriteScore, SetScore, Publish, Current, UnderCheck
<1>6. CASE ReadListing
  BY <1>1, <1>6 DEF ReadListing, row, Current, UnderCheck, Exists, RowStatus
<1>7. ASSUME UNCHANGED <<status, score, content, parked, crossed>>,
             worker' = worker \/ worker' = WorkerIdle
      PROVE  Current(k)'
  BY <1>1, <1>7 DEF Current, UnderCheck, WorkerIdle
<1> QED
  BY <1>2, <1>3, <1>4, <1>5, <1>6, <1>7
     DEF Next, TrustWorker, StartUpdate, PublishScamCheck, AbandonRequest,
         DatePasses, SkipMissing, Acknowledge, CheckFails, WorkerRestart, row, vars

(***************************************************************************)
(* However many handlers, redeliveries and restarts interleave, a draft    *)
(* carries no score unless a PATCH named that status, and no listing       *)
(* carries the score of other text unless it was edited under a check or   *)
(* under an older edit (handleUpdate main.go:583-664, run_trust_checks     *)
(* main.py:165-200).                                                       *)
(***************************************************************************)
THEOREM ScoresAreCurrent == Spec => []ScoreIsCurrent
<1>1. Init => ScoreInv
  <2> SUFFICES ASSUME Init, NEW l \in Listing
               PROVE  Current(l)
    BY DEF ScoreInv, Current
  <2>1. status[l] = "none" /\ score[l] = Unscored /\ worker.pc = "idle"
    BY DEF Init, WorkerIdle
  <2> QED
    BY <2>1 DEF Current, UnderCheck
<1>2. ScoreInv => ScoreIsCurrent
  BY DEF ScoreInv, ScoreIsCurrent
<1> QED
  BY <1>1, <1>2, ScoreStep, TypeInvHolds, PTL DEF Spec

(***************************************************************************)
(* A score is only ever written together with publication, and only on a   *)
(* draft, whatever happened while the model was being asked                *)
(* (run_trust_checks main.py:193-200).                                     *)
(***************************************************************************)
THEOREM ScoresPublishDrafts == Spec => ScoringPublishesDrafts
<1>1. ASSUME TypeInv, [Next]_vars, NEW l \in Listing,
             score'[l] \notin {score[l], Unscored}
      PROVE  status[l] = "draft" /\ status'[l] = "active"
  <2>1. /\ status \in [Listing -> RowStatus \cup {"none", "deleted"}]
        /\ score \in [Listing -> Content \cup {Unscored}]
    BY <1>1 DEF TypeInv, TypeOK
  <2>2. CASE WriteScore
    BY <1>1, <2>1, <2>2 DEF WriteScore, SetScore, Publish
  <2>3. ASSUME NEW k \in Listing, Delete(k)
        PROVE  FALSE
    BY <1>1, <2>1, <2>3 DEF Delete
  <2>4. ASSUME NEW r \in Request, NEW c \in Content, NEW past \in BOOLEAN,
               ResetToDraft(r, c, past)
        PROVE  FALSE
    BY <1>1, <2>1, <2>4 DEF ResetToDraft, ClearScore
  <2>5. ~UNCHANGED score
    BY <1>1
  <2> QED
    BY <1>1, <2>2, <2>3, <2>4, <2>5
       DEF Next, FinishUpdate, TrustWorker, Create, StartUpdate, PlainUpdate,
           UpdateNothing, PublishScamCheck, AbandonRequest, DatePasses, Expire,
           PauseForAccount, ReadListing, SkipMissing, Acknowledge, CheckFails, WorkerRestart, row,
           vars
<1>2. TypeInv /\ [Next]_vars
        => [\A l \in Listing :
              score'[l] \notin {score[l], Unscored}
                => status[l] = "draft" /\ status'[l] = "active"]_vars
  BY <1>1
<1> QED
  BY <1>2, TypeInvHolds, PTL DEF Spec, ScoringPublishesDrafts

(***************************************************************************)
(* What left the market stays off it until its owner acts: no answer of the*)
(* model, redelivery or expiry tick moves a paused, leased or expired      *)
(* listing (startExpirationWorker main.go:1944-1948, run_trust_checks      *)
(* main.py:193-200).                                                       *)
(***************************************************************************)
THEOREM OwnersReopen == Spec => OnlyOwnerReopens
<1> DEFINE Off == {"expired", "paused", "leased"}
           Patched(l) == \E r \in Request : handler[r].pc = "update"
                                            /\ handler[r].listing = l
                                            /\ handler'[r] # handler[r]
<1>1. ASSUME TypeInv, [Next]_vars, NEW l \in Listing, status[l] \in Off,
             status'[l] # status[l]
      PROVE  status'[l] = "deleted" \/ Patched(l)
  <2>1. /\ status \in [Listing -> RowStatus \cup {"none", "deleted"}]
        /\ handler \in [Request -> {Idle} \cup AtUpdate \cup AtPublish]
    BY <1>1 DEF TypeInv, TypeOK
  <2>2. ASSUME NEW r \in Request, NEW c \in Content, NEW past \in BOOLEAN,
               ResetToDraft(r, c, past)
        PROVE  Patched(l)
    BY <1>1, <2>1, <2>2 DEF ResetToDraft
  <2>3. ASSUME NEW r \in Request, NEW c \in Content \cup {Keep},
               NEW s \in RowStatus \cup {Keep}, NEW past \in BOOLEAN,
               PlainUpdate(r, c, s, past)
        PROVE  Patched(l)
    BY <1>1, <2>1, <2>3 DEF PlainUpdate, Idle
  <2>4. ASSUME NEW k \in Listing, Delete(k)
        PROVE  status'[l] = "deleted"
    BY <1>1, <2>1, <2>4 DEF Delete
  <2>5. CASE Expire \/ \E owned \in SUBSET Pausable : PauseForAccount(owned)
    BY <1>1, <2>1, <2>5 DEF Expire, Due, PauseForAccount, Pausable
  <2>6. CASE WriteScore
    BY <1>1, <2>1, <2>6 DEF WriteScore, SetScore, Publish
  <2>7. ASSUME NEW r \in Request, NEW k \in Listing, NEW c \in Content, Create(r, k, c)
        PROVE  FALSE
    BY <1>1, <2>1, <2>7 DEF Create
  <2>8. ~UNCHANGED status
    BY <1>1
  <2> HIDE DEF Patched, Off
  <2> QED
    BY <1>1, <2>2, <2>3, <2>4, <2>5, <2>6, <2>7, <2>8
       DEF Next, FinishUpdate, TrustWorker, StartUpdate, UpdateNothing,
           PublishScamCheck, AbandonRequest, DatePasses, ReadListing, SkipMissing,
           Acknowledge, CheckFails, WorkerRestart, row, vars
<1>2. TypeInv /\ [Next]_vars
        => [\A l \in Listing :
              status[l] \in {"expired", "paused", "leased"} /\ status'[l] # status[l]
                => \/ status'[l] = "deleted"
                   \/ \E r \in Request : handler[r].pc = "update"
                                          /\ handler[r].listing = l
                                          /\ handler'[r] # handler[r]]_vars
  BY <1>1
<1> QED
  BY <1>2, TypeInvHolds, PTL DEF Spec, OnlyOwnerReopens

-----------------------------------------------------------------------------
(* No draft is stranded by interleaving.                                   *)

Awaits(l) == l \in lost \cup parked \/ CheckToPublish(l) \/ CheckQueued(l)

\* The message behind the head survives the removal of the head.
LEMMA QueuedBehindHead ==
  ASSUME TypeInv, checks # <<>>, NEW k \in Listing,
         NEW i \in 1..Len(checks), checks[i] = k, i # 1,
         checks' = Tail(checks), worker' = WorkerIdle
  PROVE  CheckQueued(k)'
<1>1. checks \in Seq(Listing)
  BY DEF TypeInv, TypeOK
<1>2. /\ i - 1 \in 1..Len(Tail(checks))
      /\ Tail(checks)[i - 1] = k
  BY <1>1
<1> QED
  BY <1>2 DEF CheckQueued, WorkerIdle

\* A step that takes nothing out of the queue and moves no publisher keeps the
\* check where it is.
LEMMA AwaitsKept ==
  ASSUME NEW k \in Listing, Awaits(k), lost \subseteq lost', k \in parked => k \in parked',
         checks' = checks,
         worker' = worker,
         \A q \in Request : handler[q].pc = "publish" => handler'[q] = handler[q]
  PROVE  Awaits(k)'
BY DEF Awaits, CheckToPublish, CheckQueued

LEMMA ServiceAwaits ==
  ASSUME TypeInv, DraftAwaitsCheck, NEW r \in Request, NEW k \in Listing,
         \/ \E l \in Listing : StartUpdate(r, l) \/ \E c \in Content : Create(r, l, c)
         \/ FinishUpdate(r)
         \/ PublishScamCheck(r)
         \/ AbandonRequest(r),
         status'[k] = "draft"
  PROVE  Awaits(k)'
<1>1. /\ handler \in [Request -> {Idle} \cup AtUpdate \cup AtPublish]
      /\ status \in [Listing -> RowStatus \cup {"none", "deleted"}]
      /\ checks \in Seq(Listing)
      /\ status[k] = "draft" => Awaits(k)
  BY DEF TypeInv, TypeOK, DraftAwaitsCheck, Awaits
<1>2. ASSUME NEW l \in Listing, NEW c \in Content, Create(r, l, c)
      PROVE  Awaits(k)'
  <2>1. CASE l = k
    BY <1>1, <1>2, <2>1 DEF Create, Awaits, CheckToPublish
  <2>2. CASE l # k
    BY <1>1, <1>2, <2>2, AwaitsKept DEF Create, Idle
  <2> QED
    BY <2>1, <2>2
<1>3. ASSUME NEW l \in Listing, StartUpdate(r, l)
      PROVE  Awaits(k)'
  BY <1>1, <1>3, AwaitsKept DEF StartUpdate, row, Idle
<1>4. ASSUME NEW c \in Content, NEW past \in BOOLEAN, ResetToDraft(r, c, past)
      PROVE  Awaits(k)'
  <2>1. CASE handler[r].listing = k
    BY <1>1, <1>4, <2>1 DEF ResetToDraft, Awaits, CheckToPublish
  <2>2. CASE handler[r].listing # k
    BY <1>1, <1>4, <2>2, AwaitsKept DEF ResetToDraft
  <2> QED
    BY <2>1, <2>2
<1>5. ASSUME NEW c \in Content \cup {Keep}, NEW s \in RowStatus \cup {Keep},
             NEW past \in BOOLEAN, PlainUpdate(r, c, s, past)
      PROVE  Awaits(k)'
  <2>1. handler[r].listing \in Listing
    BY <1>5, HandlerTypes DEF TypeInv, PlainUpdate, AtUpdate
  <2>2. \/ status[k] = "draft" /\ (k \in parked => k \in parked')
        \/ k \in parked'
    BY <1>1, <1>5, <2>1, KeepAssumption DEF PlainUpdate, Park, RowStatus
  <2>3. \A q \in Request : handler[q].pc = "publish" => handler'[q] = handler[q]
    BY <1>1, <1>5 DEF PlainUpdate
  <2>4. UNCHANGED <<lost, checks, worker>>
    BY <1>5 DEF PlainUpdate
  <2>5. CASE status[k] = "draft" /\ (k \in parked => k \in parked')
    BY <1>1, <2>3, <2>4, <2>5, AwaitsKept
  <2>6. CASE k \in parked'
    BY <2>6 DEF Awaits
  <2> QED
    BY <2>2, <2>5, <2>6
<1>6. ASSUME NEW c \in Content \cup {Keep}, NEW s \in RowStatus \cup {Keep},
             UpdateNothing(r, c, s)
      PROVE  Awaits(k)'
  BY <1>1, <1>6, AwaitsKept DEF UpdateNothing, row
<1>7. CASE PublishScamCheck(r)
  <2>1. handler[r].listing \in Listing /\ status[k] = "draft"
    BY <1>7, HandlerTypes DEF TypeInv, PublishScamCheck, AtPublish, row
  <2>2. CASE handler[r].listing = k
    <3> DEFINE i == Len(checks) + 1
    <3>1. i \in 1..Len(checks') /\ checks'[i] = k
      BY <1>1, <1>7, <2>2 DEF PublishScamCheck
    <3>2. worker.pc = "ack" => i # 1
      BY <1>1, WorkerTypes DEF TypeInv, WorkerHoldsHead
    <3> QED
      BY <1>7, <3>1, <3>2 DEF PublishScamCheck, Awaits, CheckQueued
  <2>3. CASE handler[r].listing # k
    <3>1. CheckQueued(k) => CheckQueued(k)'
      BY <1>1, <1>7, <2>1 DEF PublishScamCheck, CheckQueued
    <3>2. CheckToPublish(k) => CheckToPublish(k)'
      BY <1>1, <1>7, <2>3 DEF PublishScamCheck, CheckToPublish
    <3> QED
      BY <1>1, <1>7, <2>1, <3>1, <3>2 DEF PublishScamCheck, Awaits
  <2> QED
    BY <2>2, <2>3
<1>8. CASE AbandonRequest(r)
  <2>1. status[k] = "draft"
    BY <1>8 DEF AbandonRequest, row
  <2>2. CASE handler[r].pc = "publish" /\ handler[r].listing = k
    BY <1>8, <2>2 DEF AbandonRequest, Awaits
  <2>3. CASE ~(handler[r].pc = "publish" /\ handler[r].listing = k)
    BY <1>1, <1>8, <2>1, <2>3
       DEF AbandonRequest, Awaits, CheckToPublish, CheckQueued
  <2> QED
    BY <2>2, <2>3
<1> QED
  BY <1>2, <1>3, <1>4, <1>5, <1>6, <1>7, <1>8 DEF FinishUpdate

LEMMA WorkerAwaits ==
  ASSUME TypeInv, DraftAwaitsCheck, NEW k \in Listing,
         TrustWorker \/ CheckFails \/ WorkerRestart,
         status'[k] = "draft"
  PROVE  Awaits(k)'
<1>1. /\ status \in [Listing -> RowStatus \cup {"none", "deleted"}]
      /\ checks \in Seq(Listing)
      /\ status[k] = "draft" => Awaits(k)
      /\ worker # WorkerIdle => checks # <<>> /\ worker.listing = Head(checks)
  BY DEF TypeInv, TypeOK, DraftAwaitsCheck, Awaits, WorkerHoldsHead
<1>2. status[k] = "draft"
  BY <1>1 DEF TrustWorker, ReadListing, SkipMissing, WriteScore, SetScore, Publish,
              Acknowledge, CheckFails, WorkerRestart, row
<1>3. CASE k \in lost \cup parked \/ CheckToPublish(k)
  BY <1>3 DEF Awaits, CheckToPublish, TrustWorker, ReadListing, SkipMissing,
              WriteScore, Acknowledge, CheckFails, WorkerRestart
<1>4. CASE CheckQueued(k)
  <2>1. PICK i \in 1..Len(checks) :
               checks[i] = k /\ ~(i = 1 /\ worker.pc = "ack")
    BY <1>4 DEF CheckQueued
  <2>2. CASE ReadListing \/ WorkerRestart
    BY <2>1, <2>2 DEF ReadListing, WorkerRestart, Awaits, CheckQueued, WorkerIdle
  <2>3. CASE SkipMissing
    <3>1. i # 1
      BY <1>1, <1>2, <2>1, <2>3 DEF SkipMissing, Exists, RowStatus
    <3> QED
      BY <2>1, <2>3, <3>1, QueuedBehindHead DEF SkipMissing, Awaits
  <2>4. CASE WriteScore
    <3>1. worker.listing # k
      BY <1>1, <1>2, <2>4 DEF WriteScore, SetScore, Publish
    <3>2. worker # WorkerIdle
      BY <2>4 DEF WriteScore, WorkerIdle
    <3>3. i # 1
      BY <1>1, <2>1, <3>1, <3>2
    <3> QED
      BY <2>1, <2>4, <3>3 DEF WriteScore, Awaits, CheckQueued
  <2>5. CASE Acknowledge
    <3>1. i # 1 /\ worker # WorkerIdle
      BY <2>1, <2>5 DEF Acknowledge, WorkerIdle
    <3> QED
      BY <1>1, <2>1, <2>5, <3>1, QueuedBehindHead DEF Acknowledge, Awaits
  <2>6. CASE CheckFails
    <3>1. worker # WorkerIdle
      BY <2>6 DEF CheckFails, WorkerIdle
    <3>2. CASE i = 1
      BY <1>1, <2>1, <2>6, <3>1, <3>2 DEF CheckFails, Awaits
    <3>3. CASE i # 1
      BY <1>1, <2>1, <2>6, <3>1, <3>3, QueuedBehindHead DEF CheckFails, Awaits
    <3> QED
      BY <3>2, <3>3
  <2> QED
    BY <2>2, <2>3, <2>4, <2>5, <2>6 DEF TrustWorker
<1> QED
  BY <1>1, <1>2, <1>3, <1>4 DEF Awaits

LEMMA RowAwaits ==
  ASSUME TypeInv, DraftAwaitsCheck, NEW k \in Listing,
         \/ Expire
         \/ \E l \in Listing : Delete(l) \/ DatePasses(l)
         \/ \E owned \in SUBSET Pausable : PauseForAccount(owned)
         \/ UNCHANGED vars,
         status'[k] = "draft"
  PROVE  Awaits(k)'
<1>1. /\ status \in [Listing -> RowStatus \cup {"none", "deleted"}]
      /\ status[k] = "draft" => Awaits(k)
  BY DEF TypeInv, TypeOK, DraftAwaitsCheck, Awaits
<1>2. status[k] = "draft"
  BY <1>1 DEF Expire, Delete, DatePasses, PauseForAccount, vars
<1>3. UNCHANGED <<lost, parked, checks, worker, handler>>
  BY DEF Expire, Delete, DatePasses, PauseForAccount, vars
<1> QED
  BY <1>1, <1>2, <1>3, AwaitsKept

(***************************************************************************)
(* A draft whose check nobody holds any more had a check lost to a fault:  *)
(* no order of handlers, worker, redelivery and deletion strands one       *)
(* (README.md:230-242; publishScamCheck main.go:1991-2004 and              *)
(* consume_scam_queue main.py:212-230 are where a check can be lost).      *)
(***************************************************************************)
THEOREM DraftsAwaitChecks == Spec => []DraftAwaitsCheck
<1>1. Init => DraftAwaitsCheck
  BY DEF Init, DraftAwaitsCheck
<1>2. TypeInv /\ DraftAwaitsCheck /\ [Next]_vars => DraftAwaitsCheck'
  <2> SUFFICES ASSUME TypeInv, DraftAwaitsCheck, [Next]_vars,
                      NEW k \in Listing, status'[k] = "draft"
               PROVE  Awaits(k)'
    BY DEF DraftAwaitsCheck, Awaits
  <2> QED
    BY ServiceAwaits, WorkerAwaits, RowAwaits DEF Next
<1> QED
  BY <1>1, <1>2, TypeInvHolds, PTL DEF Spec
=============================================================================
