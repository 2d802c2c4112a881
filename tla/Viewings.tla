------------------------------ MODULE Viewings ------------------------------
(***************************************************************************)
(* Viewing proposals in one conversation (src/services/listings/main.go):  *)
(* handleProposeViewing, handleRespondViewing, and the two requests that   *)
(* change the conversation under them, handleConfirmConversation and the   *)
(* deletion of the listing.                                                *)
(*                                                                         *)
(* A propose request is several statements.  It reads the conversation on  *)
(* its own connection; then, in a READ COMMITTED transaction, it takes an  *)
(* advisory lock, marks the pending proposals superseded, inserts its own  *)
(* message and commits; then it publishes a notification.  Until it commits*)
(* its writes are seen by nobody, and the rows it updated stay locked: a   *)
(* statement of another request that wants them waits, and then looks at   *)
(* its WHERE clause again.  All other requests here write with a single    *)
(* statement; the one of the deletion cascades, and takes its rows one     *)
(* table after the other.                                                  *)
(***************************************************************************)
EXTENDS Naturals, Sequences

CONSTANTS
  Party,       \* the renter and the lister
  Proposal,    \* propose requests, and the message each one inserts
  SentBy,      \* the party that sends each: messages.sender_id
  Responder,   \* slots for respond requests in flight
  NoProposal   \* no holder of the advisory lock

ASSUME NoProposalAssumption == NoProposal \notin Proposal
ASSUME SentByAssumption == SentBy \in [Proposal -> Party]

VARIABLES
  exists,       \* the conversation's row is there
  confirmed,    \* confirmed_at IS NOT NULL
  deleting,     \* a cascade has deleted the row of the conversation, holds its
                \* lock, and did not commit yet
  viewing,      \* messages.viewing->>'status' as committed, "none" for no row
  pc,           \* where each propose request stands
  superseding,  \* rows a transaction marked superseded and has locked
  lock,         \* the request that holds the advisory lock
  responder,    \* respond requests between their UPDATE and their publish
  responses,    \* notifications.viewing_responded published, per message
  announced     \* messages a notifications.new_message was published for

conversation == <<exists, confirmed, deleting>>
published == <<responses, announced>>
vars == <<exists, confirmed, deleting, viewing, pc, superseding, lock, responder,
          responses, announced>>

Answers == {"accepted", "declined"}
Final == Answers \cup {"superseded"}
InTransaction == {"locked", "superseded", "inserted"}
Idle == [pc |-> "idle"]
AtPublish == [pc: {"publish"}, message: Proposal, answer: Answers]

Pending == {p \in Proposal : viewing[p] = "pending"}
RowLocked(p) == \E q \in Proposal : p \in superseding[q]

Init ==
  /\ exists = TRUE
  /\ confirmed = FALSE
  /\ deleting = FALSE
  /\ viewing = [p \in Proposal |-> "none"]
  /\ pc = [p \in Proposal |-> "new"]
  /\ superseding = [p \in Proposal |-> {}]
  /\ lock = NoProposal
  /\ responder = [r \in Responder |-> Idle]
  /\ responses = [p \in Proposal |-> <<>>]
  /\ announced = {}

-----------------------------------------------------------------------------
(* handleProposeViewing.                                                   *)

(***************************************************************************)
(* The SELECT before the transaction: 404 without the conversation, 409    *)
(* when it is confirmed, and nothing is written in either case.            *)
(***************************************************************************)
ReadConversation(p) ==
  /\ pc[p] = "new"
  /\ exists
  /\ ~confirmed
  /\ pc' = [pc EXCEPT ![p] = "checked"]
  /\ UNCHANGED <<conversation, viewing, superseding, lock, responder,
                 published>>

\* Mutant of TakeLock: the transaction does not serialise on the conversation.
TakeNoLock(p) ==
  /\ pc[p] = "checked"
  /\ lock' = p
  /\ pc' = [pc EXCEPT ![p] = "locked"]
  /\ UNCHANGED <<conversation, viewing, superseding, responder, published>>
\* BEGIN; SELECT pg_advisory_xact_lock(hashtext(id)).
TakeLock(p) ==
  /\ pc[p] = "checked"
  /\ lock = NoProposal
  /\ lock' = p
  /\ pc' = [pc EXCEPT ![p] = "locked"]
  /\ UNCHANGED <<conversation, viewing, superseding, responder, published>>

\* Mutant of Supersede: a sender's proposal displaces the sender's own only.
SupersedeOwn(p) ==
  /\ pc[p] = "locked"
  /\ superseding' = [superseding EXCEPT ![p] = {q \in Pending : SentBy[q] = SentBy[p]}]
  /\ pc' = [pc EXCEPT ![p] = "superseded"]
  /\ UNCHANGED <<conversation, viewing, lock, responder, published>>
(***************************************************************************)
(* UPDATE messages ... '"superseded"' WHERE status = 'pending', with the   *)
(* snapshot of this statement; it waits for rows another transaction holds.*)
(***************************************************************************)
Supersede(p) ==
  /\ pc[p] = "locked"
  /\ \A q \in Pending : ~RowLocked(q)
  /\ superseding' = [superseding EXCEPT ![p] = Pending]
  /\ pc' = [pc EXCEPT ![p] = "superseded"]
  /\ UNCHANGED <<conversation, viewing, lock, responder, published>>

\* Mutant of Insert: the notification leaves before the commit.
InsertAndAnnounce(p) ==
  /\ pc[p] = "superseded"
  /\ exists
  /\ ~deleting
  /\ announced' = announced \cup {p}
  /\ pc' = [pc EXCEPT ![p] = "inserted"]
  /\ UNCHANGED <<conversation, viewing, superseding, lock, responder, responses>>
(***************************************************************************)
(* INSERT of the pending proposal, which the foreign key refuses without   *)
(* the conversation, and UPDATE conversations SET last_message_at: both    *)
(* wait for the conversation's row, and lock it until the transaction ends.*)
(***************************************************************************)
Insert(p) ==
  /\ pc[p] = "superseded"
  /\ exists
  /\ ~deleting
  /\ pc' = [pc EXCEPT ![p] = "inserted"]
  /\ UNCHANGED <<conversation, viewing, superseding, lock, responder, published>>

\* The transaction ends: its row locks and the advisory lock are released.
EndTransaction(p) ==
  /\ superseding' = [superseding EXCEPT ![p] = {}]
  /\ lock' = IF lock = p THEN NoProposal ELSE lock

Commit(p) ==
  /\ pc[p] = "inserted"
  /\ viewing' = [q \in Proposal |-> IF q = p THEN "pending"
                                    ELSE IF q \in superseding[p] THEN "superseded"
                                    ELSE viewing[q]]
  /\ EndTransaction(p)
  /\ pc' = [pc EXCEPT ![p] = "committed"]
  /\ UNCHANGED <<conversation, responder, published>>

\* publishNotification("notifications.new_message") to the other party.
Announce(p) ==
  /\ pc[p] = "committed"
  /\ announced' = announced \cup {p}
  /\ pc' = [pc EXCEPT ![p] = "done"]
  /\ UNCHANGED <<conversation, viewing, superseding, lock, responder, responses>>

\* Mutant of Rollback: a session lock (pg_advisory_lock) outlives the rollback.
RollbackKeepsLock(p) ==
  /\ pc[p] \in InTransaction \cup {"checked"}
  /\ superseding' = [superseding EXCEPT ![p] = {}]
  /\ pc' = [pc EXCEPT ![p] = "done"]
  /\ UNCHANGED <<conversation, viewing, lock, responder, published>>
(***************************************************************************)
(* A statement fails, the client goes away or the service stops:           *)
(* tx.Rollback, or the server's own when the connection drops.             *)
(***************************************************************************)
Rollback(p) ==
  /\ pc[p] \in InTransaction \cup {"checked"}
  /\ EndTransaction(p)
  /\ pc' = [pc EXCEPT ![p] = "done"]
  /\ UNCHANGED <<conversation, viewing, responder, published>>

\* The service stops after the commit, or Publish fails and is only logged.
LoseAnnouncement(p) ==
  /\ pc[p] = "committed"
  /\ pc' = [pc EXCEPT ![p] = "done"]
  /\ UNCHANGED <<conversation, viewing, superseding, lock, responder, published>>

-----------------------------------------------------------------------------
(* handleRespondViewing.                                                   *)

\* Mutant of Answerable: WHERE without viewing->>'status' = 'pending'.
AnswerableAnyway(u, m) ==
  viewing[m] \in Answers \cup {"pending"} /\ SentBy[m] # u /\ ~RowLocked(m)
(***************************************************************************)
(* The rows the UPDATE of handleRespondViewing matches.  It waits while a  *)
(* propose transaction holds the row, and then evaluates WHERE again.      *)
(***************************************************************************)
Answerable(u, m) ==
  viewing[m] = "pending" /\ SentBy[m] # u /\ ~RowLocked(m)

(***************************************************************************)
(* A party's answer that wins.  One that matches no row is told 404, 403 or*)
(* 409 and changes nothing.                                                *)
(***************************************************************************)
Respond(r, u, m, a) ==
  /\ responder[r] = Idle
  /\ exists
  /\ Answerable(u, m)
  /\ viewing' = [viewing EXCEPT ![m] = a]
  /\ responder' = [responder EXCEPT
                     ![r] = [pc |-> "publish", message |-> m, answer |-> a]]
  /\ UNCHANGED <<conversation, pc, superseding, lock, published>>

\* publishNotification("notifications.viewing_responded") to the proposer.
PublishResponse(r) ==
  /\ responder[r].pc = "publish"
  /\ responses' = [responses EXCEPT
                     ![responder[r].message] = Append(@, responder[r].answer)]
  /\ responder' = [responder EXCEPT ![r] = Idle]
  /\ UNCHANGED <<conversation, viewing, pc, superseding, lock, announced>>

\* The service stops between the UPDATE and the publish, or Publish fails.
LoseResponse(r) ==
  /\ responder[r].pc = "publish"
  /\ responder' = [responder EXCEPT ![r] = Idle]
  /\ UNCHANGED <<conversation, viewing, pc, superseding, lock, published>>

-----------------------------------------------------------------------------
(* What happens to the conversation meanwhile.                             *)

(***************************************************************************)
(* handleConfirmConversation's UPDATE, which waits for a request that holds*)
(* the conversation's row and did not commit yet.                          *)
(***************************************************************************)
ConversationLocked == deleting \/ \E p \in Proposal : pc[p] = "inserted"
Confirm ==
  /\ exists
  /\ ~confirmed
  /\ ~ConversationLocked
  /\ confirmed' = TRUE
  /\ UNCHANGED <<exists, deleting, viewing, pc, superseding, lock, responder,
                 published>>

(***************************************************************************)
(* handleDelete of the listing (or the purge of a party's account).  The   *)
(* cascade deletes the conversation first, and waits for its row to do so; *)
(* then it deletes the messages, and waits for theirs.                     *)
(***************************************************************************)
BeginDelete ==
  /\ exists
  /\ ~ConversationLocked
  /\ deleting' = TRUE
  /\ UNCHANGED <<exists, confirmed, viewing, pc, superseding, lock, responder,
                 published>>

FinishDelete ==
  /\ deleting
  /\ \A m \in Proposal : ~RowLocked(m)
  /\ exists' = FALSE
  /\ deleting' = FALSE
  /\ viewing' = [p \in Proposal |-> "none"]
  /\ UNCHANGED <<confirmed, pc, superseding, lock, responder, published>>

\* The statement fails, is cancelled or is chosen by the deadlock detector.
AbortDelete ==
  /\ deleting
  /\ deleting' = FALSE
  /\ UNCHANGED <<exists, confirmed, viewing, pc, superseding, lock, responder,
                 published>>

(***************************************************************************)
(* The one circle of these locks: the cascade holds the conversation's row *)
(* and waits for a message the propose request superseded, whose INSERT    *)
(* waits for the conversation's row.  PostgreSQL finds it and aborts one of*)
(* the two (deadlock_timeout, 40P01), which the handler answers with 500.  *)
(***************************************************************************)
Deadlocked(p) == deleting /\ pc[p] = "superseded" /\ superseding[p] # {}

-----------------------------------------------------------------------------

ProposeStep(p) ==
  \/ TakeLock(p) \/ Supersede(p) \/ Insert(p) \/ Commit(p) \/ Announce(p)
  \/ (~exists \/ Deadlocked(p)) /\ Rollback(p)

Next ==
  \/ \E p \in Proposal :
       ReadConversation(p) \/ ProposeStep(p) \/ Rollback(p) \/ LoseAnnouncement(p)
  \/ \E r \in Responder :
       \/ \E u \in Party, m \in Proposal, a \in Answers : Respond(r, u, m, a)
       \/ PublishResponse(r)
       \/ LoseResponse(r)
  \/ Confirm
  \/ BeginDelete
  \/ FinishDelete
  \/ AbortDelete

(***************************************************************************)
(* A request that passed its check runs to its end: the service keeps      *)
(* executing it, the database grants a lock that stays free, wakes those   *)
(* that wait for a row in the order they came (hence the strong fairness of*)
(* Insert, which one cascade after another could overtake), and breaks a   *)
(* deadlock.  Nobody has to propose, answer, confirm or delete.            *)
(***************************************************************************)
Fairness ==
  /\ \A p \in Proposal : WF_vars(ProposeStep(p)) /\ SF_vars(Insert(p))
  /\ WF_vars(FinishDelete)

Spec == Init /\ [][Next]_vars
FairSpec == Spec /\ Fairness

-----------------------------------------------------------------------------
(* What the conversation promises.                                         *)

TypeOK ==
  /\ exists \in BOOLEAN
  /\ confirmed \in BOOLEAN
  /\ deleting \in BOOLEAN
  /\ viewing \in [Proposal -> Final \cup {"none", "pending"}]
  /\ pc \in [Proposal -> InTransaction \cup {"new", "checked", "committed", "done"}]
  /\ superseding \in [Proposal -> SUBSET Proposal]
  /\ lock \in Proposal \cup {NoProposal}
  /\ responder \in [Responder -> {Idle} \cup AtPublish]
  /\ responses \in [Proposal -> Seq(Answers)]
  /\ announced \in SUBSET Proposal

(***************************************************************************)
(* At no time can two proposals of a conversation be answered, however many*)
(* propose requests overlap.  (viewings_race_test.go:94; the advisory lock *)
(* of main.go:1136.)                                                       *)
(***************************************************************************)
AtMostOnePending == \A p, q \in Pending : p = q

(***************************************************************************)
(* The proposer is told of an answer at most once, and it is the answer the*)
(* message keeps: of an accept and a decline that race, one wins and only  *)
(* that one is announced.  (viewings_race_test.go:24, main.go:1232-1280.)  *)
(***************************************************************************)
OneAnswerAnnounced ==
  \A m \in Proposal :
    responses[m] # <<>> => Len(responses[m]) = 1
                           /\ (exists => viewing[m] = responses[m][1])

(***************************************************************************)
(* A closed proposal stays as it was closed: in particular a proposal that *)
(* was accepted while the next one was being sent is not superseded by it. *)
(* (main.go:1136-1147 against main.go:1232-1240.)                          *)
(***************************************************************************)
ClosedIsFinal ==
  [][\A m \in Proposal :
       viewing[m] \in Final => viewing'[m] = viewing[m] \/ ~exists']_vars

(***************************************************************************)
(* Nobody is notified of a proposal that a rollback takes back: what was   *)
(* announced is in the conversation as long as there is one.               *)
(* (main.go:1165-1184.)                                                    *)
(***************************************************************************)
AnnouncedIsStored ==
  \A p \in announced : exists => viewing[p] # "none"

\* The one pending proposal and the closed ones, for the abstract specification.
Slot == IF Pending = {} THEN NoProposal ELSE CHOOSE p \in Pending : TRUE
Closed == [p \in Proposal |-> IF viewing[p] = "pending" THEN "none" ELSE viewing[p]]

(***************************************************************************)
(* Transactions, locks and rollbacks amount to one slot that proposals take*)
(* and answers clear (ViewingSlot).                                        *)
(***************************************************************************)
Abstract == INSTANCE ViewingSlot WITH slot <- Slot, closed <- Closed
ImplementsSlot == Abstract!Spec

(***************************************************************************)
(* No propose request waits for ever: no lock is kept by a request that is *)
(* over, and the only circle of locks is the one with a deletion, which the*)
(* database breaks.  (main.go:749, 1136-1168.)                             *)
(***************************************************************************)
ProposalsFinish ==
  \A p \in Proposal : pc[p] = "checked" ~> pc[p] = "done"
=============================================================================
