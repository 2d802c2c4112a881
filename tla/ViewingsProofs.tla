--------------------------- MODULE ViewingsProofs ---------------------------
(***************************************************************************)
(* What Viewings promises for any number of propose and respond requests.  *)
(***************************************************************************)
EXTENDS Viewings, TLAPS

(***************************************************************************)
(* The lock belongs to the one request inside its transaction; from its    *)
(* UPDATE to its COMMIT the rows it locked are exactly the pending ones, so*)
(* nobody can answer them or add to them; and a message that is not        *)
(* committed has no row.                                                   *)
(***************************************************************************)
LockInv == \A p \in Proposal : pc[p] \in InTransaction <=> lock = p
RowsInv ==
  \A p \in Proposal :
    superseding[p] = IF pc[p] \in {"superseded", "inserted"} THEN Pending ELSE {}
FreshInv ==
  \A p \in Proposal :
    pc[p] \in InTransaction \cup {"new", "checked"} => viewing[p] = "none"

TxInv == TypeOK /\ LockInv /\ RowsInv /\ FreshInv /\ AtMostOnePending

-----------------------------------------------------------------------------
(* The transactions.                                                       *)

LEMMA TxInit == Init => TxInv
<1> SUFFICES ASSUME Init PROVE TxInv
  OBVIOUS
<1> USE DEF Init, InTransaction
<1>1. TypeOK
  <2>1. responder \in [Responder -> {Idle} \cup AtPublish]
    OBVIOUS
  <2>2. responses \in [Proposal -> Seq(Answers)]
    OBVIOUS
  <2>3. viewing \in [Proposal -> Final \cup {"none", "pending"}]
    BY DEF Final
  <2>4. superseding \in [Proposal -> SUBSET Proposal]
    OBVIOUS
  <2> QED
    BY <2>1, <2>2, <2>3, <2>4 DEF TypeOK
<1>2. LockInv
  BY NoProposalAssumption DEF LockInv
<1>3. Pending = {} /\ AtMostOnePending
  BY DEF Pending, AtMostOnePending
<1>4. RowsInv /\ FreshInv
  BY DEF RowsInv, FreshInv
<1> QED
  BY <1>1, <1>2, <1>3, <1>4 DEF TxInv

LEMMA TypeStep == TypeOK /\ [Next]_vars => TypeOK'
<1> SUFFICES ASSUME TypeOK, [Next]_vars PROVE TypeOK'
  OBVIOUS
<1> USE DEF TypeOK, conversation, published
<1>1. ASSUME NEW p \in Proposal,
             ReadConversation(p) \/ TakeLock(p) \/ Insert(p) \/ Announce(p)
             \/ LoseAnnouncement(p)
      PROVE  TypeOK'
  BY <1>1 DEF ReadConversation, TakeLock, Insert, Announce, LoseAnnouncement,
              InTransaction
<1>2. ASSUME NEW p \in Proposal, Supersede(p)
      PROVE  TypeOK'
  <2>1. Pending \in SUBSET Proposal
    BY DEF Pending
  <2> QED
    BY <1>2, <2>1 DEF Supersede, InTransaction
<1>3. ASSUME NEW p \in Proposal, Commit(p)
      PROVE  TypeOK'
  <2>1. viewing' \in [Proposal -> Final \cup {"none", "pending"}]
    BY <1>3 DEF Commit, Final
  <2> QED
    BY <1>3, <2>1 DEF Commit, EndTransaction
<1>4. ASSUME NEW p \in Proposal, Rollback(p)
      PROVE  TypeOK'
  BY <1>4 DEF Rollback, EndTransaction
<1>5. ASSUME NEW r \in Responder, NEW u \in Party, NEW m \in Proposal,
             NEW a \in Answers, Respond(r, u, m, a)
      PROVE  TypeOK'
  BY <1>5 DEF Respond, Final, AtPublish
<1>6. ASSUME NEW r \in Responder, PublishResponse(r)
      PROVE  TypeOK'
  <2>1. responder[r] \in AtPublish
    BY <1>6 DEF PublishResponse, Idle
  <2>2. /\ responder[r].message \in Proposal
        /\ Append(responses[responder[r].message], responder[r].answer) \in Seq(Answers)
    BY <2>1 DEF AtPublish
  <2> QED
    BY <1>6, <2>2 DEF PublishResponse
<1>7. ASSUME NEW r \in Responder, LoseResponse(r)
      PROVE  TypeOK'
  BY <1>7 DEF LoseResponse
<1>8. CASE Confirm \/ BeginDelete \/ FinishDelete \/ AbortDelete \/ UNCHANGED vars
  BY <1>8 DEF Confirm, BeginDelete, FinishDelete, AbortDelete, vars
<1> HIDE DEF TypeOK
<1> QED
  BY <1>1, <1>2, <1>3, <1>4, <1>5, <1>6, <1>7, <1>8 DEF Next, ProposeStep

\* A step that leaves the messages alone and moves no request into, out of or
\* inside its transaction keeps the invariant.
LEMMA TxFrame ==
  ASSUME TxInv, TypeOK', UNCHANGED <<viewing, superseding, lock>>,
         \A p \in Proposal :
           pc'[p] = pc[p]
           \/ (pc[p] = "new" /\ pc'[p] = "checked")
           \/ (pc[p] = "superseded" /\ pc'[p] = "inserted")
           \/ (pc[p] = "committed" /\ pc'[p] = "done")
  PROVE  TxInv'
BY DEF TxInv, LockInv, RowsInv, FreshInv, AtMostOnePending, Pending, InTransaction

LEMMA TakeLockTx ==
  ASSUME TxInv, TypeOK', NEW p \in Proposal, TakeLock(p)
  PROVE  TxInv'
<1> USE DEF TxInv, TakeLock
<1>1. LockInv'
  BY NoProposalAssumption DEF TypeOK, LockInv, InTransaction
<1>2. RowsInv' /\ FreshInv' /\ AtMostOnePending'
  BY DEF TypeOK, RowsInv, FreshInv, AtMostOnePending, Pending, InTransaction
<1> QED
  BY <1>1, <1>2

LEMMA SupersedeTx ==
  ASSUME TxInv, TypeOK', NEW p \in Proposal, Supersede(p)
  PROVE  TxInv'
<1>1. Pending' = Pending
  BY DEF Supersede, Pending
<1>2. RowsInv'
  BY <1>1 DEF TxInv, TypeOK, Supersede, RowsInv
<1>3. LockInv' /\ FreshInv' /\ AtMostOnePending'
  BY <1>1 DEF TxInv, TypeOK, Supersede, LockInv, FreshInv, AtMostOnePending,
              InTransaction
<1> QED
  BY <1>2, <1>3 DEF TxInv

LEMMA EndTx ==
  ASSUME TxInv, NEW p \in Proposal, EndTransaction(p), pc'[p] \in {"committed", "done"},
         \A q \in Proposal \ {p} : pc'[q] = pc[q],
         TypeOK', pc[p] \in InTransaction \cup {"checked"}
  PROVE  LockInv' /\ (viewing' = viewing => TxInv')
<1>1. LockInv'
  BY NoProposalAssumption DEF TxInv, TypeOK, LockInv, EndTransaction, InTransaction
<1>2. ASSUME viewing' = viewing
      PROVE  RowsInv' /\ FreshInv' /\ AtMostOnePending'
  <2>1. Pending' = Pending
    BY <1>2 DEF Pending
  <2>2. RowsInv'
    BY <2>1 DEF TxInv, TypeOK, RowsInv, EndTransaction
  <2>3. FreshInv'
    BY <1>2 DEF TxInv, FreshInv, InTransaction
  <2> QED
    BY <2>1, <2>2, <2>3 DEF TxInv, AtMostOnePending
<1> QED
  BY <1>1, <1>2 DEF TxInv

LEMMA CommitTx ==
  ASSUME TxInv, TypeOK', NEW p \in Proposal, Commit(p)
  PROVE  TxInv' /\ Pending' = {p}
<1>1. superseding[p] = Pending /\ viewing[p] = "none"
  BY DEF TxInv, Commit, RowsInv, FreshInv, InTransaction
<1>2. \A q \in Proposal \ {p} : superseding[q] = {} /\ pc[q] \notin InTransaction
  BY DEF TxInv, Commit, LockInv, RowsInv, InTransaction
<1>3. Pending' = {p}
  BY <1>1 DEF TxInv, TypeOK, Commit, Pending
<1>4. LockInv'
  BY EndTx DEF TxInv, TypeOK, Commit, InTransaction
<1>5. FreshInv'
  BY <1>1, <1>2 DEF TxInv, TypeOK, Commit, FreshInv, Pending, InTransaction
<1>6. \A q \in Proposal :
        superseding'[q] = {} /\ pc'[q] \notin {"superseded", "inserted"}
  BY <1>2 DEF TxInv, TypeOK, Commit, EndTransaction, InTransaction
<1>7. RowsInv'
  BY <1>6 DEF RowsInv
<1> QED
  BY <1>3, <1>4, <1>5, <1>7 DEF TxInv, AtMostOnePending

\* Only while no transaction holds a row can one be answered.
LEMMA RespondTx ==
  ASSUME TxInv, TypeOK', NEW r \in Responder, NEW u \in Party, NEW m \in Proposal,
         NEW a \in Answers, Respond(r, u, m, a)
  PROVE  TxInv' /\ Pending = {m} /\ Pending' = {}
<1>1. Pending = {m}
  BY DEF TxInv, Respond, Answerable, AtMostOnePending, Pending
<1>2. Pending' = {}
  BY <1>1 DEF TxInv, TypeOK, Respond, Pending, Answers
<1>3. \A p \in Proposal : superseding[p] = {} /\ pc[p] \notin {"superseded", "inserted"}
  BY <1>1 DEF TxInv, Respond, Answerable, RowLocked, RowsInv
<1>4. LockInv' /\ RowsInv'
  BY <1>2, <1>3 DEF TxInv, Respond, LockInv, RowsInv
<1>5. FreshInv'
  BY <1>1 DEF TxInv, TypeOK, Respond, FreshInv, Pending
<1> QED
  BY <1>1, <1>2, <1>4, <1>5 DEF TxInv, AtMostOnePending

LEMMA DeleteTx ==
  ASSUME TxInv, TypeOK', FinishDelete
  PROVE  TxInv' /\ Pending' = {}
<1>1. Pending' = {}
  BY DEF FinishDelete, Pending
<1>2. \A p \in Proposal : superseding[p] = {}
  BY DEF TxInv, TypeOK, FinishDelete, RowLocked
<1>3. RowsInv'
  BY <1>1, <1>2 DEF TxInv, FinishDelete, RowsInv
<1>4. LockInv' /\ FreshInv' /\ AtMostOnePending'
  BY <1>1 DEF TxInv, FinishDelete, LockInv, FreshInv, AtMostOnePending
<1> QED
  BY <1>1, <1>3, <1>4 DEF TxInv

LEMMA TxStep == TxInv /\ [Next]_vars => TxInv'
<1> SUFFICES ASSUME TxInv, [Next]_vars PROVE TxInv'
  OBVIOUS
<1>1. TypeOK'
  BY TypeStep DEF TxInv
<1>2. ASSUME NEW p \in Proposal,
             ReadConversation(p) \/ Insert(p) \/ Announce(p) \/ LoseAnnouncement(p)
      PROVE  TxInv'
  BY <1>1, <1>2, TxFrame
     DEF TxInv, TypeOK, ReadConversation, Insert, Announce, LoseAnnouncement
<1>3. ASSUME NEW p \in Proposal, Rollback(p)
      PROVE  TxInv'
  BY <1>1, <1>3, EndTx DEF TxInv, TypeOK, Rollback
<1>4. ASSUME NEW r \in Responder, PublishResponse(r) \/ LoseResponse(r)
      PROVE  TxInv'
  BY <1>1, <1>4, TxFrame DEF PublishResponse, LoseResponse
<1>5. CASE Confirm \/ BeginDelete \/ AbortDelete \/ UNCHANGED vars
  BY <1>1, <1>5, TxFrame DEF Confirm, BeginDelete, AbortDelete, vars
<1> QED
  BY <1>1, <1>2, <1>3, <1>4, <1>5, TakeLockTx, SupersedeTx, CommitTx, RespondTx,
     DeleteTx DEF Next, ProposeStep

LEMMA TxInvHolds == Spec => []TxInv
BY TxInit, TxStep, PTL DEF Spec

(***************************************************************************)
(* Every value stays in its range (messages.viewing's status and the       *)
(* steps of the two handlers, main.go:1075-1283).                          *)
(***************************************************************************)
THEOREM TypeCorrect == Spec => []TypeOK
<1>1. TxInv => TypeOK
  BY DEF TxInv
<1> QED
  BY <1>1, TxInvHolds, PTL

(***************************************************************************)
(* However many propose requests overlap, roll back and race answers, one  *)
(* conversation has at most one proposal that can be answered              *)
(* (main.go:1129-1147, viewings_race_test.go:94).                          *)
(***************************************************************************)
THEOREM OnePending == Spec => []AtMostOnePending
<1>1. TxInv => AtMostOnePending
  BY DEF TxInv
<1> QED
  BY <1>1, TxInvHolds, PTL

-----------------------------------------------------------------------------
(* Answers.                                                                *)

(***************************************************************************)
(* A closed proposal stays as it was closed while the conversation exists  *)
(* (main.go:1136-1147, 1232-1240).                                         *)
(***************************************************************************)
THEOREM ClosedStaysClosed == Spec => ClosedIsFinal
<1>1. ASSUME TxInv, [Next]_vars, NEW m \in Proposal, viewing[m] \in Final, exists'
      PROVE  viewing'[m] = viewing[m]
  <2>1. viewing[m] \notin {"none", "pending"} /\ m \notin Pending
    BY <1>1 DEF Final, Answers, Pending
  <2>2. ASSUME NEW p \in Proposal, Commit(p)
        PROVE  viewing'[m] = viewing[m]
    <3>1. superseding[p] = Pending /\ viewing[p] = "none"
      BY <1>1, <2>2 DEF TxInv, Commit, RowsInv, FreshInv, InTransaction
    <3> QED
      BY <2>1, <2>2, <3>1 DEF Commit
  <2>3. ASSUME NEW r \in Responder, NEW u \in Party, NEW k \in Proposal,
               NEW a \in Answers, Respond(r, u, k, a)
        PROVE  viewing'[m] = viewing[m]
    BY <1>1, <2>1, <2>3 DEF TxInv, TypeOK, Respond, Answerable
  <2>4. ~FinishDelete
    BY <1>1 DEF FinishDelete
  <2> QED
    BY <1>1, <2>2, <2>3, <2>4
       DEF Next, ProposeStep, ReadConversation, TakeLock, Supersede, Insert, Announce,
           Rollback, LoseAnnouncement, PublishResponse, LoseResponse, Confirm, BeginDelete,
           AbortDelete, vars
<1>2. TxInv /\ [Next]_vars
        => [\A m \in Proposal :
              viewing[m] \in Final => viewing'[m] = viewing[m] \/ ~exists']_vars
  BY <1>1
<1> QED
  BY <1>2, TxInvHolds, PTL DEF Spec, ClosedIsFinal

(***************************************************************************)
(* An answer that is still to be published belongs to one request, is the  *)
(* one the message holds, and was not published before.                    *)
(***************************************************************************)
ToPublish(r, m) == responder[r].pc = "publish" /\ responder[r].message = m
AnswerInv ==
  /\ \A r \in Responder, m \in Proposal :
       ToPublish(r, m) => /\ responses[m] = <<>>
                          /\ exists => viewing[m] = responder[r].answer
  /\ \A r, s \in Responder, m \in Proposal :
       ToPublish(r, m) /\ ToPublish(s, m) => r = s

AnswersInv == AnswerInv /\ OneAnswerAnnounced

\* A step that moves no answer, and changes no message that was answered.
LEMMA AnswersFrame ==
  ASSUME TxInv, AnswersInv, UNCHANGED <<responder, responses>>, exists' => exists,
         \A m \in Proposal :
           viewing[m] \in Answers => viewing'[m] = viewing[m] \/ ~exists'
  PROVE  AnswersInv'
<1>1. \A m \in Proposal : responses[m] \in Seq(Answers)
  BY DEF TxInv, TypeOK
<1>2. \A m \in Proposal : responses[m] # <<>> /\ Len(responses[m]) = 1
                            => responses[m][1] \in Answers
  BY <1>1
<1>3. \A r \in Responder, m \in Proposal :
        ToPublish(r, m) => responder[r].answer \in Answers
  BY DEF ToPublish, TxInv, TypeOK, AtPublish, Idle
<1>4. AnswerInv'
  BY <1>3 DEF AnswersInv, AnswerInv, ToPublish
<1>5. OneAnswerAnnounced'
  BY <1>2 DEF AnswersInv, OneAnswerAnnounced
<1> QED
  BY <1>4, <1>5 DEF AnswersInv

LEMMA AnswersStep == TxInv /\ AnswersInv /\ [Next]_vars => AnswersInv'
<1> SUFFICES ASSUME TxInv, AnswersInv, [Next]_vars PROVE AnswersInv'
  OBVIOUS
<1>1. /\ responder \in [Responder -> {Idle} \cup AtPublish]
      /\ responses \in [Proposal -> Seq(Answers)]
      /\ viewing \in [Proposal -> Final \cup {"none", "pending"}]
  BY DEF TxInv, TypeOK
<1>2. ASSUME NEW r \in Responder, NEW u \in Party, NEW m \in Proposal,
             NEW a \in Answers, Respond(r, u, m, a)
      PROVE  AnswersInv'
  <2>1. viewing[m] = "pending" /\ exists
    BY <1>2 DEF Respond, Answerable
  <2>2. responses[m] = <<>>
    <3>1. SUFFICES ASSUME responses[m] # <<>> PROVE FALSE
      OBVIOUS
    <3>2. Len(responses[m]) = 1 /\ viewing[m] = responses[m][1]
      BY <2>1, <3>1 DEF AnswersInv, OneAnswerAnnounced
    <3>3. responses[m] \in Seq(Answers)
      BY <1>1
    <3>4. responses[m][1] \in Answers
      BY <3>2, <3>3
    <3> QED
      BY <2>1, <3>2, <3>4 DEF Answers
  <2>3. \A s \in Responder : ~ToPublish(s, m)
    <3>1. SUFFICES ASSUME NEW s \in Responder, ToPublish(s, m) PROVE FALSE
      OBVIOUS
    <3>2. responder[s].answer \in Answers
      BY <1>1, <3>1 DEF ToPublish, AtPublish, Idle
    <3>3. viewing[m] = responder[s].answer
      BY <2>1, <3>1 DEF AnswersInv, AnswerInv
    <3> QED
      BY <2>1, <3>2, <3>3 DEF Answers
  <2>4. viewing' = [viewing EXCEPT ![m] = a]
        /\ responder' = [responder EXCEPT
                           ![r] = [pc |-> "publish", message |-> m, answer |-> a]]
        /\ responses' = responses
        /\ exists' = exists
    BY <1>2 DEF Respond, conversation, published
  <2>5. AnswerInv'
    BY <1>1, <2>2, <2>3, <2>4 DEF AnswersInv, AnswerInv, ToPublish
  <2>6. OneAnswerAnnounced'
    BY <1>1, <2>2, <2>4 DEF AnswersInv, OneAnswerAnnounced
  <2> QED
    BY <2>5, <2>6 DEF AnswersInv
<1>3. ASSUME NEW r \in Responder, PublishResponse(r)
      PROVE  AnswersInv'
  <2> DEFINE m == responder[r].message
             a == responder[r].answer
  <2>1. m \in Proposal /\ a \in Answers /\ ToPublish(r, m)
    BY <1>1, <1>3 DEF PublishResponse, ToPublish, AtPublish, Idle
  <2>2. responses[m] = <<>> /\ (exists => viewing[m] = a)
    BY <2>1 DEF AnswersInv, AnswerInv
  <2>3. /\ responses' = [responses EXCEPT ![m] = <<a>>]
        /\ responder' = [responder EXCEPT ![r] = Idle]
        /\ UNCHANGED <<viewing, exists>>
    BY <1>1, <1>3, <2>1, <2>2 DEF PublishResponse, conversation
  <2>4. AnswerInv'
    BY <1>1, <2>1, <2>3 DEF AnswersInv, AnswerInv, ToPublish, Idle
  <2>5. OneAnswerAnnounced'
    BY <1>1, <2>1, <2>2, <2>3 DEF AnswersInv, OneAnswerAnnounced
  <2> QED
    BY <2>4, <2>5 DEF AnswersInv
<1>4. ASSUME NEW r \in Responder, LoseResponse(r)
      PROVE  AnswersInv'
  BY <1>1, <1>4 DEF LoseResponse, conversation, published, AnswersInv, AnswerInv,
                    OneAnswerAnnounced, ToPublish, Idle
<1>5. ASSUME NEW p \in Proposal, Commit(p)
      PROVE  AnswersInv'
  <2>1. superseding[p] = Pending /\ viewing[p] = "none"
    BY <1>5 DEF TxInv, Commit, RowsInv, FreshInv, InTransaction
  <2>2. \A m \in Proposal : viewing[m] \in Answers => viewing'[m] = viewing[m]
    BY <1>5, <2>1 DEF Commit, Pending, Answers
  <2> QED
    BY <1>5, <2>2, AnswersFrame DEF Commit, conversation, published
<1>6. CASE UNCHANGED viewing /\ UNCHANGED <<responder, responses, exists>>
  BY <1>6, AnswersFrame
<1>7. CASE FinishDelete
  BY <1>7, AnswersFrame DEF FinishDelete, published
<1> QED
  BY <1>2, <1>3, <1>4, <1>5, <1>6, <1>7
     DEF Next, ProposeStep, ReadConversation, TakeLock, Supersede, Insert, Announce,
         Rollback, LoseAnnouncement, Confirm, BeginDelete, AbortDelete, conversation,
         published, vars

(***************************************************************************)
(* Of any number of answers that race, one is stored and at most that one  *)
(* is published (main.go:1232-1280, viewings_race_test.go:24).             *)
(***************************************************************************)
THEOREM AnswersAgree == Spec => []OneAnswerAnnounced
<1>1. Init => AnswersInv
  BY DEF Init, AnswersInv, AnswerInv, OneAnswerAnnounced, ToPublish, Idle
<1>2. AnswersInv => OneAnswerAnnounced
  BY DEF AnswersInv
<1> QED
  BY <1>1, <1>2, AnswersStep, TxInvHolds, PTL DEF Spec

-----------------------------------------------------------------------------
(* What was announced, and the refinement.                                 *)

\* A message is in the conversation from its commit on, announced or not.
StoredInv ==
  \A p \in Proposal :
    pc[p] = "committed" \/ p \in announced => ~exists \/ viewing[p] # "none"

(***************************************************************************)
(* A notification is never about a proposal that was rolled back           *)
(* (main.go:1165-1184).                                                    *)
(***************************************************************************)
THEOREM AnnouncedAreStored == Spec => []AnnouncedIsStored
<1>1. Init => StoredInv
  BY DEF Init, StoredInv
<1>2. TxInv /\ StoredInv /\ [Next]_vars => StoredInv'
  <2> SUFFICES ASSUME TxInv, StoredInv, [Next]_vars PROVE StoredInv'
    OBVIOUS
  <2> USE DEF TxInv, TypeOK, StoredInv, conversation, published
  <2>1. ASSUME NEW p \in Proposal,
               ReadConversation(p) \/ TakeLock(p) \/ Supersede(p) \/ Insert(p)
               \/ Announce(p) \/ LoseAnnouncement(p)
        PROVE  StoredInv'
    BY <2>1 DEF ReadConversation, TakeLock, Supersede, Insert, Announce,
                LoseAnnouncement
  <2>2. ASSUME NEW p \in Proposal, Commit(p) PROVE StoredInv'
    BY <2>2 DEF Commit
  <2>3. ASSUME NEW p \in Proposal, Rollback(p) PROVE StoredInv'
    BY <2>3 DEF Rollback, InTransaction
  <2>4. ASSUME NEW r \in Responder, NEW u \in Party, NEW m \in Proposal,
               NEW a \in Answers, Respond(r, u, m, a)
        PROVE  StoredInv'
    BY <2>4 DEF Respond, Answers
  <2>5. ASSUME NEW r \in Responder, PublishResponse(r) \/ LoseResponse(r)
        PROVE  StoredInv'
    BY <2>5 DEF PublishResponse, LoseResponse
  <2>6. CASE Confirm \/ BeginDelete \/ FinishDelete \/ AbortDelete \/ UNCHANGED vars
    BY <2>6 DEF Confirm, BeginDelete, FinishDelete, AbortDelete, vars
  <2> HIDE DEF TxInv, TypeOK, StoredInv
  <2> QED
    BY <2>1, <2>2, <2>3, <2>4, <2>5, <2>6 DEF Next, ProposeStep
<1>3. TxInv /\ StoredInv => AnnouncedIsStored
  BY DEF TxInv, TypeOK, StoredInv, AnnouncedIsStored
<1> QED
  BY <1>1, <1>2, <1>3, TxInvHolds, PTL DEF Spec

LEMMA SlotOf ==
  ASSUME AtMostOnePending
  PROVE  /\ Pending = {} => Slot = NoProposal
         /\ \A p \in Pending : Slot = p
BY DEF AtMostOnePending, Slot

LEMMA SlotFrame ==
  ASSUME UNCHANGED viewing
  PROVE  UNCHANGED <<Slot, Closed>>
BY DEF Slot, Closed, Pending

LEMMA CommitIsPropose ==
  ASSUME TxInv, TxInv', NEW p \in Proposal, Commit(p), Pending' = {p}
  PROVE  Abstract!Propose(p)
<1>1. superseding[p] = Pending /\ viewing[p] = "none"
  BY DEF TxInv, Commit, RowsInv, FreshInv, InTransaction
<1>2. p \notin Pending /\ (Pending = {} \/ \E q \in Proposal : Pending = {q})
  BY <1>1 DEF TxInv, AtMostOnePending, Pending
<1>3. Slot' = p
  BY DEF Slot
<1>4. p # Slot
  BY <1>2, SlotOf, NoProposalAssumption DEF TxInv
<1>5. Closed[p] = "none"
  BY <1>1 DEF Closed
<1>6. ASSUME NEW q \in Proposal
      PROVE  Closed'[q] = IF q = Slot THEN "superseded" ELSE Closed[q]
  <2>1. q = Slot <=> q \in Pending
    BY <1>2, SlotOf, NoProposalAssumption DEF TxInv
  <2>2. viewing'[q] = IF q = p THEN "pending"
                      ELSE IF q \in Pending THEN "superseded" ELSE viewing[q]
    BY <1>1 DEF Commit
  <2>3. Closed'[q] = (IF viewing'[q] = "pending" THEN "none" ELSE viewing'[q])
        /\ Closed[q] = (IF viewing[q] = "pending" THEN "none" ELSE viewing[q])
    BY DEF Closed
  <2> QED
    BY <1>1, <2>1, <2>2, <2>3 DEF Pending
<1>7. Closed' = [q \in Proposal |-> IF q = Slot THEN "superseded" ELSE Closed[q]]
  BY <1>6 DEF Closed
<1> QED
  BY <1>3, <1>4, <1>5, <1>7 DEF Abstract!Propose

LEMMA RespondIsAnswer ==
  ASSUME TxInv, NEW r \in Responder, NEW u \in Party, NEW m \in Proposal,
         NEW a \in Answers, Respond(r, u, m, a), Pending = {m}, Pending' = {}
  PROVE  Abstract!Answer(a)
<1>1. Slot = m /\ Slot' = NoProposal
  BY DEF Slot
<1>2. ASSUME NEW q \in Proposal
      PROVE  Closed'[q] = IF q = m THEN a ELSE Closed[q]
  BY DEF TxInv, TypeOK, Respond, Closed, Answers
<1>3. Closed' = [Closed EXCEPT ![m] = a]
  BY <1>2 DEF Closed
<1> QED
  BY <1>1, <1>3 DEF Abstract!Answer

LEMMA DeleteIsVanish ==
  ASSUME FinishDelete, Pending' = {}
  PROVE  Abstract!Vanish
BY DEF FinishDelete, Slot, Closed, Abstract!Vanish

(***************************************************************************)
(* The handlers implement the abstract slot: a commit proposes, an answer's*)
(* UPDATE answers, the deletion of the listing empties it, and every other *)
(* statement is invisible (handleProposeViewing, handleRespondViewing,     *)
(* main.go:1075-1283).                                                     *)
(***************************************************************************)
THEOREM Refinement == Spec => ImplementsSlot
<1>1. Init => Abstract!Init
  <2> SUFFICES ASSUME Init PROVE Abstract!Init
    OBVIOUS
  <2>1. Pending = {}
    BY DEF Init, Pending
  <2>2. Closed = [p \in Proposal |-> "none"]
    BY DEF Init, Closed
  <2> QED
    BY <2>1, <2>2 DEF Slot, Abstract!Init
<1>2. TxInv /\ TxInv' /\ [Next]_vars => [Abstract!Next]_<<Slot, Closed>>
  <2> SUFFICES ASSUME TxInv, TxInv', [Next]_vars
               PROVE  Abstract!Next \/ UNCHANGED <<Slot, Closed>>
    OBVIOUS
  <2>1. TypeOK'
    BY DEF TxInv
  <2>2. ASSUME NEW p \in Proposal, Commit(p)
        PROVE  Abstract!Next
    BY <2>1, <2>2, CommitTx, CommitIsPropose DEF Abstract!Next
  <2>3. ASSUME NEW r \in Responder, NEW u \in Party, NEW m \in Proposal,
               NEW a \in Answers, Respond(r, u, m, a)
        PROVE  Abstract!Next
    BY <2>1, <2>3, RespondTx, RespondIsAnswer DEF Abstract!Next, Answers, Abstract!Answers
  <2>4. CASE FinishDelete
    BY <2>1, <2>4, DeleteTx, DeleteIsVanish DEF Abstract!Next
  <2>5. CASE UNCHANGED viewing
    BY <2>5, SlotFrame
  <2> QED
    BY <2>2, <2>3, <2>4, <2>5
       DEF Next, ProposeStep, ReadConversation, TakeLock, Supersede, Insert, Announce,
           Rollback, LoseAnnouncement, PublishResponse, LoseResponse, Confirm, BeginDelete,
           AbortDelete, vars
<1> QED
  BY <1>1, <1>2, TxInvHolds, PTL DEF Spec, ImplementsSlot, Abstract!Spec
=============================================================================
