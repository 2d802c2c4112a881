--------------------------- MODULE AccountsProofs ---------------------------
(***************************************************************************)
(* What Accounts promises for any number of addresses, accounts at Clerk,  *)
(* requests and purges.                                                    *)
(***************************************************************************)
EXTENDS Accounts, TLAPS

-----------------------------------------------------------------------------
(* Types.                                                                  *)

LEMMA RowType ==
  ASSUME TypeOK, NEW i \in Id, IsRow(i)
  PROVE  users[i] \in Row
BY DEF TypeOK, IsRow, NoRow, Purged

LEMMA RequestType ==
  ASSUME TypeOK, NEW q \in Request
  PROVE  /\ request[q].pc \in {"check", "upsert"} => request[q] \in Verifying
         /\ request[q].pc \in {"grant", "mark"} => request[q] \in Redeeming
         /\ request[q] # Idle => request[q] \in Verifying \cup Redeeming
BY DEF TypeOK, Idle, Verifying, Redeeming

\* A request that ends, and one that goes on.
LEMMA FinishType ==
  ASSUME TypeOK, NEW q \in Request, Finish(q)
  PROVE  /\ request' \in [Request -> {Idle} \cup Verifying \cup Redeeming]
         /\ older' \in [Request -> SUBSET Id]
BY DEF TypeOK, Finish

LEMMA GotoType ==
  ASSUME TypeOK, NEW q \in Request, NEW pc, Goto(q, pc),
         [request[q] EXCEPT !.pc = pc] \in Verifying \cup Redeeming
  PROVE  /\ request' \in [Request -> {Idle} \cup Verifying \cup Redeeming]
         /\ older' \in [Request -> SUBSET Id]
BY DEF TypeOK, Goto

LEMMA BeginType ==
  ASSUME TypeOK, NEW q \in Request, NEW r \in Verifying \cup Redeeming, Begin(q, r)
  PROVE  /\ request' \in [Request -> {Idle} \cup Verifying \cup Redeeming]
         /\ older' \in [Request -> SUBSET Id]
BY DEF TypeOK, Begin

LEMMA NewRowType ==
  ASSUME TypeOK, NEW i \in Id, NEW k \in Clerk, NEW e \in Email,
         NEW b \in BOOLEAN, NewRow(i, k, e, b)
  PROVE  users' \in [Id -> {NoRow, Purged} \cup Row]
BY DEF TypeOK, NewRow, Row

LEMMA RequestTypeStep ==
  ASSUME TypeOK, NEW q \in Request, RequestStep(q)
  PROVE  TypeOK'
<1> USE DEF clerk, invites
<1>1. CASE CheckDeleted(q)
  <2>1. [request[q] EXCEPT !.pc = "upsert"] \in Verifying
    BY <1>1, RequestType DEF CheckDeleted, Verifying
  <2>2. Finish(q) \/ Goto(q, "upsert")
    BY <1>1 DEF CheckDeleted
  <2>3. /\ request' \in [Request -> {Idle} \cup Verifying \cup Redeeming]
        /\ older' \in [Request -> SUBSET Id]
    BY <2>1, <2>2, FinishType, GotoType
  <2> QED
    BY <1>1, <2>3 DEF TypeOK, CheckDeleted
<1>2. ASSUME NEW i \in Id, UpdateRow(q, i)
      PROVE  TypeOK'
  <2>1. request[q] \in Verifying
    BY <1>2, RequestType DEF UpdateRow
  <2>2. users[i] \in Row
    BY <1>2, RowType DEF UpdateRow, Of
  <2> DEFINE b == request[q].email \in Edu
  <2>3. b \in BOOLEAN
    OBVIOUS
  <2>5. users' = [users EXCEPT ![i].clerk = request[q].clerk, ![i].verified = b]
    BY <1>2 DEF UpdateRow
  <2> HIDE DEF b
  <2>6. [users[i] EXCEPT !.clerk = request[q].clerk, !.verified = b] \in Row
    BY <2>1, <2>2, <2>3 DEF Row, Verifying
  <2>4. users' \in [Id -> {NoRow, Purged} \cup Row]
    BY <2>5, <2>6 DEF TypeOK
  <2> QED
    BY <1>2, <2>4, FinishType DEF TypeOK, UpdateRow
<1>3. ASSUME NEW i \in Id, InsertRow(q, i)
      PROVE  TypeOK'
  <2>1. request[q] \in Verifying
    BY <1>3, RequestType DEF InsertRow
  <2> DEFINE b == request[q].email \in Edu
  <2>3. b \in BOOLEAN
    OBVIOUS
  <2>4. NewRow(i, request[q].clerk, request[q].email, b)
    BY <1>3 DEF InsertRow
  <2> HIDE DEF b
  <2>2. users' \in [Id -> {NoRow, Purged} \cup Row]
    BY <2>1, <2>3, <2>4, NewRowType DEF Verifying
  <2> QED
    BY <1>3, <2>2, FinishType DEF TypeOK, InsertRow
<1>4. CASE UpsertClashes(q) \/ GrantClashes(q)
  BY <1>4, FinishType DEF TypeOK, UpsertClashes, GrantClashes
<1>5. ASSUME NEW i \in Id, GrantToRow(q, i) \/ GrantNewRow(q, i)
      PROVE  TypeOK'
  <2>1. request[q] \in Redeeming
    BY <1>5, RequestType DEF GrantToRow, GrantNewRow
  <2>2. request[q].clerk \in Clerk /\ request[q].email \in Invitable
    BY <2>1 DEF Redeeming
  <2>3. [request[q] EXCEPT !.pc = "mark"] \in Redeeming
    BY <2>1 DEF Redeeming
  <2>4. Goto(q, "mark")
    BY <1>5 DEF GrantToRow, GrantNewRow
  <2>5. /\ request' \in [Request -> {Idle} \cup Verifying \cup Redeeming]
        /\ older' \in [Request -> SUBSET Id]
    BY <2>3, <2>4, GotoType
  <2>6. vouched' \in [Invitable -> SUBSET Id]
    <3>1. vouched' = [vouched EXCEPT ![request[q].email] = @ \cup {i}]
      BY <1>5 DEF GrantToRow, GrantNewRow
    <3>2. vouched[request[q].email] \cup {i} \in SUBSET Id
      BY <2>2 DEF TypeOK
    <3> QED
      BY <3>1, <3>2 DEF TypeOK
  <2>7. users' \in [Id -> {NoRow, Purged} \cup Row]
    <3>1. CASE GrantToRow(q, i)
      <4>1. users[i] \in Row
        BY <3>1, RowType DEF GrantToRow, Mine
      <4>2. [users[i] EXCEPT !.verified = TRUE] \in Row
        BY <4>1 DEF Row
      <4> QED
        BY <3>1, <4>2 DEF TypeOK, GrantToRow
    <3>2. CASE GrantNewRow(q, i)
      BY <2>2, <3>2, NewRowType DEF GrantNewRow, Invitable
    <3> QED
      BY <1>5, <3>1, <3>2
  <2> QED
    BY <1>5, <2>5, <2>6, <2>7 DEF TypeOK, GrantToRow, GrantNewRow
<1>6. CASE MarkRedeemed(q)
  <2>1. request[q].email \in Invitable
    BY <1>6, RequestType DEF MarkRedeemed, Redeeming
  <2>2. invite' \in [Invitable ->
                      {"none", "pending", "approved", "rejected", "redeemed"}]
    BY <1>6, <2>1 DEF TypeOK, MarkRedeemed
  <2> QED
    BY <1>6, <2>2, FinishType DEF TypeOK, MarkRedeemed
<1> QED
  BY <1>1, <1>2, <1>3, <1>4, <1>5, <1>6 DEF RequestStep

LEMMA DoneType ==
  ASSUME TypeOK, NEW p \in Purger, NEW u \in User, Done(p, u)
  PROVE  purger' \in [Purger -> [batch: SUBSET User, doomed: SUBSET User]]
BY DEF TypeOK, Done

LEMMA PurgeTypeStep ==
  ASSUME TypeOK, NEW p \in Purger
  PROVE  /\ PurgeStep(p) \/ PurgeStops(p) => TypeOK'
         /\ \A u \in User : SkipUser(p, u) => TypeOK'
<1> USE DEF clerk, invites, Fault
<1>1. CASE SelectDue(p)
  <2>1. PICK S \in SUBSET Due :
          purger' = [purger EXCEPT ![p].batch =
                       {[id |-> i, clerk |-> users[i].clerk] : i \in S}]
    BY <1>1 DEF SelectDue
  <2>2. \A i \in S : i \in Id /\ users[i] \in Row
    BY RowType DEF Due
  <2>3. {[id |-> i, clerk |-> users[i].clerk] : i \in S} \in SUBSET User
    BY <2>2 DEF User, Row
  <2>4. purger' \in [Purger -> [batch: SUBSET User, doomed: SUBSET User]]
    BY <2>1, <2>3 DEF TypeOK
  <2> QED
    BY <1>1, <2>4 DEF TypeOK, SelectDue
<1>2. ASSUME NEW u \in User, RemoveClerk(p, u)
      PROVE  TypeOK'
  <2>1. primary' \in [Clerk -> Email \cup {NotYet, Gone}]
    BY <1>2 DEF TypeOK, RemoveClerk, User
  <2> QED
    BY <1>2, <2>1 DEF TypeOK, RemoveClerk
<1>3. ASSUME NEW u \in User, DeleteRow(p, u)
      PROVE  TypeOK'
  <2>1. users' \in [Id -> {NoRow, Purged} \cup Row]
    BY <1>3 DEF TypeOK, DeleteRow, User
  <2>2. purger' \in [Purger -> [batch: SUBSET User, doomed: SUBSET User]]
    BY <1>3, DoneType DEF DeleteRow
  <2>3. UNCHANGED <<primary, held, invite, signed, vouched, request, older, faults>>
    BY <1>3 DEF DeleteRow
  <2> QED
    BY <2>1, <2>2, <2>3 DEF TypeOK
<1>4. ASSUME NEW u \in User, SkipUser(p, u)
      PROVE  TypeOK'
  BY <1>4, DoneType DEF TypeOK, SkipUser
<1>5. CASE PurgeStops(p)
  BY <1>5 DEF TypeOK, PurgeStops, Asleep
<1> QED
  BY <1>1, <1>2, <1>3, <1>4, <1>5 DEF PurgeStep

LEMMA TypeStep == TypeOK /\ [Next]_vars => TypeOK'
<1> SUFFICES ASSUME TypeOK, [Next]_vars PROVE TypeOK'
  OBVIOUS
<1> USE DEF clerk, invites
<1>1. CASE UNCHANGED vars
  BY <1>1 DEF TypeOK, vars
<1>2. ASSUME NEW k \in Clerk, LeaveClerk(k)
      PROVE  TypeOK'
  BY <1>2 DEF TypeOK, LeaveClerk
<1>3. ASSUME NEW k \in Clerk, NEW e \in Email, TakeAddress(k, e)
      PROVE  TypeOK'
  BY <1>3 DEF TypeOK, TakeAddress
<1>4. ASSUME NEW q \in Request, NEW k \in Clerk, ReadPrimaryEmail(q, k)
      PROVE  TypeOK'
  <2>1. [pc |-> "check", clerk |-> k, email |-> primary[k]] \in Verifying
    BY <1>4 DEF ReadPrimaryEmail, HasAccount, Verifying
  <2> QED
    BY <1>4, <2>1, BeginType DEF TypeOK, ReadPrimaryEmail
<1>5. ASSUME NEW q \in Request, NEW k \in Clerk, NEW e \in Invitable, ReadInvite(q, k, e)
      PROVE  TypeOK'
  <2>1. [pc |-> "grant", clerk |-> k, email |-> e] \in Redeeming
    BY DEF Redeeming
  <2> QED
    BY <1>5, <2>1, BeginType DEF TypeOK, ReadInvite
<1>6. ASSUME NEW q \in Request, RequestFails(q)
      PROVE  TypeOK'
  BY <1>6, FinishType DEF TypeOK, RequestFails, Fault
<1>7. ASSUME NEW k \in Clerk, NEW i \in Id, SoftDelete(k, i)
      PROVE  TypeOK'
  <2>1. users[i] \in Row
    BY <1>7, RowType DEF SoftDelete, Mine
  <2>2. [users[i] EXCEPT !.deleted = "waiting", !.verified = FALSE] \in Row
    BY <2>1 DEF Row
  <2>3. older' \in [Request -> SUBSET Id]
    BY <1>7 DEF TypeOK, SoftDelete
  <2> QED
    BY <1>7, <2>2, <2>3 DEF TypeOK, SoftDelete
<1>8. ASSUME NEW i \in Id, DaysPass(i)
      PROVE  TypeOK'
  <2>1. users[i] \in Row
    BY <1>8, RowType DEF DaysPass
  <2>2. [users[i] EXCEPT !.deleted = "due"] \in Row
    BY <2>1 DEF Row
  <2> QED
    BY <1>8, <2>2 DEF TypeOK, DaysPass
<1>9. ASSUME NEW e \in Invitable,
             \/ RequestInvite(e) \/ VerifyLink(e) \/ TokensExpire(e)
             \/ \E status \in {"approved", "rejected"} : Decide(e, status)
      PROVE  TypeOK'
  BY <1>9 DEF TypeOK, RequestInvite, VerifyLink, TokensExpire, Decide
<1> QED
  BY <1>1, <1>2, <1>3, <1>4, <1>5, <1>6, <1>7, <1>8, <1>9,
     RequestTypeStep, PurgeTypeStep DEF Next

LEMMA TypeInit == Init => TypeOK
BY DEF Init, TypeOK, Asleep

(***************************************************************************)
(* Every variable keeps its range: a request that redeems has an invite's  *)
(* address, a purge has ids and clerk_ids (index.js:333-388, 655-770).     *)
(***************************************************************************)
THEOREM TypeCorrect == Spec => []TypeOK
BY TypeInit, TypeStep, PTL DEF Spec

-----------------------------------------------------------------------------
(* Deletion and the purge.                                                 *)

\* clerk_id is unique.
OneRowEach ==
  \A i, j \in Id : IsRow(i) /\ IsRow(j) /\ users[i].clerk = users[j].clerk => i = j

(***************************************************************************)
(* A verify-edu that found its address not deleted and now finds it deleted*)
(* began before the deletion ...                                           *)
(***************************************************************************)
CheckInv ==
  \A q \in Request :
    request[q].pc = "upsert"
      => \A i \in Of(request[q].email) : Deleted(i) => i \in older[q]

\* ... which was not 30 days ago.
DueInv ==
  \A i \in Due, q \in Request : i \notin older[q]

\* What a purge has read still holds, or another purge is done with it.
StillDue(u) == u.id \in Due /\ users[u.id].clerk = u.clerk
PurgedWhole(u) == users[u.id] = Purged /\ primary[u.clerk] = Gone
BatchInv ==
  \A p \in Purger : \A u \in purger[p].batch : StillDue(u) \/ PurgedWhole(u)

\* The row that is deleted next was read, and its account at Clerk is gone.
DoomedInv ==
  \A p \in Purger :
    /\ purger[p].doomed \subseteq purger[p].batch
    /\ \A u \in purger[p].doomed : primary[u.clerk] = Gone

PurgeInv == TypeOK /\ OneRowEach /\ CheckInv /\ DueInv /\ BatchInv /\ DoomedInv

\* No step brings back a row, an account at Clerk, or takes a due row's mark.
Frame ==
  /\ \A i \in Due : users'[i] = users[i] \/ users'[i] = [users[i] EXCEPT !.verified = TRUE]
  /\ \A i \in Id : users[i] = Purged => users'[i] = Purged
  /\ \A k \in Clerk : primary[k] = Gone => primary'[k] = Gone

LEMMA BatchFrame ==
  ASSUME PurgeInv, TypeOK', Frame,
         \A p \in Purger : /\ purger'[p].batch \subseteq purger[p].batch
                           /\ purger'[p].doomed \subseteq purger[p].doomed
                           /\ purger'[p].doomed \subseteq purger'[p].batch
  PROVE  BatchInv' /\ DoomedInv'
<1>1. ASSUME NEW p \in Purger, NEW u \in purger'[p].batch
      PROVE  (StillDue(u) \/ PurgedWhole(u))'
  <2>1. u \in User /\ (StillDue(u) \/ PurgedWhole(u))
    BY <1>1 DEF PurgeInv, TypeOK, BatchInv
  <2>2. CASE StillDue(u)
    <3>1. u.id \in Id /\ users[u.id] \in Row
      BY <2>2, RowType DEF StillDue, Due, PurgeInv
    <3>2. users'[u.id] = users[u.id]
          \/ users'[u.id] = [users[u.id] EXCEPT !.verified = TRUE]
      BY <2>2 DEF StillDue, Frame
    <3> QED
      BY <2>2, <3>1, <3>2 DEF StillDue, Due, IsRow, Row
  <2>3. CASE PurgedWhole(u)
    BY <2>1, <2>3 DEF PurgedWhole, Frame, User
  <2> QED
    BY <2>1, <2>2, <2>3
<1>2. ASSUME NEW p \in Purger
      PROVE  /\ purger'[p].doomed \subseteq purger'[p].batch
             /\ \A u \in purger'[p].doomed : primary'[u.clerk] = Gone
  <2>1. \A u \in purger'[p].doomed : u \in User /\ primary[u.clerk] = Gone
    BY <1>2 DEF PurgeInv, TypeOK, DoomedInv
  <2> QED
    BY <1>2, <2>1 DEF Frame, User
<1> QED
  BY <1>1, <1>2 DEF BatchInv, DoomedInv

(***************************************************************************)
(* The rows of verify-edu's upsert are not due: a due row has a request    *)
(* that is older than 30 days, and there is none.                          *)
(***************************************************************************)
LEMMA UpdatedIsNotDue ==
  ASSUME PurgeInv, NEW q \in Request, NEW i \in Id, UpdateRow(q, i)
  PROVE  i \notin Due
BY DEF PurgeInv, CheckInv, DueInv, UpdateRow, Of, Due, Deleted

\* What the upsert leaves as it was.
LEMMA UpdateRowEffect ==
  ASSUME TypeOK, NEW q \in Request, NEW i \in Id, UpdateRow(q, i)
  PROVE  /\ \A j \in Id \ {i} : users'[j] = users[j]
         /\ IsRow(i) /\ IsRow(i)'
         /\ users'[i].clerk = request[q].clerk
         /\ users'[i].email = users[i].email
         /\ users'[i].deleted = users[i].deleted
<1> DEFINE b == request[q].email \in Edu
<1>1. users' = [users EXCEPT ![i].clerk = request[q].clerk, ![i].verified = b]
  BY DEF UpdateRow
<1> HIDE DEF b
<1>2. users[i] \in Row
  BY RowType DEF UpdateRow, Of
<1> QED
  BY <1>1, <1>2 DEF TypeOK, IsRow, Row

LEMMA NewRowEffect ==
  ASSUME TypeOK, NEW q \in Request, NEW i \in Id,
         InsertRow(q, i) \/ GrantNewRow(q, i)
  PROVE  /\ users[i] = NoRow
         /\ \A j \in Id \ {i} : users'[j] = users[j]
         /\ users'[i].clerk = request[q].clerk
         /\ users'[i].deleted = "no"
         /\ Mine(request[q].clerk) = {}
<1> DEFINE b == request[q].email \in Edu
<1>1. NewRow(i, request[q].clerk, request[q].email, b)
      \/ NewRow(i, request[q].clerk, request[q].email, TRUE)
  BY DEF InsertRow, GrantNewRow
<1> HIDE DEF b
<1> QED
  BY <1>1 DEF TypeOK, InsertRow, GrantNewRow, Fresh, NewRow

LEMMA GrantEffect ==
  ASSUME TypeOK, NEW q \in Request, NEW i \in Id, GrantToRow(q, i)
  PROVE  \A j \in Id :
           \/ users'[j] = users[j]
           \/ users[j] \in Row /\ users'[j] = [users[j] EXCEPT !.verified = TRUE]
<1>1. users[i] \in Row
  BY RowType DEF GrantToRow, Mine
<1> QED
  BY <1>1 DEF TypeOK, GrantToRow

LEMMA FrameStep ==
  PurgeInv /\ [Next]_vars
    => Frame \/ \E p \in Purger, u \in User : DeleteRow(p, u)
<1> SUFFICES ASSUME PurgeInv, [Next]_vars,
                    ~ \E p \in Purger, u \in User : DeleteRow(p, u)
             PROVE  Frame
  OBVIOUS
<1>1. TypeOK
  BY DEF PurgeInv
<1>2. ASSUME NEW k \in Clerk, LeaveClerk(k) \/ \E e \in Email : TakeAddress(k, e)
      PROVE  Frame
  BY <1>1, <1>2 DEF TypeOK, Frame, LeaveClerk, TakeAddress, Due
<1>3. ASSUME NEW q \in Request, NEW i \in Id, UpdateRow(q, i)
      PROVE  Frame
  <2>1. i \notin Due /\ users[i] # Purged
    BY <1>1, <1>3, UpdatedIsNotDue, UpdateRowEffect DEF IsRow, Purged
  <2>2. UNCHANGED primary
    BY <1>3 DEF UpdateRow, clerk
  <2> QED
    BY <1>1, <1>3, <2>1, <2>2, UpdateRowEffect DEF Frame, Due
<1>4. ASSUME NEW q \in Request, NEW i \in Id, InsertRow(q, i) \/ GrantNewRow(q, i)
      PROVE  Frame
  <2>1. i \notin Due /\ users[i] # Purged
    BY <1>1, <1>4, NewRowEffect DEF Due, IsRow, NoRow, Purged
  <2>2. UNCHANGED primary
    BY <1>4 DEF InsertRow, GrantNewRow, clerk
  <2> QED
    BY <1>1, <1>4, <2>1, <2>2, NewRowEffect DEF Frame, Due
<1>5. ASSUME NEW q \in Request, NEW i \in Id, GrantToRow(q, i)
      PROVE  Frame
  <2>1. users[i] # Purged /\ UNCHANGED primary
    BY <1>5 DEF GrantToRow, Mine, IsRow, Purged, clerk
  <2>2. \A j \in Id \ {i} : users'[j] = users[j]
    BY <1>1, <1>5 DEF TypeOK, GrantToRow
  <2> QED
    BY <1>1, <1>5, <2>1, <2>2, GrantEffect DEF Frame, Due
<1>6. ASSUME NEW k \in Clerk, NEW i \in Id, SoftDelete(k, i)
      PROVE  Frame
  BY <1>1, <1>6 DEF TypeOK, SoftDelete, Frame, Mine, Deleted, IsRow, Due, Purged, clerk
<1>7. ASSUME NEW i \in Id, DaysPass(i)
      PROVE  Frame
  BY <1>1, <1>7 DEF TypeOK, DaysPass, Frame, IsRow, Due, Purged, clerk
<1>8. ASSUME NEW p \in Purger, NEW u \in User, RemoveClerk(p, u)
      PROVE  Frame
  BY <1>1, <1>8 DEF TypeOK, RemoveClerk, Frame, Due
<1>9. CASE UNCHANGED <<users, primary>>
  BY <1>9 DEF Frame, Due
<1> QED
  BY <1>2, <1>3, <1>4, <1>5, <1>6, <1>7, <1>8, <1>9
     DEF Next, ReadPrimaryEmail, ReadInvite, RequestStep, CheckDeleted,
         UpsertClashes, GrantClashes, MarkRedeemed, RequestFails, RequestInvite,
         VerifyLink, TokensExpire, Decide, PurgeStep, SelectDue, PurgeStops,
         SkipUser, clerk, vars
LEMMA BatchStep ==
  ASSUME PurgeInv, TypeOK', [Next]_vars
  PROVE  BatchInv' /\ DoomedInv'
<1>0. TypeOK
  BY DEF PurgeInv
<1>1. ASSUME NEW p \in Purger, NEW u \in User, DeleteRow(p, u)
      PROVE  BatchInv' /\ DoomedInv'
  <2>1. /\ u \in purger[p].batch /\ primary[u.clerk] = Gone
        /\ StillDue(u) \/ users[u.id] = Purged
    BY <1>1 DEF DeleteRow, PurgeInv, DoomedInv, BatchInv, PurgedWhole
  <2>2. /\ users' = [users EXCEPT ![u.id] = Purged]
        /\ UNCHANGED primary
        /\ purger' = [purger EXCEPT ![p].batch = @ \ {u}, ![p].doomed = {}]
    BY <1>1 DEF DeleteRow, Done, clerk
  <2>3. \A r \in Purger : /\ purger'[r].batch \subseteq purger[r].batch
                          /\ purger'[r].doomed \subseteq purger[r].doomed
                          /\ purger'[r].doomed \subseteq purger'[r].batch
    BY <1>0, <2>2 DEF TypeOK, PurgeInv, DoomedInv
  <2>4. ASSUME NEW r \in Purger, NEW v \in purger'[r].batch
        PROVE  (StillDue(v) \/ PurgedWhole(v))'
    <3>1. v \in User /\ (StillDue(v) \/ PurgedWhole(v))
      BY <1>0, <2>3, <2>4 DEF TypeOK, PurgeInv, BatchInv
    <3>2. CASE v.id # u.id
      <4>1. users'[v.id] = users[v.id]
        BY <1>0, <2>2, <3>1, <3>2 DEF TypeOK, User
      <4> QED
        BY <2>2, <3>1, <4>1 DEF StillDue, PurgedWhole, Due, IsRow
    <3>3. CASE v.id = u.id
      <4>1. users'[v.id] = Purged
        BY <1>0, <2>2, <3>1, <3>3 DEF TypeOK, User
      <4>2. primary[v.clerk] = Gone
        BY <2>1, <3>1, <3>3 DEF StillDue, PurgedWhole, Due, IsRow, Purged
      <4> QED
        BY <2>2, <4>1, <4>2 DEF PurgedWhole
    <3> QED
      BY <3>2, <3>3
  <2>5. BatchInv'
    BY <2>4 DEF BatchInv
  <2>6. DoomedInv'
    BY <2>2, <2>3 DEF PurgeInv, DoomedInv
  <2> QED
    BY <2>5, <2>6
<1>2. ASSUME NEW p \in Purger, SelectDue(p)
      PROVE  BatchInv' /\ DoomedInv'
  <2>1. PICK S \in SUBSET Due :
          purger' = [purger EXCEPT ![p].batch =
                       {[id |-> i, clerk |-> users[i].clerk] : i \in S}]
    BY <1>2 DEF SelectDue
  <2>2. UNCHANGED <<users, primary>> /\ purger[p].doomed = {}
    BY <1>2 DEF SelectDue, clerk, Asleep
  <2>3. \A u \in purger'[p].batch : StillDue(u)
    BY <1>0, <2>1 DEF TypeOK, StillDue
  <2>4. purger'[p].doomed = {} /\ \A r \in Purger \ {p} : purger'[r] = purger[r]
    BY <1>0, <2>1, <2>2 DEF TypeOK
  <2> QED
    BY <2>2, <2>3, <2>4
       DEF PurgeInv, BatchInv, DoomedInv, StillDue, PurgedWhole, Due, IsRow
<1>3. CASE ~ \E p \in Purger, u \in User : DeleteRow(p, u)
  <2>1. Frame
    BY <1>3, FrameStep
  <2>2. ASSUME NEW p \in Purger, NEW u \in User, RemoveClerk(p, u)
        PROVE  BatchInv' /\ DoomedInv'
    <3>1. /\ UNCHANGED users
          /\ primary' = [primary EXCEPT ![u.clerk] = Gone]
          /\ purger' = [purger EXCEPT ![p].doomed = {u}]
          /\ u \in purger[p].batch
      BY <2>2 DEF RemoveClerk
    <3>2. \A r \in Purger : purger'[r].batch = purger[r].batch
      BY <1>0, <3>1 DEF TypeOK
    <3>3. \A k \in Clerk : primary[k] = Gone => primary'[k] = Gone
      BY <2>1 DEF Frame
    <3>4. BatchInv'
      BY <1>0, <3>1, <3>2, <3>3
         DEF TypeOK, User, PurgeInv, BatchInv, StillDue, PurgedWhole, Due, IsRow
    <3>5. primary'[u.clerk] = Gone
      BY <1>0, <3>1 DEF TypeOK, User
    <3>6. \A r \in Purger \ {p} : purger'[r] = purger[r]
      BY <1>0, <3>1 DEF TypeOK
    <3>7. purger'[p].doomed = {u}
      BY <1>0, <3>1 DEF TypeOK
    <3>8. ASSUME NEW r \in Purger
          PROVE  /\ purger'[r].doomed \subseteq purger'[r].batch
                 /\ \A v \in purger'[r].doomed : primary'[v.clerk] = Gone
      <4>1. CASE r = p
        BY <3>1, <3>2, <3>5, <3>7, <4>1
      <4>2. CASE r # p
        <5>1. /\ purger'[r] = purger[r]
              /\ purger[r].doomed \subseteq purger[r].batch
              /\ \A v \in purger[r].doomed : v \in User /\ primary[v.clerk] = Gone
          BY <1>0, <3>6, <4>2 DEF TypeOK, PurgeInv, DoomedInv
        <5> QED
          BY <3>3, <5>1 DEF User
      <4> QED
        BY <4>1, <4>2
    <3> QED
      BY <3>4, <3>8 DEF DoomedInv
  <2>3. ASSUME NEW p \in Purger,
               PurgeStops(p) \/ \E u \in User : SkipUser(p, u)
        PROVE  BatchInv' /\ DoomedInv'
    <3>1. \A r \in Purger : /\ purger'[r].batch \subseteq purger[r].batch
                            /\ purger'[r].doomed \subseteq purger[r].doomed
                            /\ purger'[r].doomed \subseteq purger'[r].batch
      <4>1. CASE PurgeStops(p)
        BY <1>0, <4>1 DEF TypeOK, PurgeInv, DoomedInv, PurgeStops, Asleep
      <4>2. ASSUME NEW u \in User, SkipUser(p, u)
            PROVE  \A r \in Purger : /\ purger'[r].batch \subseteq purger[r].batch
                                     /\ purger'[r].doomed \subseteq purger[r].doomed
                                     /\ purger'[r].doomed \subseteq purger'[r].batch
        <5>1. purger' = [purger EXCEPT ![p].batch = @ \ {u}, ![p].doomed = {}]
          BY <4>2 DEF SkipUser, Done
        <5> QED
          BY <1>0, <5>1 DEF TypeOK, PurgeInv, DoomedInv
      <4> QED
        BY <2>3, <4>1, <4>2
    <3> QED
      BY <2>1, <3>1, BatchFrame
  <2>4. CASE UNCHANGED purger
    <3>1. \A r \in Purger : purger'[r].doomed \subseteq purger'[r].batch
      BY <2>4 DEF PurgeInv, DoomedInv
    <3> QED
      BY <2>1, <2>4, <3>1, BatchFrame
  <2> QED
    BY <1>2, <1>3, <2>2, <2>3, <2>4
       DEF Next, LeaveClerk, TakeAddress, ReadPrimaryEmail, ReadInvite, RequestStep,
           CheckDeleted, UpdateRow, InsertRow, UpsertClashes, GrantToRow, GrantNewRow,
           GrantClashes, MarkRedeemed, RequestFails, SoftDelete, DaysPass,
           RequestInvite, VerifyLink, TokensExpire, Decide, PurgeStep, vars
<1> QED
  BY <1>1, <1>3

-----------------------------------------------------------------------------
(* Requests against deletions.                                             *)

\* No row is marked deleted or due, and deleted rows keep their address.
RowsKept ==
  \A i \in Id :
    /\ Deleted(i)' => Deleted(i) /\ users'[i].email = users[i].email
    /\ (i \in Due)' => i \in Due

\* No verify-edu passes its check, and none becomes older than it was.
RequestsKept ==
  \A q \in Request :
    /\ older'[q] \subseteq older[q]
    /\ request'[q].pc = "upsert" => request'[q] = request[q] /\ older'[q] = older[q]

LEMMA KeptFrame ==
  ASSUME PurgeInv, RowsKept, RequestsKept
  PROVE  CheckInv' /\ DueInv'
<1>1. ASSUME NEW q \in Request, request'[q].pc = "upsert",
             NEW i \in Of(request[q].email)', Deleted(i)'
      PROVE  i \in older'[q]
  <2>1. i \in Id /\ users'[i].email = request'[q].email
    BY <1>1 DEF Of
  <2>2. Deleted(i) /\ users'[i].email = users[i].email
    BY <1>1, <2>1 DEF RowsKept
  <2>3. request'[q] = request[q] /\ older'[q] = older[q]
    BY <1>1 DEF RequestsKept
  <2>4. i \in Of(request[q].email)
    BY <2>1, <2>2, <2>3 DEF Of, Deleted
  <2> QED
    BY <1>1, <2>2, <2>3, <2>4 DEF PurgeInv, CheckInv
<1>2. CheckInv'
  BY <1>1 DEF CheckInv
<1>3. DueInv'
  BY DEF PurgeInv, DueInv, RowsKept, RequestsKept, Due
<1> QED
  BY <1>2, <1>3

LEMMA FinishKept ==
  ASSUME TypeOK, NEW q \in Request, Finish(q)
  PROVE  RequestsKept
BY DEF TypeOK, Finish, Idle, RequestsKept

LEMMA BeginKept ==
  ASSUME TypeOK, NEW q \in Request, NEW r, r.pc # "upsert", Begin(q, r)
  PROVE  RequestsKept
BY DEF TypeOK, Begin, RequestsKept

LEMMA CheckStep ==
  ASSUME PurgeInv, [Next]_vars
  PROVE  CheckInv' /\ DueInv'
<1>0. TypeOK
  BY DEF PurgeInv
<1>1. ASSUME NEW q \in Request, CheckDeleted(q)
      PROVE  CheckInv' /\ DueInv'
  <2>1. UNCHANGED users
    BY <1>1 DEF CheckDeleted
  <2>2. RowsKept
    BY <2>1 DEF RowsKept, Deleted, Due, IsRow
  <2>3. CASE Finish(q)
    BY <1>0, <2>2, <2>3, FinishKept, KeptFrame
  <2>4. CASE Goto(q, "upsert") /\ ~ \E i \in Of(request[q].email) : Deleted(i)
    <3>1. /\ UNCHANGED older
          /\ \A r \in Request \ {q} : request'[r] = request[r]
          /\ request'[q].email = request[q].email
      BY <1>0, <1>1, <2>4, RequestType DEF TypeOK, Goto, CheckDeleted, Verifying
    <3>2. CheckInv'
      BY <2>1, <2>4, <3>1 DEF PurgeInv, CheckInv, Of, Deleted, IsRow
    <3>3. DueInv'
      BY <2>1, <3>1 DEF PurgeInv, DueInv, Due, IsRow
    <3> QED
      BY <3>2, <3>3
  <2> QED
    BY <1>1, <2>3, <2>4 DEF CheckDeleted
<1>2. ASSUME NEW k \in Clerk, NEW i \in Id, SoftDelete(k, i)
      PROVE  CheckInv' /\ DueInv'
  <2>1. /\ UNCHANGED request
        /\ \A j \in Id \ {i} : users'[j] = users[j]
        /\ users'[i] = [users[i] EXCEPT !.deleted = "waiting", !.verified = FALSE]
        /\ \A q \in Request :
             older'[q] = IF request[q] = Idle THEN {} ELSE older[q] \cup {i}
    BY <1>0, <1>2 DEF TypeOK, SoftDelete
  <2>2. users[i] \in Row /\ i \notin Due
    BY <1>0, <1>2, RowType DEF SoftDelete, Mine, Deleted, Due
  <2>3. i \notin Due'
    BY <2>1, <2>2 DEF Due, Row
  <2>4. DueInv'
    <3> SUFFICES ASSUME NEW j \in Due', NEW q \in Request PROVE j \notin older'[q]
      BY DEF DueInv
    <3>1. j \in Id /\ j # i /\ users'[j] = users[j]
      BY <2>1, <2>3 DEF Due
    <3>2. j \notin older[q]
      BY <3>1 DEF PurgeInv, DueInv, Due, IsRow
    <3> QED
      BY <2>1, <3>1, <3>2
  <2>5. ASSUME NEW q \in Request, request'[q].pc = "upsert",
               NEW j \in Of(request[q].email)', Deleted(j)'
        PROVE  j \in older'[q]
    <3>1. request[q] # Idle
      BY <2>1, <2>5 DEF Idle
    <3>2. CASE j = i
      BY <2>1, <3>1, <3>2
    <3>3. CASE j # i
      <4>1. j \in Id /\ users'[j] = users[j]
        BY <2>1, <2>5, <3>3 DEF Of
      <4>2. j \in older[q]
        BY <2>1, <2>5, <4>1 DEF PurgeInv, CheckInv, Of, Deleted, IsRow
      <4> QED
        BY <2>1, <3>1, <4>2
    <3> QED
      BY <3>2, <3>3
  <2>6. CheckInv'
    BY <2>5 DEF CheckInv
  <2> QED
    BY <2>4, <2>6
<1>3. ASSUME NEW i \in Id, DaysPass(i)
      PROVE  CheckInv' /\ DueInv'
  <2>1. /\ UNCHANGED <<request, older>>
        /\ \A j \in Id \ {i} : users'[j] = users[j]
        /\ users'[i] = [users[i] EXCEPT !.deleted = "due"]
        /\ Deleted(i)
        /\ \A q \in Request : i \notin older[q]
    BY <1>0, <1>3 DEF TypeOK, DaysPass, Deleted
  <2>2. users[i] \in Row
    BY <1>0, <1>3, RowType DEF DaysPass
  <2>3. users'[i].email = users[i].email
    BY <2>1, <2>2 DEF Row
  <2>4. \A e : \A j \in Of(e)' : Deleted(j)' => j \in Of(e) /\ Deleted(j)
    BY <2>1, <2>3 DEF Of, Deleted, IsRow
  <2>5. CheckInv'
    BY <2>1, <2>4 DEF PurgeInv, CheckInv
  <2>6. DueInv'
    BY <2>1 DEF PurgeInv, DueInv, Due, IsRow
  <2> QED
    BY <2>5, <2>6
<1>4. ASSUME NEW q \in Request,
             \/ \E i \in Id : UpdateRow(q, i) \/ InsertRow(q, i)
             \/ \E i \in Id : GrantToRow(q, i) \/ GrantNewRow(q, i)
      PROVE  CheckInv' /\ DueInv'
  <2>1. RequestsKept
    <3>1. CASE Finish(q)
      BY <1>0, <3>1, FinishKept
    <3>2. CASE Goto(q, "mark")
      BY <1>0, <3>2, RequestType DEF TypeOK, Goto, RequestsKept, Idle
    <3> QED
      BY <1>4, <3>1, <3>2 DEF UpdateRow, InsertRow, GrantToRow, GrantNewRow
  <2>2. ASSUME NEW i \in Id, UpdateRow(q, i)
        PROVE  RowsKept
    <3>1. \A j \in Id : /\ users'[j].deleted = users[j].deleted
                        /\ users'[j].email = users[j].email
                        /\ IsRow(j)' => IsRow(j)
      BY <1>0, <2>2, UpdateRowEffect DEF IsRow
    <3> QED
      BY <3>1 DEF RowsKept, Deleted, Due
  <2>3. ASSUME NEW i \in Id, InsertRow(q, i) \/ GrantNewRow(q, i)
        PROVE  RowsKept
    <3>1. users'[i].deleted = "no" /\ \A j \in Id \ {i} : users'[j] = users[j]
      BY <1>0, <2>3, NewRowEffect
    <3> QED
      BY <3>1 DEF RowsKept, Deleted, Due, IsRow
  <2>4. ASSUME NEW i \in Id, GrantToRow(q, i)
        PROVE  RowsKept
    <3>1. \A j \in Id :
            \/ users'[j] = users[j]
            \/ users[j] \in Row /\ users'[j] = [users[j] EXCEPT !.verified = TRUE]
      BY <1>0, <2>4, GrantEffect
    <3>3. \A j \in Id : /\ users'[j].state = users[j].state
                        /\ IsRow(j) => /\ users'[j].deleted = users[j].deleted
                                       /\ users'[j].email = users[j].email
      BY <3>1 DEF Row, IsRow
    <3> QED
      BY <3>3 DEF RowsKept, Deleted, Due, IsRow
  <2> QED
    BY <1>4, <2>1, <2>2, <2>3, <2>4, KeptFrame
<1>5. ASSUME NEW q \in Request, NEW k \in Clerk,
             ReadPrimaryEmail(q, k) \/ \E e \in Invitable : ReadInvite(q, k, e)
      PROVE  CheckInv' /\ DueInv'
  <2>1. UNCHANGED users
    BY <1>5 DEF ReadPrimaryEmail, ReadInvite
  <2>2. RequestsKept
    BY <1>0, <1>5, BeginKept DEF ReadPrimaryEmail, ReadInvite
  <2>3. RowsKept
    BY <2>1 DEF RowsKept, Deleted, Due, IsRow
  <2> QED
    BY <2>2, <2>3, KeptFrame
<1>6. ASSUME NEW q \in Request,
             \/ UpsertClashes(q) \/ GrantClashes(q) \/ MarkRedeemed(q)
             \/ RequestFails(q)
      PROVE  CheckInv' /\ DueInv'
  <2>1. UNCHANGED users /\ Finish(q)
    BY <1>6 DEF UpsertClashes, GrantClashes, MarkRedeemed, RequestFails
  <2>2. RowsKept
    BY <2>1 DEF RowsKept, Deleted, Due, IsRow
  <2> QED
    BY <1>0, <2>1, <2>2, FinishKept, KeptFrame
<1>7. ASSUME NEW p \in Purger, NEW u \in User, DeleteRow(p, u)
      PROVE  CheckInv' /\ DueInv'
  <2>1. users' = [users EXCEPT ![u.id] = Purged] /\ UNCHANGED <<request, older>>
    BY <1>7 DEF DeleteRow
  <2>2. \A j \in Id : users'[j] = users[j] \/ users'[j] = Purged
    BY <1>0, <2>1 DEF TypeOK
  <2>3. RowsKept
    BY <2>2 DEF RowsKept, Deleted, Due, IsRow, Purged
  <2>4. RequestsKept
    BY <2>1 DEF RequestsKept
  <2> QED
    BY <2>3, <2>4, KeptFrame
<1>8. CASE UNCHANGED <<users, request, older>>
  BY <1>8, KeptFrame DEF RowsKept, RequestsKept, Deleted, Due, IsRow
<1> QED
  BY <1>1, <1>2, <1>3, <1>4, <1>5, <1>6, <1>7, <1>8
     DEF Next, LeaveClerk, TakeAddress, RequestStep, RequestInvite, VerifyLink,
         TokensExpire, Decide, PurgeStep, SelectDue, RemoveClerk, PurgeStops,
         SkipUser, vars

LEMMA OneRowStep ==
  ASSUME PurgeInv, [Next]_vars
  PROVE  OneRowEach'
<1>0. TypeOK /\ OneRowEach
  BY DEF PurgeInv
<1>1. ASSUME NEW q \in Request, NEW i \in Id, UpdateRow(q, i)
      PROVE  OneRowEach'
  <2>1. \A j \in Id : IsRow(j) /\ users[j].clerk = request[q].clerk => j = i
    BY <1>1 DEF UpdateRow, Mine
  <2> QED
    BY <1>0, <1>1, <2>1, UpdateRowEffect DEF OneRowEach, IsRow
<1>2. ASSUME NEW q \in Request, NEW i \in Id, InsertRow(q, i) \/ GrantNewRow(q, i)
      PROVE  OneRowEach'
  <2>1. \A j \in Id : ~ (IsRow(j) /\ users[j].clerk = request[q].clerk)
    BY <1>0, <1>2, NewRowEffect DEF Mine
  <2>2. /\ users'[i].clerk = request[q].clerk
        /\ \A j \in Id \ {i} : users'[j] = users[j]
    BY <1>0, <1>2, NewRowEffect
  <2> QED
    BY <1>0, <2>1, <2>2 DEF OneRowEach, IsRow
<1>3. CASE \A j \in Id : IsRow(j)' => IsRow(j) /\ users'[j].clerk = users[j].clerk
  BY <1>0, <1>3 DEF OneRowEach
<1>4. ASSUME NEW i \in Id, NEW q \in Request, GrantToRow(q, i)
      PROVE  OneRowEach'
  <2>1. \A j \in Id :
          \/ users'[j] = users[j]
          \/ users[j] \in Row /\ users'[j] = [users[j] EXCEPT !.verified = TRUE]
    BY <1>0, <1>4, GrantEffect
  <2> QED
    BY <1>3, <2>1 DEF IsRow, Row
<1>5. ASSUME NEW k \in Clerk, NEW i \in Id, SoftDelete(k, i)
      PROVE  OneRowEach'
  <2>1. users[i] \in Row
    BY <1>0, <1>5, RowType DEF SoftDelete, Mine
  <2> QED
    BY <1>0, <1>3, <1>5, <2>1 DEF TypeOK, SoftDelete, IsRow, Row
<1>6. ASSUME NEW i \in Id, DaysPass(i)
      PROVE  OneRowEach'
  <2>1. users[i] \in Row
    BY <1>0, <1>6, RowType DEF DaysPass
  <2> QED
    BY <1>0, <1>3, <1>6, <2>1 DEF TypeOK, DaysPass, IsRow, Row
<1>7. ASSUME NEW p \in Purger, NEW u \in User, DeleteRow(p, u)
      PROVE  OneRowEach'
  <2>1. \A j \in Id : users'[j] = users[j] \/ users'[j] = Purged
    BY <1>0, <1>7 DEF TypeOK, DeleteRow
  <2> QED
    BY <1>3, <2>1 DEF IsRow, Purged
<1>8. CASE UNCHANGED users
  BY <1>3, <1>8 DEF IsRow
<1> QED
  BY <1>1, <1>2, <1>4, <1>5, <1>6, <1>7, <1>8
     DEF Next, LeaveClerk, TakeAddress, ReadPrimaryEmail, ReadInvite, RequestStep,
         CheckDeleted, UpsertClashes, GrantClashes, MarkRedeemed, RequestFails,
         RequestInvite, VerifyLink, TokensExpire, Decide, PurgeStep, SelectDue,
         RemoveClerk, PurgeStops, SkipUser, vars

LEMMA PurgeInvHolds == Spec => []PurgeInv
<1>1. Init => PurgeInv
  <2> SUFFICES ASSUME Init PROVE PurgeInv
    OBVIOUS
  <2>1. \A i \in Id : ~IsRow(i)
    BY DEF Init, IsRow, NoRow
  <2>2. \A q \in Request : request[q].pc = "idle"
    BY DEF Init, Idle
  <2>3. \A p \in Purger : purger[p].batch = {} /\ purger[p].doomed = {}
    BY DEF Init, Asleep
  <2> QED
    BY <2>1, <2>2, <2>3, TypeInit
       DEF PurgeInv, OneRowEach, CheckInv, DueInv, BatchInv, DoomedInv, Due
<1>2. PurgeInv /\ [Next]_vars => PurgeInv'
  BY TypeStep, BatchStep, CheckStep, OneRowStep DEF PurgeInv
<1> QED
  BY <1>1, <1>2, PTL DEF Spec
(***************************************************************************)
(* For any number of overlapping requests and purges, only a purge removes *)
(* a row, and only one deleted 30 days before; a deleted row is not brought*)
(* back by an upsert that began before (index.js:351-372, 742-770).        *)
(***************************************************************************)
THEOREM DeletionFinal == Spec => DeletionIsFinal
<1> DEFINE Kept(i) ==
      IsRow(i) /\ users'[i] # users[i]
        => \/ users[i].deleted = "due" /\ users'[i] = Purged
           \/ /\ users'[i].state = "row"
              /\ users[i].deleted # "no" => users'[i].deleted # "no"
<1>1. ASSUME PurgeInv, [Next]_vars, NEW i \in Id
      PROVE  Kept(i)
  <2>0. TypeOK /\ (IsRow(i) => users[i] \in Row)
    BY <1>1, RowType DEF PurgeInv
  <2>1. ASSUME NEW q \in Request, NEW j \in Id, UpdateRow(q, j)
        PROVE  Kept(i)
    BY <2>0, <2>1, UpdateRowEffect DEF IsRow
  <2>2. ASSUME NEW q \in Request, NEW j \in Id, InsertRow(q, j) \/ GrantNewRow(q, j)
        PROVE  Kept(i)
    BY <2>0, <2>2, NewRowEffect DEF IsRow, NoRow
  <2>3. ASSUME NEW q \in Request, NEW j \in Id, GrantToRow(q, j)
        PROVE  Kept(i)
    <3>1. \/ users'[i] = users[i]
          \/ users[i] \in Row /\ users'[i] = [users[i] EXCEPT !.verified = TRUE]
      BY <2>0, <2>3, GrantEffect
    <3> QED
      BY <3>1 DEF Row
  <2>4. ASSUME NEW k \in Clerk, NEW j \in Id, SoftDelete(k, j)
        PROVE  Kept(i)
    <3>1. users' = [users EXCEPT ![j].deleted = "waiting", ![j].verified = FALSE]
      BY <2>4 DEF SoftDelete
    <3>2. users'[i] = users[i]
          \/ users'[i] = [users[i] EXCEPT !.deleted = "waiting", !.verified = FALSE]
      BY <2>0, <3>1 DEF TypeOK
    <3> QED
      BY <2>0, <3>2 DEF Row
  <2>5. ASSUME NEW j \in Id, DaysPass(j)
        PROVE  Kept(i)
    BY <2>0, <2>5 DEF TypeOK, DaysPass, Row
  <2>6. ASSUME NEW p \in Purger, NEW u \in User, DeleteRow(p, u)
        PROVE  Kept(i)
    <3>1. u \in purger[p].batch
      BY <1>1, <2>6 DEF DeleteRow, PurgeInv, DoomedInv
    <3>2. u.id \in Due \/ users[u.id] = Purged
      BY <1>1, <3>1 DEF PurgeInv, BatchInv, StillDue, PurgedWhole
    <3>3. users' = [users EXCEPT ![u.id] = Purged]
      BY <2>6 DEF DeleteRow
    <3> QED
      BY <2>0, <3>2, <3>3 DEF TypeOK, Due, IsRow, Purged
  <2>7. CASE UNCHANGED users
    BY <2>7
  <2> QED
    BY <1>1, <2>1, <2>2, <2>3, <2>4, <2>5, <2>6, <2>7
       DEF Next, LeaveClerk, TakeAddress, ReadPrimaryEmail, ReadInvite, RequestStep,
           CheckDeleted, UpsertClashes, GrantClashes, MarkRedeemed, RequestFails,
           RequestInvite, VerifyLink, TokensExpire, Decide, PurgeStep, SelectDue,
           RemoveClerk, PurgeStops, SkipUser, vars
<1>2. PurgeInv /\ [Next]_vars => [\A i \in Id : Kept(i)]_vars
  BY <1>1
<1> QED
  BY <1>2, PurgeInvHolds, PTL DEF Spec, DeletionIsFinal

(***************************************************************************)
(* The account a purge removes at Clerk belongs to a row that is due, and  *)
(* to no other, although the purge read its clerk_id earlier.              *)
(***************************************************************************)
THEOREM PurgeSpares == Spec => PurgeSparesOthers
<1> DEFINE Spared(k) ==
      HasAccount(k) /\ primary'[k] = Gone /\ purger' # purger
        => /\ Mine(k) # {}
           /\ \A i \in Mine(k) : users[i].deleted = "due"
<1>1. ASSUME PurgeInv, [Next]_vars, NEW k \in Clerk,
             HasAccount(k), primary'[k] = Gone, purger' # purger
      PROVE  Mine(k) # {} /\ \A i \in Mine(k) : users[i].deleted = "due"
  <2>0. TypeOK /\ OneRowEach
    BY <1>1 DEF PurgeInv
  <2>1. primary[k] # Gone
    BY <1>1, EmailAssumption DEF HasAccount
  <2>2. ASSUME NEW p \in Purger, NEW u \in User, RemoveClerk(p, u)
        PROVE  Mine(k) # {} /\ \A i \in Mine(k) : users[i].deleted = "due"
    <3>1. u.clerk = k /\ u \in purger[p].batch
      BY <1>1, <2>0, <2>1, <2>2 DEF TypeOK, RemoveClerk
    <3>2. StillDue(u)
      BY <1>1, <2>1, <3>1 DEF PurgeInv, BatchInv, PurgedWhole
    <3>3. u.id \in Mine(k) /\ users[u.id].deleted = "due"
      BY <3>1, <3>2 DEF StillDue, Due, Mine
    <3> QED
      BY <2>0, <3>3 DEF OneRowEach, Mine
  <2>3. CASE UNCHANGED primary \/ UNCHANGED purger
    BY <1>1, <2>1, <2>3
  <2> QED
    BY <1>1, <2>2, <2>3
       DEF Next, LeaveClerk, TakeAddress, ReadPrimaryEmail, ReadInvite, RequestStep,
           CheckDeleted, UpdateRow, InsertRow, UpsertClashes, GrantToRow, GrantNewRow,
           GrantClashes, MarkRedeemed, RequestFails, SoftDelete, DaysPass,
           RequestInvite, VerifyLink, TokensExpire, Decide, PurgeStep, SelectDue,
           DeleteRow, PurgeStops, SkipUser, clerk, vars
<1>2. PurgeInv /\ [Next]_vars => [\A k \in Clerk : Spared(k)]_vars
  BY <1>1
<1> QED
  BY <1>2, PurgeInvHolds, PTL DEF Spec, PurgeSparesOthers

-----------------------------------------------------------------------------
(* Verification.                                                           *)

\* An account's address is one it had, ...
HeldInv == \A k \in Clerk : HasAccount(k) => primary[k] \in held[k]

\* ... and so is the one verify-edu goes on with.
ClaimInv ==
  \A q \in Request :
    request[q].pc \in {"check", "upsert"} => request[q].email \in held[request[q].clerk]

EarnInv == HeldInv /\ ClaimInv /\ VerifiedIsEarned

\* A redemption marks the invite after it has verified a user.
SpentInv ==
  /\ \A q \in Request : request[q].pc = "mark" => vouched[request[q].email] # {}
  /\ RedeemedVerified

\* Histories grow.
Grown ==
  /\ \A k \in Clerk : held[k] \subseteq held'[k]
  /\ \A e \in Invitable : vouched[e] \subseteq vouched'[e]

LEMMA GrownStep == TypeOK /\ [Next]_vars => Grown
<1> SUFFICES ASSUME TypeOK, [Next]_vars PROVE Grown
  OBVIOUS
<1>1. ASSUME NEW k \in Clerk, NEW e \in Email, TakeAddress(k, e)
      PROVE  Grown
  BY <1>1 DEF TypeOK, TakeAddress, Grown
<1>2. ASSUME NEW q \in Request, NEW i \in Id, GrantToRow(q, i) \/ GrantNewRow(q, i)
      PROVE  Grown
  <2>1. vouched' = [vouched EXCEPT ![request[q].email] = @ \cup {i}] /\ UNCHANGED held
    BY <1>2 DEF GrantToRow, GrantNewRow, clerk
  <2> QED
    BY <2>1 DEF TypeOK, Grown
<1>3. CASE UNCHANGED <<held, vouched>>
  BY <1>3 DEF Grown
<1> QED
  BY <1>1, <1>2, <1>3
     DEF Next, LeaveClerk, ReadPrimaryEmail, ReadInvite, RequestStep, CheckDeleted,
         UpdateRow, InsertRow, UpsertClashes, GrantClashes, MarkRedeemed, RequestFails,
         SoftDelete, DaysPass, RequestInvite, VerifyLink, TokensExpire, Decide,
         PurgeStep, SelectDue, RemoveClerk, DeleteRow, PurgeStops, SkipUser, clerk, vars
\* A step that verifies nobody, and begins no verify-edu.
LEMMA EarnFrame ==
  ASSUME TypeOK, EarnInv, Grown,
         \A k \in Clerk : HasAccount(k)' => primary'[k] = primary[k],
         \A q \in Request : request'[q].pc \in {"check", "upsert"} =>
           /\ request[q].pc \in {"check", "upsert"}
           /\ request'[q].email = request[q].email
           /\ request'[q].clerk = request[q].clerk,
         \A i \in Id : (IsRow(i) /\ users[i].verified)' =>
           /\ IsRow(i) /\ users[i].verified
           /\ users'[i].email = users[i].email /\ users'[i].clerk = users[i].clerk
  PROVE  EarnInv'
<1>1. HeldInv'
  BY DEF EarnInv, HeldInv, HasAccount, Grown
<1>2. ClaimInv'
  <2> SUFFICES ASSUME NEW q \in Request, request'[q].pc \in {"check", "upsert"}
               PROVE  request'[q].email \in held'[request'[q].clerk]
    BY DEF ClaimInv
  <2>1. request[q].clerk \in Clerk /\ request[q].email \in held[request[q].clerk]
    BY RequestType DEF EarnInv, ClaimInv, Verifying
  <2> QED
    BY <2>1 DEF Grown
<1>3. VerifiedIsEarned'
  <2> SUFFICES ASSUME NEW i \in Id, IsRow(i)', users'[i].verified
               PROVE  \/ users'[i].email \in Edu /\ users'[i].email \in held'[users'[i].clerk]
                      \/ \E e \in Invitable : i \in vouched'[e]
    BY DEF VerifiedIsEarned
  <2>1. users[i].clerk \in Clerk
    BY RowType DEF Row
  <2>2. \/ users[i].email \in Edu /\ users[i].email \in held[users[i].clerk]
        \/ \E e \in Invitable : i \in vouched[e]
    BY DEF EarnInv, VerifiedIsEarned
  <2> QED
    BY <2>1, <2>2 DEF Grown
<1> QED
  BY <1>1, <1>2, <1>3 DEF EarnInv
LEMMA EarnStep == TypeOK /\ TypeOK' /\ EarnInv /\ [Next]_vars => EarnInv'
<1> SUFFICES ASSUME TypeOK, TypeOK', EarnInv, [Next]_vars PROVE EarnInv'
  OBVIOUS
<1>0. Grown
  BY GrownStep
<1> DEFINE AddressesKept == \A k \in Clerk : HasAccount(k)' => primary'[k] = primary[k]
           ClaimsKept ==
             \A q \in Request : request'[q].pc \in {"check", "upsert"} =>
               /\ request[q].pc \in {"check", "upsert"}
               /\ request'[q].email = request[q].email
               /\ request'[q].clerk = request[q].clerk
           VerifiedKept ==
             \A i \in Id : (IsRow(i) /\ users[i].verified)' =>
               /\ IsRow(i) /\ users[i].verified
               /\ users'[i].email = users[i].email /\ users'[i].clerk = users[i].clerk
<1>1. UNCHANGED primary => AddressesKept
  BY DEF HasAccount
<1>2. UNCHANGED request => ClaimsKept
  OBVIOUS
<1>3. UNCHANGED users => VerifiedKept
  BY DEF IsRow
<1>4. \A q \in Request : Finish(q) => ClaimsKept
  BY DEF TypeOK, Finish, Idle
<1>5. ASSUME AddressesKept, ClaimsKept, VerifiedKept
      PROVE  EarnInv'
  BY <1>0, <1>5, EarnFrame
<1>6. ASSUME NEW k \in Clerk, NEW e \in Email, TakeAddress(k, e)
      PROVE  EarnInv'
  <2>1. HeldInv'
    BY <1>6 DEF TypeOK, EarnInv, HeldInv, TakeAddress, HasAccount
  <2>2. UNCHANGED <<request, users, vouched>>
    BY <1>6 DEF TakeAddress
  <2>3. ClaimInv'
    <3> SUFFICES ASSUME NEW q \in Request, request[q].pc \in {"check", "upsert"}
                 PROVE  request[q].email \in held'[request[q].clerk]
      BY <2>2 DEF ClaimInv
    <3>1. request[q].clerk \in Clerk /\ request[q].email \in held[request[q].clerk]
      BY RequestType DEF EarnInv, ClaimInv, Verifying
    <3> QED
      BY <1>0, <3>1 DEF Grown
  <2>4. VerifiedIsEarned'
    <3> SUFFICES ASSUME NEW i \in Id, IsRow(i), users[i].verified
                 PROVE  \/ users[i].email \in Edu /\ users[i].email \in held'[users[i].clerk]
                        \/ \E x \in Invitable : i \in vouched[x]
      BY <2>2 DEF VerifiedIsEarned, IsRow
    <3>1. users[i].clerk \in Clerk
      BY RowType DEF Row
    <3> QED
      BY <1>0, <3>1 DEF EarnInv, VerifiedIsEarned, Grown
  <2> QED
    BY <2>1, <2>3, <2>4 DEF EarnInv
<1>7. ASSUME NEW k \in Clerk, LeaveClerk(k)
      PROVE  EarnInv'
  <2>1. AddressesKept
    BY <1>7, EmailAssumption DEF TypeOK, LeaveClerk, HasAccount
  <2> QED
    BY <1>2, <1>3, <1>5, <1>7, <2>1 DEF LeaveClerk
<1>8. ASSUME NEW p \in Purger, NEW u \in User, RemoveClerk(p, u)
      PROVE  EarnInv'
  <2>1. AddressesKept
    BY <1>8, EmailAssumption DEF TypeOK, RemoveClerk, HasAccount
  <2> QED
    BY <1>2, <1>3, <1>5, <1>8, <2>1 DEF RemoveClerk
<1>9. ASSUME NEW q \in Request, NEW k \in Clerk, ReadPrimaryEmail(q, k)
      PROVE  EarnInv'
  <2>1. UNCHANGED <<users, primary, held, vouched>>
    BY <1>9 DEF ReadPrimaryEmail, clerk
  <2>2. HeldInv' /\ VerifiedIsEarned'
    BY <2>1 DEF EarnInv, HeldInv, VerifiedIsEarned, HasAccount, IsRow
  <2>3. /\ \A r \in Request \ {q} : request'[r] = request[r]
        /\ request'[q].email = primary[k] /\ request'[q].clerk = k
    BY <1>9 DEF TypeOK, ReadPrimaryEmail, Begin
  <2>4. primary[k] \in held[k]
    BY <1>9 DEF ReadPrimaryEmail, EarnInv, HeldInv
  <2>5. ClaimInv'
    BY <2>1, <2>3, <2>4 DEF EarnInv, ClaimInv
  <2> QED
    BY <2>2, <2>5 DEF EarnInv
<1>10. ASSUME NEW q \in Request, NEW k \in Clerk, NEW e \in Invitable, ReadInvite(q, k, e)
       PROVE  EarnInv'
  <2>1. ClaimsKept
    BY <1>10 DEF TypeOK, ReadInvite, Begin
  <2> QED
    BY <1>1, <1>3, <1>5, <1>10, <2>1 DEF ReadInvite, clerk
<1>11. ASSUME NEW q \in Request, CheckDeleted(q)
       PROVE  EarnInv'
  <2>1. ClaimsKept
    <3>1. CASE Goto(q, "upsert")
      BY <1>11, <3>1, RequestType DEF TypeOK, Goto, CheckDeleted, Verifying
    <3> QED
      BY <1>4, <1>11, <3>1 DEF CheckDeleted
  <2> QED
    BY <1>1, <1>3, <1>5, <1>11, <2>1 DEF CheckDeleted, clerk
<1>12. ASSUME NEW q \in Request,
              \/ UpsertClashes(q) \/ GrantClashes(q) \/ MarkRedeemed(q) \/ RequestFails(q)
       PROVE  EarnInv'
  <2>1. Finish(q) /\ UNCHANGED <<users, primary>>
    BY <1>12 DEF UpsertClashes, GrantClashes, MarkRedeemed, RequestFails, clerk
  <2> QED
    BY <1>1, <1>3, <1>4, <1>5, <2>1
<1>13. ASSUME NEW q \in Request, NEW i \in Id, UpdateRow(q, i) \/ InsertRow(q, i)
       PROVE  EarnInv'
  <2>1. /\ users'[i].verified => request[q].email \in Edu
        /\ users'[i].clerk = request[q].clerk /\ users'[i].email = request[q].email
        /\ \A j \in Id \ {i} : users'[j] = users[j]
    <3> DEFINE b == request[q].email \in Edu
    <3>1. \/ /\ users' = [users EXCEPT ![i].clerk = request[q].clerk, ![i].verified = b]
             /\ IsRow(i) /\ users[i].email = request[q].email
          \/ NewRow(i, request[q].clerk, request[q].email, b)
      BY <1>13 DEF UpdateRow, InsertRow, Of
    <3>2. IsRow(i) => users[i] \in Row
      BY RowType
    <3>3. users'[i].verified => b
      <4> HIDE DEF b
      <4> QED
        BY <3>1, <3>2 DEF TypeOK, NewRow, Row
    <3> HIDE DEF b
    <3>4. /\ users'[i].clerk = request[q].clerk /\ users'[i].email = request[q].email
          /\ \A j \in Id \ {i} : users'[j] = users[j]
      BY <3>1, <3>2 DEF TypeOK, NewRow, Row
    <3> QED
      BY <3>3, <3>4 DEF b
  <2>2. /\ request[q].pc = "upsert" /\ Finish(q)
        /\ UNCHANGED <<primary, held, vouched>>
    BY <1>13 DEF UpdateRow, InsertRow, clerk
  <2>3. request[q].email \in held[request[q].clerk]
    BY <2>2 DEF EarnInv, ClaimInv
  <2>4. HeldInv' /\ ClaimInv'
    <3>1. ClaimsKept
      BY <1>4, <2>2
    <3> QED
      BY <2>2, <3>1 DEF EarnInv, HeldInv, ClaimInv, HasAccount
  <2>5. VerifiedIsEarned'
    BY <2>1, <2>2, <2>3 DEF EarnInv, VerifiedIsEarned, IsRow
  <2> QED
    BY <2>4, <2>5 DEF EarnInv
<1>14. ASSUME NEW q \in Request, NEW i \in Id, GrantToRow(q, i) \/ GrantNewRow(q, i)
       PROVE  EarnInv'
  <2>1. \A j \in Id \ {i} : users'[j] = users[j]
    <3>1. CASE GrantToRow(q, i)
      BY <3>1 DEF TypeOK, GrantToRow
    <3> QED
      BY <1>14, <3>1, NewRowEffect
  <2>2. /\ request[q].pc = "grant" /\ Goto(q, "mark")
        /\ vouched' = [vouched EXCEPT ![request[q].email] = @ \cup {i}]
        /\ UNCHANGED <<primary, held>>
    BY <1>14 DEF GrantToRow, GrantNewRow, clerk
  <2>3. request[q].email \in Invitable
    BY <2>2, RequestType DEF Redeeming
  <2>4. i \in vouched'[request[q].email]
    BY <2>2, <2>3 DEF TypeOK
  <2>5. ClaimsKept
    BY <2>2, RequestType DEF TypeOK, Goto, Redeeming
  <2>6. HeldInv' /\ ClaimInv'
    BY <2>2, <2>5 DEF EarnInv, HeldInv, ClaimInv, HasAccount
  <2>7. VerifiedIsEarned'
    BY <1>0, <2>1, <2>2, <2>3, <2>4 DEF EarnInv, VerifiedIsEarned, IsRow, Grown
  <2> QED
    BY <2>6, <2>7 DEF EarnInv
<1>15. ASSUME NEW k \in Clerk, NEW i \in Id, SoftDelete(k, i)
       PROVE  EarnInv'
  <2>1. users[i] \in Row
    BY <1>15, RowType DEF SoftDelete, Mine
  <2>2. users'[i].verified = FALSE /\ \A j \in Id \ {i} : users'[j] = users[j]
    BY <1>15, <2>1 DEF TypeOK, SoftDelete, Row
  <2>3. VerifiedKept
    BY <2>2 DEF IsRow
  <2> QED
    BY <1>1, <1>2, <1>5, <1>15, <2>3 DEF SoftDelete, clerk
<1>16. ASSUME NEW i \in Id, DaysPass(i)
       PROVE  EarnInv'
  <2>1. users[i] \in Row
    BY <1>16, RowType DEF DaysPass
  <2>2. VerifiedKept
    BY <1>16, <2>1 DEF TypeOK, DaysPass, IsRow, Row
  <2> QED
    BY <1>1, <1>2, <1>5, <1>16, <2>2 DEF DaysPass, clerk
<1>17. ASSUME NEW p \in Purger, NEW u \in User, DeleteRow(p, u)
       PROVE  EarnInv'
  <2>1. \A j \in Id : users'[j] = users[j] \/ users'[j] = Purged
    BY <1>17 DEF TypeOK, DeleteRow
  <2>2. VerifiedKept
    BY <2>1 DEF IsRow, Purged
  <2> QED
    BY <1>1, <1>2, <1>5, <1>17, <2>2 DEF DeleteRow, clerk
<1>18. CASE UNCHANGED <<users, request, primary>>
  BY <1>1, <1>2, <1>3, <1>5, <1>18
<1> QED
  BY <1>6, <1>7, <1>8, <1>9, <1>10, <1>11, <1>12, <1>13, <1>14, <1>15, <1>16, <1>17, <1>18
     DEF Next, RequestStep, RequestInvite, VerifyLink, TokensExpire, Decide,
         PurgeStep, SelectDue, PurgeStops, SkipUser, clerk, vars

(***************************************************************************)
(* For any accounts that trade addresses while requests are under way, who *)
(* is verified had the address or an invite (index.js:340-372, 677-683).   *)
(***************************************************************************)
THEOREM VerificationEarned == Spec => []VerifiedIsEarned
<1>1. Init => EarnInv
  BY EmailAssumption
     DEF Init, EarnInv, HeldInv, ClaimInv, VerifiedIsEarned, HasAccount, IsRow, NoRow, Idle
<1>2. EarnInv => VerifiedIsEarned
  BY DEF EarnInv
<1> QED
  BY <1>1, <1>2, EarnStep, TypeCorrect, PTL DEF Spec

LEMMA SpentStep == TypeOK /\ SpentInv /\ [Next]_vars => SpentInv'
<1> SUFFICES ASSUME TypeOK, SpentInv, [Next]_vars PROVE SpentInv'
  OBVIOUS
<1>0. Grown
  BY GrownStep
<1>1. ASSUME NEW q \in Request, NEW i \in Id, GrantToRow(q, i) \/ GrantNewRow(q, i)
      PROVE  SpentInv'
  <2>1. /\ request[q].pc = "grant" /\ Goto(q, "mark")
        /\ vouched' = [vouched EXCEPT ![request[q].email] = @ \cup {i}]
        /\ UNCHANGED invite
    BY <1>1 DEF GrantToRow, GrantNewRow, invites
  <2>2. request[q] \in Redeeming /\ request[q].email \in Invitable
    BY <2>1, RequestType DEF Redeeming
  <2>3. /\ request'[q].email = request[q].email
        /\ \A r \in Request \ {q} : request'[r] = request[r]
    BY <2>1, <2>2 DEF TypeOK, Goto, Redeeming
  <2>4. i \in vouched'[request[q].email]
    BY <2>1, <2>2 DEF TypeOK
  <2>5. \A r \in Request : request[r].pc = "mark" => request[r].email \in Invitable
    BY RequestType DEF Redeeming
  <2>6. \A r \in Request : request'[r].pc = "mark" => vouched'[request'[r].email] # {}
    BY <1>0, <2>3, <2>4, <2>5 DEF SpentInv, Grown
  <2>7. RedeemedVerified'
    BY <1>0, <2>1 DEF SpentInv, RedeemedVerified, Grown
  <2> QED
    BY <2>6, <2>7 DEF SpentInv
<1>2. ASSUME NEW q \in Request, MarkRedeemed(q)
      PROVE  SpentInv'
  <2>1. /\ request[q].pc = "mark" /\ Finish(q) /\ UNCHANGED vouched
        /\ invite' = [invite EXCEPT ![request[q].email] = "redeemed"]
    BY <1>2 DEF MarkRedeemed
  <2>2. vouched[request[q].email] # {}
    BY <2>1 DEF SpentInv
  <2>3. RedeemedVerified'
    BY <2>1, <2>2 DEF TypeOK, SpentInv, RedeemedVerified
  <2> QED
    BY <2>1, <2>3 DEF TypeOK, SpentInv, Finish, Idle
<1>3. CASE /\ UNCHANGED vouched
           /\ \A q \in Request : request'[q].pc = "mark" => request'[q] = request[q]
           /\ \A e \in Invitable : invite'[e] = "redeemed" => invite[e] = "redeemed"
  BY <1>3 DEF SpentInv, RedeemedVerified
<1>4. \A q \in Request : Finish(q) =>
        \A r \in Request : request'[r].pc = "mark" => request'[r] = request[r]
  BY DEF TypeOK, Finish, Idle
<1>5. ASSUME NEW q \in Request, UNCHANGED <<vouched, invite>>, Finish(q)
      PROVE  SpentInv'
  BY <1>3, <1>4, <1>5
<1>6. ASSUME NEW q \in Request, NEW k \in Clerk,
             ReadPrimaryEmail(q, k) \/ \E e \in Invitable : ReadInvite(q, k, e)
      PROVE  SpentInv'
  <2>1. \A r \in Request : request'[r].pc = "mark" => request'[r] = request[r]
    BY <1>6 DEF TypeOK, ReadPrimaryEmail, ReadInvite, Begin
  <2> QED
    BY <1>3, <1>6, <2>1 DEF ReadPrimaryEmail, ReadInvite, invites
<1>7. ASSUME NEW q \in Request, CheckDeleted(q)
      PROVE  SpentInv'
  <2>1. CASE Goto(q, "upsert")
    <3>1. \A r \in Request : request'[r].pc = "mark" => request'[r] = request[r]
      BY <1>7, <2>1, RequestType DEF TypeOK, Goto, CheckDeleted, Verifying
    <3> QED
      BY <1>3, <1>7, <3>1 DEF CheckDeleted, invites
  <2> QED
    BY <1>5, <1>7, <2>1 DEF CheckDeleted, invites
<1>8. ASSUME NEW e \in Invitable,
             RequestInvite(e) \/ \E status \in {"approved", "rejected"} : Decide(e, status)
      PROVE  SpentInv'
  BY <1>3, <1>8 DEF TypeOK, RequestInvite, Decide
<1>9. CASE UNCHANGED <<vouched, request, invite>>
  BY <1>3, <1>9
<1> QED
  BY <1>1, <1>2, <1>5, <1>6, <1>7, <1>8, <1>9
     DEF Next, LeaveClerk, TakeAddress, RequestStep, UpdateRow, InsertRow, UpsertClashes,
         GrantClashes, RequestFails, SoftDelete, DaysPass, VerifyLink, TokensExpire,
         PurgeStep, SelectDue, RemoveClerk, DeleteRow, PurgeStops, SkipUser, invites, vars

(***************************************************************************)
(* No redemption, whatever it races with and wherever it stops, uses up an *)
(* invite that has verified nobody (index.js:677-689).                     *)
(***************************************************************************)
THEOREM RedemptionsVerify == Spec => []RedeemedVerified
<1>1. Init => SpentInv
  BY DEF Init, SpentInv, RedeemedVerified, Idle
<1>2. SpentInv => RedeemedVerified
  BY DEF SpentInv
<1> QED
  BY <1>1, <1>2, SpentStep, TypeCorrect, PTL DEF Spec
=============================================================================
