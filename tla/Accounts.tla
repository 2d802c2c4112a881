------------------------------ MODULE Accounts ------------------------------
(***************************************************************************)
(* Accounts and invites: the tables users and invite_requests of the auth  *)
(* service, and the accounts Clerk keeps.                                  *)
(*                                                                         *)
(* A person is verified in two ways: verify-edu reads the primary email of *)
(* their Clerk account, and redeeming an invite's link vouches for them.   *)
(* Both are several statements without a transaction.  DELETE /me only     *)
(* marks a row; a worker in each instance of the service, and an operator  *)
(* through a route, purge marked rows 30 days later, first the account at  *)
(* Clerk, then the row.  That DELETE /me also pauses listings is modelled  *)
(* in ListingTrust (PauseForAccount).                                      *)
(*                                                                         *)
(* Clerk is external: an address belongs to one account at a time, and an  *)
(* identifier is never given out again.  An account whose address is not   *)
(* verified is refused by verify-edu, and is as good as none here.         *)
(***************************************************************************)
EXTENDS Naturals, FiniteSets

CONSTANTS
  Email,      \* addresses
  Edu,        \* those that end in .edu
  Clerk,      \* identifiers of accounts at Clerk
  MaxRows,    \* bound: rows of users ever made
  Request,    \* slots for requests in flight
  Purger,     \* purges that may run at a time
  Limit,      \* rows a purge takes at most
  NotYet,     \* an identifier Clerk has not given out
  Gone,       \* one whose account was removed
  MaxFaults   \* bound: failed statements and calls, stops of the service

ASSUME EmailAssumption == Edu \subseteq Email /\ {NotYet, Gone} \cap Email = {}
ASSUME GoneAssumption == NotYet # Gone
ASSUME BoundsAssumption == MaxRows \in Nat /\ Limit \in Nat /\ MaxFaults \in Nat

VARIABLES
  primary,   \* Clerk: the verified primary address of each account
  held,      \* history: the addresses each account ever had
  users,     \* rows of users by id
  invite,    \* invite_requests.status, by address
  signed,    \* addresses with a signed token that has not expired
  vouched,   \* history: the rows each invite verified
  request,   \* where each request in flight stands
  older,     \* rows deleted since each request in flight began
  purger,    \* the rows each purge still has to do, and the one whose
             \* account at Clerk it has removed
  faults     \* faults so far, up to MaxFaults

clerk == <<primary, held>>
invites == <<invite, signed>>
vars == <<clerk, users, invites, vouched, request, older, purger, faults>>

Id == 1..MaxRows
Invitable == Email \ Edu
NoRow == [state |-> "none"]
Purged == [state |-> "purged"]
Idle == [pc |-> "idle"]
Asleep == [batch |-> {}, doomed |-> {}]

HasAccount(k) == primary[k] \in Email
IsRow(i) == users[i].state = "row"
\* The unique columns clerk_id and email.
Mine(k) == {i \in Id : IsRow(i) /\ users[i].clerk = k}
Of(e) == {i \in Id : IsRow(i) /\ users[i].email = e}
Deleted(i) == IsRow(i) /\ users[i].deleted # "no"

Init ==
  /\ primary = [k \in Clerk |-> NotYet]
  /\ held = [k \in Clerk |-> {}]
  /\ users = [i \in Id |-> NoRow]
  /\ invite = [e \in Invitable |-> "none"]
  /\ signed = {}
  /\ vouched = [e \in Invitable |-> {}]
  /\ request = [q \in Request |-> Idle]
  /\ older = [q \in Request |-> {}]
  /\ purger = [p \in Purger |-> Asleep]
  /\ faults = 0

Fault == faults < MaxFaults /\ faults' = faults + 1

-----------------------------------------------------------------------------
(* Clerk.                                                                  *)

\* Signing up, and changing the address of an account there is.
TakeAddress(k, e) ==
  /\ primary[k] # Gone
  /\ \A other \in Clerk : primary[other] # e
  /\ primary' = [primary EXCEPT ![k] = e]
  /\ held' = [held EXCEPT ![k] = @ \cup {e}]
  /\ UNCHANGED <<users, invites, vouched, request, older, purger, faults>>

\* The person removes the account at Clerk; Subly is not told.
LeaveClerk(k) ==
  /\ HasAccount(k)
  /\ primary' = [primary EXCEPT ![k] = Gone]
  /\ UNCHANGED <<held, users, invites, vouched, request, older, purger, faults>>

-----------------------------------------------------------------------------
(* Requests.                                                               *)

\* The bound on rows: one is left for each request in flight and one more.
RoomForRows ==
  Cardinality({q \in Request : request[q] # Idle})
    < Cardinality({i \in Id : users[i] = NoRow})

Begin(q, r) ==
  /\ request[q] = Idle
  /\ RoomForRows
  /\ request' = [request EXCEPT ![q] = r]
  /\ UNCHANGED older

Goto(q, pc) == request' = [request EXCEPT ![q].pc = pc] /\ UNCHANGED older

Finish(q) ==
  /\ request' = [request EXCEPT ![q] = Idle]
  /\ older' = [older EXCEPT ![q] = {}]

\* The next id: ids are random, and which one a row gets makes no difference.
Fresh(i) == users[i] = NoRow /\ \A j \in 1..(i - 1) : users[j] # NoRow

NewRow(i, k, e, verified) ==
  users' = [users EXCEPT ![i] =
              [state |-> "row", clerk |-> k, email |-> e,
               verified |-> verified, deleted |-> "no"]]

\* Mutant of ReadPrimaryEmail: the address is the one in the request's body.
TrustTheBody(q, k) ==
  /\ HasAccount(k)
  /\ \E e \in Email : Begin(q, [pc |-> "check", clerk |-> k, email |-> e])
  /\ UNCHANGED <<clerk, users, invites, vouched, purger, faults>>
(***************************************************************************)
(* POST /verify-edu: the account's address at Clerk is read ...            *)
(***************************************************************************)
ReadPrimaryEmail(q, k) ==
  /\ HasAccount(k)
  /\ Begin(q, [pc |-> "check", clerk |-> k, email |-> primary[k]])
  /\ UNCHANGED <<clerk, users, invites, vouched, purger, faults>>

\* ... its row must not be deleted (403) ...
CheckDeleted(q) ==
  /\ request[q].pc = "check"
  /\ IF \E i \in Of(request[q].email) : Deleted(i)
     THEN Finish(q) ELSE Goto(q, "upsert")
  /\ UNCHANGED <<clerk, users, invites, vouched, purger, faults>>

\* Mutant of UpdateRow: who signs up again gets the account back.
Reinstate(q, i) ==
  /\ request[q].pc = "upsert"
  /\ i \in Of(request[q].email)
  /\ Mine(request[q].clerk) \subseteq {i}
  /\ users' = [users EXCEPT ![i].clerk = request[q].clerk,
                            ![i].verified = request[q].email \in Edu,
                            ![i].deleted = "no"]
  /\ Finish(q)
  /\ UNCHANGED <<clerk, invites, vouched, purger, faults>>
(***************************************************************************)
(* ... and the upsert: a row of this address goes over to the account, and *)
(* an account that has another row already makes it fail (500).            *)
(***************************************************************************)
UpdateRow(q, i) ==
  /\ request[q].pc = "upsert"
  /\ i \in Of(request[q].email)
  /\ Mine(request[q].clerk) \subseteq {i}
  /\ users' = [users EXCEPT ![i].clerk = request[q].clerk,
                            ![i].verified = request[q].email \in Edu]
  /\ Finish(q)
  /\ UNCHANGED <<clerk, invites, vouched, purger, faults>>

InsertRow(q, i) ==
  /\ request[q].pc = "upsert"
  /\ Of(request[q].email) = {}
  /\ Mine(request[q].clerk) = {}
  /\ Fresh(i)
  /\ NewRow(i, request[q].clerk, request[q].email, request[q].email \in Edu)
  /\ Finish(q)
  /\ UNCHANGED <<clerk, invites, vouched, purger, faults>>

UpsertClashes(q) ==
  /\ request[q].pc = "upsert"
  /\ Mine(request[q].clerk) \ Of(request[q].email) # {}
  /\ Finish(q)
  /\ UNCHANGED <<clerk, users, invites, vouched, purger, faults>>

(***************************************************************************)
(* POST /invite-request/redeem with a signed token: the invite must be     *)
(* approved and not redeemed ...                                           *)
(***************************************************************************)
ReadInvite(q, k, e) ==
  /\ HasAccount(k)
  /\ e \in signed
  /\ invite[e] = "approved"
  /\ Begin(q, [pc |-> "grant", clerk |-> k, email |-> e])
  /\ UNCHANGED <<clerk, users, invites, vouched, purger, faults>>

\* Mutant of GrantToRow: ON CONFLICT (clerk_id) DO NOTHING.
GrantNothing(q, i) ==
  /\ request[q].pc = "grant"
  /\ i \in Mine(request[q].clerk)
  /\ Goto(q, "mark")
  /\ UNCHANGED <<clerk, users, vouched, invites, purger, faults>>
\* ... the row of the account, deleted or not, is verified, ...
GrantToRow(q, i) ==
  /\ request[q].pc = "grant"
  /\ i \in Mine(request[q].clerk)
  /\ users' = [users EXCEPT ![i].verified = TRUE]
  /\ vouched' = [vouched EXCEPT ![request[q].email] = @ \cup {i}]
  /\ Goto(q, "mark")
  /\ UNCHANGED <<clerk, invites, purger, faults>>

\* ... or made with the invite's address ...
GrantNewRow(q, i) ==
  /\ request[q].pc = "grant"
  /\ Mine(request[q].clerk) = {}
  /\ Of(request[q].email) = {}
  /\ Fresh(i)
  /\ NewRow(i, request[q].clerk, request[q].email, TRUE)
  /\ vouched' = [vouched EXCEPT ![request[q].email] = @ \cup {i}]
  /\ Goto(q, "mark")
  /\ UNCHANGED <<clerk, invites, purger, faults>>

\* ... which another account's row may have (500) ...
GrantClashes(q) ==
  /\ request[q].pc = "grant"
  /\ Mine(request[q].clerk) = {}
  /\ Of(request[q].email) # {}
  /\ Finish(q)
  /\ UNCHANGED <<clerk, users, invites, vouched, purger, faults>>

\* ... and the invite is marked.
MarkRedeemed(q) ==
  /\ request[q].pc = "mark"
  /\ invite' = [invite EXCEPT ![request[q].email] = "redeemed"]
  /\ Finish(q)
  /\ UNCHANGED <<clerk, users, signed, vouched, purger, faults>>

\* A statement fails, or the service stops: what was written stays.
RequestFails(q) ==
  /\ request[q] # Idle
  /\ Fault
  /\ Finish(q)
  /\ UNCHANGED <<clerk, users, invites, vouched, purger>>

(***************************************************************************)
(* DELETE /me.                                                             *)
(***************************************************************************)
SoftDelete(k, i) ==
  /\ HasAccount(k)
  /\ i \in Mine(k)
  /\ ~Deleted(i)
  /\ users' = [users EXCEPT ![i].deleted = "waiting", ![i].verified = FALSE]
  /\ older' = [q \in Request |->
                 IF request[q] = Idle THEN {} ELSE older[q] \cup {i}]
  /\ UNCHANGED <<clerk, invites, vouched, request, purger, faults>>

(***************************************************************************)
(* 30 days pass, purge_after <= NOW().  No request lasts that long.        *)
(***************************************************************************)
DaysPass(i) ==
  /\ IsRow(i)
  /\ users[i].deleted = "waiting"
  /\ \A q \in Request : i \notin older[q]
  /\ users' = [users EXCEPT ![i].deleted = "due"]
  /\ UNCHANGED <<clerk, invites, vouched, request, older, purger, faults>>

-----------------------------------------------------------------------------
(* Invites: requested by anybody, decided by an admin, verified by a link. *)

RequestInvite(e) ==
  /\ invite[e] = "none"
  /\ invite' = [invite EXCEPT ![e] = "pending"]
  /\ UNCHANGED <<clerk, users, signed, vouched, request, older, purger, faults>>

\* The route and the script.
Decide(e, status) ==
  /\ invite[e] = "pending"
  /\ status \in {"approved", "rejected"}
  /\ invite' = [invite EXCEPT ![e] = status]
  /\ UNCHANGED <<clerk, users, signed, vouched, request, older, purger, faults>>

\* GET /invite-request/verify, as often as the link is opened.
VerifyLink(e) ==
  /\ invite[e] = "approved"
  /\ signed' = signed \cup {e}
  /\ UNCHANGED <<clerk, users, invite, vouched, request, older, purger, faults>>

\* The last signed token of an invite expires.
TokensExpire(e) ==
  /\ e \in signed
  /\ signed' = signed \ {e}
  /\ UNCHANGED <<clerk, users, invite, vouched, request, older, purger, faults>>

-----------------------------------------------------------------------------
(* The purge.                                                              *)

\* Mutant of Due: the SELECT does not look at purge_after.
DueOrWaiting == {i \in Id : Deleted(i)}
Due == {i \in Id : IsRow(i) /\ users[i].deleted = "due"}

(***************************************************************************)
(* The SELECT: the ids and clerk_ids of at most Limit rows.  The code takes*)
(* the oldest; here they may be any.                                       *)
(***************************************************************************)
SelectDue(p) ==
  /\ purger[p] = Asleep
  /\ \E S \in SUBSET Due :
       /\ S # {}
       /\ Cardinality(S) <= Limit
       /\ Cardinality(S) < Limit => S = Due
       /\ purger' = [purger EXCEPT ![p].batch =
                       {[id |-> i, clerk |-> users[i].clerk] : i \in S}]
  /\ UNCHANGED <<clerk, users, invites, vouched, request, older, faults>>

\* Mutant of RemoveClerk: an account that is not found is a failure.
RethrowNotFound(p, u) ==
  /\ u \in purger[p].batch
  /\ purger[p].doomed = {}
  /\ primary' = [primary EXCEPT ![u.clerk] = Gone]
  /\ purger' = [purger EXCEPT
                  ![p] = IF primary[u.clerk] = Gone
                         THEN [@ EXCEPT !.batch = @ \ {u}]
                         ELSE [@ EXCEPT !.doomed = {u}]]
  /\ UNCHANGED <<held, users, invites, vouched, request, older, faults>>
\* deleteUser at Clerk for one of them; that it is not found is no error.
RemoveClerk(p, u) ==
  /\ u \in purger[p].batch
  /\ purger[p].doomed = {}
  /\ primary' = [primary EXCEPT ![u.clerk] = Gone]
  /\ purger' = [purger EXCEPT ![p].doomed = {u}]
  /\ UNCHANGED <<held, users, invites, vouched, request, older, faults>>

Done(p, u) ==
  purger' = [purger EXCEPT ![p].batch = @ \ {u}, ![p].doomed = {}]

\* ... and the row, which another purge may have deleted.
DeleteRow(p, u) ==
  /\ u \in purger[p].doomed
  /\ users' = [users EXCEPT ![u.id] = Purged]
  /\ Done(p, u)
  /\ UNCHANGED <<clerk, invites, vouched, request, older, faults>>

\* Clerk or the database fails: the user is left to a later purge.
SkipUser(p, u) ==
  /\ u \in purger[p].batch
  /\ purger[p].doomed \subseteq {u}
  /\ Fault
  /\ Done(p, u)
  /\ UNCHANGED <<clerk, users, invites, vouched, request, older>>

PurgeStops(p) ==
  /\ purger[p] # Asleep
  /\ Fault
  /\ purger' = [purger EXCEPT ![p] = Asleep]
  /\ UNCHANGED <<clerk, users, invites, vouched, request, older>>

-----------------------------------------------------------------------------

User == [id: Id, clerk: Clerk]

RequestStep(q) ==
  \/ CheckDeleted(q)
  \/ \E i \in Id : UpdateRow(q, i) \/ InsertRow(q, i)
  \/ UpsertClashes(q)
  \/ \E i \in Id : GrantToRow(q, i) \/ GrantNewRow(q, i)
  \/ GrantClashes(q)
  \/ MarkRedeemed(q)

PurgeStep(p) ==
  \/ SelectDue(p)
  \/ \E u \in User : RemoveClerk(p, u) \/ DeleteRow(p, u)

Next ==
  \/ \E k \in Clerk : LeaveClerk(k) \/ \E e \in Email : TakeAddress(k, e)
  \/ \E q \in Request, k \in Clerk : ReadPrimaryEmail(q, k)
  \/ \E q \in Request, k \in Clerk, e \in Invitable : ReadInvite(q, k, e)
  \/ \E q \in Request : RequestStep(q) \/ RequestFails(q)
  \/ \E k \in Clerk, i \in Id : SoftDelete(k, i)
  \/ \E i \in Id : DaysPass(i)
  \/ \E e \in Invitable :
       \/ RequestInvite(e) \/ VerifyLink(e) \/ TokensExpire(e)
       \/ \E status \in {"approved", "rejected"} : Decide(e, status)
  \/ \E p \in Purger : PurgeStep(p) \/ PurgeStops(p)
  \/ \E p \in Purger, u \in User : SkipUser(p, u)

(***************************************************************************)
(* A request that began runs to its end, the worker's interval comes round *)
(* and a purge goes through its batch, and time passes.  Nobody has to     *)
(* sign up, to ask for anything or to be invited.                          *)
(***************************************************************************)
Fairness ==
  /\ \A q \in Request : WF_vars(RequestStep(q))
  /\ \A p \in Purger : WF_vars(PurgeStep(p))
  /\ \A i \in Id : WF_vars(DaysPass(i))

Spec == Init /\ [][Next]_vars
FairSpec == Spec /\ Fairness

-----------------------------------------------------------------------------

Row ==
  [state: {"row"}, clerk: Clerk, email: Email, verified: BOOLEAN,
   deleted: {"no", "waiting", "due"}]
Verifying == [pc: {"check", "upsert"}, clerk: Clerk, email: Email]
Redeeming == [pc: {"grant", "mark"}, clerk: Clerk, email: Invitable]

TypeOK ==
  /\ primary \in [Clerk -> Email \cup {NotYet, Gone}]
  /\ held \in [Clerk -> SUBSET Email]
  /\ users \in [Id -> {NoRow, Purged} \cup Row]
  /\ invite \in [Invitable ->
                   {"none", "pending", "approved", "rejected", "redeemed"}]
  /\ signed \in SUBSET Invitable
  /\ vouched \in [Invitable -> SUBSET Id]
  /\ request \in [Request -> {Idle} \cup Verifying \cup Redeeming]
  /\ older \in [Request -> SUBSET Id]
  /\ purger \in [Purger -> [batch: SUBSET User, doomed: SUBSET User]]
  /\ faults \in Nat

(***************************************************************************)
(* Nobody but the purge removes a row, and only one that was deleted 30    *)
(* days ago; once deleted, no request of any account brings it back.       *)
(* (DeleteAccountSection.tsx:43, "permanently deleted after 30 days. This  *)
(* cannot be undone"; the comment of index.js:337-339.)                    *)
(***************************************************************************)
DeletionIsFinal ==
  [][\A i \in Id :
       IsRow(i) /\ users'[i] # users[i]
         => \/ users[i].deleted = "due" /\ users'[i] = Purged
            \/ /\ users'[i].state = "row"
               /\ users[i].deleted # "no" => users'[i].deleted # "no"]_vars

(***************************************************************************)
(* The clerk_id a purge has read is still that of a deleted user when it   *)
(* removes the account at Clerk: no purge takes an account from somebody   *)
(* who uses it with another row.  (index.js:742-770.)                      *)
(***************************************************************************)
PurgeSparesOthers ==
  [][\A k \in Clerk :
       HasAccount(k) /\ primary'[k] = Gone /\ purger' # purger
         => /\ Mine(k) # {}
            /\ \A i \in Mine(k) : users[i].deleted = "due"]_vars

(***************************************************************************)
(* A verified user either signed in with an address that ends in .edu and  *)
(* was theirs at Clerk, or was vouched for by an invite.  (The comment     *)
(* index.js:325-332, "would let any signed-in user claim an arbitrary .edu *)
(* address".)                                                              *)
(***************************************************************************)
VerifiedIsEarned ==
  \A i \in Id :
    IsRow(i) /\ users[i].verified =>
      \/ users[i].email \in Edu /\ users[i].email \in held[users[i].clerk]
      \/ \E e \in Invitable : i \in vouched[e]

(***************************************************************************)
(* An invite is not used up in vain: one that is marked redeemed has       *)
(* verified a user, whatever failed on the way.  (index.js:675-689.)       *)
(***************************************************************************)
RedeemedVerified ==
  \A e \in Invitable : invite[e] = "redeemed" => vouched[e] # {}

(***************************************************************************)
(* Every deleted account is purged in the end, also when calls fail or the *)
(* service stops between Clerk and the database.  (The comments of         *)
(* index.js:734-741 and 699-705.)                                          *)
(***************************************************************************)
DeletedIsPurged ==
  \A i \in Id : Deleted(i) ~> users[i] = Purged
=============================================================================
