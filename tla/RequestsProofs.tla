--------------------------- MODULE RequestsProofs ----------------------------
(***************************************************************************)
(* What meets a request of the browser: the pages (Navigation), however    *)
(* many calls fail and whatever pages a person opens, and the gateway      *)
(* behind them (Gateway), for any users, addresses, numbers of concurrent  *)
(* requests and any rate, burst and idle time that meet its assumptions.   *)
(***************************************************************************)
EXTENDS Navigation, Gateway, TLAPS

-----------------------------------------------------------------------------
(* Navigation.                                                             *)

(***************************************************************************)
(* What a visit knows at each of its steps, whatever the second tab does   *)
(* to the account in between.                                              *)
(***************************************************************************)
Shape ==
  /\ faults \in Nat /\ crossed \in BOOLEAN
  /\ (going = "none") <=> (step = "none")

\* The dashboard is behind the middleware: a session that ends under it is a
\* fault, and the address it verifies stays so.
OnDashboard ==
  /\ step \in {"verify", "reread", "profile"} => going = "dashboard"
  /\ going = "dashboard" /\ step \notin {"none", "ask"} /\ ~signedIn /\ ~deleted =>
       faults >= 1 /\ (refreshed => faults >= 2)
  /\ step = "reread" => edu /\ (deleted \/ verified)

\* A gate shown to a .edu address cost a failure, its refresh another one.
GateCosts ==
  /\ refreshed => edu /\ view = "gate"
  /\ ~deleted /\ edu /\ view = "gate" => faults >= 1
  /\ ~deleted /\ refreshed /\ Idle => faults >= 2

\* An invite's verification is lost, or about to be, when a dashboard has not
\* read it: after a failure, or when it was redeemed meanwhile.
InviteCosts ==
  ~deleted /\ invite = "redeemed" =>
    \/ verified /\ step # "verify" /\ other # "verify"
    \/ faults >= 1
    \/ crossed

IInv == Shape /\ OnDashboard /\ GateCosts /\ InviteCosts

-----------------------------------------------------------------------------
LEMMA InitIInv == Init => IInv
<1> SUFFICES ASSUME Init PROVE IInv
  OBVIOUS
<1>1. Shape
  BY DEF Init, Shape
<1>2. OnDashboard /\ GateCosts /\ InviteCosts
  BY DEF Init, OnDashboard, GateCosts, InviteCosts, Idle
<1> QED
  BY <1>1, <1>2 DEF IInv

\* No link leads nowhere.
LEMMA LinksAreRoutes == \A v : "none" \notin Links(v)
BY DEF Links, HomeLinks, LegalLinks, DashboardLinks, Step2Links, BrowseLinks,
       SavedLinks, MyListingsLinks, ListingLinks, UserLinks, MessagesLinks,
       ThreadLinks, FormLinks, SettingsLinks, NavBar

\* Only a gate shown again keeps that it was refreshed.
LEMMA Shown ==
  ASSUME NEW v, Show(v)
  PROVE  /\ view' = v /\ going' = "none" /\ step' = "none"
         /\ refreshed' => refreshed /\ v = "gate" /\ view = "gate"
BY DEF Show

LEMMA PersonKeeps ==
  ASSUME IInv, Person \/ Approve \/ GateRefresh, UNCHANGED elsewhere
  PROVE  IInv'
<1> USE DEF IInv, Shape, OnDashboard, GateCosts, InviteCosts, Idle,
            SessionUser, Request, Redirect, Fault, account, browser, elsewhere
<1>1. CASE FollowLink
  BY <1>1, LinksAreRoutes DEF FollowLink
<1>2. CASE OpenAddress
  BY <1>2 DEF OpenAddress, Outside
<1>3. CASE SignIn \/ GetStarted \/ SignUp
  BY <1>3 DEF SignIn, GetStarted, SignUp
<1>4. CASE SignOut \/ SessionEnds
  BY <1>4 DEF SignOut, SessionEnds
<1>5. CASE RequestInvite \/ Approve
  BY <1>5 DEF RequestInvite, Approve
<1>6. CASE MessageLister
  <2>1. Idle /\ UNCHANGED <<signedIn, account>> /\ (faults' = faults \/ faults' = faults + 1)
    BY <1>6 DEF MessageLister
  <2>2. Redirect("thread") \/ Show("crash")
    BY <1>6 DEF MessageLister
  <2>3. CASE Redirect("thread")
    BY <2>1, <2>3 DEF Redirect, Request
  <2>4. CASE Show("crash")
    BY <2>1, <2>4, Shown
  <2> QED
    BY <2>2, <2>3, <2>4
<1>7. CASE SaveProfile
  <2>1. /\ UNCHANGED <<edu, verified, deleted, invite>>
        /\ faults' = faults \/ faults' = faults + 1
        /\ signedIn' = signedIn
        /\ Idle
        /\ \/ UNCHANGED browser
           \/ view # "gate" /\ UNCHANGED <<view, refreshed>>
              /\ going' = "dashboard" /\ step' = "ask"
    BY <1>7 DEF SaveProfile
  <2> QED
    BY <2>1
<1>8. CASE DeleteAccount
  <2>1. /\ UNCHANGED <<edu, invite, view, refreshed>>
        /\ faults' = faults \/ faults' = faults + 1
        /\ Idle /\ view = "settings"
        /\ \/ UNCHANGED <<signedIn, going, step>>
           \/ going' = "home" /\ step' = "ask"
    BY <1>8 DEF DeleteAccount
  <2>2. deleted' \/ (verified => verified')
    BY <1>8 DEF DeleteAccount
  <2>3. ~deleted
    BY <1>8 DEF DeleteAccount
  <2> QED
    BY <2>1, <2>2, <2>3
<1>9. CASE GateRefresh
  BY <1>9 DEF GateRefresh
<1> QED
  BY <1>1, <1>2, <1>3, <1>4, <1>5, <1>6, <1>7, <1>8, <1>9 DEF Person

(***************************************************************************)
(* What most pages do: read, then show something or redirect.              *)
(***************************************************************************)
Counts == faults' = faults \/ faults' = faults + 1
Leaves ==
  /\ UNCHANGED <<signedIn, account>> /\ Counts
  /\ \/ \E v \in View \ {"gate"} : Show(v)
     \/ \E r \in Route : Request(r)

LEMMA LeavesKeeps ==
  ASSUME IInv, Leaves, UNCHANGED elsewhere
  PROVE  IInv'
<1> USE DEF IInv, Shape, OnDashboard, GateCosts, InviteCosts, Idle,
            SessionUser, Counts, account, elsewhere
<1>1. ASSUME NEW v \in View \ {"gate"}, Show(v)
      PROVE  IInv'
  BY <1>1, Shown DEF Leaves
<1>2. ASSUME NEW r \in Route, Request(r)
      PROVE  IInv'
  <2>1. r # "none"
    BY DEF Route, Guarded
  <2> QED
    BY <1>2, <2>1 DEF Leaves, Request
<1> QED
  BY <1>1, <1>2 DEF Leaves

LEMMA PagesLeave ==
  ASSUME \/ BrowsePage \/ SavedListingsPage \/ MyListingsPage \/ OnboardingPage
         \/ SettingsPage \/ MessagesPage \/ ThreadPage \/ ListingDetailPage
         \/ UserProfilePage \/ NewListingPage \/ EditListingPage \/ ProfilePage
  PROVE  Leaves /\ step = "data"
<1> USE DEF View, Inside, Guarded, Route, At, Counts, Fault, Redirect
<1>1. ASSUME NEW r \in Guarded \ {"profile"}, NEW throws, NEW absent, Page(r, throws, absent)
      PROVE  Leaves /\ step = "data"
  BY <1>1 DEF Page, Leaves
<1>2. CASE NewListingPage
  BY <1>2 DEF NewListingPage, Leaves
<1>3. CASE EditListingPage
  BY <1>3 DEF EditListingPage, Leaves
<1>4. CASE ProfilePage
  BY <1>4 DEF ProfilePage, Leaves
<1> QED
  BY <1>1, <1>2, <1>3, <1>4 DEF BrowsePage, SavedListingsPage, MyListingsPage,
     OnboardingPage, SettingsPage, MessagesPage, ThreadPage, ListingDetailPage,
     UserProfilePage

LEMMA PublicPagesLeave ==
  ASSUME \/ HomePage \/ AdminPage \/ SignupPage
  PROVE  Leaves
<1> USE DEF View, Inside, Guarded, Route, At, Counts, Fault, Redirect
<1>1. CASE HomePage
  BY <1>1 DEF HomePage, Leaves, Request, Show, Idle
<1>2. CASE AdminPage
  BY <1>2 DEF AdminPage, Leaves, Show, Idle
<1>3. CASE SignupPage
  BY <1>3 DEF SignupPage, Leaves, Request, Show, Idle
<1> QED
  BY <1>1, <1>2, <1>3

LEMMA GuardKeeps ==
  ASSUME IInv, Middleware \/ RequireEduVerified, UNCHANGED elsewhere
  PROVE  IInv'
<1> USE DEF IInv, Shape, OnDashboard, GateCosts, InviteCosts, Idle,
            SessionUser, account, elsewhere, Inside, Guarded
<1>1. CASE Middleware
  <2>1. CASE going \in Protected /\ ~signedIn
    <3>1. Show("signIn") /\ UNCHANGED <<signedIn, account, faults>>
      BY <1>1, <2>1 DEF Middleware
    <3> QED
      BY <3>1, Shown
  <2>2. CASE ~(going \in Protected /\ ~signedIn)
    <3>1. /\ step' = "page" /\ UNCHANGED <<view, refreshed, going>>
          /\ UNCHANGED <<signedIn, account, faults>>
          /\ step = "ask"
      BY <1>1, <2>2 DEF Middleware, Continue
    <3> QED
      BY <2>2, <3>1 DEF Protected
  <2> QED
    BY <2>1, <2>2
<1>2. CASE RequireEduVerified
  <2>1. /\ UNCHANGED <<signedIn, account, view, refreshed>>
        /\ faults' = faults \/ faults' = faults + 1
        /\ step = "page" /\ going \in Guarded
        /\ \/ SessionUser /\ verified /\ step' = "data" /\ going' = going
           \/ going' = "dashboard" /\ step' = "ask"
    BY <1>2 DEF RequireEduVerified, Continue, Redirect, Request, Fault
  <2> QED
    BY <2>1
<1> QED
  BY <1>1, <1>2

LEMMA DashboardKeeps ==
  ASSUME IInv, DashboardUser \/ DashboardVerify \/ DashboardReread \/ DashboardProfile,
         UNCHANGED elsewhere
  PROVE  IInv'
<1> USE DEF IInv, Shape, OnDashboard, GateCosts, InviteCosts, Idle,
            SessionUser, account, elsewhere, Guarded, Fault, Continue, At
<1>1. CASE DashboardUser
  <2>1. /\ UNCHANGED <<signedIn, account>>
        /\ step = "page" /\ going = "dashboard"
    BY <1>1 DEF DashboardUser
  <2>2. CASE faults' = faults + 1 /\ Show("gate")
    BY <2>1, <2>2, Shown
  <2>3. CASE faults' = faults + 1 /\ Continue("verify")
    BY <2>1, <2>3
  <2>4. CASE faults' = faults /\ SessionUser /\ verified /\ Continue("profile")
    BY <2>1, <2>4
  <2>5. CASE faults' = faults /\ ~(SessionUser /\ verified) /\ Continue("verify")
    BY <2>1, <2>5
  <2> QED
    BY <1>1, <2>2, <2>3, <2>4, <2>5 DEF DashboardUser
<1>2. CASE DashboardVerify
  <2>1. /\ UNCHANGED <<signedIn, edu, deleted, hasProfile, invite>>
        /\ step = "verify" /\ going = "dashboard"
        /\ deleted => (verified' <=> verified)
        /\ (verified' <=> verified) \/ (verified' <=> edu)
    BY <1>2 DEF DashboardVerify, VerifyEdu
  <2>2. CASE faults' = faults + 1 /\ (Show("gate") \/ Show("error"))
    BY <2>1, <2>2, Shown
  <2>3. CASE faults' = faults /\ edu /\ ~deleted /\ verified' /\ Continue("reread")
    BY <2>1, <2>3
  <2>4. CASE faults' = faults /\ ~(edu /\ ~deleted) /\ Show("gate")
    BY <2>1, <2>4, Shown
  <2> QED
    BY <1>2, <2>2, <2>3, <2>4 DEF DashboardVerify, VerifyEdu
<1>3. CASE DashboardReread
  <2>1. /\ UNCHANGED <<signedIn, account>>
        /\ step = "reread" /\ going = "dashboard"
    BY <1>3 DEF DashboardReread
  <2>2. CASE faults' = faults + 1 /\ Show("gate")
    BY <2>1, <2>2, Shown
  <2>3. CASE faults' = faults /\ Continue("profile")
    BY <2>1, <2>3
  <2>4. CASE faults' = faults /\ ~(SessionUser /\ verified) /\ Show("gate")
    BY <2>1, <2>4, Shown
  <2> QED
    BY <1>3, <2>2, <2>3, <2>4 DEF DashboardReread
<1>4. CASE DashboardProfile
  <2>1. Leaves
    BY <1>4 DEF DashboardProfile, Leaves, Counts, View, Route, Redirect, Request, Show
  <2> QED
    BY <2>1, LeavesKeeps
<1> QED
  BY <1>1, <1>2, <1>3, <1>4

LEMMA CompleteKeeps ==
  ASSUME IInv, \/ CompletePage /\ UNCHANGED elsewhere
               \/ Redeem /\ UNCHANGED other
  PROVE  IInv'
<1> USE DEF Inside, Guarded, At, Fault
<1>1. CASE CompletePage /\ UNCHANGED elsewhere
  <2>1. /\ UNCHANGED <<signedIn, account, elsewhere, faults>>
        /\ step = "page" /\ going = "complete"
        /\ \/ Redirect("home") \/ Redirect("dashboard")
           \/ Continue("redeem")
    BY <1>1 DEF CompletePage
  <2>2. CASE Continue("redeem")
    BY <2>1, <2>2 DEF Continue, IInv, Shape, OnDashboard, GateCosts,
       InviteCosts, Idle, SessionUser, account, elsewhere
  <2>3. CASE Redirect("home") \/ Redirect("dashboard")
    <3>1. Leaves /\ UNCHANGED elsewhere
      BY <2>1, <2>3 DEF Leaves, Counts, Redirect, Request, Route, Idle
    <3> QED
      BY <3>1, LeavesKeeps
  <2> QED
    BY <2>1, <2>2, <2>3
<1>2. CASE Redeem /\ UNCHANGED other
  <2>1. /\ UNCHANGED <<signedIn, edu, deleted, hasProfile>>
        /\ step = "redeem" /\ going = "complete"
        /\ verified => verified'
        /\ invite' = "redeemed" => invite = "redeemed" \/ verified'
        /\ UNCHANGED other
        /\ faults' = faults \/ faults' = faults + 1
    BY <1>2 DEF Redeem
  <2>2. crossed' = (crossed \/ (other = "verify" /\ invite' # invite))
    BY <1>2 DEF Redeem
  <2>3. crossed' \in BOOLEAN /\ (crossed => crossed')
    BY <2>2
  <2>4. other = "verify" /\ invite' # invite => crossed'
    BY <2>2
  <2>5. Redirect("onboarding") \/ \E v \in {"redeemFailed", "crash"} : Show(v)
    BY <1>2 DEF Redeem
  <2>6. CASE Redirect("onboarding")
    BY <2>1, <2>3, <2>4, <2>6 DEF Redirect, Request, IInv, Shape, OnDashboard,
       GateCosts, InviteCosts, Idle, SessionUser
  <2>7. ASSUME NEW v \in {"redeemFailed", "crash"}, Show(v)
        PROVE  IInv'
    BY <2>1, <2>3, <2>4, <2>7, Shown DEF IInv, Shape, OnDashboard,
       GateCosts, InviteCosts, Idle, SessionUser
  <2> QED
    BY <2>5, <2>6, <2>7
<1> QED
  BY <1>1, <1>2

LEMMA ServeKeeps ==
  ASSUME IInv, Serve
  PROVE  IInv'
BY GuardKeeps, DashboardKeeps, CompleteKeeps, PagesLeave, PublicPagesLeave,
   LeavesKeeps DEF Serve, Serves

\* The second tab can only cost what the invariant counts.
LEMMA OtherKeeps ==
  ASSUME IInv, OtherTab
  PROVE  IInv'
<1> USE DEF IInv, Shape, OnDashboard, GateCosts, InviteCosts, Idle, SessionUser, Fault,
            account, browser, elsewhere
<1>1. CASE OtherDashboard
  BY <1>1 DEF OtherDashboard
<1>2. CASE OtherVerify
  <2>1. /\ UNCHANGED <<signedIn, edu, deleted, invite, browser, crossed>>
        /\ other = "verify" /\ other' = "away"
        /\ faults' = faults \/ faults' = faults + 1
        /\ edu /\ verified => verified'
    BY <1>2 DEF OtherVerify, VerifyEdu
  <2> QED
    BY <2>1
<1>3. CASE OtherRedeem
  <2>1. /\ UNCHANGED <<signedIn, edu, deleted, browser, other>>
        /\ other = "away" /\ invite = "approved" /\ verified'
        /\ faults' = faults \/ faults' = faults + 1
        /\ invite' = "redeemed" \/ invite' = invite
    BY <1>3 DEF OtherRedeem
  <2>2. crossed' = (crossed \/ (At("dashboard", "verify") /\ invite' # invite))
    BY <1>3 DEF OtherRedeem
  <2>3. crossed' \in BOOLEAN /\ (crossed => crossed')
    BY <2>2
  <2>4. step = "verify" /\ invite' # invite => crossed'
    BY <2>2 DEF At
  <2> QED
    BY <2>1, <2>3, <2>4
<1>4. CASE OtherRequestsInvite \/ OtherSaves \/ OtherDeletes \/ OtherSignsIn
  BY <1>4 DEF OtherRequestsInvite, OtherSaves, OtherDeletes, OtherSignsIn
<1> QED
  BY <1>1, <1>2, <1>3, <1>4 DEF OtherTab

LEMMA StepIInv == IInv /\ [Next]_vars => IInv'
<1> SUFFICES ASSUME IInv, [Next]_vars
             PROVE  IInv'
  OBVIOUS
<1>1. CASE UNCHANGED vars
  BY <1>1 DEF vars, account, browser, elsewhere, IInv, Shape, OnDashboard,
     GateCosts, InviteCosts, Idle, SessionUser
<1> QED
  BY <1>1, PersonKeeps, ServeKeeps, OtherKeeps DEF Next, Refreshes

-----------------------------------------------------------------------------
(***************************************************************************)
(* A .edu address is left at the gate by two failed calls at least, and    *)
(* the verification by an invite is lost by one, or when the invite was    *)
(* redeemed between a dashboard's read and its POST, whatever pages are    *)
(* opened in whatever order and whatever a second tab does meanwhile       *)
(* (dashboard/page.tsx:59-85, NonEduGate).                                 *)
(***************************************************************************)
THEOREM GateTakesFailures == Spec => []GateIsDeserved
<1>1. IInv => GateIsDeserved
  BY DEF IInv, GateCosts, InviteCosts, GateIsDeserved
<1> QED
  BY <1>1, InitIInv, StepIInv, PTL DEF Spec

-----------------------------------------------------------------------------
(* Gateway.                                                                *)

(***************************************************************************)
(* A bucket that was not used for some ticks has been refilled in each but *)
(* the first, in which a token could still be taken.                       *)
(***************************************************************************)
Refilled ==
  \A k \in DOMAIN buckets :
    \/ buckets[k].age = 0
    \/ buckets[k].tokens = Full
    \/ buckets[k].tokens >= PerTick * (buckets[k].age - 1)

\* Between the mutex and the token the bucket is there, just used.
JustUsed ==
  \A r \in Call : request[r].at = "allow" =>
    request[r].key \in DOMAIN buckets /\ buckets[request[r].key].age <= 1

\* Whoever is at the limiter is counted under a key.
Keyed == \A r \in Call : request[r].at \in {"limit", "allow"} => request[r].key \in Key

Buckets == buckets \in [DOMAIN buckets -> Bucket] /\ DOMAIN buckets \subseteq Key

Requests ==
  request \in [Call -> [at : {"idle", "validate", "limit", "allow", "upstream"},
                           key : Key \cup {None}]]

GatewayInv == Buckets /\ Requests /\ Keyed /\ JustUsed /\ Refilled

-----------------------------------------------------------------------------
(* Arithmetic.                                                             *)

LEMMA Numbers ==
  /\ Unit \in Nat \ {0} /\ PerTick \in Nat \ {0} /\ Burst \in Nat \ {0}
  /\ IdleTTL \in Nat \ {0} /\ RetryAfter \in Nat \ {0}
  /\ Full \in Nat
BY RateAssumption DEF Full

LEMMA OneTokenFits == Full >= Unit
<1>1. \A b, u \in Nat : b # 0 => b * u >= u
  OBVIOUS
<1> QED
  BY <1>1, Numbers DEF Full

LEMMA ProductStep ==
  ASSUME NEW p \in Nat, NEW n \in Nat
  PROVE  p * n \in Nat /\ p * (n + 1) = p * n + p
OBVIOUS

LEMMA ProductGrows ==
  ASSUME NEW p \in Nat, NEW m \in Nat, NEW n \in Nat, m <= n
  PROVE  p * m <= p * n
OBVIOUS

-----------------------------------------------------------------------------
(* The invariant.                                                          *)

LEMMA GatewayInitInv == GatewayInit => GatewayInv
<1> SUFFICES ASSUME GatewayInit PROVE GatewayInv
  OBVIOUS
<1>1. DOMAIN buckets = {} /\ \A r \in Call : request[r] = NoRequest
  BY DEF GatewayInit
<1>2. Buckets
  BY <1>1 DEF GatewayInit, Buckets
<1>3. Requests
  BY DEF GatewayInit, Requests, NoRequest
<1> QED
  BY <1>1, <1>2, <1>3 DEF GatewayInv, Keyed, JustUsed, Refilled, NoRequest

\* A request moves on and the buckets stay.
LEMMA MoveKeeps ==
  ASSUME GatewayInv, UNCHANGED buckets, NEW r \in Call,
         NEW at \in {"idle", "validate", "limit", "upstream"},
         NEW key \in Key \cup {None}, at = "limit" => key \in Key,
         Go(r, at, key)
  PROVE  GatewayInv'
<1>1. Buckets' /\ Refilled'
  BY DEF GatewayInv, Buckets, Refilled
<1>2. Requests' /\ Keyed' /\ JustUsed'
  BY DEF GatewayInv, Requests, Keyed, JustUsed, Go
<1> QED
  BY <1>1, <1>2 DEF GatewayInv

LEMMA LookUpKeeps ==
  ASSUME GatewayInv, NEW r \in Call, LookUp(r)
  PROVE  GatewayInv'
<1> DEFINE key == request[r].key
<1>1. key \in Key
  BY DEF GatewayInv, Keyed, LookUp
<1>2. /\ DOMAIN buckets' = DOMAIN buckets \cup {key}
      /\ buckets'[key].age = 0
      /\ buckets'[key] \in Bucket
      /\ \A k \in DOMAIN buckets : k # key => buckets'[k] = buckets[k]
  BY Numbers DEF GatewayInv, Buckets, Bucket, LookUp
<1>3. buckets' = [k \in DOMAIN buckets' |-> buckets'[k]]
  BY DEF LookUp
<1>4. Buckets'
  BY <1>1, <1>2, <1>3 DEF GatewayInv, Buckets
<1>5. Refilled'
  BY <1>2 DEF GatewayInv, Refilled
<1>6. Requests' /\ Keyed'
  BY <1>1 DEF GatewayInv, Requests, Keyed, LookUp, Go
<1>7. JustUsed'
  <2> SUFFICES ASSUME NEW s \in Call, request'[s].at = "allow"
               PROVE  /\ request'[s].key \in DOMAIN buckets'
                      /\ buckets'[request'[s].key].age <= 1
    BY DEF JustUsed
  <2>1. CASE s = r
    BY <1>2, <2>1 DEF GatewayInv, Requests, LookUp, Go
  <2>2. CASE s # r
    BY <1>2, <2>2 DEF GatewayInv, Requests, JustUsed, LookUp, Go
  <2> QED
    BY <2>1, <2>2
<1> QED
  BY <1>4, <1>5, <1>6, <1>7 DEF GatewayInv

LEMMA TakeTokenKeeps ==
  ASSUME GatewayInv, NEW r \in Call, TakeToken(r)
  PROVE  GatewayInv'
<1> DEFINE key == request[r].key
<1>1. key \in DOMAIN buckets /\ buckets[key].age <= 1 /\ buckets[key] \in Bucket
  BY DEF GatewayInv, Buckets, JustUsed, TakeToken
<1>2. /\ DOMAIN buckets' = DOMAIN buckets
      /\ buckets'[key].age = buckets[key].age
      /\ buckets'[key] \in Bucket
      /\ \A k \in DOMAIN buckets : k # key => buckets'[k] = buckets[k]
  BY <1>1, Numbers DEF GatewayInv, Buckets, Bucket, TakeToken
<1>3. Buckets'
  BY <1>1, <1>2 DEF GatewayInv, Buckets, TakeToken
<1>4. buckets[key].age = 1 => buckets'[key].tokens >= PerTick * (buckets[key].age - 1)
  BY <1>2, Numbers DEF Bucket
<1>5. Refilled'
  BY <1>1, <1>2, <1>4, Numbers DEF GatewayInv, Refilled, Bucket
<1>6. Requests' /\ Keyed' /\ JustUsed'
  BY <1>1, <1>2 DEF GatewayInv, Buckets, Requests, Keyed, JustUsed, TakeToken, Go
<1> QED
  BY <1>3, <1>5, <1>6 DEF GatewayInv

LEMMA TickKeeps ==
  ASSUME GatewayInv, Tick
  PROVE  GatewayInv'
<1>1. \A k \in DOMAIN buckets :
        /\ buckets[k].tokens \in 0 .. Full /\ buckets[k].age \in 0 .. IdleTTL + 1
        /\ buckets'[k].tokens = AtMost(buckets[k].tokens + PerTick, Full)
        /\ buckets'[k].age = AtMost(buckets[k].age + 1, IdleTTL + 1)
  BY DEF GatewayInv, Buckets, Bucket, Tick
<1>2. \A k \in DOMAIN buckets :
        buckets'[k].tokens \in 0 .. Full /\ buckets'[k].age \in 0 .. IdleTTL + 1
  BY <1>1, Numbers DEF AtMost
<1>3. DOMAIN buckets' = DOMAIN buckets
  BY DEF Tick
<1>4. Buckets'
  BY <1>3, <1>2 DEF GatewayInv, Buckets, Bucket, Tick
<1>5. Refilled'
  <2> SUFFICES ASSUME NEW k \in DOMAIN buckets
               PROVE  \/ buckets'[k].age = 0
                      \/ buckets'[k].tokens = Full
                      \/ buckets'[k].tokens >= PerTick * (buckets'[k].age - 1)
    BY <1>3 DEF Refilled
  <2>1. CASE buckets[k].tokens + PerTick >= Full
    BY <1>1, <2>1, Numbers DEF AtMost
  <2>2. CASE buckets[k].tokens + PerTick < Full
    <3>1. buckets'[k].tokens = buckets[k].tokens + PerTick
      BY <1>1, <2>2, Numbers DEF AtMost
    <3>2. CASE buckets[k].age = 0
      <4>1. buckets'[k].age - 1 = 0
        BY <1>1, <3>2, Numbers DEF AtMost
      <4>2. PerTick * (buckets'[k].age - 1) = 0
        BY <4>1, Numbers
      <4>3. buckets'[k].tokens \in Nat
        BY <1>1, <3>1, Numbers
      <4> QED
        BY <4>2, <4>3
    <3>3. CASE buckets[k].age # 0
      <4> DEFINE n == buckets[k].age - 1
      <4>1. /\ n \in Nat
            /\ buckets'[k].age - 1 = n \/ buckets'[k].age - 1 = n + 1
        <5>1. buckets[k].age \in Nat /\ buckets[k].age >= 1 /\ buckets[k].age <= IdleTTL + 1
          BY <1>1, <3>3, Numbers
        <5>2. buckets'[k].age = AtMost(buckets[k].age + 1, IdleTTL + 1)
          BY <1>1
        <5>3. buckets'[k].age = buckets[k].age \/ buckets'[k].age = buckets[k].age + 1
          BY <5>1, <5>2, Numbers DEF AtMost
        <5> QED
          BY <5>1, <5>3, Numbers
      <4>2. buckets[k].tokens >= PerTick * n
        BY <1>1, <2>2, <3>3, Numbers DEF GatewayInv, Refilled
      <4> HIDE DEF n
      <4>3. PerTick * n \in Nat /\ PerTick * (n + 1) = PerTick * n + PerTick
        BY <4>1, Numbers, ProductStep
      <4> QED
        BY <1>1, <3>1, <4>1, <4>2, <4>3, Numbers
    <3> QED
      BY <3>2, <3>3
  <2> QED
    BY <1>1, <2>1, <2>2, Numbers
<1>6. Requests' /\ Keyed'
  BY DEF GatewayInv, Requests, Keyed, Tick
<1>7. JustUsed'
  <2>1. \A k \in DOMAIN buckets : buckets[k].age = 0 => buckets'[k].age <= 1
    BY <1>1, Numbers DEF AtMost
  <2> QED
    BY <1>3, <2>1 DEF GatewayInv, JustUsed, Tick
<1> QED
  BY <1>4, <1>5, <1>6, <1>7 DEF GatewayInv

\* A bucket that may be evicted is full.
LEMMA StaleIsFull ==
  ASSUME GatewayInv, NEW k \in Stale
  PROVE  k \in DOMAIN buckets /\ buckets[k].tokens = Full
<1>1. /\ k \in DOMAIN buckets
      /\ buckets[k].tokens \in 0 .. Full
      /\ buckets[k].age = IdleTTL + 1
  BY Numbers DEF GatewayInv, Buckets, Bucket, Stale
<1>2. CASE buckets[k].tokens >= PerTick * IdleTTL
  BY <1>1, <1>2, RefillAssumption, Numbers
<1> QED
  BY <1>1, <1>2, Numbers DEF GatewayInv, Refilled

LEMMA EvictKeeps ==
  ASSUME GatewayInv, EvictStale
  PROVE  GatewayInv'
<1>1. /\ DOMAIN buckets' = DOMAIN buckets \ Stale
      /\ \A k \in DOMAIN buckets' : buckets'[k] = buckets[k]
  BY DEF EvictStale
<1>2. Buckets' /\ Refilled'
  BY <1>1 DEF GatewayInv, Buckets, Refilled, EvictStale
<1>3. Requests' /\ Keyed'
  BY DEF GatewayInv, Requests, Keyed, EvictStale
<1>4. JustUsed'
  <2>1. \A k \in DOMAIN buckets : buckets[k].age <= 1 => k \notin Stale
    BY Numbers DEF GatewayInv, Buckets, Bucket, Stale
  <2> QED
    BY <1>1, <2>1 DEF GatewayInv, JustUsed, EvictStale
<1> QED
  BY <1>2, <1>3, <1>4 DEF GatewayInv

LEMMA GatewayStep == GatewayInv /\ [GatewayNext]_gatewayVars => GatewayInv'
<1> SUFFICES ASSUME GatewayInv, [GatewayNext]_gatewayVars PROVE GatewayInv'
  OBVIOUS
<1>1. ASSUME NEW r \in Call, Arrive(r) PROVE GatewayInv'
  BY <1>1, MoveKeeps DEF Arrive, ArriveInternal, ArriveProtected, ArrivePublic, Key
<1>2. ASSUME NEW r \in Call,
             \/ \E user \in User : Validated(r, user)
             \/ Refused(r) \/ WriteRateLimited(r) \/ Proxied(r)
      PROVE  GatewayInv'
  BY <1>2, MoveKeeps DEF Validated, Refused, WriteRateLimited, Proxied, Answer, Go, NoRequest, Key
<1>3. CASE UNCHANGED gatewayVars
  BY <1>3 DEF gatewayVars, GatewayInv, Buckets, Requests, Keyed, JustUsed, Refilled
<1> QED
  BY <1>1, <1>2, <1>3, LookUpKeeps, TakeTokenKeeps, TickKeeps, EvictKeeps
  DEF GatewayNext, Handle

-----------------------------------------------------------------------------
(* The theorems.                                                           *)

(***************************************************************************)
(* Every value keeps its range, and a request that holds a limiter finds   *)
(* its bucket still in the pool (allow, middleware_ratelimit.go:65-77).    *)
(***************************************************************************)
THEOREM TypeCorrect == GatewaySpec => []GatewayTypeOK
<1>1. GatewayInv => GatewayTypeOK
  BY DEF GatewayInv, Buckets, Requests, GatewayTypeOK
<1> QED
  BY <1>1, GatewayInitInv, GatewayStep, PTL DEF GatewaySpec

(***************************************************************************)
(* A client that waits as long as a 429 asks has a token                   *)
(* (middleware_ratelimit.go:183), however many requests it had under way   *)
(* and whatever was evicted meanwhile.                                     *)
(***************************************************************************)
THEOREM RetriesAreAdmitted == GatewaySpec => []RetryIsAdmitted
<1>1. GatewayInv => RetryIsAdmitted
  <2> SUFFICES ASSUME GatewayInv, NEW k \in DOMAIN buckets, buckets[k].age > RetryAfter
               PROVE  buckets[k].tokens >= Unit
    BY DEF RetryIsAdmitted
  <2> DEFINE n == buckets[k].age - 1
  <2>1. n \in Nat /\ RetryAfter <= n /\ buckets[k].tokens \in Nat
    BY Numbers DEF GatewayInv, Buckets, Bucket
  <2>2. buckets[k].tokens = Full \/ buckets[k].tokens >= PerTick * n
    BY <2>1, Numbers DEF GatewayInv, Refilled
  <2> HIDE DEF n
  <2>3. PerTick * RetryAfter <= PerTick * n
    BY <2>1, Numbers, ProductGrows
  <2>4. PerTick * n \in Nat /\ PerTick * RetryAfter \in Nat
    BY <2>1, Numbers, ProductStep
  <2> QED
    BY <2>1, <2>2, <2>3, <2>4, OneTokenFits, RetryAssumption, Numbers
<1> QED
  BY <1>1, GatewayInitInv, GatewayStep, PTL DEF GatewaySpec

level == [k \in Key |-> IF k \in DOMAIN buckets THEN buckets[k].tokens ELSE Full]

LEMMA InitMaps == GatewayInit => Ideal!Init
BY DEF GatewayInit, Ideal!Init, Ideal!Full, Full

LEMMA StepMaps ==
  ASSUME GatewayInv, [GatewayNext]_gatewayVars
  PROVE  [Ideal!Next]_level
<1>1. ASSUME UNCHANGED buckets PROVE UNCHANGED level
  BY <1>1 DEF level
<1>2. ASSUME NEW r \in Call, LookUp(r) PROVE UNCHANGED level
  BY <1>2 DEF LookUp, level
<1>3. ASSUME NEW r \in Call, TakeToken(r) PROVE Ideal!Next
  <2> DEFINE key == request[r].key
  <2>1. key \in Key /\ key \in DOMAIN buckets /\ buckets[key] \in Bucket
    BY <1>3 DEF GatewayInv, Keyed, Buckets, JustUsed, TakeToken
  <2>2. level[key] >= Unit /\ level' = [level EXCEPT ![key] = @ - Unit]
    BY <1>3, <2>1 DEF TakeToken, level, Bucket
  <2> QED
    BY <2>1, <2>2 DEF Ideal!Next, Ideal!Admit, level
<1>4. CASE Tick
  <2>1. \A k \in Key : level'[k] = IF level[k] + PerTick < Full THEN level[k] + PerTick
                                   ELSE Full
    BY <1>4, Numbers DEF Tick, level, AtMost, GatewayInv, Buckets, Bucket
  <2>2. level' = [k \in Key |-> IF level[k] + PerTick < Full THEN level[k] + PerTick
                                ELSE Full]
    BY <2>1 DEF level
  <2> QED
    BY <2>2 DEF Ideal!Next, Ideal!Refill, Ideal!Full, Full, level
<1>5. CASE EvictStale
  <2>1. \A k \in Key : level'[k] = level[k]
    BY <1>5, StaleIsFull DEF EvictStale, level
  <2> QED
    BY <2>1 DEF level
<1> QED
  BY <1>1, <1>2, <1>3, <1>4, <1>5
  DEF GatewayNext, Handle, Arrive, ArriveInternal, ArriveProtected, ArrivePublic, Validated,
      Refused, WriteRateLimited, Proxied, gatewayVars

(***************************************************************************)
(* The pool with its evictions, its mutex and its racing requests          *)
(* implements buckets that are never evicted: no client is let through     *)
(* more often than its own bucket allows (middleware_ratelimit.go:44-77).  *)
(***************************************************************************)
THEOREM Refinement == GatewaySpec => ImplementsBucket
<1>1. GatewayInv /\ [GatewayNext]_gatewayVars => [Ideal!Next]_level
  BY StepMaps
<1> QED
  BY <1>1, InitMaps, GatewayInitInv, GatewayStep, PTL DEF GatewaySpec, ImplementsBucket, Ideal!Spec, level
=============================================================================
