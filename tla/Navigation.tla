----------------------------- MODULE Navigation -----------------------------
(***************************************************************************)
(* How one person gets through the web application (src/web/src): sign-in, *)
(* the verification of a .edu address or the redemption of an invite, the  *)
(* onboarding, and the redirects between the pages that depend on them.    *)
(*                                                                         *)
(* A visit is a request to a route: the middleware, then the page's server *)
(* component, one step per await, until it renders a view or redirects to  *)
(* another route.  Every read may fail (MaxFaults in a behaviour); a page  *)
(* treats a failed read as it treats an answer that is not ok, or throws.  *)
(* `going' is the route on its way, `step' the page's next step.           *)
(*                                                                         *)
(* `other' is a second tab of the same browser, or a visit that the person *)
(* has left and the server goes on with: what it does to the account and   *)
(* the session may come between any two steps of the visit.                *)
(*                                                                         *)
(* The account is what the auth service stores; email is the primary email *)
(* at Clerk and does not change.                                           *)
(***************************************************************************)
EXTENDS Naturals, FiniteSets

CONSTANT MaxFaults  \* bound: failed or lost calls in a behaviour

ASSUME MaxFaultsAssumption == MaxFaults \in Nat

VARIABLES
  signedIn,    \* a Clerk session in this browser
  edu,         \* the primary email ends in .edu
  verified,    \* users.edu_verified
  deleted,     \* users.deleted_at is set
  hasProfile,  \* a row of user_profiles
  invite,      \* the person's row of invite_requests
  view,        \* what the browser shows
  refreshed,   \* the mounted gate has called router.refresh
  going, step, \* the visit
  other,       \* the second tab's dashboard has read the account ("verify"), or not
  crossed,     \* ghost: an invite was redeemed between such a read and its POST
  faults

account == <<edu, verified, deleted, hasProfile, invite>>
browser == <<view, refreshed, going, step>>
elsewhere == <<other, crossed>>
vars == <<signedIn, account, browser, elsewhere, faults>>

\* Pages behind requireEduVerified.
Guarded == {"onboarding", "settings", "newListing", "browse", "saved", "listing",
            "editListing", "myListings", "messages", "thread", "user", "profile"}
Route == Guarded \cup {"home", "legal", "dashboard", "signup", "complete", "admin"}
\* What a guarded route may render; only behind the guard too.
Inside == (Guarded \ {"profile"}) \cup {"step2"}
View == Inside \cup {"home", "legal", "dashboard", "signup", "admin", "adminSetup",
                     "signIn", "gate", "error", "crash", "notFound",
                     "invalidInvite", "redeemFailed", "blank"}

\* middleware.ts: routes that ask for a session.
Protected == {"onboarding", "dashboard", "newListing", "settings", "admin"}

\* Where each view's links and buttons lead.
NavBar == {"dashboard", "browse", "saved", "myListings", "newListing",
           "messages", "settings", "profile"}
HomeLinks == {"home", "newListing", "dashboard", "legal"}
LegalLinks == {"home", "dashboard"}
DashboardLinks == NavBar \cup {"onboarding", "newListing", "listing"}
Step2Links == NavBar \cup {"onboarding"}
BrowseLinks == NavBar \cup {"newListing", "listing"}
SavedLinks == NavBar \cup {"browse", "listing"}
MyListingsLinks == NavBar \cup {"newListing", "listing", "editListing"}
ListingLinks == NavBar \cup {"browse", "dashboard", "user"}
UserLinks == NavBar \cup {"listing"}
MessagesLinks == NavBar \cup {"browse", "user", "thread"}
ThreadLinks == NavBar \cup {"messages", "user"}
FormLinks == NavBar \cup {"dashboard", "myListings"}
SettingsLinks == NavBar \cup {"legal"}

Links(v) ==
  CASE v = "home" -> HomeLinks
    [] v = "legal" -> LegalLinks
    [] v = "dashboard" -> DashboardLinks
    [] v = "step2" -> Step2Links
    [] v = "browse" -> BrowseLinks
    [] v = "saved" -> SavedLinks
    [] v = "myListings" -> MyListingsLinks
    [] v = "listing" -> ListingLinks
    [] v = "user" -> UserLinks
    [] v = "messages" -> MessagesLinks
    [] v = "thread" -> ThreadLinks
    [] v \in {"newListing", "editListing"} -> FormLinks
    [] v = "settings" -> SettingsLinks
    [] v \in {"onboarding", "gate"} -> NavBar
    [] v = "admin" -> {"dashboard"}
    [] v \in {"error", "invalidInvite"} -> {"home"}
    [] OTHER -> {}

\* Addresses that mails and bookmarks hold.
Outside == {"home", "dashboard", "onboarding", "signup", "complete", "thread",
            "editListing", "admin"}

Init ==
  /\ signedIn = FALSE
  /\ edu \in BOOLEAN
  /\ verified = FALSE /\ deleted = FALSE /\ hasProfile = FALSE
  /\ invite = "none"
  /\ view = "blank" /\ refreshed = FALSE
  /\ going = "none" /\ step = "none"
  /\ other = "away" /\ crossed = FALSE
  /\ faults = 0

Idle == going = "none"
Fault == faults < MaxFaults /\ faults' = faults + 1

Request(r) == going' = r /\ step' = "ask" /\ UNCHANGED <<view, refreshed>>
Redirect(r) == Request(r)
Continue(s) == step' = s /\ UNCHANGED <<view, refreshed, going>>

\* The gate that is shown again keeps its state; any other is mounted anew.
Show(v) ==
  /\ view' = v
  /\ refreshed' = (refreshed /\ v = "gate" /\ view = "gate")
  /\ going' = "none" /\ step' = "none"

At(r, s) == going = r /\ step = s

-----------------------------------------------------------------------------
(* What the person does.                                                   *)

FollowLink ==
  /\ Idle
  /\ \E r \in Links(view) : Request(r)
  /\ UNCHANGED <<signedIn, account, faults>>

\* A mail, a bookmark: a new document.
OpenAddress ==
  /\ Idle
  /\ \E r \in Outside : going' = r
  /\ step' = "ask" /\ view' = "blank" /\ refreshed' = FALSE
  /\ UNCHANGED <<signedIn, account, faults>>

\* Clerk's sign-in, from the landing page, the legal pages or its own page.
SignIn ==
  /\ Idle /\ ~signedIn
  /\ view \in {"home", "legal", "signIn"}
  /\ signedIn' = TRUE
  /\ Request("dashboard")
  /\ UNCHANGED <<account, faults>>

\* GetStartedFlow: sign-up with a .edu address.  Another one is led to the
\* invite modal, which the gate has too.
GetStarted ==
  /\ Idle /\ ~signedIn
  /\ view = "home" /\ edu
  /\ signedIn' = TRUE
  /\ Request("dashboard")
  /\ UNCHANGED <<account, faults>>

\* InviteModal and requestInvite: a .edu address is refused.
RequestInvite ==
  /\ Idle /\ view \in {"home", "gate"}
  /\ ~edu /\ invite = "none"
  /\ invite' = "pending"
  /\ UNCHANGED <<signedIn, edu, verified, deleted, hasProfile, browser, faults>>

\* An administrator approves; module Accounts has the decision.
Approve ==
  /\ invite = "pending"
  /\ invite' = "approved"
  /\ UNCHANGED <<signedIn, edu, verified, deleted, hasProfile, browser, faults>>

\* SignupWithInvite: Clerk's sign-up with afterSignUpUrl.
SignUp ==
  /\ Idle /\ ~signedIn
  /\ view = "signup"
  /\ signedIn' = TRUE
  /\ Request("complete")
  /\ UNCHANGED <<account, faults>>

\* The user button of the navigation bars, or the gate's own button.
SignOut ==
  /\ Idle /\ signedIn
  /\ view = "legal" \/ NavBar \subseteq Links(view)
  /\ signedIn' = FALSE
  /\ Request("home")
  /\ UNCHANGED <<account, faults>>

\* Also by a sign-out in the second tab; during a visit it is a fault.
SessionEnds ==
  /\ signedIn
  /\ signedIn' = FALSE
  /\ IF Idle THEN UNCHANGED faults ELSE Fault
  /\ UNCHANGED <<account, browser>>

\* The listing's form: startConversation redirects to the thread or throws.
MessageLister ==
  /\ Idle /\ view = "listing"
  /\ \/ signedIn /\ Redirect("thread") /\ UNCHANGED faults
     \/ ~signedIn /\ Show("crash") /\ UNCHANGED faults
     \/ Fault /\ Show("crash")
  /\ UNCHANGED <<signedIn, account>>

\* saveProfile: from the onboarding it redirects to the dashboard, in the
\* settings it stays; a refused call stays in both.
SaveProfile ==
  /\ Idle /\ view \in {"onboarding", "settings"}
  /\ \/ /\ signedIn /\ ~deleted
        /\ hasProfile' = TRUE
        /\ IF view = "onboarding" THEN Redirect("dashboard") ELSE UNCHANGED browser
        /\ UNCHANGED faults
     \/ /\ Fault
        /\ hasProfile' \in {hasProfile, hasProfile \/ (signedIn /\ ~deleted)}
        /\ UNCHANGED browser
  /\ UNCHANGED <<signedIn, edu, verified, deleted, invite>>

\* DeleteAccountSection and DELETE /api/account; its answer may be lost.
DeleteAccount ==
  /\ Idle /\ view = "settings" /\ signedIn /\ ~deleted
  /\ \/ /\ deleted' = TRUE /\ verified' = FALSE
        /\ signedIn' = FALSE
        /\ Redirect("home")
        /\ UNCHANGED faults
     \/ /\ Fault
        /\ deleted' \in BOOLEAN
        /\ verified' = (verified /\ ~deleted')
        /\ UNCHANGED <<signedIn, browser>>
  /\ UNCHANGED <<edu, hasProfile, invite>>

\* The gate's effect: refresh once if the address ends in .edu.
GateRefresh ==
  /\ Idle /\ view = "gate"
  /\ edu /\ ~refreshed
  /\ refreshed' = TRUE
  /\ going' = "dashboard" /\ step' = "ask"
  /\ UNCHANGED <<signedIn, account, view, faults>>

-----------------------------------------------------------------------------
(* The server: the middleware and the pages.                               *)

Middleware ==
  /\ step = "ask"
  /\ IF going \in Protected /\ ~signedIn THEN Show("signIn") ELSE Continue("page")
  /\ UNCHANGED <<signedIn, account, faults>>

\* requireEduVerified, with getSessionUser's null for anything but an ok.
SessionUser == signedIn /\ ~deleted
RequireEduVerified ==
  /\ going \in Guarded /\ step = "page"
  /\ \/ SessionUser /\ verified /\ Continue("data") /\ UNCHANGED faults
     \/ ~(SessionUser /\ verified) /\ Redirect("dashboard") /\ UNCHANGED faults
     \/ Fault /\ Redirect("dashboard")
  /\ UNCHANGED <<signedIn, account>>

\* A page that only shows what it reads.  A fetch without a try throws; a
\* listing, a conversation or a person may not be there, or not be read.
Page(r, throws, absent) ==
  /\ At(r, "data")
  /\ \/ Show(r) /\ UNCHANGED faults
     \/ absent /\ Show("notFound") /\ UNCHANGED faults
     \/ throws /\ Fault /\ Show("crash")
  /\ UNCHANGED <<signedIn, account>>

BrowsePage == Page("browse", FALSE, FALSE)
SavedListingsPage == Page("saved", FALSE, FALSE)
MyListingsPage == Page("myListings", FALSE, FALSE)
OnboardingPage == Page("onboarding", TRUE, FALSE)
SettingsPage == Page("settings", TRUE, FALSE)
MessagesPage == Page("messages", TRUE, FALSE)
ThreadPage == Page("thread", FALSE, TRUE)
ListingDetailPage == Page("listing", TRUE, TRUE)
UserProfilePage == Page("user", TRUE, TRUE)

NewListingPage ==
  /\ At("newListing", "data")
  /\ \/ Show(IF hasProfile THEN "newListing" ELSE "step2") /\ UNCHANGED faults
     \/ Fault /\ Show("newListing")
     \/ Fault /\ Show("crash")
  /\ UNCHANGED <<signedIn, account>>

\* The owner's active or paused listing, or not.
EditListingPage ==
  /\ At("editListing", "data")
  /\ \/ (Show("editListing") \/ Redirect("myListings") \/ Show("notFound"))
          /\ UNCHANGED faults
     \/ Fault /\ (Show("notFound") \/ Show("crash"))
  /\ UNCHANGED <<signedIn, account>>

ProfilePage ==
  /\ At("profile", "data")
  /\ \/ Redirect("user") /\ UNCHANGED faults
     \/ Fault /\ (Redirect("dashboard") \/ Show("crash"))
  /\ UNCHANGED <<signedIn, account>>

HomePage ==
  /\ At("home", "page") \/ At("legal", "page")
  /\ IF going = "home" /\ signedIn THEN Redirect("dashboard") ELSE Show(going)
  /\ UNCHANGED <<signedIn, account, faults>>

\* Without ADMIN_USER_IDS the layout says how to set it.
AdminPage ==
  /\ At("admin", "page")
  /\ \E v \in {"admin", "adminSetup", "notFound"} : Show(v)
  /\ UNCHANGED <<signedIn, account, faults>>

\* The dashboard's first read.  A request without a token skips the POST.
DashboardUser ==
  /\ At("dashboard", "page")
  /\ \/ Continue(IF SessionUser /\ verified THEN "profile" ELSE "verify")
          /\ UNCHANGED faults
     \/ Fault /\ (Continue("verify") \/ Show("gate"))
  /\ UNCHANGED <<signedIn, account>>

\* POST /verify-edu of the auth service: refused for a deleted account, else
\* edu_verified becomes whether the address is a .edu one.
VerifyEdu == verified' = IF deleted THEN verified ELSE edu

\* Mutant of DashboardVerify: an ok answer does not read the user again.
VerifyWithoutRereading ==
  /\ At("dashboard", "verify")
  /\ \/ VerifyEdu /\ Show("gate") /\ UNCHANGED faults
     \/ /\ Fault
        /\ VerifyEdu \/ UNCHANGED verified
        /\ Show("gate") \/ Show("error")
  /\ UNCHANGED <<signedIn, edu, deleted, hasProfile, invite>>
\* Mutant of DashboardVerify: the way verifyEduEmail goes on, to the onboarding.
VerifyThenOnboarding ==
  /\ At("dashboard", "verify")
  /\ VerifyEdu
  /\ Redirect("onboarding")
  /\ UNCHANGED <<signedIn, edu, deleted, hasProfile, invite, faults>>
\* Auto-verify.  The answer may be lost after the row was written.
DashboardVerify ==
  /\ At("dashboard", "verify")
  /\ \/ /\ VerifyEdu
        /\ IF edu /\ ~deleted THEN Continue("reread") ELSE Show("gate")
        /\ UNCHANGED faults
     \/ /\ Fault
        /\ VerifyEdu \/ UNCHANGED verified
        /\ Show("gate") \/ Show("error")
  /\ UNCHANGED <<signedIn, edu, deleted, hasProfile, invite>>

DashboardReread ==
  /\ At("dashboard", "reread")
  /\ \/ (IF SessionUser /\ verified THEN Continue("profile") ELSE Show("gate"))
          /\ UNCHANGED faults
     \/ Fault /\ Show("gate")
  /\ UNCHANGED <<signedIn, account>>

DashboardProfile ==
  /\ At("dashboard", "profile")
  /\ \/ (IF hasProfile THEN Show("dashboard") ELSE Redirect("onboarding"))
          /\ UNCHANGED faults
     \/ Fault /\ (Show("dashboard") \/ Show("error"))
  /\ UNCHANGED <<signedIn, account>>

\* The link of an approval: its token may be missing, used or too old.
SignupPage ==
  /\ At("signup", "page")
  /\ \/ invite = "approved" /\ Show("signup") /\ UNCHANGED faults
     \/ (Redirect("home") \/ Show("invalidInvite")) /\ UNCHANGED faults
     \/ Fault /\ (Show("invalidInvite") \/ Show("crash"))
  /\ UNCHANGED <<signedIn, account>>

\* /signup/complete redeems on the way; a signed token may be too old.
CompletePage ==
  /\ At("complete", "page")
  /\ IF ~signedIn THEN Redirect("home")
     ELSE Redirect("dashboard") \/ Continue("redeem")
  /\ UNCHANGED <<signedIn, account, faults>>

\* POST /invite-request/redeem: the user's row, then the invite's.
Redeem ==
  /\ At("complete", "redeem")
  /\ \/ /\ invite = "approved"
        /\ verified' = TRUE /\ invite' = "redeemed"
        /\ Redirect("onboarding") /\ UNCHANGED faults
     \/ Show("redeemFailed") /\ UNCHANGED <<verified, invite, faults>>
     \/ /\ Fault
        /\ \/ UNCHANGED <<verified, invite>>
           \/ invite = "approved" /\ verified' = TRUE /\ invite' \in {"approved", "redeemed"}
        /\ Show("redeemFailed") \/ Show("crash")
  /\ crossed' = (crossed \/ (other = "verify" /\ invite' # invite))
  /\ UNCHANGED <<signedIn, edu, deleted, hasProfile>>

-----------------------------------------------------------------------------
(* The second tab, as far as the first can tell.                           *)

\* Its dashboard has read an account that is not verified, or failed to.
OtherDashboard ==
  /\ other = "away" /\ signedIn
  /\ other' = "verify"
  /\ IF SessionUser /\ verified THEN Fault ELSE UNCHANGED faults
  /\ UNCHANGED <<signedIn, account, browser, crossed>>

\* And posts the address, with the token it started with.
OtherVerify ==
  /\ other = "verify"
  /\ other' = "away"
  /\ \/ VerifyEdu /\ UNCHANGED faults
     \/ Fault /\ UNCHANGED verified
  /\ UNCHANGED <<signedIn, edu, deleted, hasProfile, invite, browser, crossed>>

\* Its /signup/complete redeems the invite.
OtherRedeem ==
  /\ other = "away" /\ signedIn
  /\ invite = "approved"
  /\ verified' = TRUE
  /\ \/ invite' = "redeemed" /\ UNCHANGED faults
     \/ Fault /\ UNCHANGED invite
  /\ crossed' = (crossed \/ (At("dashboard", "verify") /\ invite' # invite))
  /\ UNCHANGED <<signedIn, edu, deleted, hasProfile, browser, other>>

OtherRequestsInvite ==
  /\ ~edu /\ invite = "none"
  /\ invite' = "pending"
  /\ UNCHANGED <<signedIn, edu, verified, deleted, hasProfile, browser, elsewhere, faults>>

OtherSaves ==
  /\ SessionUser
  /\ hasProfile' = TRUE
  /\ UNCHANGED <<signedIn, edu, verified, deleted, invite, browser, elsewhere, faults>>

\* DELETE /api/account; the sign-out that follows is SessionEnds.
OtherDeletes ==
  /\ SessionUser
  /\ deleted' = TRUE /\ verified' = FALSE
  /\ UNCHANGED <<signedIn, edu, hasProfile, invite, browser, elsewhere, faults>>

OtherSignsIn ==
  /\ ~signedIn
  /\ signedIn' = TRUE
  /\ UNCHANGED <<account, browser, elsewhere, faults>>

OtherTab ==
  \/ OtherDashboard \/ OtherVerify \/ OtherRedeem \/ OtherRequestsInvite
  \/ OtherSaves \/ OtherDeletes \/ OtherSignsIn

-----------------------------------------------------------------------------
Person ==
  \/ FollowLink \/ OpenAddress \/ SignIn \/ GetStarted \/ SignUp \/ SignOut
  \/ SessionEnds \/ RequestInvite \/ MessageLister \/ SaveProfile \/ DeleteAccount

Serves ==
  \/ Middleware \/ RequireEduVerified
  \/ BrowsePage \/ SavedListingsPage \/ MyListingsPage \/ OnboardingPage \/ SettingsPage
  \/ MessagesPage \/ ThreadPage \/ ListingDetailPage \/ UserProfilePage
  \/ NewListingPage \/ EditListingPage \/ ProfilePage
  \/ HomePage \/ AdminPage \/ SignupPage \/ CompletePage
  \/ DashboardUser \/ DashboardVerify \/ DashboardReread \/ DashboardProfile

Serve ==
  \/ Serves /\ UNCHANGED elsewhere
  \/ Redeem /\ UNCHANGED other

Refreshes == GateRefresh /\ UNCHANGED elsewhere

Next ==
  \/ (Person \/ Approve) /\ UNCHANGED elsewhere
  \/ Refreshes \/ Serve \/ OtherTab

Spec == Init /\ [][Next]_vars

\* The server goes on with a request; the effect of a mounted gate runs.
Fairness == WF_vars(Serve) /\ WF_vars(Refreshes)

FairSpec == Spec /\ Fairness

-----------------------------------------------------------------------------
(* Properties.                                                             *)

\* Every variable keeps its range.
TypeOK ==
  /\ {signedIn, edu, verified, deleted, hasProfile, refreshed} \subseteq BOOLEAN
  /\ invite \in {"none", "pending", "approved", "redeemed"}
  /\ view \in View
  /\ going \in Route \cup {"none"}
  /\ step \in {"none", "ask", "page", "data", "verify", "reread", "profile", "redeem"}
  /\ other \in {"away", "verify"} /\ crossed \in BOOLEAN
  /\ faults \in 0 .. MaxFaults

(***************************************************************************)
(* No visit redirects for ever: whatever an account is like, and whichever *)
(* reads fail, the pages that send each other visitors (/ and /dashboard,  *)
(* /dashboard and /onboarding, the guard and /dashboard) end at a view.    *)
(***************************************************************************)
VisitSettles == [](~Idle => <>Idle)

(***************************************************************************)
(* A student with a .edu address is left at the gate only by two failures: *)
(* the dashboard verifies the address itself, and the gate's one refresh   *)
(* makes up for a single failed call (NonEduGate.tsx:14-16).  Somebody an  *)
(* invite verified stays so, but for two cases in which the dashboard      *)
(* takes the verification away (page.tsx:70): its read of the account      *)
(* failed, or the invite was redeemed between that read and its POST.      *)
(***************************************************************************)
GateIsDeserved ==
  ~deleted =>
    /\ view = "gate" /\ Idle /\ refreshed => faults >= 2
    /\ invite = "redeemed" /\ ~verified => faults >= 1 \/ crossed
=============================================================================
