---------------------------- MODULE ListingEditor ----------------------------
(***************************************************************************)
(* A lister's browser tabs and the listing behind them: the form that      *)
(* posts and edits it (ListingForm.tsx with its address field and its      *)
(* photos), and its card on "My listings" (MyListingsClient.tsx).          *)
(*                                                                         *)
(* Every tab holds a copy of the row from when it was opened.  The form    *)
(* sends all of it back, and the card offers what the status it remembers  *)
(* allows, whatever the row is by then.  A handler of the listings service *)
(* is one step here; what happens inside is in module ListingTrust.        *)
(*                                                                         *)
(* Of the fields there are the address, its coordinates (the place they    *)
(* are of), the photos and the status.  The address stands for the fields  *)
(* whose change sends a listing back to review.                            *)
(***************************************************************************)
EXTENDS Naturals, FiniteSets

CONSTANTS
  Place,      \* addresses, and the coordinates of each
  Photo,      \* files of the lister
  Tab,        \* tabs that may show the form
  None,
  Limit,      \* MAX_IMAGES_PER_LISTING
  MaxInputs,  \* bound: changes made to forms
  MaxSubmits, \* bound: submitted forms
  MaxFaults   \* bound: calls that fail or whose answer is lost

ASSUME NoneAssumption == None \notin Place

VARIABLES
  row,      \* the listing
  bucket,   \* photos in S3
  tab,      \* the form in each tab
  requests, \* submitted forms under way
  card,     \* the status the card remembers
  picked,   \* photos chosen so far; each file is chosen once
  created,  \* listings inserted
  inputs, submits, faults,
  fresh,    \* ghost: tabs opened, or saved, after the last edit
  gone,     \* ghost: photos that a saved edit took out
  crossed,  \* ghost: an edit was saved from a tab that was not fresh
  bare,     \* ghost: an edit came without coordinates for its address
  stale,    \* ghost: the card was used when its status was not the row's
  heard,    \* ghost: new listings whose answer arrived
  unheard   \* ghost: new listings stored whose answer did not

ghosts == <<fresh, gone, crossed, bare, stale, heard, unheard>>
vars == <<row, bucket, tab, requests, card, picked, created, inputs, submits, faults, ghosts>>

Status == {"none", "draft", "active", "paused", "leased", "expired", "deleted"}
Exists == row.status \notin {"none", "deleted"}
Form == [address : Place \cup {None}, coords : Place \cup {None}, photos : SUBSET Photo]
Blank == [address |-> None, coords |-> None, photos |-> {}]
Closed == [mode |-> "closed", at |-> "ready", form |-> Blank, sending |-> {}, sent |-> {}]
Input == inputs < MaxInputs /\ inputs' = inputs + 1
Fault == faults < MaxFaults /\ faults' = faults + 1

\* Nothing posted yet, or a listing posted before.
Init ==
  /\ \/ row = [status |-> "none", scored |-> FALSE, form |-> Blank]
     \/ \E place \in Place : \E coords \in {None, place} : \E photos \in SUBSET Photo :
          row = [status |-> "active", scored |-> TRUE,
                 form |-> [address |-> place, coords |-> coords, photos |-> photos]]
  /\ bucket = row.form.photos /\ picked = row.form.photos
  /\ tab = [t \in Tab |-> Closed]
  /\ requests = {}
  /\ card = None
  /\ created = 0 /\ inputs = 0 /\ submits = 0 /\ faults = 0
  /\ fresh = {} /\ gone = {} /\ heard = 0 /\ unheard = 0
  /\ crossed = FALSE /\ bare = FALSE /\ stale = FALSE

-----------------------------------------------------------------------------
(* The form.                                                               *)

Show(t, mode, form) ==
  tab' = [tab EXCEPT ![t] = [Closed EXCEPT !.mode = mode, !.form = form]]

OpenNew(t) ==
  /\ tab[t].mode = "closed" /\ row.status = "none"
  /\ Show(t, "create", Blank)
  /\ UNCHANGED <<row, bucket, requests, card, picked, created, inputs, submits, faults, ghosts>>

\* EditListingPage sends leased listings and drafts back to "My listings".
OpenEdit(t) ==
  /\ tab[t].mode = "closed"
  /\ Exists /\ row.status \notin {"leased", "draft"}
  /\ Show(t, "edit", row.form)
  /\ fresh' = fresh \cup {t}
  /\ UNCHANGED <<row, bucket, requests, card, picked, created, inputs, submits, faults,
                 gone, crossed, bare, stale, heard, unheard>>

\* While the form is busy, leaving it is what SubmitFails does: an upload that
\* fails, or an answer that is lost and a tab that is closed.
Leave(t) ==
  /\ tab[t].mode # "closed" /\ tab[t].at = "ready"
  /\ tab' = [tab EXCEPT ![t] = Closed]
  /\ UNCHANGED <<row, bucket, requests, card, picked, created, inputs, submits, faults, ghosts>>

Fill(t, address, coords) ==
  /\ tab[t].mode # "closed" /\ tab[t].at = "ready" /\ Input
  /\ tab' = [tab EXCEPT ![t].form.address = address, ![t].form.coords = coords]
  /\ UNCHANGED <<row, bucket, requests, card, picked, created, submits, faults, ghosts>>

\* Mutant of Type: the coordinates of the place chosen before are kept.
TypeKeeps(t, address) == Fill(t, address, tab[t].form.coords)
\* onChange of the address field.
Type(t, address) == Fill(t, address, None)
\* place_changed: a suggestion was chosen, with its geometry.
ChoosePlace(t, place) == Fill(t, place, place)

\* handleImageChange; the file input is disabled while busy.
PickPhotos(t, files) ==
  /\ tab[t].mode # "closed" /\ tab[t].at = "ready" /\ Input
  /\ files # {} /\ files \cap picked = {}
  /\ tab' = [tab EXCEPT ![t].at = "uploading", ![t].sending = files]
  /\ picked' = picked \cup files
  /\ UNCHANGED <<row, bucket, requests, card, created, submits, faults, ghosts>>

\* getPresignedUrl asks the stored listing, not the form, and for each file.
Full(t) == tab[t].mode = "edit" /\ Exists /\ Cardinality(row.form.photos) >= Limit

\* uploadToS3: the URL, then the PUT.
Upload(t, file) ==
  /\ tab[t].at = "uploading" /\ file \in tab[t].sending \ tab[t].sent
  /\ ~Full(t)
  /\ bucket' = bucket \cup {file}
  /\ tab' = [tab EXCEPT ![t].sent = @ \cup {file}]
  /\ UNCHANGED <<row, requests, card, picked, created, inputs, submits, faults, ghosts>>

Ready(t, photos) ==
  [tab EXCEPT ![t].at = "ready", ![t].sending = {}, ![t].sent = {}, ![t].form.photos = photos]

\* Mutant of AddPhotos: they are shown as soon as one of them is stored.
AddAll(t) ==
  /\ tab[t].at = "uploading" /\ tab[t].sent # {}
  /\ tab' = Ready(t, tab[t].form.photos \cup tab[t].sending)
  /\ UNCHANGED <<row, bucket, requests, card, picked, created, inputs, submits, faults, ghosts>>
\* Promise.all: every file of the choice is in the bucket.
AddPhotos(t) ==
  /\ tab[t].at = "uploading" /\ tab[t].sent = tab[t].sending
  /\ tab' = Ready(t, tab[t].form.photos \cup tab[t].sending)
  /\ UNCHANGED <<row, bucket, requests, card, picked, created, inputs, submits, faults, ghosts>>

\* One file refused or failed: none of the choice is added.
UploadFails(t) ==
  /\ tab[t].at = "uploading" /\ tab[t].sent # tab[t].sending
  /\ \/ Full(t) /\ UNCHANGED faults
     \/ Fault
  /\ tab' = Ready(t, tab[t].form.photos)
  /\ UNCHANGED <<row, bucket, requests, card, picked, created, inputs, submits, ghosts>>

\* removeImage, at any time.
RemovePhoto(t, file) ==
  /\ file \in tab[t].form.photos /\ Input
  /\ tab' = [tab EXCEPT ![t].form.photos = @ \ {file}]
  /\ UNCHANGED <<row, bucket, requests, card, picked, created, submits, faults, ghosts>>

\* handleSubmit of a complete form.
Send(t) ==
  /\ tab[t].mode # "closed" /\ tab[t].form.address # None
  /\ submits < MaxSubmits
  /\ requests' = requests \cup {[from |-> t, number |-> submits, mode |-> tab[t].mode,
                                 at |-> "server", form |-> tab[t].form]}
  /\ tab' = [tab EXCEPT ![t].at = "sent"]
  /\ submits' = submits + 1
  /\ UNCHANGED <<row, bucket, card, picked, created, inputs, faults, ghosts>>
\* Mutant of Submit: the button is disabled while photos are uploading only.
SubmitAgain(t) == tab[t].at # "uploading" /\ Send(t)
\* The button is disabled while busy.
Submit(t) == tab[t].at = "ready" /\ Send(t)

-----------------------------------------------------------------------------
(* The server: createListing and updateListing, and the listings service.  *)

Stored(r) == requests' = (requests \ {r}) \cup {[r EXCEPT !.at = "browser"]}

\* handleCreate.  The first listing is the one the other tabs are about.
StoreNew(r) ==
  /\ r.at = "server" /\ r.mode = "create"
  /\ row' = IF row.status = "none"
            THEN [status |-> "draft", scored |-> FALSE, form |-> r.form] ELSE row
  /\ created' = created + 1
  /\ Stored(r)
  /\ UNCHANGED <<bucket, tab, card, picked, inputs, submits, faults, ghosts>>

\* Mutant of Merge: photos that are stored already stay.
MergePhotos(old, new) ==
  [new EXCEPT !.photos = @ \cup old.photos,
              !.coords = IF @ = None THEN old.coords ELSE @]
\* handleUpdate leaves a column alone whose field is null in the body.
Merge(old, new) ==
  [new EXCEPT !.coords = IF @ = None THEN old.coords ELSE @]

\* Another address is to be reviewed again.
StoreEdit(r) ==
  /\ r.at = "server" /\ r.mode = "edit"
  /\ Exists
  /\ LET changed == r.form.address # row.form.address
     IN /\ row' = IF changed
                  THEN [status |-> "draft", scored |-> FALSE, form |-> Merge(row.form, r.form)]
                  ELSE [row EXCEPT !.form = Merge(row.form, r.form)]
        /\ bare' = (bare \/ (changed /\ r.form.coords = None /\ row.form.coords # None))
  /\ fresh' = {r.from}
  /\ crossed' = (crossed \/ r.from \notin fresh)
  /\ gone' = gone \cup (row.form.photos \ r.form.photos)
  /\ Stored(r)
  /\ UNCHANGED <<bucket, tab, card, picked, created, inputs, submits, faults, stale, heard, unheard>>

\* The toast, and on to another page.
Answered(r) ==
  /\ r.at = "browser"
  /\ requests' = requests \ {r}
  /\ tab' = [tab EXCEPT ![r.from] = Closed]
  /\ heard' = heard + (IF r.mode = "create" THEN 1 ELSE 0)
  /\ UNCHANGED <<row, bucket, card, picked, created, inputs, submits, faults,
                 fresh, gone, crossed, bare, stale, unheard>>

\* An error message, and the form can be sent again, or the error page when
\* the server action threw.
GiveUp(r) ==
  /\ requests' = requests \ {r}
  /\ \/ tab' = [tab EXCEPT ![r.from].at = "ready"]
     \/ tab' = [tab EXCEPT ![r.from] = Closed]

\* The call failed, before or after the row was written.
SubmitFails(r) ==
  /\ Fault
  /\ GiveUp(r)
  /\ unheard' = unheard + (IF r.at = "browser" /\ r.mode = "create" THEN 1 ELSE 0)
  /\ UNCHANGED <<row, bucket, card, picked, created, inputs, submits,
                 fresh, gone, crossed, bare, stale, heard>>

\* 404: the listing was deleted meanwhile.
EditRefused(r) ==
  /\ r.at = "server" /\ r.mode = "edit" /\ ~Exists
  /\ GiveUp(r)
  /\ UNCHANGED <<row, bucket, card, picked, created, inputs, submits, faults, ghosts>>

-----------------------------------------------------------------------------
(* The card, and those who change the status behind it.                    *)

\* MyListingsPage: the card takes the status as the initial value of its
\* state; later values of the property do not change it.
OpenCards ==
  /\ Exists /\ card' = row.status
  /\ UNCHANGED <<row, bucket, tab, requests, picked, created, inputs, submits, faults, ghosts>>

\* Mutant of Offered: whatever is not leased or expired can be reactivated.
OfferedAnyway(status) ==
  CASE status = "active" -> {"paused", "leased"}
    [] status \in {"paused", "draft"} -> {"active", "leased"}
    [] OTHER -> {}
Offered(status) ==
  CASE status = "active" -> {"paused", "leased"}
    [] status = "paused" -> {"active", "leased"}
    [] OTHER -> {}

\* changeStatus, with updateListingStatus and handleUpdate.
ChangeStatus(next) ==
  /\ Exists /\ next \in Offered(card)
  /\ row' = [row EXCEPT !.status = next]
  /\ stale' = (stale \/ card # row.status)
  /\ \/ card' = next /\ UNCHANGED faults
     \/ Fault /\ UNCHANGED card
  /\ UNCHANGED <<bucket, tab, requests, picked, created, inputs, submits,
                 fresh, gone, crossed, bare, heard, unheard>>

\* handleDelete, with deleteListing and onDeleted.
DeleteListing ==
  /\ Exists /\ card # None
  /\ row' = [row EXCEPT !.status = "deleted"]
  /\ card' = None
  /\ UNCHANGED <<bucket, tab, requests, picked, created, inputs, submits, faults, ghosts>>

\* The trust worker and the expiration worker (module ListingTrust).
Score ==
  /\ row.status = "draft"
  /\ row' = [row EXCEPT !.status = "active", !.scored = TRUE]
  /\ UNCHANGED <<bucket, tab, requests, card, picked, created, inputs, submits, faults, ghosts>>

Expire ==
  /\ row.status = "active"
  /\ row' = [row EXCEPT !.status = "expired"]
  /\ UNCHANGED <<bucket, tab, requests, card, picked, created, inputs, submits, faults, ghosts>>

-----------------------------------------------------------------------------
Uploading(t) == (\E file \in Photo : Upload(t, file)) \/ AddPhotos(t) \/ UploadFails(t)
Serving(r) == StoreNew(r) \/ StoreEdit(r) \/ Answered(r) \/ EditRefused(r)

Next ==
  \/ \E t \in Tab :
       \/ OpenNew(t) \/ OpenEdit(t) \/ Leave(t) \/ Uploading(t)
       \/ \E place \in Place : Type(t, place) \/ ChoosePlace(t, place)
       \/ \E files \in SUBSET Photo : PickPhotos(t, files)
       \/ \E file \in Photo : RemovePhoto(t, file)
       \/ Submit(t)
  \/ \E r \in requests : Serving(r) \/ SubmitFails(r)
  \/ OpenCards \/ DeleteListing \/ Score \/ Expire
  \/ \E next \in Status : ChangeStatus(next)

Spec == Init /\ [][Next]_vars

-----------------------------------------------------------------------------
(* Properties.                                                             *)

\* Every variable keeps its range.
TypeOK ==
  /\ row \in [status : Status, scored : BOOLEAN, form : Form]
  /\ bucket \subseteq Photo /\ picked \subseteq Photo /\ gone \subseteq Photo
  /\ tab \in [Tab -> [mode : {"closed", "create", "edit"},
                      at : {"ready", "uploading", "sent"}, form : Form,
                      sending : SUBSET Photo, sent : SUBSET Photo]]
  /\ requests \subseteq [from : Tab, number : Nat, mode : {"create", "edit"},
                         at : {"server", "browser"}, form : Form]
  /\ card \in Status \cup {None}
  /\ fresh \subseteq Tab
  /\ {crossed, bare, stale} \subseteq BOOLEAN
  /\ {created, inputs, submits, faults, heard, unheard} \subseteq Nat

(***************************************************************************)
(* A form, and so the listing, shows photos only that are in the bucket,   *)
(* though uploads fail, are refused, and overlap with removals.            *)
(***************************************************************************)
PhotosAreStored ==
  row.form.photos \cup UNION {tab[t].form.photos : t \in Tab} \subseteq bucket

(***************************************************************************)
(* A photo that an edit took out of the listing does not come back, unless *)
(* some edit was saved from a tab that was opened before another's edit.   *)
(***************************************************************************)
RemovedStaysRemoved == ~crossed => row.form.photos \cap gone = {}

(***************************************************************************)
(* The map shows the place of the address (ListingMap prefers coordinates),*)
(* unless an edit replaced it by a typed address: null coordinates do not  *)
(* clear the columns (main.go:649).                                        *)
(***************************************************************************)
CoordinatesFit ==
  ~bare => \A f \in {row.form} \cup {tab[t].form : t \in Tab} :
             f.coords \in {None, f.address}

(***************************************************************************)
(* However often the button is pressed, a form makes one listing, and      *)
(* another only for each submission that was stored and not answered.      *)
(***************************************************************************)
OneListingPerForm ==
  created <= heard + unheard
             + Cardinality({t \in Tab : tab[t].mode = "create" /\ tab[t].at = "sent"})

(***************************************************************************)
(* A listing is active without a score only if the card was used when its  *)
(* status was no longer the row's.                                         *)
(***************************************************************************)
UnscoredOnlyFromStaleCard == (row.status = "active" /\ ~row.scored) => stale
=============================================================================
