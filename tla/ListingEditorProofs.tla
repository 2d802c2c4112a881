------------------------ MODULE ListingEditorProofs --------------------------
(***************************************************************************)
(* What ListingEditor promises for any tabs, addresses and photos, and any *)
(* number of changes, submissions and failures.                            *)
(***************************************************************************)
EXTENDS ListingEditor, FiniteSetTheorems, TLAPS

(***************************************************************************)
(* A form that was sent waits for one answer, of the request that carries  *)
(* what it showed; it can only lose photos meanwhile.                      *)
(***************************************************************************)
OneRequestPerTab ==
  /\ \A r \in requests : tab[r.from].at = "sent" /\ tab[r.from].mode = r.mode
  /\ \A r, s \in requests : r.from = s.from => r = s
SentForms == \A r \in requests : tab[r.from].form.photos \subseteq r.form.photos
Resting ==
  \A t \in Tab :
    /\ tab[t].at # "uploading" => tab[t].sending = {} /\ tab[t].sent = {}
    /\ tab[t].sent \subseteq tab[t].sending

\* What is shown anywhere was picked once, and what is shown is stored.
AllPicked ==
  /\ row.form.photos \cup gone \subseteq picked
  /\ \A t \in Tab : tab[t].form.photos \cup tab[t].sending \subseteq picked
  /\ \A r \in requests : r.form.photos \subseteq picked
AllStored ==
  /\ row.form.photos \subseteq bucket
  /\ \A t \in Tab : tab[t].form.photos \cup tab[t].sent \subseteq bucket
  /\ \A r \in requests : r.form.photos \subseteq bucket

\* Until an edit crosses another, a fresh tab and its request know what is gone.
NoneBack ==
  /\ row.status = "none" => gone = {}
  /\ ~crossed =>
       /\ row.form.photos \cap gone = {}
       /\ \A t \in fresh : (tab[t].form.photos \cup tab[t].sending) \cap gone = {}
       /\ \A r \in requests : r.from \in fresh => r.form.photos \cap gone = {}

Fits(f) == f.coords \in {None, f.address}
AllFit ==
  ~bare => /\ Fits(row.form)
           /\ \A t \in Tab : Fits(tab[t].form)
           /\ \A r \in requests : Fits(r.form)

\* Only a draft, or no listing, is without a score.
ScoredUnlessStale ==
  ~stale /\ row.status \in {"active", "paused", "leased", "expired"} => row.scored

\* The tabs whose new listing is stored and not answered yet.
Awaiting ==
  {t \in Tab : \E r \in requests : r.from = t /\ r.mode = "create" /\ r.at = "browser"}
SentTabs == {t \in Tab : tab[t].at = "sent"}
Counted ==
  /\ IsFiniteSet(SentTabs)
  /\ created = heard + unheard + Cardinality(Awaiting)

TabRecord ==
  [mode : {"closed", "create", "edit"}, at : {"ready", "uploading", "sent"},
   form : Form, sending : SUBSET Photo, sent : SUBSET Photo]

IInv ==
  /\ TypeOK /\ OneRequestPerTab /\ SentForms /\ Resting
  /\ AllPicked /\ AllStored /\ NoneBack /\ AllFit /\ ScoredUnlessStale /\ Counted

-----------------------------------------------------------------------------
(* The steps of Next, by who takes them.                                   *)

FormStep(t) ==
  \/ OpenNew(t) \/ OpenEdit(t) \/ Leave(t) \/ Uploading(t)
  \/ \E place \in Place : Type(t, place) \/ ChoosePlace(t, place)
  \/ \E files \in SUBSET Photo : PickPhotos(t, files)
  \/ \E file \in Photo : RemovePhoto(t, file)
  \/ Submit(t)
RequestStep(r) == Serving(r) \/ SubmitFails(r)
CardStep == OpenCards \/ DeleteListing \/ Score \/ Expire \/ \E next \in Status : ChangeStatus(next)

-----------------------------------------------------------------------------
(* Types.                                                                  *)

\* A tab that changes to another record of its type.
LEMMA TabTyped ==
  ASSUME tab \in [Tab -> TabRecord], NEW t \in Tab,
         tab' = [s \in Tab |-> tab'[s]],
         tab'[t] \in TabRecord, \A s \in Tab \ {t} : tab'[s] = tab[s]
  PROVE  tab' \in [Tab -> TabRecord]
<1>1. \A s \in Tab : tab'[s] \in TabRecord
  OBVIOUS
<1> QED
  BY <1>1

\* What a change of the address does to its tab.
LEMMA FillTab ==
  ASSUME TypeOK, NEW t \in Tab, NEW address \in Place, NEW coords \in {None, address},
         Fill(t, address, coords)
  PROVE  /\ tab' \in [Tab -> TabRecord]
         /\ \A s \in Tab : s # t => tab'[s] = tab[s]
         /\ tab'[t].mode = tab[t].mode /\ tab'[t].at = tab[t].at
         /\ tab'[t].sending = tab[t].sending /\ tab'[t].sent = tab[t].sent
         /\ tab'[t].form.photos = tab[t].form.photos
         /\ tab'[t].form.address = address /\ tab'[t].form.coords = coords
         /\ UNCHANGED <<row, bucket, requests, card, picked, created, submits, faults, ghosts>>
<1> DEFINE f == [tab[t].form EXCEPT !.address = address, !.coords = coords]
<1>1. tab \in [Tab -> TabRecord]
  BY DEF TypeOK, TabRecord
<1>2. f \in Form
  BY <1>1 DEF TabRecord, Form
<1>3. tab'[t] = [tab[t] EXCEPT !.form = f]
  BY <1>1 DEF Fill, TabRecord, Form
<1>4. tab'[t] \in TabRecord
  BY <1>1, <1>2, <1>3 DEF TabRecord
<1>5. tab' \in [Tab -> TabRecord]
  BY <1>1, <1>4, TabTyped DEF Fill
<1> QED
  BY <1>1, <1>3, <1>5 DEF Fill, TabRecord, Form

LEMMA PhotosTab ==
  ASSUME tab \in [Tab -> TabRecord], NEW t \in Tab, NEW photos \in SUBSET Photo,
         \/ tab' = Ready(t, photos)
         \/ tab' = [tab EXCEPT ![t].form.photos = photos]
  PROVE  tab' \in [Tab -> TabRecord]
<1> SUFFICES tab'[t] \in TabRecord
  BY TabTyped DEF Ready
<1> DEFINE f == [tab[t].form EXCEPT !.photos = photos]
<1>1. f \in Form
  BY DEF TabRecord, Form
<1>2. CASE tab' = [tab EXCEPT ![t].form.photos = photos]
  <2>1. tab'[t] = [tab[t] EXCEPT !.form = f]
    BY <1>2 DEF TabRecord, Form
  <2> QED
    BY <1>1, <2>1 DEF TabRecord
<1>3. CASE tab' = Ready(t, photos)
  <2>1. tab'[t] = [tab[t] EXCEPT !.at = "ready", !.sending = {}, !.sent = {}, !.form = f]
    BY <1>3 DEF TabRecord, Form, Ready
  <2> QED
    BY <1>1, <2>1 DEF TabRecord
<1> QED
  BY <1>2, <1>3

\* What a failed submission leaves of the form, and of the rest.
LEMMA FailEffect ==
  ASSUME TypeOK, NEW r \in requests, SubmitFails(r) \/ EditRefused(r)
  PROVE  /\ tab' \in [Tab -> TabRecord]
         /\ requests' = requests \ {r}
         /\ \A t \in Tab : t # r.from => tab'[t] = tab[t]
         /\ tab'[r.from].at = "ready"
         /\ \/ tab'[r.from].form = tab[r.from].form
               /\ tab'[r.from].sending = tab[r.from].sending
               /\ tab'[r.from].sent = tab[r.from].sent
            \/ tab'[r.from].form = Blank /\ tab'[r.from].sending = {} /\ tab'[r.from].sent = {}
         /\ UNCHANGED <<row, bucket, card, picked, created, inputs, submits,
                        fresh, gone, crossed, bare, stale, heard>>
<1>0. GiveUp(r) /\ UNCHANGED <<row, bucket, card, picked, created, inputs, submits,
                               fresh, gone, crossed, bare, stale, heard>>
  BY DEF SubmitFails, EditRefused, ghosts
<1>1. r.from \in Tab /\ tab \in [Tab -> TabRecord]
  BY DEF TypeOK, TabRecord
<1>2. CASE tab' = [tab EXCEPT ![r.from].at = "ready"]
  BY <1>0, <1>1, <1>2 DEF GiveUp, TabRecord
<1>3. CASE tab' = [tab EXCEPT ![r.from] = Closed]
  BY <1>0, <1>1, <1>3 DEF GiveUp, TabRecord, Closed, Blank, Form
<1> QED
  BY <1>0, <1>2, <1>3 DEF GiveUp

\* What opening and leaving a form do.
LEMMA ShowEffect ==
  ASSUME TypeOK, NEW t \in Tab, OpenNew(t) \/ OpenEdit(t) \/ Leave(t)
  PROVE  /\ tab' \in [Tab -> TabRecord]
         /\ \A s \in Tab : s # t => tab'[s] = tab[s]
         /\ tab[t].mode = "closed" \/ tab[t].at = "ready"
         /\ tab'[t].at = "ready" /\ tab'[t].sending = {} /\ tab'[t].sent = {}
         /\ \/ tab'[t].form = Blank /\ fresh' = fresh
            \/ tab'[t].form = row.form /\ fresh' = fresh \cup {t} /\ tab[t].mode = "closed"
         /\ UNCHANGED <<row, bucket, requests, card, picked, created, inputs, submits, faults,
                        gone, crossed, bare, stale, heard, unheard>>
<1>1. tab \in [Tab -> TabRecord] /\ Closed \in TabRecord
  BY DEF TypeOK, TabRecord, Closed, Blank, Form
<1>2. CASE OpenNew(t)
  <2> DEFINE new == [Closed EXCEPT !.mode = "create", !.form = Blank]
  <2>1. new \in TabRecord /\ new.at = "ready" /\ new.sending = {} /\ new.sent = {}
        /\ new.form = Blank
    BY <1>1 DEF TabRecord, Closed, Blank, Form
  <2> QED
    BY <1>1, <1>2, <2>1 DEF OpenNew, Show, ghosts
<1>3. CASE OpenEdit(t)
  <2> DEFINE new == [Closed EXCEPT !.mode = "edit", !.form = row.form]
  <2>1. new \in TabRecord /\ new.at = "ready" /\ new.sending = {} /\ new.sent = {}
        /\ new.form = row.form
    BY <1>1 DEF TypeOK, TabRecord, Closed
  <2> QED
    BY <1>1, <1>3, <2>1 DEF OpenEdit, Show
<1>4. CASE Leave(t)
  BY <1>1, <1>4 DEF Leave, ghosts, Closed
<1> QED
  BY <1>2, <1>3, <1>4

\* What the end of an upload does, whether it worked or not.
LEMMA UploadedEffect ==
  ASSUME TypeOK, NEW t \in Tab, AddPhotos(t) \/ UploadFails(t)
  PROVE  /\ tab' \in [Tab -> TabRecord]
         /\ \A s \in Tab : s # t => tab'[s] = tab[s]
         /\ tab[t].at = "uploading" /\ tab'[t].mode = tab[t].mode
         /\ tab'[t].at = "ready" /\ tab'[t].sending = {} /\ tab'[t].sent = {}
         /\ tab'[t].form.address = tab[t].form.address
         /\ tab'[t].form.coords = tab[t].form.coords
         /\ \/ tab'[t].form.photos = tab[t].form.photos
            \/ /\ tab[t].sent = tab[t].sending
               /\ tab'[t].form.photos = tab[t].form.photos \cup tab[t].sending
         /\ UNCHANGED <<row, bucket, requests, card, picked, created, inputs, submits, ghosts>>
<1>1. tab \in [Tab -> TabRecord]
  BY DEF TypeOK, TabRecord
<1>2. PICK photos \in SUBSET Photo :
        /\ tab' = Ready(t, photos)
        /\ \/ photos = tab[t].form.photos
           \/ tab[t].sent = tab[t].sending /\ photos = tab[t].form.photos \cup tab[t].sending
  BY <1>1 DEF AddPhotos, UploadFails, TabRecord, Form
<1>3. tab' \in [Tab -> TabRecord]
  BY <1>1, <1>2, PhotosTab
<1>4. tab'[t].form = [tab[t].form EXCEPT !.photos = photos] /\ tab'[t].at = "ready"
      /\ tab'[t].sending = {} /\ tab'[t].sent = {} /\ tab'[t].mode = tab[t].mode
      /\ \A s \in Tab : s # t => tab'[s] = tab[s]
  BY <1>1, <1>2 DEF Ready, TabRecord, Form
<1>5. tab[t].form \in Form
  BY <1>1 DEF TabRecord
<1>6. /\ tab'[t].form.photos = photos
      /\ tab'[t].form.address = tab[t].form.address
      /\ tab'[t].form.coords = tab[t].form.coords
  BY <1>4, <1>5 DEF Form
<1> QED
  BY <1>2, <1>3, <1>4, <1>6 DEF AddPhotos, UploadFails

LEMMA FormsTyped ==
  ASSUME TypeOK, NEW t \in Tab, FormStep(t)
  PROVE  TypeOK'
<1>0. tab \in [Tab -> TabRecord]
  BY DEF TypeOK, TabRecord
<1>1. CASE OpenNew(t) \/ OpenEdit(t) \/ Leave(t)
  BY <1>1, ShowEffect DEF TypeOK, TabRecord
<1>2. ASSUME NEW file \in Photo, Upload(t, file)
      PROVE  TypeOK'
  BY <1>2 DEF TypeOK, ghosts, Upload
<1>3. CASE AddPhotos(t) \/ UploadFails(t)
  <2>1. faults' \in Nat
    BY <1>3 DEF TypeOK, AddPhotos, UploadFails, Fault
  <2> QED
    BY <1>3, <2>1, UploadedEffect DEF TypeOK, ghosts, TabRecord
<1>4. ASSUME NEW address \in Place, NEW coords \in {None, address}, Fill(t, address, coords)
      PROVE  TypeOK'
  <2>1. tab' \in [Tab -> TabRecord]
    BY <1>4, FillTab
  <2> QED
    BY <1>4, <2>1 DEF TypeOK, ghosts, Fill, Input, TabRecord
<1>5. ASSUME NEW files \in SUBSET Photo, PickPhotos(t, files)
      PROVE  TypeOK'
  <2>1. tab' \in [Tab -> TabRecord]
    BY <1>0, <1>5 DEF PickPhotos, TabRecord
  <2> QED
    BY <1>5, <2>1 DEF TypeOK, ghosts, PickPhotos, Input, TabRecord
<1>6. ASSUME NEW file \in Photo, RemovePhoto(t, file)
      PROVE  TypeOK'
  <2>1. tab[t].form.photos \ {file} \in SUBSET Photo
    BY <1>0 DEF TabRecord, Form
  <2>2. tab' = [tab EXCEPT ![t].form.photos = tab[t].form.photos \ {file}]
    BY <1>6 DEF RemovePhoto
  <2>3. tab' \in [Tab -> TabRecord]
    BY <1>0, <2>1, <2>2, PhotosTab
  <2> QED
    BY <1>6, <2>3 DEF TypeOK, ghosts, RemovePhoto, Input, TabRecord
<1>7. CASE Submit(t)
  <2>1. tab' \in [Tab -> TabRecord]
    BY <1>0, <1>7 DEF Submit, Send, TabRecord
  <2>2. requests' \subseteq [from : Tab, number : Nat, mode : {"create", "edit"},
                             at : {"server", "browser"}, form : Form]
    BY <1>7 DEF TypeOK, Submit, Send
  <2> QED
    BY <1>7, <2>1, <2>2 DEF TypeOK, ghosts, Submit, Send, TabRecord
<1> QED
  BY <1>1, <1>2, <1>3, <1>4, <1>5, <1>6, <1>7 DEF FormStep, Uploading, Type, ChoosePlace

LEMMA RequestsTyped ==
  ASSUME TypeOK, NEW r \in requests, RequestStep(r)
  PROVE  TypeOK'
<1>1. CASE StoreNew(r)
  BY <1>1 DEF TypeOK, ghosts, StoreNew, Stored, Status
<1>2. CASE StoreEdit(r)
  BY <1>2 DEF TypeOK, ghosts, StoreEdit, Stored, Merge, Form, Status
<1>3. CASE Answered(r)
  BY <1>3, NoneAssumption DEF TypeOK, ghosts, Answered, Closed, Blank, Form
<1>4. CASE SubmitFails(r)
  <2>1. tab' \in [Tab -> TabRecord] /\ requests' \subseteq requests
    BY <1>4, FailEffect
  <2> QED
    BY <1>4, <2>1 DEF TypeOK, ghosts, SubmitFails, Fault, TabRecord
<1>5. CASE EditRefused(r)
  <2>1. tab' \in [Tab -> TabRecord] /\ requests' \subseteq requests
    BY <1>5, FailEffect
  <2> QED
    BY <1>5, <2>1 DEF TypeOK, ghosts, EditRefused, TabRecord
<1> QED
  BY <1>1, <1>2, <1>3, <1>4, <1>5 DEF RequestStep, Serving

LEMMA CardTyped ==
  ASSUME TypeOK, CardStep
  PROVE  TypeOK'
<1>1. CASE OpenCards \/ DeleteListing \/ Score \/ Expire
  BY <1>1 DEF TypeOK, ghosts, OpenCards, DeleteListing, Score, Expire, Status
<1>2. ASSUME NEW next \in Status, ChangeStatus(next)
      PROVE  TypeOK'
  BY <1>2 DEF TypeOK, ghosts, ChangeStatus, Fault, Status
<1> QED
  BY <1>1, <1>2 DEF CardStep

-----------------------------------------------------------------------------
(* The tabs and their requests.                                            *)

LEMMA FormsTabs ==
  ASSUME IInv, NEW t \in Tab, FormStep(t)
  PROVE  OneRequestPerTab' /\ SentForms' /\ Resting'
<1> USE DEF IInv, TypeOK, OneRequestPerTab, SentForms, Resting, Form, ghosts
<1>1. CASE OpenNew(t) \/ OpenEdit(t) \/ Leave(t)
  BY <1>1, ShowEffect DEF Blank
<1>2. ASSUME NEW file \in Photo, Upload(t, file)
      PROVE  OneRequestPerTab' /\ SentForms' /\ Resting'
  BY <1>2 DEF Upload
<1>3. CASE AddPhotos(t) \/ UploadFails(t)
  BY <1>3, UploadedEffect
<1>4. ASSUME NEW address \in Place, NEW coords \in {None, address}, Fill(t, address, coords)
      PROVE  OneRequestPerTab' /\ SentForms' /\ Resting'
  BY <1>4, FillTab
<1>5. ASSUME NEW files \in SUBSET Photo, PickPhotos(t, files)
      PROVE  OneRequestPerTab' /\ SentForms' /\ Resting'
  BY <1>5 DEF PickPhotos
<1>6. ASSUME NEW file \in Photo, RemovePhoto(t, file)
      PROVE  OneRequestPerTab' /\ SentForms' /\ Resting'
  BY <1>6 DEF RemovePhoto
<1>7. CASE Submit(t)
  BY <1>7 DEF Submit, Send
<1> QED
  BY <1>1, <1>2, <1>3, <1>4, <1>5, <1>6, <1>7 DEF FormStep, Uploading, Type,
    ChoosePlace

LEMMA RequestsTabs ==
  ASSUME IInv, NEW r \in requests, RequestStep(r)
  PROVE  OneRequestPerTab' /\ SentForms' /\ Resting'
<1> USE DEF IInv, TypeOK, OneRequestPerTab, SentForms, Resting, Form, ghosts
<1>1. CASE StoreNew(r)
  BY <1>1 DEF StoreNew, Stored
<1>2. CASE StoreEdit(r)
  BY <1>2 DEF StoreEdit, Stored, Merge
<1>3. CASE Answered(r)
  BY <1>3 DEF Answered, Closed, Blank
<1>4. CASE SubmitFails(r) \/ EditRefused(r)
  BY <1>4, FailEffect DEF Blank
<1> QED
  BY <1>1, <1>2, <1>3, <1>4 DEF RequestStep, Serving

-----------------------------------------------------------------------------
(* The photos: picked, stored.                                             *)

LEMMA FormsPhotos ==
  ASSUME IInv, NEW t \in Tab, FormStep(t)
  PROVE  AllPicked' /\ AllStored'
<1> USE DEF IInv, TypeOK, AllPicked, AllStored, Resting, OneRequestPerTab, Form,
              ghosts
<1>1. CASE OpenNew(t) \/ OpenEdit(t) \/ Leave(t)
  <2>1. /\ tab'[t].form.photos \cup tab'[t].sending \subseteq picked'
        /\ tab'[t].form.photos \cup tab'[t].sent \subseteq bucket'
    BY <1>1, ShowEffect DEF Blank
  <2> QED
    BY <1>1, <2>1, ShowEffect
<1>2. ASSUME NEW file \in Photo, Upload(t, file)
      PROVE  AllPicked' /\ AllStored'
  BY <1>2 DEF Upload
<1>3. CASE AddPhotos(t) \/ UploadFails(t)
  <2>1. /\ tab'[t].form.photos \cup tab'[t].sending \subseteq picked'
        /\ tab'[t].form.photos \cup tab'[t].sent \subseteq bucket'
    BY <1>3, UploadedEffect
  <2> QED
    BY <1>3, <2>1, UploadedEffect
<1>4. ASSUME NEW address \in Place, NEW coords \in {None, address}, Fill(t, address, coords)
      PROVE  AllPicked' /\ AllStored'
  BY <1>4, FillTab
<1>5. ASSUME NEW files \in SUBSET Photo, PickPhotos(t, files)
      PROVE  AllPicked' /\ AllStored'
  BY <1>5 DEF PickPhotos
<1>6. ASSUME NEW file \in Photo, RemovePhoto(t, file)
      PROVE  AllPicked' /\ AllStored'
  BY <1>6 DEF RemovePhoto
<1>7. CASE Submit(t)
  BY <1>7 DEF Submit, Send
<1> QED
  BY <1>1, <1>2, <1>3, <1>4, <1>5, <1>6, <1>7 DEF FormStep, Uploading, Type,
    ChoosePlace

LEMMA RequestsPhotos ==
  ASSUME IInv, NEW r \in requests, RequestStep(r)
  PROVE  AllPicked' /\ AllStored'
<1> USE DEF IInv, TypeOK, AllPicked, AllStored, Resting, OneRequestPerTab, Form,
              ghosts
<1>1. CASE StoreNew(r)
  BY <1>1 DEF StoreNew, Stored
<1>2. CASE StoreEdit(r)
  BY <1>2 DEF StoreEdit, Stored, Merge
<1>3. CASE Answered(r)
  BY <1>3 DEF Answered, Closed, Blank
<1>4. CASE SubmitFails(r) \/ EditRefused(r)
  BY <1>4, FailEffect DEF Blank
<1> QED
  BY <1>1, <1>2, <1>3, <1>4 DEF RequestStep, Serving

-----------------------------------------------------------------------------
(* The photos that are gone.                                               *)

LEMMA FormsNoneBack ==
  ASSUME IInv, NEW t \in Tab, FormStep(t)
  PROVE  NoneBack'
<1> USE DEF IInv, TypeOK, AllPicked, OneRequestPerTab, SentForms, Resting,
              NoneBack, Form, ghosts
<1>1. CASE OpenNew(t) \/ OpenEdit(t) \/ Leave(t)
  BY <1>1, ShowEffect DEF Blank
<1>2. ASSUME NEW file \in Photo, Upload(t, file)
      PROVE  NoneBack'
  BY <1>2 DEF Upload
<1>3. CASE AddPhotos(t) \/ UploadFails(t)
  BY <1>3, UploadedEffect
<1>4. ASSUME NEW address \in Place, NEW coords \in {None, address}, Fill(t, address, coords)
      PROVE  NoneBack'
  BY <1>4, FillTab
<1>5. ASSUME NEW files \in SUBSET Photo, PickPhotos(t, files)
      PROVE  NoneBack'
  BY <1>5 DEF PickPhotos
<1>6. ASSUME NEW file \in Photo, RemovePhoto(t, file)
      PROVE  NoneBack'
  BY <1>6 DEF RemovePhoto
<1>7. CASE Submit(t)
  BY <1>7 DEF Submit, Send
<1> QED
  BY <1>1, <1>2, <1>3, <1>4, <1>5, <1>6, <1>7 DEF FormStep, Uploading, Type,
    ChoosePlace

LEMMA RequestsNoneBack ==
  ASSUME IInv, NEW r \in requests, RequestStep(r)
  PROVE  NoneBack'
<1> USE DEF IInv, TypeOK, AllPicked, OneRequestPerTab, SentForms, Resting,
              NoneBack, Form, ghosts, Exists
<1>1. CASE StoreNew(r)
  BY <1>1 DEF StoreNew, Stored
<1>2. CASE StoreEdit(r)
  <2>1. row'.form.photos = r.form.photos /\ row'.status # "none"
    BY <1>2 DEF StoreEdit, Merge
  <2>2. /\ fresh' = {r.from} /\ tab' = tab
        /\ gone' = gone \cup (row.form.photos \ r.form.photos)
        /\ crossed' = (crossed \/ r.from \notin fresh)
    BY <1>2 DEF StoreEdit
  <2>3. \A s \in requests' : s.from = r.from => s.form = r.form
    BY <1>2 DEF StoreEdit, Stored
  <2>4. tab[r.from].form.photos \subseteq r.form.photos /\ tab[r.from].sending = {}
    OBVIOUS
  <2>5. ~crossed' => r.form.photos \cap gone' = {}
    BY <2>2
  <2> QED
    BY <2>1, <2>2, <2>3, <2>4, <2>5
<1>3. CASE Answered(r)
  BY <1>3 DEF Answered, Closed, Blank
<1>4. CASE SubmitFails(r) \/ EditRefused(r)
  BY <1>4, FailEffect DEF Blank
<1> QED
  BY <1>1, <1>2, <1>3, <1>4 DEF RequestStep, Serving

-----------------------------------------------------------------------------
(* The coordinates.                                                        *)

LEMMA FormsAllFit ==
  ASSUME IInv, NEW t \in Tab, FormStep(t)
  PROVE  AllFit'
<1> USE DEF IInv, TypeOK, AllFit, Fits, Form, ghosts
<1>1. CASE OpenNew(t) \/ OpenEdit(t) \/ Leave(t)
  BY <1>1, ShowEffect DEF Blank
<1>2. ASSUME NEW file \in Photo, Upload(t, file)
      PROVE  AllFit'
  BY <1>2 DEF Upload
<1>3. CASE AddPhotos(t) \/ UploadFails(t)
  BY <1>3, UploadedEffect
<1>4. ASSUME NEW address \in Place, NEW coords \in {None, address}, Fill(t, address, coords)
      PROVE  AllFit'
  BY <1>4, FillTab
<1>5. ASSUME NEW files \in SUBSET Photo, PickPhotos(t, files)
      PROVE  AllFit'
  BY <1>5 DEF PickPhotos
<1>6. ASSUME NEW file \in Photo, RemovePhoto(t, file)
      PROVE  AllFit'
  BY <1>6 DEF RemovePhoto
<1>7. CASE Submit(t)
  BY <1>7 DEF Submit, Send
<1> QED
  BY <1>1, <1>2, <1>3, <1>4, <1>5, <1>6, <1>7 DEF FormStep, Uploading, Type,
    ChoosePlace

LEMMA RequestsAllFit ==
  ASSUME IInv, NEW r \in requests, RequestStep(r)
  PROVE  AllFit'
<1> USE DEF IInv, TypeOK, AllFit, Fits, Form, ghosts
<1>1. CASE StoreNew(r)
  BY <1>1 DEF StoreNew, Stored
<1>2. CASE StoreEdit(r)
  BY <1>2 DEF StoreEdit, Stored, Merge
<1>3. CASE Answered(r)
  BY <1>3 DEF Answered, Closed, Blank
<1>4. CASE SubmitFails(r) \/ EditRefused(r)
  BY <1>4, FailEffect DEF Blank
<1> QED
  BY <1>1, <1>2, <1>3, <1>4 DEF RequestStep, Serving

-----------------------------------------------------------------------------
(* The score, and what the card leaves alone.                              *)

LEMMA FormsScored ==
  ASSUME IInv, NEW t \in Tab, FormStep(t)
  PROVE  ScoredUnlessStale'
<1>1. UNCHANGED <<row, stale>>
  BY DEF FormStep, Uploading, Type, ChoosePlace, OpenNew, OpenEdit, Leave, Fill, PickPhotos,
         Upload, AddPhotos, UploadFails, RemovePhoto, Submit, Send, ghosts
<1> QED
  BY <1>1 DEF IInv, ScoredUnlessStale

LEMMA RequestsScored ==
  ASSUME IInv, NEW r \in requests, RequestStep(r)
  PROVE  ScoredUnlessStale'
<1> USE DEF IInv, TypeOK, ScoredUnlessStale, ghosts
<1>1. CASE StoreNew(r)
  BY <1>1 DEF StoreNew
<1>2. CASE StoreEdit(r)
  BY <1>2 DEF StoreEdit, Exists
<1>3. CASE Answered(r) \/ SubmitFails(r) \/ EditRefused(r)
  BY <1>3 DEF Answered, SubmitFails, EditRefused
<1> QED
  BY <1>1, <1>2, <1>3 DEF RequestStep, Serving

LEMMA CardEffect ==
  ASSUME IInv, CardStep
  PROVE  /\ row'.form = row.form
         /\ \/ row.status = row'.status
            \/ row.status # "none" /\ row'.status # "none"
         /\ UNCHANGED <<bucket, tab, requests, picked, created, fresh, gone, crossed, bare,
                        heard, unheard>>
         /\ ScoredUnlessStale'
<1> USE DEF IInv, TypeOK, ScoredUnlessStale, ghosts
<1>1. CASE OpenCards \/ DeleteListing
  BY <1>1 DEF OpenCards, DeleteListing, Exists
<1>2. CASE Score \/ Expire
  BY <1>2 DEF Score, Expire
<1>3. ASSUME NEW next \in Status, ChangeStatus(next)
      PROVE  /\ row'.form = row.form /\ row.status # "none" /\ row'.status # "none"
             /\ UNCHANGED <<bucket, tab, requests, picked, created, fresh, gone, crossed, bare,
                            heard, unheard>>
             /\ ScoredUnlessStale'
  <2>1. row' = [row EXCEPT !.status = next] /\ stale' = (stale \/ card # row.status)
    BY <1>3 DEF ChangeStatus
  <2>2. card \in {"active", "paused"} /\ next \in {"active", "paused", "leased"}
    BY <1>3 DEF ChangeStatus, Offered
  <2> QED
    BY <1>3, <2>1, <2>2 DEF ChangeStatus, Exists
<1> QED
  BY <1>1, <1>2, <1>3 DEF CardStep

LEMMA CardKeeps ==
  ASSUME IInv, CardStep
  PROVE  IInv'
<1>1. TypeOK'
  BY CardTyped DEF IInv
<1>2. OneRequestPerTab' /\ SentForms' /\ Resting'
  BY CardEffect DEF IInv, OneRequestPerTab, SentForms, Resting
<1>3. AllPicked' /\ AllStored' /\ NoneBack'
  BY CardEffect DEF IInv, AllPicked, AllStored, NoneBack
<1>4. AllFit'
  BY CardEffect DEF IInv, AllFit, Fits
<1>5. Counted'
  BY CardEffect DEF IInv, Counted, SentTabs, Awaiting
<1> QED
  BY <1>1, <1>2, <1>3, <1>4, <1>5, CardEffect DEF IInv

-----------------------------------------------------------------------------
(* Counted.                                                                *)

LEMMA AwaitingIsFinite ==
  ASSUME IInv
  PROVE  /\ IsFiniteSet(SentTabs) /\ Awaiting \subseteq SentTabs
         /\ IsFiniteSet(Awaiting) /\ Cardinality(Awaiting) \in Nat
         /\ Cardinality(Awaiting)
              <= Cardinality({t \in Tab : tab[t].mode = "create" /\ tab[t].at = "sent"})
<1> DEFINE Creating == {t \in Tab : tab[t].mode = "create" /\ tab[t].at = "sent"}
<1>1. Awaiting \subseteq Creating
  BY DEF IInv, TypeOK, OneRequestPerTab, Awaiting
<1>2. IsFiniteSet(Creating)
  BY FS_Subset DEF IInv, Counted, SentTabs
<1>3. IsFiniteSet(Awaiting) /\ Cardinality(Awaiting) <= Cardinality(Creating)
  BY <1>1, <1>2, FS_Subset
<1>4. Cardinality(Awaiting) \in Nat
  BY <1>3, FS_CardinalityType
<1> QED
  BY <1>1, <1>3, <1>4 DEF IInv, Counted, SentTabs

\* At most one tab more was sent.
LEMMA SentStayFinite ==
  ASSUME IInv, NEW t, SentTabs' \subseteq SentTabs \cup {t}
  PROVE  IsFiniteSet(SentTabs')
BY FS_AddElement, FS_Subset DEF IInv, Counted

LEMMA FormsCounted ==
  ASSUME IInv, NEW t \in Tab, FormStep(t)
  PROVE  Counted'
<1> USE DEF IInv, TypeOK, OneRequestPerTab, ghosts
<1>1. CASE Submit(t)
  <2> DEFINE q == [from |-> t, number |-> submits, mode |-> tab[t].mode,
                   at |-> "server", form |-> tab[t].form]
  <2>1. requests' = requests \cup {q} /\ q.at = "server"
    BY <1>1 DEF Submit, Send
  <2> HIDE DEF q
  <2>2. Awaiting' = Awaiting
    BY <2>1 DEF Awaiting
  <2>3. SentTabs' \subseteq SentTabs \cup {t}
    BY <1>1 DEF Submit, Send, SentTabs
  <2>4. UNCHANGED <<created, heard, unheard>>
    BY <1>1 DEF Submit, Send
  <2> QED
    BY <2>2, <2>3, <2>4, SentStayFinite DEF Counted
<1>2. CASE ~Submit(t)
  <2>1. UNCHANGED <<requests, created, heard, unheard>>
    BY <1>2 DEF FormStep, Uploading, Type, ChoosePlace, OpenNew, OpenEdit, Leave, Fill,
                PickPhotos, Upload, AddPhotos, UploadFails, RemovePhoto
  <2>2. Awaiting' = Awaiting
    BY <2>1 DEF Awaiting
  <2>3. \A s \in Tab : s # t => tab'[s] = tab[s]
    BY <1>2 DEF FormStep, Uploading, Type, ChoosePlace, OpenNew, OpenEdit, Leave, Show, Fill,
                PickPhotos, Upload, AddPhotos, UploadFails, Ready, RemovePhoto
  <2>4. SentTabs' \subseteq SentTabs \cup {t}
    BY <2>3 DEF SentTabs
  <2> QED
    BY <2>1, <2>2, <2>4, SentStayFinite DEF Counted
<1> QED
  BY <1>1, <1>2

\* A new listing is stored and its tab waits to hear of it.
LEMMA StoreNewCounted ==
  ASSUME IInv, NEW r \in requests, StoreNew(r)
  PROVE  Counted'
<1> USE DEF IInv, TypeOK, OneRequestPerTab
<1>1. \A s \in requests : s.from = r.from => s = r
  OBVIOUS
<1>2. r.from \notin Awaiting
  BY <1>1 DEF StoreNew, Awaiting
<1>3. Awaiting' = Awaiting \cup {r.from}
  <2>1. requests' = (requests \ {r}) \cup {[r EXCEPT !.at = "browser"]}
    BY DEF StoreNew, Stored
  <2>2. /\ [r EXCEPT !.at = "browser"].from = r.from
        /\ [r EXCEPT !.at = "browser"].mode = "create"
        /\ [r EXCEPT !.at = "browser"].at = "browser"
    BY DEF StoreNew
  <2>3. r.from \in Tab /\ r.at = "server"
    BY DEF StoreNew
  <2> QED
    BY <2>1, <2>2, <2>3 DEF Awaiting
<1>4. Cardinality(Awaiting') = Cardinality(Awaiting) + 1
  BY <1>2, <1>3, AwaitingIsFinite, FS_AddElement
<1>5. SentTabs' = SentTabs /\ created' = created + 1 /\ UNCHANGED <<heard, unheard>>
  BY DEF StoreNew, SentTabs, ghosts
<1> QED
  BY <1>4, <1>5, AwaitingIsFinite DEF Counted

\* A request is over: its listing, if it made one, is heard of or never will be.
LEMMA OverCounted ==
  ASSUME IInv, NEW r \in requests, Answered(r) \/ SubmitFails(r) \/ EditRefused(r)
  PROVE  Counted'
<1> USE DEF IInv, TypeOK, OneRequestPerTab
<1> DEFINE new == r.mode = "create" /\ r.at = "browser"
<1>1. requests' = requests \ {r} /\ created' = created
  BY DEF Answered, SubmitFails, EditRefused, GiveUp
<1>2. SentTabs' \subseteq SentTabs \cup {r.from}
  BY FailEffect DEF Answered, SentTabs
<1>3. CASE new
  <2>1. r.from \in Awaiting
    BY <1>3 DEF Awaiting
  <2>2. Awaiting' = Awaiting \ {r.from}
    BY <1>1, <1>3 DEF Awaiting
  <2>3. Cardinality(Awaiting') = Cardinality(Awaiting) - 1
    BY <2>1, <2>2, AwaitingIsFinite, FS_RemoveElement
  <2>4. heard' + unheard' = heard + unheard + 1
    BY <1>3 DEF Answered, SubmitFails, EditRefused
  <2>5. heard' \in Nat /\ unheard' \in Nat
    BY RequestsTyped DEF RequestStep, Serving
  <2>6. IsFiniteSet(SentTabs')
    BY <1>2, SentStayFinite
  <2>7. created = heard + unheard + Cardinality(Awaiting) /\ Cardinality(Awaiting) \in Nat
    BY AwaitingIsFinite DEF Counted
  <2>8. created' = heard' + unheard' + Cardinality(Awaiting')
    BY <1>1, <2>3, <2>4, <2>5, <2>7
  <2> QED
    BY <2>6, <2>8 DEF Counted
<1>4. CASE ~new
  <2>1. Awaiting' = Awaiting
    BY <1>1, <1>4 DEF Awaiting
  <2>2. heard' = heard /\ unheard' = unheard
    BY <1>4 DEF Answered, SubmitFails, EditRefused, ghosts
  <2> QED
    BY <1>1, <1>2, <2>1, <2>2, SentStayFinite DEF Counted
<1> QED
  BY <1>3, <1>4

LEMMA RequestsCounted ==
  ASSUME IInv, NEW r \in requests, RequestStep(r)
  PROVE  Counted'
<1>1. CASE StoreEdit(r)
  <2>1. requests' = (requests \ {r}) \cup {[r EXCEPT !.at = "browser"]} /\ r.mode = "edit"
    BY <1>1 DEF StoreEdit, Stored
  <2>2. [r EXCEPT !.at = "browser"].mode = "edit"
    BY <2>1 DEF IInv, TypeOK
  <2>3. Awaiting' = Awaiting
    BY <2>1, <2>2 DEF Awaiting
  <2> QED
    BY <1>1, <2>3 DEF IInv, Counted, SentTabs, StoreEdit
<1> QED
  BY <1>1, StoreNewCounted, OverCounted DEF RequestStep, Serving

-----------------------------------------------------------------------------
(* The invariant.                                                          *)

LEMMA InitIInv == Init => IInv
<1> SUFFICES ASSUME Init
             PROVE  IInv
  OBVIOUS
<1>1. Closed \in TabRecord /\ Closed.form = Blank /\ Closed.at = "ready"
      /\ Closed.sending = {} /\ Closed.sent = {}
  BY DEF Closed, TabRecord, Blank, Form
<1>2. PICK form \in Form, posted \in BOOLEAN :
        /\ row = [status |-> IF posted THEN "active" ELSE "none", scored |-> posted,
                  form |-> form]
        /\ Fits(form)
  <2>1. CASE row = [status |-> "none", scored |-> FALSE, form |-> Blank]
    <3>1. Blank \in Form /\ Fits(Blank)
      BY DEF Blank, Form, Fits
    <3>2. row = [status |-> IF FALSE THEN "active" ELSE "none", scored |-> FALSE,
                 form |-> Blank]
      BY <2>1
    <3> QED
      BY <3>1, <3>2
  <2>2. ASSUME NEW place \in Place, NEW coords \in {None, place}, NEW photos \in SUBSET Photo,
               row = [status |-> "active", scored |-> TRUE,
                      form |-> [address |-> place, coords |-> coords, photos |-> photos]]
        PROVE  \E form \in Form, posted \in BOOLEAN :
                 /\ row = [status |-> IF posted THEN "active" ELSE "none", scored |-> posted,
                           form |-> form]
                 /\ Fits(form)
    <3> DEFINE f == [address |-> place, coords |-> coords, photos |-> photos]
    <3>1. f \in Form /\ Fits(f)
      BY DEF Form, Fits
    <3>2. row = [status |-> IF TRUE THEN "active" ELSE "none", scored |-> TRUE, form |-> f]
      BY <2>2
    <3> QED
      BY <3>1, <3>2
  <2> QED
    BY <2>1, <2>2 DEF Init
<1>3. TypeOK
  <2>1. row \in [status : Status, scored : BOOLEAN, form : Form]
    BY <1>2 DEF Status
  <2>2. bucket \subseteq Photo /\ picked \subseteq Photo
    BY <1>2 DEF Init, Form
  <2>3. tab \in [Tab -> TabRecord]
    BY <1>1 DEF Init
  <2>4. gone \subseteq Photo /\ requests = {} /\ card = None /\ fresh \subseteq Tab
    BY DEF Init
  <2>5. {crossed, bare, stale} \subseteq BOOLEAN
    BY DEF Init
  <2>6. {created, inputs, submits, faults, heard, unheard} \subseteq Nat
    BY DEF Init
  <2> QED
    BY <2>1, <2>2, <2>3, <2>4, <2>5, <2>6 DEF TypeOK, TabRecord
<1>4. OneRequestPerTab /\ SentForms /\ Resting
  BY <1>1 DEF Init, OneRequestPerTab, SentForms, Resting
<1>5. AllPicked /\ AllStored /\ NoneBack
  BY <1>1, <1>2 DEF Init, AllPicked, AllStored, NoneBack, Blank
<1>6. AllFit /\ ScoredUnlessStale
  BY <1>1, <1>2 DEF Init, AllFit, Fits, ScoredUnlessStale, Blank
<1>7. Counted
  <2>1. SentTabs = {} /\ Awaiting = {}
    BY <1>1 DEF Init, SentTabs, Awaiting
  <2> QED
    BY <2>1, FS_EmptySet DEF Init, Counted
<1> QED
  BY <1>3, <1>4, <1>5, <1>6, <1>7 DEF IInv

LEMMA StepIInv == IInv /\ [Next]_vars => IInv'
<1> SUFFICES ASSUME IInv, [Next]_vars
             PROVE  IInv'
  OBVIOUS
<1>1. ASSUME NEW t \in Tab, FormStep(t)
      PROVE  IInv'
  <2>1. TypeOK'
    BY <1>1, FormsTyped DEF IInv
  <2> QED
    BY <1>1, <2>1, FormsTabs, FormsPhotos, FormsNoneBack, FormsAllFit, FormsScored, FormsCounted
    DEF IInv
<1>2. ASSUME NEW r \in requests, RequestStep(r)
      PROVE  IInv'
  <2>1. TypeOK'
    BY <1>2, RequestsTyped DEF IInv
  <2> QED
    BY <1>2, <2>1, RequestsTabs, RequestsPhotos, RequestsNoneBack, RequestsAllFit,
       RequestsScored, RequestsCounted
    DEF IInv
<1>3. CASE CardStep
  BY <1>3, CardKeeps
<1>4. CASE UNCHANGED vars
  BY <1>4 DEF vars, ghosts, IInv, TypeOK, OneRequestPerTab, SentForms, Resting, AllPicked,
              AllStored, NoneBack, AllFit, Fits, ScoredUnlessStale, Counted, SentTabs, Awaiting
<1> QED
  BY <1>1, <1>2, <1>3, <1>4 DEF Next, FormStep, RequestStep, CardStep

LEMMA Invariance == Spec => []IInv
BY InitIInv, StepIInv, PTL DEF Spec

-----------------------------------------------------------------------------
(* The theorems.                                                           *)

\* Every variable keeps its range.
THEOREM TypeCorrect == Spec => []TypeOK
<1>1. IInv => TypeOK
  BY DEF IInv
<1> QED
  BY <1>1, Invariance, PTL

(***************************************************************************)
(* Whatever uploads fail or overlap with removals, no form and no listing  *)
(* shows a photo that is not in S3 (handleImageChange, ListingForm.tsx).   *)
(***************************************************************************)
THEOREM ShownAreStored == Spec => []PhotosAreStored
<1>1. IInv => PhotosAreStored
  BY DEF IInv, AllStored, PhotosAreStored
<1> QED
  BY <1>1, Invariance, PTL

(***************************************************************************)
(* A photo an edit took out stays out, in however many tabs the form is    *)
(* open, unless an edit is saved from a tab older than the last edit       *)
(* (updateListing sends the whole form back).                              *)
(***************************************************************************)
THEOREM RemovedStayOut == Spec => []RemovedStaysRemoved
<1>1. IInv => RemovedStaysRemoved
  BY DEF IInv, NoneBack, RemovedStaysRemoved
<1> QED
  BY <1>1, Invariance, PTL

(***************************************************************************)
(* The coordinates are those of the address, in every form and the row,    *)
(* until an edit replaces an address that had some by a typed one          *)
(* (handleUpdate leaves the columns alone, main.go:649).                   *)
(***************************************************************************)
THEOREM MapShowsAddress == Spec => []CoordinatesFit
<1>1. IInv => CoordinatesFit
  BY DEF IInv, AllFit, Fits, CoordinatesFit
<1> QED
  BY <1>1, Invariance, PTL

(***************************************************************************)
(* There are no more listings than forms that were answered, lost their    *)
(* answer or still wait for it, however often the button is pressed in     *)
(* however many tabs (handleSubmit, ListingForm.tsx).                      *)
(***************************************************************************)
THEOREM FormsMakeOne == Spec => []OneListingPerForm
<1>1. IInv => OneListingPerForm
  <2> SUFFICES ASSUME IInv
               PROVE  OneListingPerForm
    OBVIOUS
  <2> DEFINE creating == Cardinality({t \in Tab : tab[t].mode = "create" /\ tab[t].at = "sent"})
             awaiting == Cardinality(Awaiting)
  <2>1. created = heard + unheard + awaiting
    BY DEF IInv, Counted
  <2>2. awaiting \in Nat /\ awaiting <= creating
    BY AwaitingIsFinite
  <2>3. creating \in Nat
    BY AwaitingIsFinite, FS_Subset, FS_CardinalityType DEF SentTabs
  <2>4. heard \in Nat /\ unheard \in Nat
    BY DEF IInv, TypeOK
  <2> HIDE DEF creating, awaiting
  <2>5. created <= heard + unheard + creating
    BY <2>1, <2>2, <2>3, <2>4
  <2> QED
    BY <2>5 DEF OneListingPerForm, creating
<1> QED
  BY <1>1, Invariance, PTL

(***************************************************************************)
(* Without a score a listing is active only after its card was used when   *)
(* the row's status was another than the card's (MyListingsClient.tsx).    *)
(***************************************************************************)
THEOREM UnscoredWasStale == Spec => []UnscoredOnlyFromStaleCard
<1>1. IInv => UnscoredOnlyFromStaleCard
  BY DEF IInv, ScoredUnlessStale, UnscoredOnlyFromStaleCard
<1> QED
  BY <1>1, Invariance, PTL
=============================================================================
