------------------------------ MODULE Matching ------------------------------
(***************************************************************************)
(* The two vectors a match compares, and the texts they should be of.      *)
(*                                                                         *)
(* The renter's: user_profiles.preference_embedding, filled by the first   *)
(* visit to the dashboard after the profile was saved and cleared by       *)
(* POST /profile of the auth service.  A visit reads the row, calls OpenAI *)
(* and writes the vector back, each a statement of its own.                *)
(*                                                                         *)
(* The listing's: in Pinecone, upserted by the consumer of listings.new    *)
(* from the payload that the listings service publishes after an edit of   *)
(* the title, description, address or rent.  Its text and metadata have    *)
(* more than these: the university, rooms and amenities (main.py:179-208). *)
(*                                                                         *)
(* A vector is what it was computed from.                                  *)
(***************************************************************************)
EXTENDS Naturals, Sequences

CONSTANTS
  Text,       \* what a profile says, or either part of a listing
  Visit,      \* visits of the renter to the dashboard that may overlap
  Edit,       \* PATCH requests of the lister that may overlap
  First,      \* what the listing says when it is created
  None,       \* no text, no vector
  MaxSaves,   \* bound: submitted profiles
  MaxFaults,  \* bound: failed or lost calls
  MaxCrashes  \* bound: restarts of the consumer

ASSUME NoneAssumption == None \notin Text
ASSUME FirstAssumption == First \in Text

VARIABLES
  vibe,      \* user_profiles.vibe_text, None before the first save
  cache,     \* user_profiles.preference_embedding
  form,      \* the text a pending submission carries
  visit,     \* per visit: its next step, and the text read or used
  row,       \* what the listing's row says
  edit,      \* per PATCH: its next step, and the row in its memory
  queue,     \* listings.new
  consuming, \* the consumer's next step, and its payload
  vector,    \* the listing's vector in Pinecone
  saves, faults, crashes,
  current,   \* ghost: visits that began after the last save
  crossed,   \* ghost: a visit was between its read and its write at the last save
  overlapped,\* ghost: two PATCH requests were under way at once
  silent,    \* ghost: a PATCH since the last published one changed the details
  lost       \* ghost: a payload was not published or not embedded

profile == <<vibe, cache, form, saves, crossed, current>>
listing == <<row, edit, overlapped, silent>>
index == <<queue, consuming, vector, crashes>>
vars == <<profile, visit, listing, index, faults, lost>>

\* The four fields that handleUpdate compares, and what else is embedded.
Content == [fields : Text, details : Text]

Idle == [at |-> "idle", text |-> None]
At(at, text) == [at |-> at, text |-> text]
Fault == faults < MaxFaults /\ faults' = faults + 1

\* A listing just created, its payload published or not.
Init ==
  /\ vibe = None /\ cache = None /\ form = None
  /\ visit = [v \in Visit |-> Idle]
  /\ row = [fields |-> First, details |-> First]
  /\ edit = [e \in Edit |-> At("todo", None)]
  /\ \/ queue = <<row>> /\ lost = FALSE
     \/ queue = <<>> /\ lost = TRUE
  /\ consuming = Idle /\ vector = None
  /\ saves = 0 /\ faults = 0 /\ crashes = 0
  /\ crossed = FALSE /\ current = {}
  /\ overlapped = FALSE /\ silent = FALSE

-----------------------------------------------------------------------------
(* The profile.                                                            *)

\* VibeForm: the button is disabled while the submission is pending.
Submit(t) ==
  /\ form = None
  /\ saves < MaxSaves
  /\ form' = t /\ saves' = saves + 1
  /\ UNCHANGED <<vibe, cache, crossed, current, visit, listing, index, faults, lost>>

\* saveProfile returns without the row having been written.
SaveFails ==
  /\ form # None /\ Fault
  /\ form' = None
  /\ UNCHANGED <<vibe, cache, saves, crossed, current, visit, listing, index, lost>>

HasRead(v) == visit[v].at \in {"embed", "store"}

\* Mutant of Save: the row is updated without clearing the vector.
SaveKeepsVector ==
  /\ form # None
  /\ vibe' = form /\ form' = None
  /\ crossed' = (\E v \in Visit : HasRead(v)) /\ current' = {}
  /\ UNCHANGED <<cache, saves, visit, listing, index, faults, lost>>
\* POST /profile: one upsert that clears the vector.
Save ==
  /\ form # None
  /\ vibe' = form /\ cache' = None /\ form' = None
  /\ crossed' = (\E v \in Visit : HasRead(v)) /\ current' = {}
  /\ UNCHANGED <<saves, visit, listing, index, faults, lost>>

-----------------------------------------------------------------------------
(* A visit: getMatches of the dashboard, get_matches of the service.       *)

Go(v, at, text) == visit' = [visit EXCEPT ![v] = At(at, text)]
Answer(v) == visit' = [visit EXCEPT ![v] = Idle]

\* The dashboard sends whoever has no profile to the onboarding first.
Begin(v) ==
  /\ visit[v].at = "idle" /\ vibe # None
  /\ Go(v, "read", None)
  /\ current' = current \cup {v}
  /\ UNCHANGED <<vibe, cache, form, saves, crossed, listing, index, faults, lost>>

ReadProfile(v) ==
  /\ visit[v].at = "read"
  /\ IF cache # None THEN Go(v, "query", cache) ELSE Go(v, "embed", vibe)
  /\ UNCHANGED <<profile, listing, index, faults, lost>>

EmbedProfile(v) ==
  /\ visit[v].at = "embed"
  /\ Go(v, "store", visit[v].text)
  /\ UNCHANGED <<profile, listing, index, faults, lost>>

\* The UPDATE is best effort.
StoreVector(v) ==
  /\ visit[v].at = "store"
  /\ \/ cache' = visit[v].text /\ UNCHANGED faults
     \/ Fault /\ UNCHANGED cache
  /\ Go(v, "query", visit[v].text)
  /\ UNCHANGED <<vibe, form, saves, crossed, current, listing, index, lost>>

\* Pinecone, then the listings' rows, whatever their status.
QueryMatches(v) ==
  /\ visit[v].at = "query"
  /\ Answer(v)
  /\ UNCHANGED <<profile, listing, index, faults, lost>>

\* OpenAI, Pinecone or the database fails: getMatches shows no matches.
VisitFails(v) ==
  /\ visit[v].at # "idle" /\ Fault
  /\ Answer(v)
  /\ UNCHANGED <<profile, listing, index, lost>>

-----------------------------------------------------------------------------
(* The listing.                                                            *)

Busy(e) == edit[e].at \in {"update", "reread", "publish"}

\* handleUpdate reads the row to check and compare with.
ReadRow(e) ==
  /\ edit[e].at = "todo"
  /\ edit' = [edit EXCEPT ![e] = At("update", row)]
  /\ overlapped' = (overlapped \/ \E d \in Edit : Busy(d))
  /\ UNCHANGED <<profile, visit, row, silent, index, faults, lost>>

\* The UPDATE (module ListingTrust has what else it does).  A PATCH without
\* the four fields leaves them; it is published when one differs from what was
\* read, which stays in memory.
CommitEdit(e, fields, details) ==
  LET trustRelevantChange == fields \notin {None, edit[e].text.fields} IN
  /\ edit[e].at = "update"
  /\ row' = [fields |-> IF fields = None THEN row.fields ELSE fields,
             details |-> details]
  /\ edit' = [edit EXCEPT ![e] = IF trustRelevantChange
                                 THEN At("reread", edit[e].text) ELSE At("done", None)]
  /\ silent' = (~trustRelevantChange /\ (silent \/ details # row.details))
  /\ UNCHANGED <<profile, visit, overlapped, index, faults, lost>>

\* Mutant of RereadRow: the payload is what was in memory before the edit.
PublishMemory(e) ==
  /\ edit[e].at = "reread"
  /\ edit' = [edit EXCEPT ![e].at = "publish"]
  /\ UNCHANGED <<profile, visit, row, overlapped, silent, index, faults, lost>>
\* fetchListingForEmbedding: the row as it is now; on an error, no payload.
RereadRow(e) ==
  /\ edit[e].at = "reread"
  /\ \/ edit' = [edit EXCEPT ![e] = At("publish", row)] /\ UNCHANGED <<faults, lost>>
     \/ Fault /\ lost' = TRUE /\ edit' = [edit EXCEPT ![e] = At("done", None)]
  /\ UNCHANGED <<profile, visit, row, overlapped, silent, index>>

\* publishNewListing logs a failed Publish and goes on.
PublishNewListing(e) ==
  /\ edit[e].at = "publish"
  /\ \/ queue' = Append(queue, edit[e].text) /\ UNCHANGED <<faults, lost>>
     \/ Fault /\ lost' = TRUE /\ UNCHANGED queue
  /\ edit' = [edit EXCEPT ![e] = At("done", None)]
  /\ UNCHANGED <<profile, visit, row, overlapped, silent, consuming, vector, crashes>>

-----------------------------------------------------------------------------
(* The consumer of listings.new.                                           *)

Consume ==
  /\ queue # <<>> /\ consuming.at = "idle"
  /\ consuming' = At("embed", Head(queue))
  /\ UNCHANGED <<profile, visit, listing, queue, vector, crashes, faults, lost>>

\* embed_listing_from_payload, up to the upsert.
Upsert ==
  /\ consuming.at = "embed"
  /\ vector' = consuming.text
  /\ consuming' = At("mark", consuming.text)
  /\ UNCHANGED <<profile, visit, listing, queue, crashes, faults, lost>>

Settle == consuming' = Idle /\ queue' = Tail(queue)

\* The listing's embedding_id, then the acknowledgement.
Acknowledge ==
  /\ consuming.at = "mark"
  /\ Settle
  /\ UNCHANGED <<profile, visit, listing, vector, crashes, faults, lost>>

\* message.process() rejects without requeueing what throws.
Reject ==
  /\ consuming.at # "idle" /\ Fault
  /\ Settle
  /\ lost' = TRUE
  /\ UNCHANGED <<profile, visit, listing, vector, crashes>>

\* The service stops; the broker has the message still.
Crash ==
  /\ crashes < MaxCrashes
  /\ crashes' = crashes + 1
  /\ consuming' = Idle
  /\ UNCHANGED <<profile, visit, listing, queue, vector, faults, lost>>

-----------------------------------------------------------------------------
Visits == \E v \in Visit :
  Begin(v) \/ ReadProfile(v) \/ EmbedProfile(v) \/ StoreVector(v)
  \/ QueryMatches(v) \/ VisitFails(v)

Publishing(e) == RereadRow(e) \/ PublishNewListing(e)
Consumer == Consume \/ Upsert \/ Acknowledge

Next ==
  \/ Visits \/ SaveFails \/ Save \/ Consumer \/ Reject \/ Crash
  \/ \E t \in Text : Submit(t)
  \/ \E e \in Edit :
       \/ ReadRow(e) \/ Publishing(e)
       \/ \E fields \in Text \cup {None}, details \in Text : CommitEdit(e, fields, details)

Spec == Init /\ [][Next]_vars

\* A handler that began goes on; the consumer takes what is queued.
Fairness == WF_vars(Consumer) /\ \A e \in Edit : WF_vars(Publishing(e))

FairSpec == Spec /\ Fairness

-----------------------------------------------------------------------------
(* Properties.                                                             *)

\* Every variable keeps its range.
TypeOK ==
  /\ {vibe, cache, form} \subseteq Text \cup {None}
  /\ row \in Content /\ vector \in Content \cup {None}
  /\ visit \in [Visit -> [at : {"idle", "read", "embed", "store", "query"},
                          text : Text \cup {None}]]
  /\ edit \in [Edit -> [at : {"todo", "update", "reread", "publish", "done"},
                        text : Content \cup {None}]]
  /\ queue \in Seq(Content)
  /\ consuming \in [at : {"idle", "embed", "mark"}, text : Content \cup {None}]
  /\ {crossed, overlapped, silent, lost} \subseteq BOOLEAN
  /\ current \subseteq Visit
  /\ {saves, faults, crashes} \subseteq Nat

(***************************************************************************)
(* The stored vector is that of the stored profile, so is every vector     *)
(* still to be written back, and a visit after a save looks for what was   *)
(* saved (onboarding/page.tsx:101, "Changes take effect immediately on     *)
(* your next dashboard visit"), unless a visit stood between its read and  *)
(* its write at that save (main.py:67 calls two concurrent misses          *)
(* idempotent; with a save in between they are not).                       *)
(***************************************************************************)
StaleOnlyIfCrossed ==
  ~crossed =>
    /\ cache \in {None, vibe}
    /\ \A v \in Visit : HasRead(v) => visit[v].text = vibe
    /\ \A v \in current : visit[v].at = "query" => visit[v].text = vibe

(***************************************************************************)
(* When edits do not overlap and nothing is lost, the listing's vector is  *)
(* in the end that of its row, whatever the consumer's restarts, if the    *)
(* last edit that changed more than the four fields was published for one  *)
(* of them: an edit of the other fields alone is not (main.go:684), and    *)
(* the vector stays as it was.                                             *)
(***************************************************************************)
VectorCatchesUp ==
  [](~lost /\ ~overlapped) /\ <>[]~silent => <>[](vector = row)
=============================================================================
