\* One conversation whose rent changes, two sessions, a page and a webhook
\* at a time, fair deliveries.
CONSTANTS
  Conversation = {c1}
  Session = {s1, s2}
  Rent = {99999, 100000}
  Visit = {v1}
  Hook = {h1}
  NoRent = NoRent
  OtherId = OtherId
  PostedId = {s1, OtherId}
  NoSession = NoSession
  MaxFaults = 1
SPECIFICATION FairSpec
INVARIANTS
  AnnouncedOnce
  ConfirmedIsPaid
  
  FeeLocked
PROPERTIES
  PaidIsConfirmed
CHECK_DEADLOCK FALSE
