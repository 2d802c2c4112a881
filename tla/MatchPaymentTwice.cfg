\* One conversation, two sessions, no fault: a page left open for a day.
CONSTANTS
  Conversation = {c1}
  Session = {s1, s2}
  Rent = {99999}
  Visit = {v1}
  Hook = {h1}
  NoRent = NoRent
  OtherId = OtherId
  PostedId = {s1, OtherId}
  NoSession = NoSession
  MaxFaults = 0
SPECIFICATION Spec
PROPERTY NotChargedAgain
CHECK_DEADLOCK FALSE
