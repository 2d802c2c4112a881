------------------------------- MODULE Thread -------------------------------
(***************************************************************************)
(* One conversation as one of its parties sees it: the thread page         *)
(* (src/web/src/app/messages/[id]) with its calls of server actions        *)
(* (src/web/src/lib/actions.ts), and the handlers of the listings service  *)
(* that read and write messages (src/services/listings/main.go).           *)
(*                                                                         *)
(* The browser runs the server actions of a page one at a time, in the     *)
(* order they were called; the timer and the handlers of the page run in   *)
(* between.  A call may fail, which the action answers with a value, or be *)
(* rejected, which no handler of the page catches.  The other party is     *)
(* anywhere: it reaches the database through the same handlers.            *)
(*                                                                         *)
(* messages.created_at is the start of the transaction that inserts the    *)
(* row, so the position of a message in log is taken when it begins, and   *)
(* a read mark is the number of messages that had begun by then.           *)
(*                                                                         *)
(* The lister may delete the listing, and either party its account: the    *)
(* conversation and its messages go with it (init.sql:77, 95).  An open    *)
(* page is not told: its calls fail from then on.                          *)
(*                                                                         *)
(* The match is not confirmed here: a confirmation only takes handlers     *)
(* away (the calendar button and the banner of a page loaded after it) and *)
(* makes a proposal fail, which CallFails covers.                          *)
(***************************************************************************)
EXTENDS Naturals, Sequences, FiniteSets

CONSTANTS
  MaxMessages,  \* bound: transactions begun in the conversation
  MaxCalls,     \* bound: handlers of the page that wait at a time
  MaxRejected,  \* bound: handlers stopped by a rejected call
  PageLimit     \* LIMIT of the message query, 100 in the code

ASSUME BoundsAssumption ==
  /\ MaxMessages \in Nat
  /\ MaxCalls \in Nat \ {0}
  /\ MaxRejected \in Nat
  /\ PageLimit \in Nat \ {0}

VARIABLES
  log,       \* the message transactions in created_at order
  exists,    \* the conversation's row is there, and its messages with it
  readMark,  \* my renter_read_at or lister_read_at, as a position in log
  at,        \* where my browser is
  shown,     \* messages: what the thread displays
  busy,      \* handlers whose flag disables their button
  rejected,  \* handlers that never got past an await
  calls      \* the page's calls of server actions, the running one first

server == <<log, readMark, exists>>
page == <<at, shown, busy, rejected>>
vars == <<server, page, calls>>

Sides == {"me", "other"}
Kinds == {"text", "viewing"}
Unsettled == {"open", "gone"}
\* A proposal's answers, accepted and declined, are not told apart here.
Statuses == {"text", "pending", "answered", "superseded"}
Handlers == {"send", "propose", "respond", "pay"}
Fetches == {"load", "poll", "refresh"}

Row == [from: Sides, kind: Kinds, state: Unsettled \cup Statuses]
Bubble == [msg: 1..MaxMessages, status: Statuses]
Call == [op: Handlers \cup Fetches, for: Handlers \cup {"none"},
         msg: 0..MaxMessages, stage: {"new", "begun", "marked", "ok", "error"},
         result: SUBSET Bubble]
NewCall(op, for, msg) ==
  [op |-> op, for |-> for, msg |-> msg, stage |-> "new", result |-> {}]

-----------------------------------------------------------------------------
(* The messages service.                                                   *)

Committed == {i \in DOMAIN log : log[i].state \notin Unsettled}
Stored == IF exists THEN Committed ELSE {}

\* SELECT ... ORDER BY created_at ASC LIMIT 100.
Page == {[msg |-> i, status |-> log[i].state] :
  i \in {j \in Stored : Cardinality({k \in Stored : k < j}) < PageLimit}}

\* What handleListConversations and handleUnreadCount count for me.
Unread == {i \in Stored : log[i].from = "other" /\ i > readMark}

(***************************************************************************)
(* BEGIN and INSERT of handleSendMessage and handleProposeViewing: the row *)
(* has its created_at and nobody else sees it.                             *)
(***************************************************************************)
Begin(from, kind) ==
  /\ exists
  /\ Len(log) < MaxMessages
  /\ log' = Append(log, [from |-> from, kind |-> kind, state |-> "open"])

\* COMMIT, in any order among the open ones; a new proposal replaces the
\* pending one.
Commit(i) ==
  /\ i \in DOMAIN log
  /\ log[i].state = "open"
  /\ log' = [j \in DOMAIN log |->
       IF j = i THEN [log[i] EXCEPT !.state =
                        IF log[i].kind = "text" THEN "text" ELSE "pending"]
       ELSE IF log[i].kind = "viewing" /\ log[j].state = "pending"
            THEN [log[j] EXCEPT !.state = "superseded"]
            ELSE log[j]]
  /\ UNCHANGED <<readMark, exists, page, calls>>

\* A statement of the transaction fails, or its request is gone.
Abort(i) ==
  /\ i \in DOMAIN log
  /\ log[i].state = "open"
  /\ log' = [log EXCEPT ![i].state = "gone"]
  /\ UNCHANGED <<readMark, exists, page, calls>>

Answer(i, side) ==
  /\ exists
  /\ log[i].state = "pending"
  /\ log[i].from # side
  /\ log' = [log EXCEPT ![i].state = "answered"]

OtherBegins ==
  /\ \E kind \in Kinds : Begin("other", kind)
  /\ UNCHANGED <<readMark, exists, page, calls>>

OtherAnswers ==
  /\ \E i \in DOMAIN log : Answer(i, "other")
  /\ UNCHANGED <<readMark, exists, page, calls>>

\* ON DELETE CASCADE from the listing or a user.  The open transactions hold
\* the conversation's row: the deletion waits for them.
Delete ==
  /\ exists
  /\ \A i \in DOMAIN log : log[i].state # "open"
  /\ exists' = FALSE
  /\ UNCHANGED <<log, readMark, page, calls>>

-----------------------------------------------------------------------------
(* The page: what the user and the timer start.                            *)

Called(call) == calls' = Append(calls, call)

\* A link to /messages/[id]: the server renders the page, or notFound() when
\* there is no conversation.
Open ==
  /\ exists
  /\ at = "away"
  /\ at' = "loading"
  /\ calls' = <<NewCall("load", "none", 0)>>
  /\ UNCHANGED <<server, shown, busy, rejected>>

\* The component unmounts; what the server has begun goes on.
Away ==
  /\ at' = "away"
  /\ calls' = <<>>
  /\ shown' = {}
  /\ busy' = {}
  /\ rejected' = {}

Leave ==
  /\ at = "thread"
  /\ Away
  /\ UNCHANGED server

\* The interval's callback, while the tab is visible.
Poll ==
  /\ at = "thread"
  /\ \A k \in DOMAIN calls : calls[k].op # "poll"
  /\ Called(NewCall("poll", "none", 0))
  /\ UNCHANGED <<server, page>>

Start(handler, msg) ==
  /\ at = "thread"
  /\ handler \notin busy
  /\ Cardinality(busy \ rejected) < MaxCalls
  /\ busy' = busy \cup {handler}
  /\ Called(NewCall(handler, handler, msg))
  /\ UNCHANGED <<server, at, shown, rejected>>

\* Enter or the Send button, with a text that is not blank.
HandleSend == Start("send", 0)

\* The form behind the calendar button.
HandlePropose == Start("propose", 0)

\* A card's buttons: by what is shown, which the answer may have outrun.
HandleRespond ==
  \E b \in shown :
    /\ b.status = "pending"
    /\ log[b.msg].from = "other"
    /\ Start("respond", b.msg)

\* The banner of a lister.
HandleProceedToPayment == Start("pay", 0)

-----------------------------------------------------------------------------
(* The running call at the server.                                         *)

Running(op, stage) ==
  /\ calls # <<>>
  /\ calls[1].op = op
  /\ calls[1].stage = stage

Stage(stage) == calls' = [calls EXCEPT ![1].stage = stage]

\* The conversation is found, or else 404, and then
\* UPDATE conversations SET ..._read_at = NOW().
MarkRead ==
  /\ exists
  /\ \E op \in Fetches : Running(op, "new")
  /\ readMark' = Len(log)
  /\ Stage("marked")
  /\ UNCHANGED <<log, exists, page>>

\* The UPDATE fails: that is logged, and the messages are read all the same.
MarkFails ==
  /\ exists
  /\ \E op \in Fetches : Running(op, "new")
  /\ Stage("marked")
  /\ UNCHANGED <<server, page>>

\* The SELECT of the messages.
ReadPage ==
  /\ \E op \in Fetches : Running(op, "marked")
  /\ calls' = [calls EXCEPT ![1].stage = "ok", ![1].result = Page]
  /\ UNCHANGED <<server, page>>

\* Mutant of ServeWrite: the request is answered when its row is inserted.
ServeBeforeCommit ==
  /\ \/ Running("send", "new") /\ Begin("me", "text")
     \/ Running("propose", "new") /\ Begin("me", "viewing")
  /\ calls' = [calls EXCEPT ![1].stage = "ok", ![1].msg = Len(log) + 1]
  /\ UNCHANGED <<readMark, exists, page>>
\* handleSendMessage and handleProposeViewing up to their INSERT.
ServeWrite ==
  /\ \/ Running("send", "new") /\ Begin("me", "text")
     \/ Running("propose", "new") /\ Begin("me", "viewing")
  /\ calls' = [calls EXCEPT ![1].stage = "begun", ![1].msg = Len(log) + 1]
  /\ UNCHANGED <<readMark, exists, page>>

\* The COMMIT's outcome, as the answer to the request.
AnswerWrite ==
  /\ \E op \in {"send", "propose"} : Running(op, "begun")
  /\ log[calls[1].msg].state # "open"
  /\ Stage(IF log[calls[1].msg].state = "gone" THEN "error" ELSE "ok")
  /\ UNCHANGED <<server, page>>

\* handleRespondViewing: one UPDATE that looks for a pending row.
ServeRespond ==
  /\ Running("respond", "new")
  /\ Answer(calls[1].msg, "me")
  /\ Stage("ok")
  /\ UNCHANGED <<readMark, exists, page>>

\* createCheckoutSession has found the conversation and Stripe given a url.
ServePay ==
  /\ exists
  /\ Running("pay", "new")
  /\ Stage("ok")
  /\ UNCHANGED <<server, page>>

(***************************************************************************)
(* No token, no connection, a refusal or an answer that does not arrive:   *)
(* the action answers { error } or [].                                     *)
(***************************************************************************)
CallFails ==
  /\ calls # <<>>
  /\ calls[1].stage \in {"new", "begun", "marked"}
  /\ calls' = [calls EXCEPT ![1].stage = "error"]
  /\ UNCHANGED <<server, page>>

\* The browser's own request for the action fails: the await throws.
CallRejected ==
  /\ at = "thread"
  /\ calls # <<>>
  /\ calls[1].for \in Handlers => Cardinality(rejected) < MaxRejected
  /\ calls' = Tail(calls)
  /\ rejected' = rejected \cup ({calls[1].for} \cap Handlers)
  /\ UNCHANGED <<server, at, shown, busy>>

-----------------------------------------------------------------------------
(* The page goes on with what a call returned.                             *)

Returned(ops) ==
  /\ calls # <<>>
  /\ calls[1].op \in ops
  /\ calls[1].stage \in {"ok", "error"}

\* The page component has rendered, or notFound() did.
Loaded ==
  /\ Returned({"load"})
  /\ calls' = <<>>
  /\ \/ /\ at' = "thread"
        /\ shown' = calls[1].result
     \/ /\ at' = "away"
        /\ UNCHANGED shown
  /\ UNCHANGED <<server, busy, rejected>>

\* Mutant of Polled: only a list that has grown replaces the shown one.
PolledLonger ==
  /\ Returned({"poll"})
  /\ calls' = Tail(calls)
  /\ shown' = IF Cardinality(calls[1].result) > Cardinality(shown)
              THEN calls[1].result ELSE shown
  /\ UNCHANGED <<server, at, busy, rejected>>
\* Mutant of Polled: without the test of the length.
PolledAnything ==
  /\ Returned({"poll"})
  /\ calls' = Tail(calls)
  /\ shown' = calls[1].result
  /\ UNCHANGED <<server, at, busy, rejected>>
\* if (updated.length > 0) setMessages(updated).
Polled ==
  /\ Returned({"poll"})
  /\ calls' = Tail(calls)
  /\ shown' = IF calls[1].result # {} THEN calls[1].result ELSE shown
  /\ UNCHANGED <<server, at, busy, rejected>>

\* The second half of a handler: setMessages(updated), even with [].
Refreshed ==
  /\ Returned({"refresh"})
  /\ calls' = Tail(calls)
  /\ shown' = calls[1].result
  /\ busy' = busy \ {calls[1].for}
  /\ UNCHANGED <<server, at, rejected>>

ThenRefresh ==
  /\ calls' = Append(Tail(calls), NewCall("refresh", calls[1].for, calls[1].msg))
  /\ UNCHANGED busy

\* Mutant of Written: an error leaves the handler without resetting its flag.
WrittenForgets ==
  /\ Returned({"send", "propose"})
  /\ \/ calls[1].stage = "ok" /\ ThenRefresh
     \/ /\ calls[1].stage = "error"
        /\ calls' = Tail(calls)
        /\ UNCHANGED busy
  /\ UNCHANGED <<server, at, shown, rejected>>
\* handleSend and handlePropose after their await.
Written ==
  /\ Returned({"send", "propose"})
  /\ \/ calls[1].stage = "ok" /\ ThenRefresh
     \/ /\ calls[1].stage = "error"
        /\ calls' = Tail(calls)
        /\ busy' = busy \ {calls[1].for}
  /\ UNCHANGED <<server, at, shown, rejected>>

\* handleRespond reads the messages again in both cases.
Responded ==
  /\ Returned({"respond"})
  /\ ThenRefresh
  /\ UNCHANGED <<server, at, shown, rejected>>

\* window.location.href = result.url, or the button is enabled again.
PayReturned ==
  /\ Returned({"pay"})
  /\ \/ calls[1].stage = "ok" /\ Away
     \/ /\ calls[1].stage = "error"
        /\ calls' = Tail(calls)
        /\ busy' = busy \ {"pay"}
        /\ UNCHANGED <<at, shown, rejected>>
  /\ UNCHANGED server

-----------------------------------------------------------------------------
Init ==
  /\ log = <<>>
  /\ readMark = 0
  /\ exists = TRUE
  /\ at = "away"
  /\ shown = {}
  /\ busy = {}
  /\ rejected = {}
  /\ calls = <<>>

Settle == \E i \in 1..MaxMessages : Commit(i) \/ Abort(i)
User == HandleSend \/ HandlePropose \/ HandleRespond \/ HandleProceedToPayment
Server ==
  \/ MarkRead \/ MarkFails \/ ReadPage \/ ServeWrite \/ AnswerWrite
  \/ ServeRespond \/ ServePay
Return == Loaded \/ Polled \/ Refreshed \/ Written \/ Responded \/ PayReturned

Next ==
  \/ Settle \/ OtherBegins \/ OtherAnswers \/ Delete
  \/ Open \/ Leave \/ Poll \/ User
  \/ Server \/ CallFails \/ CallRejected \/ Return

Spec == Init /\ [][Next]_vars

(***************************************************************************)
(* The timer fires while the page is open, a transaction ends, a call gets *)
(* an answer, and the browser goes on with it.  Calls may fail or be       *)
(* rejected, but a poll that is made again and again is marked and read    *)
(* at some time: strong fairness.                                          *)
(***************************************************************************)
PollServed(A) == A /\ calls[1].op = "poll" /\ calls[1].stage # "error"
Fairness ==
  /\ WF_vars(Poll)
  /\ WF_vars(Settle)
  /\ WF_vars(Server \/ CallFails)
  /\ WF_vars(Return)
  /\ SF_vars(PollServed(MarkRead))
  /\ SF_vars(PollServed(ReadPage))
  /\ SF_vars(PollServed(Polled))

FairSpec == Spec /\ Fairness

-----------------------------------------------------------------------------
(* Properties.                                                             *)

\* Every variable keeps its range.
TypeOK ==
  /\ log \in Seq(Row) /\ Len(log) <= MaxMessages
  /\ readMark \in 0..MaxMessages
  /\ exists \in BOOLEAN
  /\ at \in {"away", "loading", "thread"}
  /\ shown \subseteq Bubble
  /\ busy \subseteq Handlers
  /\ rejected \subseteq Handlers
  /\ calls \in Seq(Call)

(***************************************************************************)
(* While the thread stays open, what it has shown goes away only when the  *)
(* refresh after an action of my own failed (ThreadClient.tsx:79, 109, 122,*)
(* 126): no poll, late answer or concurrent sender makes a bubble vanish.  *)
(* A row inserted with an older created_at can push the last one off a     *)
(* full page, and a conversation deleted while it is read has no messages. *)
(***************************************************************************)
Bubbles == {b.msg : b \in shown}
StaysShown ==
  [][(at = "thread" /\ at' = "thread")
       => \/ Bubbles \subseteq Bubbles'
          \/ Cardinality(Bubbles') = PageLimit
          \/ ~exists
          \/ Returned({"refresh"}) /\ calls[1].stage = "error"]_vars

(***************************************************************************)
(* Read your own writes: when the refresh after a message or a proposal of *)
(* mine succeeds, the thread shows it, unless the page is full of older    *)
(* ones or the conversation was deleted meanwhile.                         *)
(***************************************************************************)
ShowsOwn ==
  [][(/\ Returned({"refresh"})
      /\ calls[1].stage = "ok"
      /\ calls[1].for \in {"send", "propose"}
      /\ Refreshed)
       => \/ calls[1].msg \in Bubbles'
          \/ Cardinality(Bubbles') = PageLimit
          \/ ~exists]_vars

(***************************************************************************)
(* A button is disabled only while a call of its handler waits or runs:    *)
(* no path through a handler but a rejected call leaves its flag set.      *)
(***************************************************************************)
BusyIsWaited ==
  \A h \in busy \ rejected : \E k \in DOMAIN calls : calls[k].for = h

(***************************************************************************)
(* A thread that stays open catches up again and again with the first page *)
(* of the stored messages, statuses included, and nothing stays unread:    *)
(* whatever commits late, fails or is lost in between.  Not so once the    *)
(* conversation is deleted: a poll's [] is ignored (ThreadClient.tsx:60),  *)
(* and the open page keeps the messages that are gone.                     *)
(***************************************************************************)
CatchesUp ==
  <>[](at = "thread") => []<>(~exists \/ (shown = Page /\ Unread = {}))
=============================================================================
