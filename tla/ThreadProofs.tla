---------------------------- MODULE ThreadProofs ----------------------------
(***************************************************************************)
(* What Thread promises for conversations of any length, any page limit    *)
(* and any number of handlers that wait or are rejected.                   *)
(***************************************************************************)
EXTENDS Thread, FiniteSetTheorems, WellFoundedInduction, TLAPS

(***************************************************************************)
(* The calls are a queue: what the handlers need to know is what is in it. *)
(***************************************************************************)
Elements(cs) == {cs[k] : k \in DOMAIN cs}

\* A call says which handler's flag waits for it.
Matched ==
  \A c \in Elements(calls) :
    /\ c.op \in Handlers => c.for = c.op
    /\ c.op \in {"load", "poll"} => c.for = "none"
    /\ c.op = "load" => at = "loading"

\* Only an open thread has handlers.
Quiet == at # "thread" => busy = {}

Waited == \A h \in busy \ rejected : \E c \in Elements(calls) : c.for = h

IInv == TypeOK /\ Matched /\ Quiet /\ Waited

-----------------------------------------------------------------------------
(* The queue of calls.                                                     *)

LEMMA Appended ==
  ASSUME NEW cs \in Seq(Call), NEW c \in Call
  PROVE  /\ Append(cs, c) \in Seq(Call)
         /\ Elements(Append(cs, c)) = Elements(cs) \cup {c}
<1>1. Append(cs, c) \in Seq(Call)
  OBVIOUS
<1>2. Elements(Append(cs, c)) \subseteq Elements(cs) \cup {c}
  BY DEF Elements
<1>3. \A k \in DOMAIN cs : k \in DOMAIN Append(cs, c) /\ Append(cs, c)[k] = cs[k]
  OBVIOUS
<1>4. Len(cs) + 1 \in DOMAIN Append(cs, c) /\ Append(cs, c)[Len(cs) + 1] = c
  OBVIOUS
<1>5. Elements(cs) \cup {c} \subseteq Elements(Append(cs, c))
  BY <1>3, <1>4 DEF Elements
<1> QED
  BY <1>1, <1>2, <1>5

LEMMA Dropped ==
  ASSUME NEW cs \in Seq(Call), cs # <<>>
  PROVE  /\ cs[1] \in Call /\ cs[1] \in Elements(cs)
         /\ Tail(cs) \in Seq(Call)
         /\ Elements(cs) = Elements(Tail(cs)) \cup {cs[1]}
<1>1. Tail(cs) \in Seq(Call) /\ 1 \in DOMAIN cs
  OBVIOUS
<1>2. \A k \in DOMAIN Tail(cs) : k + 1 \in DOMAIN cs /\ Tail(cs)[k] = cs[k + 1]
  OBVIOUS
<1>3. \A k \in DOMAIN cs : k = 1 \/ (k - 1 \in DOMAIN Tail(cs) /\ Tail(cs)[k - 1] = cs[k])
  <2> SUFFICES ASSUME NEW k \in DOMAIN cs, k # 1
               PROVE  k - 1 \in DOMAIN Tail(cs) /\ Tail(cs)[k - 1] = cs[k]
    OBVIOUS
  <2>1. k \in 2..Len(cs) /\ Len(Tail(cs)) = Len(cs) - 1
    OBVIOUS
  <2>2. k - 1 \in DOMAIN Tail(cs) /\ (k - 1) + 1 = k
    BY <1>1, <2>1
  <2> QED
    BY <1>2, <2>2
<1>4. Elements(Tail(cs)) \subseteq Elements(cs)
  BY <1>2 DEF Elements
<1>5. Elements(cs) \subseteq Elements(Tail(cs)) \cup {cs[1]}
  BY <1>3 DEF Elements
<1>6. cs[1] \in Elements(cs) /\ cs[1] \in Call
  BY <1>1 DEF Elements
<1> QED
  BY <1>1, <1>4, <1>5, <1>6

LEMMA FirstSet ==
  ASSUME NEW cs \in Seq(Call), cs # <<>>, NEW c \in Call
  PROVE  LET new == [cs EXCEPT ![1] = c] IN
         /\ new \in Seq(Call)
         /\ c \in Elements(new)
         /\ Elements(new) \subseteq Elements(cs) \cup {c}
         /\ \A d \in Elements(cs) : d = cs[1] \/ d \in Elements(new)
<1> DEFINE new == [cs EXCEPT ![1] = c]
<1>1. new \in Seq(Call) /\ DOMAIN new = DOMAIN cs /\ 1 \in DOMAIN new
  OBVIOUS
<1>2. new[1] = c /\ \A k \in DOMAIN cs : k = 1 \/ new[k] = cs[k]
  BY <1>1
<1> HIDE DEF new
<1>3. /\ c \in Elements(new)
      /\ Elements(new) \subseteq Elements(cs) \cup {c}
      /\ \A d \in Elements(cs) : d = cs[1] \/ d \in Elements(new)
  BY <1>1, <1>2 DEF Elements
<1> QED
  BY <1>1, <1>3 DEF new

-----------------------------------------------------------------------------
LEMMA InitIInv == Init => IInv
<1> SUFFICES ASSUME Init PROVE IInv
  OBVIOUS
<1>1. calls \in Seq(Call) /\ log \in Seq(Row) /\ Elements(calls) = {}
  BY DEF Init, Elements
<1>2. TypeOK
  BY <1>1, BoundsAssumption DEF Init, TypeOK
<1> QED
  BY <1>1, <1>2 DEF Init, IInv, Matched, Quiet, Waited

\* A new call is of the types the queue holds.
LEMMA NewCallType ==
  ASSUME NEW op \in Handlers \cup Fetches, NEW for \in Handlers \cup {"none"},
         NEW msg \in 0..MaxMessages
  PROVE  /\ NewCall(op, for, msg) \in Call
         /\ NewCall(op, for, msg).op = op /\ NewCall(op, for, msg).for = for
<1>1. {} \in SUBSET Bubble
  OBVIOUS
<1> QED
  BY <1>1 DEF NewCall, Call

-----------------------------------------------------------------------------
(* The messages.                                                           *)

LEMMA Filled ==
  ASSUME NEW n \in Nat, NEW f, f = [j \in 1..n |-> f[j]],
         \A j \in 1..n : f[j] \in Row
  PROVE  f \in Seq(Row) /\ Len(f) = n
<1>1. f \in [1..n -> Row]
  OBVIOUS
<1> QED
  BY <1>1

LEMMA StateSet ==
  ASSUME log \in Seq(Row), NEW i \in DOMAIN log, NEW s \in Unsettled \cup Statuses
  PROVE  /\ [log EXCEPT ![i].state = s] \in Seq(Row)
         /\ Len([log EXCEPT ![i].state = s]) = Len(log)
<1> DEFINE f == [log EXCEPT ![i].state = s]
<1>1. f = [j \in 1..Len(log) |-> f[j]]
  OBVIOUS
<1>2. [log[i] EXCEPT !.state = s] \in Row
  <2>1. log[i] \in Row
    OBVIOUS
  <2> QED
    BY <2>1 DEF Row
<1>3. \A j \in 1..Len(log) : f[j] \in Row
  BY <1>2
<1> HIDE DEF f
<1>4. f \in Seq(Row) /\ Len(f) = Len(log)
  BY <1>1, <1>3, Filled
<1> QED
  BY <1>4 DEF f

LEMMA Began ==
  ASSUME log \in Seq(Row), NEW from \in Sides, NEW kind \in Kinds, Begin(from, kind)
  PROVE  /\ log' \in Seq(Row)
         /\ Len(log') = Len(log) + 1 /\ Len(log') <= MaxMessages
<1> DEFINE row == [from |-> from, kind |-> kind, state |-> "open"]
<1>1. row \in Row
  BY DEF Row, Unsettled
<1>2. log' = Append(log, row)
  BY DEF Begin
<1> HIDE DEF row
<1>3. log' \in Seq(Row) /\ Len(log') = Len(log) + 1
  BY <1>1, <1>2
<1> QED
  BY <1>3, BoundsAssumption DEF Begin

\* A message that is not there cannot be answered.
LEMMA Answered ==
  ASSUME log \in Seq(Row), NEW i, NEW side, Answer(i, side)
  PROVE  log' \in Seq(Row) /\ Len(log') = Len(log)
<1>1. CASE i \in DOMAIN log
  BY <1>1, StateSet DEF Answer, Statuses
<1>2. CASE i \notin DOMAIN log
  <2>1. log' = log
    BY <1>2 DEF Answer
  <2> QED
    BY <2>1
<1> QED
  BY <1>1, <1>2

LEMMA LogKeeps ==
  ASSUME IInv, Settle \/ OtherBegins \/ OtherAnswers \/ Delete
  PROVE  IInv'
<1>1. UNCHANGED <<readMark, page, calls>> /\ exists' \in BOOLEAN
  BY DEF IInv, TypeOK, Settle, Commit, Abort, OtherBegins, OtherAnswers, Delete
<1>2. log' \in Seq(Row) /\ Len(log') <= MaxMessages
  <2>0. log \in Seq(Row) /\ Len(log) \in Nat /\ Len(log) <= MaxMessages
    BY DEF IInv, TypeOK
  <2>1. ASSUME NEW i \in 1..MaxMessages, Commit(i)
        PROVE  log' \in Seq(Row) /\ Len(log') <= MaxMessages
    <3> DEFINE next(j) ==
          IF j = i THEN [log[i] EXCEPT !.state =
                           IF log[i].kind = "text" THEN "text" ELSE "pending"]
          ELSE IF log[i].kind = "viewing" /\ log[j].state = "pending"
               THEN [log[j] EXCEPT !.state = "superseded"]
               ELSE log[j]
    <3>1. \A j \in DOMAIN log : log[j] \in Row
      BY <2>0
    <3>2. i \in DOMAIN log
      BY <2>1 DEF Commit
    <3>3. \A j \in DOMAIN log : next(j) \in Row
      BY <3>1, <3>2 DEF Row, Unsettled, Statuses
    <3>4. log' = [j \in 1..Len(log) |-> next(j)]
      BY <2>0, <2>1 DEF Commit
    <3> HIDE DEF next
    <3>5. log' = [j \in 1..Len(log) |-> log'[j]] /\ \A j \in 1..Len(log) : log'[j] \in Row
      BY <2>0, <3>3, <3>4
    <3> QED
      BY <2>0, <3>5, Filled
  <2>2. ASSUME NEW i \in 1..MaxMessages, Abort(i)
        PROVE  log' \in Seq(Row) /\ Len(log') <= MaxMessages
    BY <2>0, <2>2, StateSet DEF Abort, Unsettled
  <2>3. CASE OtherBegins
    <3>1. PICK kind \in Kinds : Begin("other", kind)
      BY <2>3 DEF OtherBegins
    <3> QED
      BY <2>0, <3>1, Began DEF Sides
  <2>4. CASE OtherAnswers
    BY <2>0, <2>4, Answered DEF OtherAnswers
  <2>5. CASE Delete
    BY <2>0, <2>5 DEF Delete
  <2> QED
    BY <2>1, <2>2, <2>3, <2>4, <2>5 DEF Settle
<1> QED
  BY <1>1, <1>2 DEF IInv, TypeOK, Matched, Quiet, Waited, page, Elements

-----------------------------------------------------------------------------
(* The queue of calls under the page's and the server's steps.             *)

LEMMA CallAdded ==
  ASSUME IInv, NEW c \in Call, calls' = Append(calls, c), at = "thread",
         c.op \in Handlers => c.for = c.op, c.op = "poll" => c.for = "none",
         c.op # "load", busy' \subseteq busy \cup {c.for}, busy' \subseteq Handlers,
         UNCHANGED <<server, at, shown, rejected>>
  PROVE  IInv'
<1>1. calls' \in Seq(Call) /\ Elements(calls') = Elements(calls) \cup {c}
  BY Appended DEF IInv, TypeOK
<1>2. TypeOK'
  BY <1>1 DEF IInv, TypeOK, server
<1>3. Matched' /\ Quiet' /\ Waited'
  BY <1>1 DEF IInv, Matched, Quiet, Waited
<1> QED
  BY <1>2, <1>3 DEF IInv

LEMMA FirstMoves ==
  ASSUME IInv, calls # <<>>, NEW c \in Call, calls' = [calls EXCEPT ![1] = c],
         c.op = calls[1].op, c.for = calls[1].for, UNCHANGED page,
         log' \in Seq(Row), Len(log') <= MaxMessages, readMark' \in 0..MaxMessages,
         UNCHANGED exists
  PROVE  IInv'
<1>1. /\ calls' \in Seq(Call)
      /\ c \in Elements(calls')
      /\ Elements(calls') \subseteq Elements(calls) \cup {c}
      /\ \A d \in Elements(calls) : d = calls[1] \/ d \in Elements(calls')
  BY FirstSet DEF IInv, TypeOK
<1>2. calls[1] \in Elements(calls)
  BY Dropped DEF IInv, TypeOK
<1>3. TypeOK'
  BY <1>1 DEF IInv, TypeOK, page
<1>4. Matched'
  BY <1>1, <1>2 DEF IInv, Matched, page
<1>5. Waited' /\ Quiet'
  BY <1>1, <1>2 DEF IInv, Waited, Quiet, page
<1> QED
  BY <1>3, <1>4, <1>5 DEF IInv

LEMMA FirstLeaves ==
  ASSUME IInv, calls # <<>>, calls' = Tail(calls), UNCHANGED <<server, at>>,
         shown' \subseteq Bubble, busy' \subseteq busy, rejected' \subseteq Handlers,
         rejected \subseteq rejected',
         calls[1].for \in Handlers => calls[1].for \notin busy' \/ calls[1].for \in rejected'
  PROVE  IInv'
<1>1. /\ calls' \in Seq(Call)
      /\ Elements(calls) = Elements(calls') \cup {calls[1]}
  BY Dropped DEF IInv, TypeOK
<1>2. TypeOK'
  BY <1>1 DEF IInv, TypeOK, server
<1>3. Matched' /\ Quiet'
  BY <1>1 DEF IInv, Matched, Quiet
<1>4. Waited'
  BY <1>1 DEF IInv, Waited, TypeOK
<1> QED
  BY <1>2, <1>3, <1>4 DEF IInv

LEMMA FirstRefreshes ==
  ASSUME IInv, calls # <<>>, calls[1].op \in Handlers, ThenRefresh,
         UNCHANGED <<server, at, shown, rejected>>
  PROVE  IInv'
<1> DEFINE c == NewCall("refresh", calls[1].for, calls[1].msg)
<1>1. /\ Tail(calls) \in Seq(Call) /\ calls[1] \in Call
      /\ Elements(calls) = Elements(Tail(calls)) \cup {calls[1]}
  BY Dropped DEF IInv, TypeOK
<1>2. calls[1].for \in Handlers \cup {"none"} /\ calls[1].msg \in 0..MaxMessages
  BY <1>1 DEF Call
<1>3. c \in Call /\ c.op = "refresh" /\ c.for = calls[1].for
  <2>1. "refresh" \in Handlers \cup Fetches
    BY DEF Fetches
  <2>2. c = [op |-> "refresh", for |-> calls[1].for, msg |-> calls[1].msg,
             stage |-> "new", result |-> {}]
    BY DEF NewCall
  <2>3. {} \in SUBSET Bubble
    OBVIOUS
  <2> HIDE DEF c
  <2> QED
    BY <1>2, <2>1, <2>2, <2>3 DEF Call
<1>4. calls' = Append(Tail(calls), c)
  BY DEF ThenRefresh
<1> HIDE DEF c
<1>5. calls' \in Seq(Call) /\ Elements(calls') = Elements(Tail(calls)) \cup {c}
  BY <1>1, <1>3, <1>4, Appended
<1>6. TypeOK'
  BY <1>5 DEF IInv, TypeOK, server, ThenRefresh
<1>7. Matched' /\ Quiet'
  BY <1>1, <1>3, <1>5 DEF IInv, Matched, Quiet, ThenRefresh, Handlers
<1>8. Waited'
  BY <1>1, <1>3, <1>5 DEF IInv, Waited, ThenRefresh
<1> QED
  BY <1>6, <1>7, <1>8 DEF IInv

-----------------------------------------------------------------------------
(* The steps.                                                              *)

LEMMA AwayKeeps ==
  ASSUME IInv, Away, UNCHANGED server
  PROVE  IInv'
<1>1. calls' \in Seq(Call) /\ Elements(calls') = {}
  BY DEF Away, Elements
<1>2. TypeOK'
  BY <1>1 DEF Away, IInv, TypeOK, server
<1> QED
  BY <1>1, <1>2 DEF Away, IInv, Matched, Quiet, Waited

LEMMA PageKeeps ==
  ASSUME IInv, Open \/ Leave \/ Poll \/ User
  PROVE  IInv'
<1>1. CASE Open
  <2> DEFINE c == NewCall("load", "none", 0)
  <2>1. c \in Call /\ c.op = "load" /\ c.for = "none"
    <3>1. "load" \in Handlers \cup Fetches /\ 0 \in 0..MaxMessages
      BY BoundsAssumption DEF Fetches
    <3> QED
      BY <3>1, NewCallType
  <2>2. calls' = <<c>>
    BY <1>1 DEF Open
  <2> HIDE DEF c
  <2>3. calls' \in Seq(Call) /\ Elements(calls') = {c}
    BY <2>1, <2>2 DEF Elements
  <2>4. busy = {}
    BY <1>1 DEF Open, IInv, Quiet
  <2>5. TypeOK'
    BY <1>1, <2>3 DEF Open, IInv, TypeOK, server
  <2>6. Matched' /\ Quiet' /\ Waited'
    BY <1>1, <2>1, <2>3, <2>4 DEF Open, Matched, Quiet, Waited, Handlers
  <2> QED
    BY <2>5, <2>6 DEF IInv
<1>2. CASE Leave
  BY <1>2, AwayKeeps DEF Leave
<1>3. CASE Poll
  <2>1. "poll" \in Handlers \cup Fetches /\ 0 \in 0..MaxMessages /\ "poll" \notin Handlers
    BY BoundsAssumption DEF Fetches, Handlers
  <2>2. /\ at = "thread" /\ UNCHANGED <<server, page>>
        /\ calls' = Append(calls, NewCall("poll", "none", 0))
    BY <1>3 DEF Poll, Called
  <2>3. busy \subseteq Handlers
    BY DEF IInv, TypeOK
  <2> QED
    BY <2>1, <2>2, <2>3, NewCallType, CallAdded DEF page
<1>4. ASSUME NEW h \in Handlers, NEW m \in 0..MaxMessages, Start(h, m)
      PROVE  IInv'
  <2>1. /\ at = "thread" /\ UNCHANGED <<server, at, shown, rejected>>
        /\ calls' = Append(calls, NewCall(h, h, m)) /\ busy' = busy \cup {h}
    BY <1>4 DEF Start, Called
  <2>2. busy \subseteq Handlers /\ h # "poll" /\ h # "load"
    BY DEF IInv, TypeOK, Handlers
  <2> QED
    BY <2>1, <2>2, NewCallType, CallAdded
<1>5. CASE User
  <2>1. 0 \in 0..MaxMessages /\ {"send", "propose", "respond", "pay"} = Handlers
    BY BoundsAssumption DEF Handlers
  <2>2. \A b \in shown : b.msg \in 0..MaxMessages
    BY BoundsAssumption DEF IInv, TypeOK, Bubble
  <2> QED
    BY <1>4, <1>5, <2>1, <2>2 DEF User, HandleSend, HandlePropose, HandleRespond,
       HandleProceedToPayment
<1> QED
  BY <1>1, <1>2, <1>3, <1>5

LEMMA ReturnKeeps ==
  ASSUME IInv, Return \/ CallRejected
  PROVE  IInv'
<1>0. /\ busy \subseteq Handlers /\ rejected \subseteq Handlers /\ shown \subseteq Bubble
      /\ calls # <<>> => /\ calls[1] \in Call /\ calls[1] \in Elements(calls)
  BY Dropped DEF IInv, TypeOK
<1>1. calls # <<>> =>
        /\ calls[1].op \in Handlers => calls[1].for = calls[1].op
        /\ calls[1].op \in {"load", "poll"} => calls[1].for = "none"
        /\ calls[1].op = "load" => busy = {}
        /\ calls[1].result \subseteq Bubble
  BY <1>0 DEF IInv, Matched, Quiet, Call
<1>2. CASE CallRejected
  BY <1>0, <1>2, FirstLeaves DEF CallRejected
<1>3. CASE Loaded
  <2>1. calls' = <<>> /\ Elements(calls') = {} /\ calls' \in Seq(Call)
    BY <1>3 DEF Loaded, Elements
  <2>2. /\ busy' = {} /\ UNCHANGED <<server, rejected>>
        /\ at' \in {"thread", "away"} /\ shown' \subseteq Bubble
    BY <1>0, <1>1, <1>3 DEF Loaded, Returned
  <2>3. TypeOK'
    BY <2>1, <2>2 DEF IInv, TypeOK, server
  <2> QED
    BY <2>1, <2>2, <2>3 DEF IInv, Matched, Quiet, Waited
<1>4. CASE Polled
  BY <1>0, <1>1, <1>4, FirstLeaves DEF Polled, Returned, Handlers
<1>5. CASE Refreshed
  BY <1>0, <1>1, <1>5, FirstLeaves DEF Refreshed, Returned
<1>6. CASE Written
  BY <1>0, <1>1, <1>6, FirstLeaves, FirstRefreshes DEF Written, Returned, Handlers
<1>7. CASE Responded
  BY <1>7, FirstRefreshes DEF Responded, Returned, Handlers
<1>8. CASE PayReturned
  BY <1>0, <1>1, <1>8, FirstLeaves, AwayKeeps DEF PayReturned, Returned, Handlers
<1> QED
  BY <1>2, <1>3, <1>4, <1>5, <1>6, <1>7, <1>8 DEF Return

LEMMA ServerKeeps ==
  ASSUME IInv, Server \/ CallFails
  PROVE  IInv'
<1>1. /\ calls # <<>> => calls[1] \in Call
      /\ log \in Seq(Row) /\ Len(log) \in Nat /\ Len(log) <= MaxMessages
      /\ readMark \in 0..MaxMessages
  BY Dropped DEF IInv, TypeOK
<1>2. ASSUME calls # <<>>, NEW stage \in {"begun", "marked", "ok", "error"}, Stage(stage),
             UNCHANGED page, log' \in Seq(Row), Len(log') <= MaxMessages,
             readMark' \in 0..MaxMessages, UNCHANGED exists
      PROVE  IInv'
  <2> DEFINE c == [calls[1] EXCEPT !.stage = stage]
  <2>1. c \in Call /\ c.op = calls[1].op /\ c.for = calls[1].for
    BY <1>1, <1>2 DEF Call
  <2>2. calls' = [calls EXCEPT ![1] = c]
    BY <1>1, <1>2 DEF Stage
  <2> HIDE DEF c
  <2> QED
    BY <1>2, <2>1, <2>2, FirstMoves
<1>3. CASE MarkRead \/ MarkFails
  <2>1. /\ calls # <<>> /\ Stage("marked") /\ UNCHANGED <<log, exists, page>>
        /\ readMark' = readMark \/ readMark' = Len(log)
    BY <1>3 DEF MarkRead, MarkFails, Running, server
  <2>2. readMark' \in 0..MaxMessages
    BY <1>1, <2>1, BoundsAssumption
  <2> QED
    BY <1>1, <1>2, <2>1, <2>2
<1>4. CASE ReadPage
  <2> DEFINE c == [calls[1] EXCEPT !.stage = "ok", !.result = Page]
  <2>1. Page \subseteq Bubble
    <3>1. ASSUME NEW i \in Stored
          PROVE  i \in 1..MaxMessages /\ log[i].state \in Statuses
      <4>1. i \in 1..Len(log) /\ log[i].state \notin Unsettled
        BY <1>1 DEF Stored, Committed
      <4>2. log[i] \in Row /\ i \in 1..MaxMessages
        BY <1>1, <4>1, BoundsAssumption
      <4> QED
        BY <4>1, <4>2 DEF Row
    <3>2. ASSUME NEW b \in Page
          PROVE  b \in Bubble
      <4>1. PICK i \in Stored : b = [msg |-> i, status |-> log[i].state]
        BY <3>2 DEF Page
      <4> QED
        BY <3>1, <4>1 DEF Bubble
    <3> QED
      BY <3>2
  <2>2. calls # <<>> /\ UNCHANGED <<server, page>>
    BY <1>4 DEF ReadPage, Running
  <2>3. c \in Call /\ c.op = calls[1].op /\ c.for = calls[1].for
    BY <1>1, <2>1, <2>2 DEF Call
  <2>4. calls' = [calls EXCEPT ![1] = c]
    BY <1>4 DEF ReadPage
  <2> HIDE DEF c
  <2> QED
    BY <1>1, <2>2, <2>3, <2>4, FirstMoves DEF server
<1>5. CASE ServeWrite
  <2> DEFINE c == [calls[1] EXCEPT !.stage = "begun", !.msg = Len(log) + 1]
  <2>1. calls # <<>> /\ UNCHANGED <<readMark, exists, page>> /\ \E kind \in Kinds : Begin("me", kind)
    BY <1>5 DEF ServeWrite, Running, Kinds
  <2>2. log' \in Seq(Row) /\ Len(log') = Len(log) + 1 /\ Len(log') <= MaxMessages
    BY <1>1, <2>1, Began DEF Sides
  <2>3. Len(log) + 1 \in 0..MaxMessages
    BY <1>1, <2>2, BoundsAssumption
  <2>4. c \in Call /\ c.op = calls[1].op /\ c.for = calls[1].for
    BY <1>1, <2>1, <2>3 DEF Call
  <2>5. calls' = [calls EXCEPT ![1] = c]
    BY <1>5 DEF ServeWrite
  <2> HIDE DEF c
  <2> QED
    BY <1>1, <2>1, <2>2, <2>4, <2>5, FirstMoves
<1>6. CASE AnswerWrite
  <2>1. calls # <<>> /\ UNCHANGED <<server, page>> /\ (Stage("error") \/ Stage("ok"))
    BY <1>6 DEF AnswerWrite, Running
  <2> QED
    BY <1>1, <1>2, <2>1 DEF server
<1>7. CASE ServeRespond
  <2>1. /\ calls # <<>> /\ UNCHANGED <<readMark, exists, page>> /\ Stage("ok")
        /\ Answer(calls[1].msg, "me")
    BY <1>7 DEF ServeRespond, Running
  <2>2. log' \in Seq(Row) /\ Len(log') = Len(log)
    BY <1>1, <2>1, Answered
  <2> QED
    BY <1>1, <1>2, <2>1, <2>2
<1>8. CASE ServePay \/ CallFails
  <2>1. calls # <<>> /\ UNCHANGED <<server, page>> /\ (Stage("error") \/ Stage("ok"))
    BY <1>8 DEF ServePay, CallFails, Running, Stage
  <2> QED
    BY <1>1, <1>2, <2>1 DEF server
<1> QED
  BY <1>3, <1>4, <1>5, <1>6, <1>7, <1>8 DEF Server

LEMMA StepIInv == IInv /\ [Next]_vars => IInv'
<1> SUFFICES ASSUME IInv, [Next]_vars
             PROVE  IInv'
  OBVIOUS
<1>1. CASE UNCHANGED vars
  BY <1>1 DEF vars, server, page, IInv, TypeOK, Matched, Quiet, Waited, Elements
<1> QED
  BY <1>1, LogKeeps, PageKeeps, ServerKeeps, ReturnKeeps DEF Next

-----------------------------------------------------------------------------
\* Every variable keeps its range (the page, the queue and the messages).
THEOREM TypeCorrect == Spec => []TypeOK
<1>1. IInv => TypeOK
  BY DEF IInv
<1> QED
  BY <1>1, InitIInv, StepIInv, PTL DEF Spec

(***************************************************************************)
(* A disabled button waits for a call, whatever fails, for any number of   *)
(* calls in the queue: only a rejected one leaves it so                    *)
(* (handleSend, handlePropose, handleRespond, handleProceedToPayment,      *)
(* ThreadClient.tsx:66-130).                                               *)
(***************************************************************************)
THEOREM ButtonsComeBack == Spec => []BusyIsWaited
<1>1. IInv => BusyIsWaited
  BY DEF IInv, Waited, Elements, BusyIsWaited
<1> QED
  BY <1>1, InitIInv, StepIInv, PTL DEF Spec

-----------------------------------------------------------------------------
(* The first few of a set of positions.                                    *)

LEMMA Least ==
  ASSUME NEW T \in SUBSET Nat, T # {}
  PROVE  \E m \in T : \A k \in T : m <= k
<1>1. PICK m \in T : \A k \in T : <<k, m>> \notin OpToRel(<, Nat)
  BY NatLessThanWellFounded, WFMin
<1>2. \A k \in T : ~(k < m)
  BY <1>1 DEF OpToRel
<1> QED
  BY <1>2

LEMMA Greatest ==
  ASSUME NEW n \in Nat, NEW T \in SUBSET (1..n), T # {}
  PROVE  \E m \in T : \A k \in T : k <= m
<1> DEFINE D == {n - k : k \in T}
<1>1. D \in SUBSET Nat /\ D # {}
  <2>1. \A k \in T : n - k \in Nat
    OBVIOUS
  <2> QED
    BY <2>1
<1>2. PICK d \in D : \A e \in D : d <= e
  BY <1>1, Least
<1>3. PICK m \in T : d = n - m
  OBVIOUS
<1>4. \A k \in T : n - m <= n - k
  BY <1>2, <1>3
<1> QED
  BY <1>4

Below(S, j) == {k \in S : k < j}

(***************************************************************************)
(* The first L of a set of positions: all of them, or L.                   *)
(***************************************************************************)
LEMMA FirstFew ==
  ASSUME NEW n \in Nat, NEW S \in SUBSET (1..n), NEW L \in Nat \ {0},
         NEW F, F = {j \in S : Cardinality(Below(S, j)) < L}
  PROVE  F = S \/ Cardinality(F) = L
<1> SUFFICES ASSUME F # S PROVE Cardinality(F) = L
  OBVIOUS
<1>1. IsFiniteSet(1..n)
  BY FS_Interval
<1>2. \A T \in SUBSET S : IsFiniteSet(T) /\ Cardinality(T) \in Nat
  BY <1>1, FS_Subset, FS_CardinalityType
<1>3. \A j : Below(S, j) \in SUBSET S
  BY DEF Below
<1>4. PICK j \in S \ F : \A k \in S \ F : j <= k
  <2>1. S \ F \in SUBSET Nat /\ S \ F # {}
    <3>1. F \subseteq S
      OBVIOUS
    <3>2. \A k \in S : k \in Nat
      OBVIOUS
    <3> QED
      BY <3>1, <3>2
  <2> QED
    BY <2>1, Least
<1>5. Cardinality(Below(S, j)) >= L
  BY <1>2, <1>3, <1>4
<1>6. F = Below(S, j)
  <2>1. \A k \in Below(S, j) : k \in F
    BY <1>4 DEF Below
  <2>2. ASSUME NEW k \in F, ~(k < j)
        PROVE  FALSE
    <3>1. k \in S /\ k # j /\ j < k
      BY <1>4, <2>2
    <3>2. \A i \in Below(S, j) : i \in Below(S, k)
      <4>1. \A i \in S : i < j => i < k
        BY <3>1
      <4> QED
        BY <4>1 DEF Below
    <3>3. Cardinality(Below(S, j)) <= Cardinality(Below(S, k))
      BY <1>2, <1>3, <3>2, FS_Subset
    <3>4. Cardinality(Below(S, k)) < L
      OBVIOUS
    <3> QED
      BY <1>2, <1>3, <1>5, <3>3, <3>4
  <2> QED
    BY <2>1, <2>2 DEF Below
<1>7. Cardinality(F) >= L
  BY <1>5, <1>6
<1>8. F # {} /\ F \in SUBSET (1..n)
  <2>1. F = {} => Cardinality(F) = 0
    BY FS_EmptySet
  <2>2. F # {}
    BY <1>7, <2>1
  <2>3. \A k \in F : k \in S
    OBVIOUS
  <2> QED
    BY <2>2, <2>3
<1>9. PICK m \in F : \A k \in F : k <= m
  BY <1>8, Greatest
<1>10. F = Below(S, m) \cup {m}
  <2>1. \A k \in F : k < m \/ k = m
    BY <1>8, <1>9
  <2>2. \A k \in Below(S, m) : k < m /\ m < j /\ k \in S
    BY <1>6, <1>9 DEF Below
  <2>3. \A k \in Below(S, m) : k \in Below(S, j)
    BY <1>4, <1>9, <2>2 DEF Below
  <2> QED
    BY <1>6, <1>9, <2>1, <2>3 DEF Below
<1>11. m \notin Below(S, m) /\ Cardinality(Below(S, m)) < L
  BY <1>9 DEF Below
<1>12. Cardinality(F) = Cardinality(Below(S, m)) + 1
  BY <1>2, <1>3, <1>10, <1>11, FS_AddElement
<1> QED
  BY <1>2, <1>3, <1>7, <1>11, <1>12

-----------------------------------------------------------------------------
(* What a reader has seen.                                                 *)

Msgs(bubbles) == {b.msg : b \in bubbles}
Full(bubbles) == Cardinality(Msgs(bubbles)) = PageLimit

\* Only the running call has got anywhere.
OnlyFirstRuns == \A k \in DOMAIN calls : k = 1 \/ calls[k].stage = "new"

\* What is displayed is in the table.
ShownIsStored == Msgs(shown) \subseteq Committed

(***************************************************************************)
(* What a call knows stays true until the page has heard of it: a message  *)
(* of mine is committed when its answer says so, and a page that was read  *)
(* has it, and all that is displayed, unless it is full.                   *)
(***************************************************************************)
Knows(c) ==
  /\ c.stage # "ok" => c.result = {}
  /\ c.stage = "begun" => c.msg \in DOMAIN log
  /\ Msgs(c.result) \subseteq Committed
  /\ c.op \in {"send", "propose"} /\ c.stage = "ok" => c.msg \in Committed
  /\ c.op = "refresh" /\ c.for \in {"send", "propose"} =>
       /\ c.msg \in Committed
       /\ c.stage = "ok" => c.msg \in Msgs(c.result) \/ Full(c.result) \/ ~exists
  /\ c.op \in {"poll", "refresh"} /\ c.stage = "ok" =>
       Msgs(shown) \subseteq Msgs(c.result) \/ Full(c.result) \/ ~exists

AllKnow == \A c \in Elements(calls) : Knows(c)

Reads == IInv /\ OnlyFirstRuns /\ ShownIsStored /\ AllKnow

\* A committed message stays one, and no transaction unbegins.
LEMMA StoredStays ==
  ASSUME IInv, [Next]_vars
  PROVE  Committed \subseteq Committed' /\ DOMAIN log \subseteq DOMAIN log' /\ (exists' => exists)
<1> SUFFICES Committed \subseteq Committed' /\ DOMAIN log \subseteq DOMAIN log'
  BY DEF vars, server, Next, Settle, Commit, Abort, OtherBegins, OtherAnswers, Delete,
     Open, Leave, Poll, User, HandleSend, HandlePropose, HandleRespond,
     HandleProceedToPayment, Start, Server, MarkRead, MarkFails, ReadPage, ServeWrite,
     AnswerWrite, ServeRespond, ServePay, CallFails, CallRejected, Return, Loaded,
     Polled, Refreshed, Written, Responded, PayReturned
<1>1. log \in Seq(Row)
  BY DEF IInv, TypeOK
<1>2. CASE UNCHANGED log
  BY <1>2 DEF Committed
<1>3. ASSUME NEW from \in Sides, NEW kind \in Kinds, Begin(from, kind)
      PROVE  Committed \subseteq Committed' /\ DOMAIN log \subseteq DOMAIN log'
  <2>1. \A i \in DOMAIN log : i \in DOMAIN log' /\ log'[i] = log[i]
    BY <1>1, <1>3 DEF Begin
  <2> QED
    BY <2>1 DEF Committed
<1>4. ASSUME NEW i, NEW side, Answer(i, side)
      PROVE  Committed \subseteq Committed' /\ DOMAIN log \subseteq DOMAIN log'
  <2>1. /\ DOMAIN log' = DOMAIN log
        /\ \A j \in DOMAIN log : j = i \/ log'[j] = log[j]
    BY <1>1, <1>4 DEF Answer
  <2>2. i \in DOMAIN log => log'[i].state = "answered"
    <3>1. i \in DOMAIN log => log[i] \in Row
      BY <1>1
    <3> QED
      BY <1>1, <1>4, <3>1 DEF Answer, Row
  <2> QED
    BY <2>1, <2>2 DEF Committed, Unsettled
<1>5. ASSUME NEW i \in 1..MaxMessages, Commit(i)
      PROVE  Committed \subseteq Committed' /\ DOMAIN log \subseteq DOMAIN log'
  <2>1. /\ DOMAIN log' = DOMAIN log
        /\ \A j \in DOMAIN log :
             \/ j = i /\ log[i].state = "open"
             \/ log'[j] = [log[j] EXCEPT !.state = "superseded"]
             \/ log'[j] = log[j]
    BY <1>5 DEF Commit
  <2>2. \A j \in DOMAIN log : [log[j] EXCEPT !.state = "superseded"].state = "superseded"
    <3>1. \A j \in DOMAIN log : log[j] \in Row
      BY <1>1
    <3> QED
      BY <3>1 DEF Row
  <2> QED
    BY <2>1, <2>2 DEF Committed, Unsettled
<1>6. ASSUME NEW i \in 1..MaxMessages, Abort(i)
      PROVE  Committed \subseteq Committed' /\ DOMAIN log \subseteq DOMAIN log'
  <2>1. /\ DOMAIN log' = DOMAIN log /\ log[i].state = "open"
        /\ \A j \in DOMAIN log : j = i \/ log'[j] = log[j]
    BY <1>1, <1>6 DEF Abort
  <2> QED
    BY <2>1 DEF Committed, Unsettled
<1>7. CASE Settle \/ OtherBegins \/ OtherAnswers
  BY <1>3, <1>4, <1>5, <1>6, <1>7 DEF Settle, OtherBegins, OtherAnswers, Sides
<1>8. CASE ServeWrite
  BY <1>3, <1>8 DEF ServeWrite, Sides, Kinds
<1>9. CASE ServeRespond
  BY <1>4, <1>9 DEF ServeRespond
<1>10. CASE UNCHANGED vars \/ Delete \/ Open \/ Leave \/ Poll \/ User
  BY <1>2, <1>10 DEF vars, server, Delete, Open, Leave, Poll, User, HandleSend, HandlePropose,
     HandleRespond, HandleProceedToPayment, Start
<1>11. CASE MarkRead \/ MarkFails \/ ReadPage \/ AnswerWrite \/ ServePay \/ CallFails
            \/ CallRejected \/ Return
  BY <1>2, <1>11 DEF server, MarkRead, MarkFails, ReadPage, AnswerWrite, ServePay,
     CallFails, CallRejected, Return, Loaded, Polled, Refreshed, Written, Responded,
     PayReturned
<1> QED
  BY <1>7, <1>8, <1>9, <1>10, <1>11 DEF Next, Server

(***************************************************************************)
(* A page has every stored message, or as many as a page can have.         *)
(***************************************************************************)
LEMMA PageIsEnough ==
  ASSUME TypeOK
  PROVE  Msgs(Page) \subseteq Stored /\ (Msgs(Page) = Stored \/ Full(Page))
<1> DEFINE F == {j \in Stored : Cardinality({k \in Stored : k < j}) < PageLimit}
<1>1. Msgs(Page) = F
  <2> DEFINE bubble(i) == [msg |-> i, status |-> log[i].state]
  <2>1. Page = {bubble(i) : i \in F}
    BY DEF Page
  <2>2. \A i : bubble(i).msg = i
    OBVIOUS
  <2> HIDE DEF bubble, F
  <2> QED
    BY <2>1, <2>2 DEF Msgs
<1>2. Stored \in SUBSET (1..Len(log)) /\ Len(log) \in Nat
  BY DEF TypeOK, Stored, Committed
<1>3. F = {j \in Stored : Cardinality(Below(Stored, j)) < PageLimit}
  BY DEF Below
<1> HIDE DEF F
<1>4. F = Stored \/ Cardinality(F) = PageLimit
  BY <1>2, <1>3, FirstFew, BoundsAssumption
<1>5. F \subseteq Stored
  BY <1>3
<1> QED
  BY <1>1, <1>4, <1>5 DEF Full

-----------------------------------------------------------------------------
(* The queue, once more: what the others in it are.                        *)

LEMMA AddedLast ==
  ASSUME NEW cs \in Seq(Call), NEW c \in Call, c.stage = "new",
         \A k \in DOMAIN cs : k = 1 \/ cs[k].stage = "new"
  PROVE  \A k \in DOMAIN Append(cs, c) : k = 1 \/ Append(cs, c)[k].stage = "new"
<1>1. \A k \in DOMAIN Append(cs, c) :
        (k \in DOMAIN cs /\ Append(cs, c)[k] = cs[k]) \/ Append(cs, c)[k] = c
  OBVIOUS
<1> QED
  BY <1>1

LEMMA RestIsNew ==
  ASSUME NEW cs \in Seq(Call), cs # <<>>,
         \A k \in DOMAIN cs : k = 1 \/ cs[k].stage = "new"
  PROVE  /\ \A k \in DOMAIN Tail(cs) : Tail(cs)[k].stage = "new"
         /\ \A c \in Elements(Tail(cs)) : c.stage = "new"
<1>1. \A k \in DOMAIN Tail(cs) : k + 1 \in DOMAIN cs /\ k + 1 # 1 /\ Tail(cs)[k] = cs[k + 1]
  OBVIOUS
<1> QED
  BY <1>1 DEF Elements

LEMMA FirstIsSet ==
  ASSUME NEW cs \in Seq(Call), cs # <<>>, NEW c \in Call,
         \A k \in DOMAIN cs : k = 1 \/ cs[k].stage = "new"
  PROVE  \A k \in DOMAIN [cs EXCEPT ![1] = c] :
           k = 1 \/ [cs EXCEPT ![1] = c][k].stage = "new"
OBVIOUS

\* A call that has read nothing, or a page that displays the same.
LEMMA StillKnows ==
  ASSUME NEW c, Knows(c), Committed \subseteq Committed', DOMAIN log \subseteq DOMAIN log',
         exists' => exists,
         shown' = shown \/ c.stage = "new"
  PROVE  Knows(c)'
BY DEF Knows

(***************************************************************************)
(* The steps: the messages that are stored stay, so only the call that is  *)
(* added, moved on or heard of needs a look.                               *)
(***************************************************************************)
LEMMA AddedKnows ==
  ASSUME Reads, [Next]_vars, NEW c \in Call, calls' = Append(calls, c),
         c.stage = "new", c.result = {}, c.op # "refresh", UNCHANGED shown
  PROVE  (OnlyFirstRuns /\ ShownIsStored /\ AllKnow)'
<1>1. /\ Committed \subseteq Committed' /\ DOMAIN log \subseteq DOMAIN log'
      /\ (exists' => exists) /\ calls \in Seq(Call)
  BY StoredStays DEF Reads, IInv, TypeOK
<1>2. Elements(calls') = Elements(calls) \cup {c}
  BY <1>1, Appended
<1>3. OnlyFirstRuns' /\ ShownIsStored'
  BY <1>1, AddedLast DEF Reads, OnlyFirstRuns, ShownIsStored
<1>4. Knows(c)'
  BY DEF Knows, Msgs
<1>5. \A d \in Elements(calls) : Knows(d)'
  BY <1>1, StillKnows DEF Reads, AllKnow
<1> QED
  BY <1>2, <1>3, <1>4, <1>5 DEF AllKnow

LEMMA MovedKnows ==
  ASSUME Reads, [Next]_vars, NEW c \in Call, calls # <<>>, calls' = [calls EXCEPT ![1] = c],
         Knows(c)', UNCHANGED shown
  PROVE  (OnlyFirstRuns /\ ShownIsStored /\ AllKnow)'
<1>1. /\ Committed \subseteq Committed' /\ DOMAIN log \subseteq DOMAIN log'
      /\ (exists' => exists) /\ calls \in Seq(Call)
  BY StoredStays DEF Reads, IInv, TypeOK
<1>2. Elements(calls') \subseteq Elements(calls) \cup {c}
  BY <1>1, FirstSet
<1>3. OnlyFirstRuns' /\ ShownIsStored'
  BY <1>1, FirstIsSet DEF Reads, OnlyFirstRuns, ShownIsStored
<1>4. \A d \in Elements(calls) : Knows(d)'
  BY <1>1, StillKnows DEF Reads, AllKnow
<1> QED
  BY <1>2, <1>3, <1>4 DEF AllKnow

LEMMA HeardKnows ==
  ASSUME Reads, [Next]_vars, calls # <<>>, calls' = Tail(calls),
         shown' = shown \/ shown' = calls[1].result
  PROVE  (OnlyFirstRuns /\ ShownIsStored /\ AllKnow)'
<1>1. /\ Committed \subseteq Committed' /\ DOMAIN log \subseteq DOMAIN log'
      /\ (exists' => exists) /\ calls \in Seq(Call)
  BY StoredStays DEF Reads, IInv, TypeOK
<1>2. calls[1] \in Elements(calls) /\ Elements(calls') \subseteq Elements(calls)
  BY <1>1, Dropped
<1>3. /\ \A k \in DOMAIN calls' : calls'[k].stage = "new"
      /\ \A c \in Elements(calls') : c.stage = "new"
  BY <1>1, RestIsNew DEF Reads, OnlyFirstRuns
<1>4. Msgs(calls[1].result) \subseteq Committed /\ Msgs(shown) \subseteq Committed
  BY <1>2 DEF Reads, AllKnow, Knows, ShownIsStored
<1>5. OnlyFirstRuns' /\ ShownIsStored'
  BY <1>1, <1>3, <1>4 DEF OnlyFirstRuns, ShownIsStored
<1>6. \A d \in Elements(calls') : Knows(d)'
  BY <1>1, <1>2, <1>3, StillKnows DEF Reads, AllKnow
<1> QED
  BY <1>5, <1>6 DEF AllKnow

\* A handler's second call, with the message of the first.
LEMMA RefreshKnows ==
  ASSUME Reads, [Next]_vars, calls # <<>>, calls[1].op \in Handlers, ThenRefresh,
         calls[1].op \in {"send", "propose"} => calls[1].stage = "ok", UNCHANGED shown
  PROVE  (OnlyFirstRuns /\ ShownIsStored /\ AllKnow)'
<1> DEFINE next == NewCall("refresh", calls[1].for, calls[1].msg)
<1>1. /\ Committed \subseteq Committed' /\ DOMAIN log \subseteq DOMAIN log'
      /\ (exists' => exists) /\ calls \in Seq(Call)
  BY StoredStays DEF Reads, IInv, TypeOK
<1>2. /\ Tail(calls) \in Seq(Call) /\ calls[1] \in Call /\ calls[1] \in Elements(calls)
      /\ Elements(calls) = Elements(Tail(calls)) \cup {calls[1]}
  BY <1>1, Dropped
<1>3. calls[1].for = calls[1].op
  BY <1>2 DEF Reads, IInv, Matched
<1>4. next \in Call
  <2>1. "refresh" \in Handlers \cup Fetches /\ calls[1].msg \in 0..MaxMessages
        /\ calls[1].for \in Handlers \cup {"none"}
    BY <1>2 DEF Fetches, Call
  <2> QED
    BY <2>1, NewCallType
<1> PICK c \in Call : c = next
  BY <1>4
<1>5. /\ c.op = "refresh" /\ c.for = calls[1].for
      /\ c.stage = "new" /\ c.result = {} /\ c.msg = calls[1].msg
  BY DEF NewCall
<1>6. calls' = Append(Tail(calls), c)
  BY DEF ThenRefresh
<1> HIDE DEF next
<1>7. Elements(calls') = Elements(Tail(calls)) \cup {c}
  BY <1>2, <1>6, Appended
<1>8. \A k \in DOMAIN Tail(calls) : Tail(calls)[k].stage = "new"
  BY <1>1, RestIsNew DEF Reads, OnlyFirstRuns
<1>9. OnlyFirstRuns' /\ ShownIsStored'
  BY <1>1, <1>2, <1>5, <1>6, <1>8, AddedLast DEF Reads, OnlyFirstRuns, ShownIsStored
<1>10. c.for \in {"send", "propose"} => c.msg \in Committed
  BY <1>2, <1>3, <1>5 DEF Reads, AllKnow, Knows
<1>11. Knows(c)'
  BY <1>1, <1>5, <1>10 DEF Knows, Msgs
<1>12. \A d \in Elements(calls) : Knows(d)'
  BY <1>1, StillKnows DEF Reads, AllKnow
<1> QED
  BY <1>2, <1>7, <1>9, <1>11, <1>12 DEF AllKnow

LEMMA NoneKnows ==
  ASSUME Reads, [Next]_vars, calls' = <<>>, Msgs(shown') \subseteq Committed
  PROVE  (OnlyFirstRuns /\ ShownIsStored /\ AllKnow)'
<1>1. Committed \subseteq Committed' /\ DOMAIN calls' = {} /\ Elements(calls') = {}
  BY StoredStays DEF Reads, Elements
<1> QED
  BY <1>1 DEF OnlyFirstRuns, ShownIsStored, AllKnow

LEMMA QueueStays ==
  ASSUME Reads, [Next]_vars, UNCHANGED <<calls, shown>>
  PROVE  (OnlyFirstRuns /\ ShownIsStored /\ AllKnow)'
<1>1. Committed \subseteq Committed' /\ DOMAIN log \subseteq DOMAIN log' /\ (exists' => exists)
  BY StoredStays DEF Reads
<1>2. OnlyFirstRuns' /\ ShownIsStored'
  BY <1>1 DEF Reads, OnlyFirstRuns, ShownIsStored
<1>3. \A d \in Elements(calls) : Knows(d)'
  BY <1>1, StillKnows DEF Reads, AllKnow
<1> QED
  BY <1>2, <1>3 DEF AllKnow, Elements

LEMMA StepReads == Reads /\ [Next]_vars => Reads'
<1> SUFFICES ASSUME Reads, [Next]_vars
             PROVE  (OnlyFirstRuns /\ ShownIsStored /\ AllKnow)'
  BY StepIInv DEF Reads
<1>0. /\ IInv /\ TypeOK /\ calls \in Seq(Call)
      /\ calls # <<>> => /\ calls[1] \in Call /\ calls[1] \in Elements(calls)
                         /\ Knows(calls[1])
  BY Dropped DEF Reads, IInv, TypeOK, AllKnow
<1>1. CASE UNCHANGED vars \/ Settle \/ OtherBegins \/ OtherAnswers \/ Delete
  BY <1>1, QueueStays DEF vars, page, Settle, Commit, Abort, OtherBegins, OtherAnswers,
     Delete
<1>2. CASE Open
  <2> DEFINE c == NewCall("load", "none", 0)
  <2>1. c \in Call
    <3>1. "load" \in Handlers \cup Fetches /\ 0 \in 0..MaxMessages
      BY BoundsAssumption DEF Fetches
    <3> QED
      BY <3>1, NewCallType
  <2>2. calls' = <<c>> /\ UNCHANGED <<shown, log>>
    BY <1>2 DEF Open, server
  <2>3. c.stage = "new" /\ c.result = {} /\ c.op = "load"
    BY DEF NewCall
  <2> HIDE DEF c
  <2>4. Elements(calls') = {c} /\ \A k \in DOMAIN calls' : k = 1
    BY <2>2 DEF Elements
  <2>5. Knows(c)'
    BY <2>3 DEF Knows, Msgs
  <2>6. ShownIsStored'
    BY <2>2 DEF Reads, ShownIsStored, Committed
  <2> QED
    BY <2>4, <2>5, <2>6 DEF OnlyFirstRuns, AllKnow
<1>3. CASE Leave
  <2>1. calls' = <<>> /\ shown' = {}
    BY <1>3 DEF Leave, Away
  <2> QED
    BY <2>1, NoneKnows DEF Msgs
<1>4. CASE Poll
  <2>1. "poll" \in Handlers \cup Fetches /\ 0 \in 0..MaxMessages
    BY BoundsAssumption DEF Fetches
  <2>2. calls' = Append(calls, NewCall("poll", "none", 0)) /\ UNCHANGED shown
    BY <1>4 DEF Poll, Called, page
  <2>3. /\ NewCall("poll", "none", 0).stage = "new" /\ NewCall("poll", "none", 0).result = {}
        /\ NewCall("poll", "none", 0).op = "poll"
    BY DEF NewCall
  <2> QED
    BY <2>1, <2>2, <2>3, NewCallType, AddedKnows
<1>5. ASSUME NEW h \in Handlers, NEW m \in 0..MaxMessages, Start(h, m)
      PROVE  (OnlyFirstRuns /\ ShownIsStored /\ AllKnow)'
  <2>1. calls' = Append(calls, NewCall(h, h, m)) /\ UNCHANGED shown
    BY <1>5 DEF Start, Called
  <2>2. NewCall(h, h, m).stage = "new" /\ NewCall(h, h, m).result = {}
    BY DEF NewCall
  <2>3. NewCall(h, h, m) \in Call /\ NewCall(h, h, m).op # "refresh"
    BY NewCallType DEF Handlers
  <2> QED
    BY <2>1, <2>2, <2>3, AddedKnows
<1>6. CASE User
  <2>1. 0 \in 0..MaxMessages /\ {"send", "propose", "respond", "pay"} = Handlers
    BY BoundsAssumption DEF Handlers
  <2>2. \A b \in shown : b.msg \in 0..MaxMessages
    BY <1>0, BoundsAssumption DEF TypeOK, Bubble
  <2> QED
    BY <1>5, <1>6, <2>1, <2>2 DEF User, HandleSend, HandlePropose, HandleRespond,
       HandleProceedToPayment
<1>7. /\ Committed \subseteq Committed' /\ DOMAIN log \subseteq DOMAIN log' /\ (exists' => exists)
  BY <1>0, StoredStays
<1>8. ASSUME calls # <<>>, NEW stage \in {"marked", "ok", "error"}, Stage(stage), UNCHANGED page,
             calls[1].stage # "ok",
             stage = "ok" => calls[1].op \in {"send", "propose", "respond", "pay"},
             stage = "ok" /\ calls[1].op \in {"send", "propose"} => calls[1].msg \in Committed
      PROVE  (OnlyFirstRuns /\ ShownIsStored /\ AllKnow)'
  <2>1. [calls[1] EXCEPT !.stage = stage] \in Call
    BY <1>0, <1>8 DEF Call
  <2> PICK c \in Call : c = [calls[1] EXCEPT !.stage = stage]
    BY <2>1
  <2>2. /\ c.op = calls[1].op /\ c.for = calls[1].for /\ c.msg = calls[1].msg
        /\ c.stage = stage /\ c.result = calls[1].result
    BY <1>0, <1>8 DEF Call
  <2>3. calls' = [calls EXCEPT ![1] = c] /\ UNCHANGED shown
    BY <1>0, <1>8 DEF Stage, page
  <2>4. c.result = {}
    BY <1>0, <1>8, <2>2 DEF Knows
  <2>5. Knows(c)'
    BY <1>0, <1>7, <1>8, <2>2, <2>4 DEF Knows, Msgs
  <2> QED
    BY <1>8, <2>2, <2>3, <2>5, MovedKnows
<1>9. CASE MarkRead \/ MarkFails
  BY <1>8, <1>9 DEF MarkRead, MarkFails, Running, server
<1>10. CASE ReadPage
  <2> DEFINE next == [calls[1] EXCEPT !.stage = "ok", !.result = Page]
  <2>1. calls # <<>> /\ calls' = [calls EXCEPT ![1] = next]
    BY <1>10 DEF ReadPage, Running
  <2>2. next \in Call
    <3>1. calls' \in Seq(Call)
      BY StepIInv DEF Reads, IInv, TypeOK
    <3>2. 1 \in DOMAIN calls
      BY <1>0, <2>1
    <3>3. DOMAIN calls' = DOMAIN calls /\ calls'[1] = next
      <4> HIDE DEF next
      <4> QED
        BY <1>0, <2>1, <3>2
    <3> QED
      BY <3>1, <3>2, <3>3
  <2> PICK c \in Call : c = next
    BY <2>2
  <2>3. calls # <<>> /\ calls' = [calls EXCEPT ![1] = c] /\ UNCHANGED <<log, exists, shown>>
        /\ calls[1].op \in Fetches
    BY <1>10 DEF ReadPage, Running, server, page
  <2>4. /\ c.op = calls[1].op /\ c.for = calls[1].for /\ c.msg = calls[1].msg
        /\ c.stage = "ok" /\ c.result = Page
    BY <1>0, <2>3 DEF Call
  <2>5. /\ Msgs(Page) \subseteq Committed
        /\ Msgs(Page) = Committed \/ Full(Page) \/ ~exists
    BY <1>0, PageIsEnough DEF Stored
  <2>6. Msgs(shown) \subseteq Committed
    BY DEF Reads, ShownIsStored
  <2>7. Committed' = Committed
    BY <2>3 DEF Committed
  <2>8. Knows(c)'
    BY <1>0, <2>3, <2>4, <2>5, <2>6, <2>7 DEF Knows, Full, Fetches
  <2> QED
    BY <2>3, <2>8, MovedKnows
<1>11. CASE ServeWrite
  <2> DEFINE next == [calls[1] EXCEPT !.stage = "begun", !.msg = Len(log) + 1]
  <2>1. calls # <<>> /\ calls' = [calls EXCEPT ![1] = next]
    BY <1>11 DEF ServeWrite, Running
  <2>2. next \in Call
    <3>1. calls' \in Seq(Call)
      BY StepIInv DEF Reads, IInv, TypeOK
    <3>2. 1 \in DOMAIN calls
      BY <1>0, <2>1
    <3>3. DOMAIN calls' = DOMAIN calls /\ calls'[1] = next
      <4> HIDE DEF next
      <4> QED
        BY <1>0, <2>1, <3>2
    <3> QED
      BY <3>1, <3>2, <3>3
  <2> PICK c \in Call : c = next
    BY <2>2
  <2>3. /\ calls # <<>> /\ calls' = [calls EXCEPT ![1] = c] /\ UNCHANGED shown
        /\ calls[1].op \in {"send", "propose"} /\ calls[1].stage = "new"
        /\ \E kind \in Kinds : Begin("me", kind)
    BY <1>11 DEF ServeWrite, Running, page, Kinds
  <2>4. /\ c.op = calls[1].op /\ c.for = calls[1].for /\ c.msg = Len(log) + 1
        /\ c.stage = "begun" /\ c.result = calls[1].result
    BY <1>0, <2>3 DEF Call
  <2>5. Len(log) + 1 \in DOMAIN log'
    BY <1>0, <2>3 DEF Begin, TypeOK
  <2>6. c.result = {}
    BY <1>0, <2>3, <2>4 DEF Knows
  <2>7. Knows(c)'
    BY <2>3, <2>4, <2>5, <2>6 DEF Knows, Msgs
  <2> QED
    BY <2>3, <2>7, MovedKnows
<1>12. CASE AnswerWrite
  <2>1. /\ calls # <<>> /\ UNCHANGED page /\ calls[1].stage = "begun"
        /\ calls[1].op \in {"send", "propose"}
        /\ \/ Stage("error")
           \/ Stage("ok") /\ log[calls[1].msg].state \notin Unsettled
    BY <1>12 DEF AnswerWrite, Running, Unsettled
  <2>2. calls[1].msg \in DOMAIN log
    BY <1>0, <2>1 DEF Knows
  <2> QED
    BY <1>8, <2>1, <2>2 DEF Committed
<1>13. CASE ServeRespond \/ ServePay
  BY <1>8, <1>13 DEF ServeRespond, ServePay, Running, server, page
<1>14. CASE CallFails
  <2>1. /\ calls # <<>> /\ Stage("error") /\ UNCHANGED page /\ calls[1].stage # "ok"
    BY <1>14 DEF CallFails, Stage
  <2> QED
    BY <1>8, <2>1
<1>15. CASE Loaded
  <2>1. /\ calls # <<>> /\ calls' = <<>>
        /\ shown' = shown \/ shown' = calls[1].result
    BY <1>15 DEF Loaded, Returned
  <2>2. Msgs(shown') \subseteq Committed
    BY <1>0, <2>1 DEF Reads, ShownIsStored, Knows
  <2> QED
    BY <2>1, <2>2, NoneKnows
<1>16. CASE Polled \/ Refreshed \/ CallRejected
  BY <1>16, HeardKnows DEF Polled, Refreshed, CallRejected, Returned
<1>17. CASE Written
  BY <1>17, HeardKnows, RefreshKnows DEF Written, Returned, Handlers
<1>18. CASE Responded
  BY <1>18, RefreshKnows DEF Responded, Returned, Handlers
<1>19. CASE PayReturned
  <2>1. CASE Away
    <3>1. calls' = <<>> /\ shown' = {}
      BY <2>1 DEF Away
    <3> QED
      BY <3>1, NoneKnows DEF Msgs
  <2>2. CASE calls # <<>> /\ calls' = Tail(calls) /\ shown' = shown
    BY <2>2, HeardKnows
  <2> QED
    BY <1>19, <2>1, <2>2 DEF PayReturned, Returned
<1> QED
  BY <1>1, <1>2, <1>3, <1>4, <1>6, <1>9, <1>10, <1>11, <1>12, <1>13, <1>14, <1>15, <1>16,
     <1>17, <1>18, <1>19 DEF Next, Server, Return

LEMMA InitReads == Init => Reads
<1> SUFFICES ASSUME Init PROVE Reads
  OBVIOUS
<1>1. DOMAIN calls = {} /\ Elements(calls) = {} /\ Msgs(shown) = {}
  BY DEF Init, Elements, Msgs
<1> QED
  BY <1>1, InitIInv DEF Reads, OnlyFirstRuns, ShownIsStored, AllKnow

-----------------------------------------------------------------------------
(***************************************************************************)
(* What the thread has shown stays while it is open, whatever a poll, a    *)
(* late answer or another sender brings, for conversations and pages of    *)
(* any size: only the refresh after an action of mine that failed empties  *)
(* it, or one of a deleted conversation, and only a full page can lack its *)
(* last one (the poll and the handlers of ThreadClient.tsx:47-130).        *)
(***************************************************************************)
THEOREM ShownStays == Spec => StaysShown
<1> DEFINE Kept == \/ Bubbles \subseteq Bubbles'
                   \/ Cardinality(Bubbles') = PageLimit
                   \/ ~exists
                   \/ Returned({"refresh"}) /\ calls[1].stage = "error"
<1>1. ASSUME Reads, [Next]_vars, at = "thread", at' = "thread"
      PROVE  Kept
  <2>1. CASE shown' = shown
    BY <2>1 DEF Bubbles
  <2>2. calls # <<>> => calls[1] \in Elements(calls) /\ Knows(calls[1])
    BY <1>1, Dropped DEF Reads, IInv, TypeOK, AllKnow
  <2>3. CASE Returned({"poll", "refresh"}) /\ calls[1].stage = "ok" /\ shown' = calls[1].result
    <3>1. Msgs(shown) \subseteq Msgs(shown') \/ Full(shown') \/ ~exists
      BY <2>2, <2>3 DEF Knows, Returned
    <3> QED
      BY <3>1 DEF Msgs, Full, Bubbles
  <2>4. CASE Polled
    <3>1. calls[1].stage = "error" => shown' = shown
      BY <2>2, <2>4 DEF Polled, Returned, Knows
    <3>2. shown' = shown \/ shown' = calls[1].result
      BY <2>4 DEF Polled
    <3> QED
      BY <2>1, <2>3, <2>4, <3>1, <3>2 DEF Polled, Returned
  <2>5. CASE Refreshed
    BY <2>3, <2>5 DEF Refreshed, Returned
  <2>6. CASE Loaded
    BY <1>1, <2>2, <2>6 DEF Loaded, Returned, Reads, IInv, Matched
  <2>7. CASE Leave \/ PayReturned
    BY <1>1, <2>1, <2>7 DEF Leave, PayReturned, Away
  <2>8. CASE \/ UNCHANGED vars \/ Settle \/ OtherBegins \/ OtherAnswers \/ Delete
             \/ Open \/ Poll \/ User
    BY <2>1, <2>8 DEF vars, page, Settle, Commit, Abort, OtherBegins, OtherAnswers, Delete,
       Open, Poll, User, HandleSend, HandlePropose, HandleRespond, HandleProceedToPayment, Start
  <2>9. CASE Server \/ CallFails \/ CallRejected \/ Written \/ Responded
    BY <2>1, <2>9 DEF page, Server, MarkRead, MarkFails, ReadPage, ServeWrite, AnswerWrite,
       ServeRespond, ServePay, CallFails, CallRejected, Written, Responded
  <2> QED
    BY <1>1, <2>4, <2>5, <2>6, <2>7, <2>8, <2>9 DEF Next, Return
<1>2. Reads /\ [Next]_vars => [(at = "thread" /\ at' = "thread") => Kept]_vars
  BY <1>1
<1> QED
  BY <1>2, InitReads, StepReads, PTL DEF Spec, StaysShown

(***************************************************************************)
(* Read your own writes: the thread that a successful refresh brings has   *)
(* the message or the proposal it followed, unless its page is full or the *)
(* conversation was deleted (handleSend and handlePropose,                 *)
(* ThreadClient.tsx:66-111, over the two transactions of main.go).         *)
(***************************************************************************)
THEOREM OwnIsShown == Spec => ShowsOwn
<1> DEFINE Mine == /\ Returned({"refresh"})
                   /\ calls[1].stage = "ok"
                   /\ calls[1].for \in {"send", "propose"}
                   /\ Refreshed
           Seen == \/ calls[1].msg \in Bubbles'
                   \/ Cardinality(Bubbles') = PageLimit
                   \/ ~exists
<1>1. ASSUME Reads, Mine
      PROVE  Seen
  <2>1. calls # <<>> /\ calls[1].op = "refresh" /\ shown' = calls[1].result
    BY <1>1 DEF Refreshed, Returned
  <2>2. Knows(calls[1])
    BY <1>1, <2>1, Dropped DEF Reads, IInv, TypeOK, AllKnow
  <2>3. calls[1].msg \in Msgs(shown') \/ Full(shown') \/ ~exists
    BY <1>1, <2>1, <2>2 DEF Knows
  <2> QED
    BY <2>3 DEF Msgs, Full, Bubbles
<1>2. Reads /\ [Next]_vars => [Mine => Seen]_vars
  BY <1>1
<1> QED
  BY <1>2, InitReads, StepReads, PTL DEF Spec, ShowsOwn
=============================================================================
