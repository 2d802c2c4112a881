------------------------------- MODULE Gateway -------------------------------
(***************************************************************************)
(* The gateway (src/gateway): how a request gets through authMiddleware or *)
(* stripInternalHeaders and then the rate limiter to an upstream service.  *)
(*                                                                         *)
(* A limiter is a pool of token buckets, one per user or per address, each *)
(* made by the first request for its key and evicted when it was not used  *)
(* for a while.  allow() looks the bucket up under the pool's mutex and    *)
(* takes the token after it let the mutex go.  The pools of the two kinds  *)
(* of routes differ in their keys and numbers; one set of numbers stands   *)
(* for both.                                                               *)
(*                                                                         *)
(* There is no absolute time: a bucket has an age since its last use that  *)
(* stops growing once it is past IdleTTL.  A behaviour is the life of one  *)
(* process, whose buckets are in its memory.                               *)
(***************************************************************************)
EXTENDS Integers

CONSTANTS
  User,        \* keys of authRateLimitMiddleware: X-User-ID
  Address,     \* keys of publicRateLimitMiddleware: clientIP
  Call,     \* requests that are under way at a time
  None,
  Unit,        \* parts of a token
  PerTick,     \* parts refilled in a tick
  Burst,       \* tokens a bucket holds
  IdleTTL,     \* idleBucketTTL, in ticks
  RetryAfter   \* what a 429 tells the client to wait, in ticks

Key == User \cup Address
Full == Burst * Unit

ASSUME NoneAssumption == None \notin Key
ASSUME RateAssumption ==
  /\ {Unit, PerTick, Burst, IdleTTL, RetryAfter} \subseteq Nat \ {0}
\* 30 minutes against at most half a minute, at the defaults.
ASSUME RefillAssumption == PerTick * IdleTTL >= Full
\* A minute against two seconds.
ASSUME RetryAssumption == PerTick * RetryAfter >= Unit /\ RetryAfter <= IdleTTL

VARIABLES
  buckets,  \* p.buckets: a function of the keys that have one
  request   \* where each request is, and the key it is counted under

gatewayVars == <<buckets, request>>

NoRequest == [at |-> "idle", key |-> None]
Bucket == [tokens : 0 .. Full, age : 0 .. IdleTTL + 1]

GatewayInit ==
  /\ buckets = [k \in {} |-> 0]
  /\ request = [r \in Call |-> NoRequest]

Go(r, at, key) == request' = [request EXCEPT ![r] = [at |-> at, key |-> key]]
Answer(r) == request' = [request EXCEPT ![r] = NoRequest]

-----------------------------------------------------------------------------
(* authMiddleware and stripInternalHeaders.                                *)

\* A protected route with the secret: no validation, no limit.
ArriveInternal(r) ==
  /\ request[r].at = "idle"
  /\ Go(r, "upstream", None)
  /\ UNCHANGED buckets

ArriveProtected(r) ==
  /\ request[r].at = "idle"
  /\ Go(r, "validate", None)
  /\ UNCHANGED buckets

\* GET /validate of the auth service knows the user, verified.
Validated(r, user) ==
  /\ request[r].at = "validate"
  /\ Go(r, "limit", user)
  /\ UNCHANGED buckets

\* No token, no such user, not verified, no answer within five seconds.
Refused(r) ==
  /\ request[r].at = "validate"
  /\ Answer(r)
  /\ UNCHANGED buckets

\* A public route: its internal headers are gone before the limiter looks.
ArrivePublic(r, address) ==
  /\ request[r].at = "idle"
  /\ Go(r, "limit", address)
  /\ UNCHANGED buckets

-----------------------------------------------------------------------------
(* The rate limiter.                                                       *)

\* Mutant of LookUp: lastSeen is set when the bucket is made only.
LookUpOnce(r) ==
  /\ request[r].at = "limit"
  /\ LET key == request[r].key
     IN /\ buckets' = [k \in DOMAIN buckets \cup {key} |->
              IF k \in DOMAIN buckets THEN buckets[k] ELSE [tokens |-> Full, age |-> 0]]
        /\ Go(r, "allow", key)
\* The part of allow() under the mutex.
LookUp(r) ==
  /\ request[r].at = "limit"
  /\ LET key == request[r].key
     IN /\ buckets' = [k \in DOMAIN buckets \cup {key} |->
              IF k = key
              THEN [tokens |-> IF k \in DOMAIN buckets THEN buckets[k].tokens ELSE Full,
                    age |-> 0]
              ELSE buckets[k]]
        /\ Go(r, "allow", key)

\* limiter.Allow(): a token, or 429 and the bucket as it was.
TakeToken(r) ==
  /\ request[r].at = "allow"
  /\ buckets[request[r].key].tokens >= Unit
  /\ buckets' = [buckets EXCEPT ![request[r].key].tokens = @ - Unit]
  /\ Go(r, "upstream", request[r].key)

\* Mutant of WriteRateLimited: Reserve() for Allow(), a refusal costs a token.
RefusedPays(r) ==
  /\ request[r].at = "allow"
  /\ buckets[request[r].key].tokens < Unit
  /\ buckets' = [buckets EXCEPT ![request[r].key].tokens = @ - Unit]
  /\ Answer(r)
WriteRateLimited(r) ==
  /\ request[r].at = "allow"
  /\ buckets[request[r].key].tokens < Unit
  /\ Answer(r)
  /\ UNCHANGED buckets

\* The proxy has the upstream's answer, or 502.
Proxied(r) ==
  /\ request[r].at = "upstream"
  /\ Answer(r)
  /\ UNCHANGED buckets

-----------------------------------------------------------------------------
(* Time.                                                                   *)

AtMost(n, limit) == IF n < limit THEN n ELSE limit

(***************************************************************************)
(* A tick is long against the few instructions between the mutex and the   *)
(* token: a request stands between them across one tick at most.           *)
(***************************************************************************)
Tick ==
  /\ \A r \in Call : request[r].at = "allow" => buckets[request[r].key].age = 0
  /\ buckets' = [k \in DOMAIN buckets |->
       [tokens |-> AtMost(buckets[k].tokens + PerTick, Full),
        age |-> AtMost(buckets[k].age + 1, IdleTTL + 1)]]
  /\ UNCHANGED request

Stale == {k \in DOMAIN buckets : buckets[k].age > IdleTTL}

\* Mutant of EvictStale: the comparison is the other way round.
EvictRecent ==
  /\ DOMAIN buckets \ Stale # {}
  /\ \A r \in Call : request[r].at # "allow"
  /\ buckets' = [k \in Stale |-> buckets[k]]
  /\ UNCHANGED request
\* The loop of evictStale, at each tick of its own ticker.
EvictStale ==
  /\ Stale # {}
  /\ buckets' = [k \in DOMAIN buckets \ Stale |-> buckets[k]]
  /\ UNCHANGED request

-----------------------------------------------------------------------------
Arrive(r) ==
  \/ ArriveInternal(r) \/ ArriveProtected(r)
  \/ \E address \in Address : ArrivePublic(r, address)

Handle(r) ==
  \/ (\E user \in User : Validated(r, user)) \/ Refused(r)
  \/ LookUp(r) \/ TakeToken(r) \/ WriteRateLimited(r)
  \/ Proxied(r)

GatewayNext ==
  \/ \E r \in Call : Arrive(r) \/ Handle(r)
  \/ Tick \/ EvictStale

GatewaySpec == GatewayInit /\ [][GatewayNext]_gatewayVars

\* Handlers go on, time passes, the eviction's ticker fires.
GatewayFairness ==
  /\ \A r \in Call : WF_gatewayVars(Handle(r))
  /\ WF_gatewayVars(Tick) /\ WF_gatewayVars(EvictStale)

FairGatewaySpec == GatewaySpec /\ GatewayFairness

-----------------------------------------------------------------------------
(* Properties.                                                             *)

\* Every variable keeps its range.
GatewayTypeOK ==
  /\ DOMAIN buckets \subseteq Key
  /\ \A k \in DOMAIN buckets : buckets[k] \in Bucket
  /\ request \in [Call -> [at : {"idle", "validate", "limit", "allow", "upstream"},
                              key : Key \cup {None}]]

(***************************************************************************)
(* Eviction hands out nothing: each client is let through as by a bucket   *)
(* that is never evicted, because one that may be evicted is full again    *)
(* (middleware_ratelimit.go:52), with requests of one key racing each      *)
(* other between the mutex and the token.                                  *)
(***************************************************************************)
Ideal == INSTANCE TokenBucket WITH
  level <- [k \in Key |-> IF k \in DOMAIN buckets THEN buckets[k].tokens ELSE Full]
ImplementsBucket == Ideal!Spec

(***************************************************************************)
(* Retry-After is the truth: a client that sent nothing for that long has  *)
(* a token waiting, however often it was refused before (middleware_ratelimit.go:183).        *)
(***************************************************************************)
RetryIsAdmitted ==
  \A k \in DOMAIN buckets : buckets[k].age > RetryAfter => buckets[k].tokens >= Unit

(***************************************************************************)
(* Memory does not grow with the clients that ever came: the bucket of one *)
(* that stays away is removed in the end and does not come back.           *)
(***************************************************************************)
Away(k) == \A r \in Call : request[r].key # k
BucketsAreReclaimed ==
  \A k \in Key : <>[]Away(k) => <>[](k \notin DOMAIN buckets)
=============================================================================
