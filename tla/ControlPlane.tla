----------------------------- MODULE ControlPlane -----------------------------
(***************************************************************************)
(* The control plane's HTTP front: the dispatch and the checks of          *)
(* backend/internal/controlplane/app.go and routes.go, and the in-memory   *)
(* idempotency store and rate limiter of idempotency.go.                   *)
(*                                                                         *)
(* The store is locked while a key is looked up and again while a response *)
(* is stored, not while the response is produced, so requests with the     *)
(* same key may be produced side by side.  The store and the limiter read  *)
(* the clock before they take their lock, so requests pass the lock in     *)
(* another order than their clocks.  A restart of the process forgets keys *)
(* and counts.                                                             *)
(***************************************************************************)
EXTENDS Integers, FiniteSets, Sequences

CONSTANTS
  Requests,     \* requests that clients send
  Subjects, Keys,  \* their texts, split at each "|"
  Bodies,       \* method, path and body, which requestHash covers
  Threads,      \* requests served at the same time
  HasAuthenticator,  \* whether human authentication is configured
  TTL,          \* how long a response is kept for its key
  Limit, Window,     \* requests a scope may make in a window
  MaxServed,    \* bound: requests served between two restarts
  MaxClock,     \* bound: the last instant
  None

VARIABLES
  entries,  \* idempotencyStore.entries
  buckets,  \* rateLimiter.buckets
  call,     \* requests being served, and the last responses replayed
  runs,     \* history: the responses produced since the process started
  contested,  \* history: runs stored while another request that had looked up
              \* their key was on its way
  clock

vars == <<entries, buckets, call, runs, contested, clock>>

-------------------------------------------------------------------------------
(***************************************************************************)
(* Data.                                                                   *)
(***************************************************************************)

\* One route for each way routes.go lets a request in: a page a user reads, a
\* user's change and an enrolment step under an idempotency key, an agent's and
\* an internal call, a health check, and what is not a route.
Routes == {"dashboard", "claim_invite", "confirm", "agent", "internal", "healthz", "none"}

RequiresIdempotency == {"claim_invite", "confirm"}

HumanRoutes == {"dashboard", "claim_invite"}

RequestKinds == [route : Routes, subject : Subjects, credential : {"valid", "invalid", "missing"},
                 key : Keys \union {None}, body : Bodies]

ASSUME ControlPlaneAssumption ==
  /\ Requests \subseteq RequestKinds
  /\ HasAuthenticator \in BOOLEAN
  /\ TTL \in Nat \ {0} /\ Limit \in Nat \ {0} /\ Window \in Nat \ {0}
  /\ MaxServed \in Nat /\ MaxClock \in Nat
  /\ Subjects \union Keys \subseteq Seq(STRING)
  /\ None \notin Subjects \union Keys

\* Route and subject, the scope of the rate limiter.
Scopes == Routes \X Subjects
Scope(q) == <<q.route, q.subject>>

\* scope + "|" + key: where the subject ends and the key begins is lost.  No
\* route's pattern holds a "|".
CacheKey(q) == <<q.route, q.subject \o q.key>>
CacheKeys == {CacheKey(q) : q \in {p \in Requests : p.key # None}}

\* A response: its status code, and which run of a handler produced it (0 for
\* a response that needs no handler).
Responses == [code : Nat, run : Nat]

NoResponse == [code |-> 0, run |-> 0]

Entries == [body : Bodies \union {None}, expiresAt : Nat, response : Responses]
NoEntry == [body |-> None, expiresAt |-> 0, response |-> NoResponse]

\* A request being served; now is the instant getOrStore has read, seen the one
\* allow has read.
Calls == [pc : {"free", "lookup", "produce", "limit", "store", "done"},
          req : Requests \union {None}, now : Nat, seen : Nat,
          response : Responses, replayed : BOOLEAN]

Free == [pc |-> "free", req |-> None, now |-> 0, seen |-> 0, response |-> NoResponse,
         replayed |-> FALSE]

-------------------------------------------------------------------------------
(***************************************************************************)
(* ServeWithContext up to the handler.                                     *)
(***************************************************************************)

\* The answer a request gets before it costs anything, 0 if it goes on.  Agent
\* routes look at the fingerprint header and have no handler yet.
Refusal(q) ==
  CASE q.route = "none" -> 404
    [] q.route = "healthz" -> 200
    [] q.route = "agent" -> IF q.credential = "missing" THEN 401 ELSE 501
    [] q.route = "internal" /\ q.credential # "valid" -> 401
    [] q.route \in HumanRoutes /\ q.credential = "missing" -> 401
    [] q.route \in HumanRoutes /\ ~HasAuthenticator -> 503
    [] q.route \in HumanRoutes /\ q.credential = "invalid" -> 401
    [] q.route \in RequiresIdempotency /\ q.key = None -> 400
    [] OTHER -> 0

Serving(t) ==
  /\ call[t].pc \in {"free", "done"}
  /\ Cardinality(runs) +
       Cardinality({u \in Threads \ {t} : call[u].pc \in {"lookup", "produce", "limit"}})
       < MaxServed

\* A request that is answered at once leaves nothing behind.
Refuse(t, q) ==
  /\ Serving(t)
  /\ Refusal(q) # 0
  /\ call' = [call EXCEPT ![t] = Free]
  /\ UNCHANGED <<entries, buckets, runs, contested, clock>>

\* A route without idempotency goes straight to the limiter.
Start(t, q) ==
  /\ Serving(t)
  /\ Refusal(q) = 0
  /\ q.route \notin RequiresIdempotency
  /\ call' = [call EXCEPT ![t] = [Free EXCEPT !.pc = "limit", !.req = q, !.seen = clock]]
  /\ UNCHANGED <<entries, buckets, runs, contested, clock>>

-------------------------------------------------------------------------------
(***************************************************************************)
(* The idempotency store.                                                  *)
(***************************************************************************)

\* getOrStore reads the clock, and then waits for the lock.
Arrive(t, q) ==
  /\ Serving(t)
  /\ Refusal(q) = 0
  /\ q.route \in RequiresIdempotency
  /\ call' = [call EXCEPT ![t] = [Free EXCEPT !.pc = "lookup", !.req = q, !.now = clock]]
  /\ UNCHANGED <<entries, buckets, runs, contested, clock>>

\* The key is in the store and had not expired at the instant that was read.
Found(t) ==
  LET e == entries[CacheKey(call[t].req)] IN e # NoEntry /\ call[t].now <= e.expiresAt

\* Mutant: the body is not compared.
SameKey(q) == TRUE

SameRequest(q) == entries[CacheKey(q)].body = q.body

\* getOrStore, the lookup: replay, a 409 for another request, or go on without the
\* lock; an entry that has expired is deleted.
Lookup(t) ==
  LET q == call[t].req IN
  /\ call[t].pc = "lookup"
  /\ \/ /\ Found(t) /\ SameRequest(q)
        /\ call' = [call EXCEPT ![t].pc = "done", ![t].replayed = TRUE,
                                ![t].response = entries[CacheKey(q)].response]
        /\ UNCHANGED entries
     \/ /\ Found(t) /\ ~SameRequest(q)
        /\ call' = [call EXCEPT ![t] = Free]
        /\ UNCHANGED entries
     \/ /\ ~Found(t)
        /\ call' = [call EXCEPT ![t].pc = "produce"]
        /\ entries' = [entries EXCEPT ![CacheKey(q)] = NoEntry]
  /\ UNCHANGED <<buckets, runs, contested, clock>>

\* The requests that have looked up a key and not yet stored their response.
OnTheirWay(k) ==
  {u \in Threads : /\ call[u].pc \in {"produce", "limit", "store"}
                   /\ call[u].req.route \in RequiresIdempotency
                   /\ CacheKey(call[u].req) = k}

\* History: the run of t is stored.
NoteStore(t) ==
  contested' = IF OnTheirWay(CacheKey(call[t].req)) = {t} THEN contested
               ELSE contested \union {call[t].response.run}

\* Mutant: the entry expires at once.
StoreWithoutTTL(t) ==
  LET q == call[t].req IN
  /\ call[t].pc = "store"
  /\ entries' = [entries EXCEPT ![CacheKey(q)] =
       [body |-> q.body, expiresAt |-> call[t].now, response |-> call[t].response]]
  /\ call' = [call EXCEPT ![t] = Free]
  /\ NoteStore(t)
  /\ UNCHANGED <<buckets, runs, clock>>

\* getOrStore, the end: whatever is there is replaced, and the time to live
\* counts from the lookup.
Store(t) ==
  LET q == call[t].req IN
  /\ call[t].pc = "store"
  /\ entries' = [entries EXCEPT ![CacheKey(q)] =
       [body |-> q.body, expiresAt |-> call[t].now + TTL, response |-> call[t].response]]
  /\ call' = [call EXCEPT ![t] = Free]
  /\ NoteStore(t)
  /\ UNCHANGED <<buckets, runs, clock>>

-------------------------------------------------------------------------------
(***************************************************************************)
(* The rate limiter and the handler.                                       *)
(***************************************************************************)

\* allow reads the clock, and then waits for the lock.
ReadClock(t) ==
  /\ call[t].pc = "produce"
  /\ call' = [call EXCEPT ![t].pc = "limit", ![t].seen = clock]
  /\ UNCHANGED <<entries, buckets, runs, contested, clock>>

\* Mutant: a bucket that is over its limit starts again at once.
RefilledBucket(b, now) ==
  IF now >= b.resetAt \/ b.count >= Limit THEN [resetAt |-> now + Window, count |-> 1]
  ELSE [b EXCEPT !.count = @ + 1]

\* allow: a window starts with the first request that read an instant at or after
\* the end of the last one; refused requests count as well.
Counted(b, now) ==
  IF now >= b.resetAt THEN [resetAt |-> now + Window, count |-> 1]
  ELSE [b EXCEPT !.count = @ + 1]

\* What a handler answers: a read model may fail, other routes have none yet.
HandlerCodes(q) == IF q.route = "dashboard" THEN {200, 500} ELSE {501}

\* produce: the limiter, then the handler.  Whatever comes of it, a 429 too, is
\* stored under the key if the route has one.  A run is late if the window it is
\* counted in was opened by a request that read a later instant.
Handle(t) ==
  LET q == call[t].req
      b == Counted(buckets[Scope(q)], call[t].seen)
  IN
  /\ call[t].pc = "limit"
  /\ buckets' = [buckets EXCEPT ![Scope(q)] = b]
  /\ \E code \in IF b.count <= Limit THEN HandlerCodes(q) ELSE {429} :
       LET response == [code |-> code, run |-> Cardinality(runs) + 1] IN
       /\ runs' = runs \union {[req |-> q, from |-> call[t].now, at |-> call[t].seen,
                                late |-> call[t].seen < b.resetAt - Window,
                                response |-> response]}
       /\ call' = [call EXCEPT ![t] =
            IF q.route \in RequiresIdempotency
              THEN [@ EXCEPT !.response = response, !.pc = "store"] ELSE Free]
  /\ UNCHANGED <<entries, contested, clock>>

-------------------------------------------------------------------------------
NoBucket == [resetAt |-> 0, count |-> 0]

NoEntries == [k \in CacheKeys |-> NoEntry]
NoBuckets == [s \in Scopes |-> NoBucket]
AllFree == [t \in Threads |-> Free]

Init ==
  /\ entries = NoEntries
  /\ buckets = NoBuckets
  /\ call = AllFree
  /\ runs = {}
  /\ contested = {}
  /\ clock = 0

\* The process restarts and remembers nothing; requests in flight are cut off.
Restart ==
  /\ entries # NoEntries
  /\ entries' = NoEntries
  /\ buckets' = NoBuckets
  /\ call' = AllFree
  /\ runs' = {}
  /\ contested' = {}
  /\ UNCHANGED clock

Tick ==
  /\ clock < MaxClock
  /\ clock' = clock + 1
  /\ UNCHANGED <<entries, buckets, call, runs, contested>>

Next ==
  \/ \E t \in Threads, q \in Requests : Refuse(t, q) \/ Start(t, q) \/ Arrive(t, q)
  \/ \E t \in Threads : Lookup(t) \/ ReadClock(t) \/ Handle(t) \/ Store(t)
  \/ Restart
  \/ Tick

Spec == Init /\ [][Next]_vars

-------------------------------------------------------------------------------
(***************************************************************************)
(* Properties.                                                             *)
(***************************************************************************)

\* Every variable has its type.
TypeOK ==
  /\ entries \in [CacheKeys -> Entries]
  /\ buckets \in [Scopes -> [resetAt : Nat, count : Nat]]
  /\ call \in [Threads -> Calls]
  /\ runs \subseteq [req : Requests, from : Nat, at : Nat, late : BOOLEAN,
                     response : Responses]
  /\ contested \subseteq Nat
  /\ clock \in Nat

\* The runs of a scope's handler, those the limiter let through in time, from x on.
Allowed(s, x) ==
  {r \in runs : /\ Scope(r.req) = s /\ r.response.code # 429 /\ ~r.late
                /\ r.at \in x..(x + Window - 1)}

\* A scope gets at most its limit in the window that is open, and less than twice
\* its limit in any span of that length: the boundary of a fixed window costs a
\* factor of two and no more.  Requests that are counted late, in a window that was
\* opened after they read the clock, come on top.
LimitHolds ==
  \A s \in Scopes :
    /\ Cardinality(Allowed(s, buckets[s].resetAt - Window)) <= Limit
    /\ \A x \in 0..MaxClock : Cardinality(Allowed(s, x)) < 2 * Limit

\* A replayed response was produced for the same method, path and body under the
\* same text of route, subject and key, and no longer ago than the time to live; a
\* run that was refused by the limiter is no exception.
ReplayFits ==
  \A t \in Threads : call[t].replayed =>
    \E r \in runs :
      /\ r.response = call[t].response
      /\ CacheKey(r.req) = CacheKey(call[t].req) /\ r.req.body = call[t].req.body
      /\ call[t].now <= r.from + TTL

\* The runs under a key whose responses are stored: no thread has them in hand.
Finished(k) ==
  {r \in runs : /\ r.req.route \in RequiresIdempotency /\ CacheKey(r.req) = k
                /\ \A t \in Threads :
                     ~(call[t].pc = "store" /\ call[t].response.run = r.response.run)}

\* A key is run again only when each of its stored runs is older than the time to
\* live, or was contested: stored while another request of the key, which may store
\* its own over it, was on its way.
RunsAgainOnlyWhenOld ==
  [][\A t \in Threads : call[t].pc = "lookup" /\ call'[t].pc = "produce" =>
       \A r \in Finished(CacheKey(call[t].req)) :
         clock > r.from + TTL \/ r.response.run \in contested]_vars

-------------------------------------------------------------------------------
(***************************************************************************)
(* Inductive invariants.                                                   *)
(***************************************************************************)

\* Runs are numbered from 1 on, each by its own number, and lie in the past.
RunsInv ==
  /\ IsFiniteSet(runs)
  /\ \A r \in runs : r.response.run \in 1..Cardinality(runs) /\ r.at <= clock
  /\ \A r, p \in runs : r.response.run = p.response.run => r = p

\* A request that goes on is no replay, has the key it needs and has read instants
\* of the past.  A response that waits to be stored is the one of a run that began
\* at the lookup, and no other thread has it.
CallsInv ==
  /\ \A t \in Threads : call[t].pc \in {"lookup", "produce", "limit", "store"} =>
       /\ call[t].req \in Requests /\ ~call[t].replayed
       /\ call[t].req.route \in RequiresIdempotency => call[t].req.key \in Keys
       /\ call[t].now <= clock /\ call[t].seen <= clock
       /\ call[t].pc \in {"lookup", "produce", "store"} =>
            call[t].req.route \in RequiresIdempotency
  /\ \A t \in Threads : call[t].pc = "store" =>
       \E r \in runs : r.req = call[t].req /\ r.from = call[t].now
                       /\ r.response = call[t].response
  /\ \A t, u \in Threads :
       call[t].pc = "store" /\ call[u].pc = "store"
       /\ call[t].response.run = call[u].response.run => t = u

\* An entry holds the response of a finished run of its key, until the time to
\* live after the lookup of that run, and that run is contested or nobody is on
\* the way to store another.
EntriesInv ==
  \A k \in CacheKeys : entries[k] # NoEntry =>
    \E r \in Finished(k) :
      /\ r.req.body = entries[k].body /\ r.response = entries[k].response
      /\ entries[k].expiresAt = r.from + TTL
      /\ r.response.run \in contested \/ OnTheirWay(k) = {}

\* A finished run of a key is too old, was contested, or has the entry.
ForgottenInv ==
  \A k \in CacheKeys : \A r \in Finished(k) :
    \/ clock > r.from + TTL
    \/ r.response.run \in contested
    \/ entries[k] # NoEntry /\ entries[k].response = r.response

\* The runs of a scope the limiter let through in time from lo on and before hi.
Passed(s, lo, hi) ==
  {r \in runs : /\ Scope(r.req) = s /\ r.response.code # 429 /\ ~r.late
                /\ lo <= r.at /\ r.at < hi}

\* The window that is open was opened by a run and holds no more than was counted
\* and no more than the limit, what came before it within less than a window's
\* length is below the limit, and nothing is later than it.
WithinLimit(s) ==
  LET opened == buckets[s].resetAt - Window
      inside == Cardinality(Passed(s, opened, buckets[s].resetAt))
  IN
  /\ \A r \in runs : Scope(r.req) = s => r.at < buckets[s].resetAt
  /\ \/ buckets[s].resetAt = 0
     \/ \E r \in Passed(s, opened, buckets[s].resetAt) : r.at = opened
  /\ inside <= buckets[s].count /\ inside <= Limit
  /\ \A x \in Int : x > opened - Window => Cardinality(Passed(s, x, opened)) < Limit
  /\ \A x \in Int : Cardinality(Passed(s, x, x + Window)) < 2 * Limit

LimitInv == \A s \in Scopes : WithinLimit(s)
===============================================================================
