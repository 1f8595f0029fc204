-------------------------- MODULE ControlPlaneProofs --------------------------
(***************************************************************************)
(* Proofs about the idempotency store and the rate limiter of the control  *)
(* plane: what a replayed response is, when a key is run again, and how    *)
(* many runs a scope gets in a window.                                     *)
(***************************************************************************)
EXTENDS ControlPlane, FiniteSetTheorems, TLAPS

-------------------------------------------------------------------------------
(***************************************************************************)
(* Types, runs and calls.                                                  *)
(***************************************************************************)

Runs == [req : Requests, from : Nat, at : Nat, late : BOOLEAN, response : Responses]

\* Everything the two parts of the module have in common.
BaseInv == TypeOK /\ RunsInv /\ CallsInv

\* A request that goes on under a key has a key.
LEMMA Keyed ==
  ASSUME NEW q \in Requests, Refusal(q) = 0, q.route \in RequiresIdempotency
  PROVE  q.key \in Keys
<1>1. q.route \in {"claim_invite", "confirm"} /\ q.key \in Keys \union {None}
  BY ControlPlaneAssumption DEF RequestKinds, RequiresIdempotency
<1>2. CASE q.key = None
  <2>1. Refusal(q) \in {401, 503, 400}
    BY <1>1, <1>2 DEF Refusal, HumanRoutes, RequiresIdempotency
  <2> QED BY <2>1
<1> QED BY <1>1, <1>2

\* The key of such a request is one of the store's.
LEMMA KeyIsKnown ==
  ASSUME NEW q \in Requests, q.key \in Keys
  PROVE  CacheKey(q) \in CacheKeys
<1>1. q.key # None
  BY ControlPlaneAssumption
<1> QED BY <1>1 DEF CacheKeys

LEMMA ScopeIsKnown ==
  ASSUME NEW q \in Requests
  PROVE  Scope(q) \in Scopes
BY ControlPlaneAssumption DEF RequestKinds, Scope, Scopes

LEMMA CodeIsNat ==
  ASSUME NEW q, NEW code, NEW b, code \in IF b THEN HandlerCodes(q) ELSE {429}
  PROVE  code \in Nat
BY DEF HandlerCodes

LEMMA CountedType ==
  ASSUME NEW b \in [resetAt : Nat, count : Nat], NEW now \in Nat
  PROVE  Counted(b, now) \in [resetAt : Nat, count : Nat]
BY ControlPlaneAssumption DEF Counted

LEMMA CallAfter ==
  ASSUME TypeOK, NEW t \in Threads, NEW c, call' = [call EXCEPT ![t] = c]
  PROVE  \A u \in Threads : call'[u] = IF u = t THEN c ELSE call[u]
BY DEF TypeOK

\* What Handle does, in one place: it appends one run, numbered by the number of
\* runs so far.
LEMMA HandleRun ==
  ASSUME BaseInv, NEW t \in Threads, Handle(t)
  PROVE  \E r \in Runs :
           /\ runs' = runs \union {r} /\ r \notin runs
           /\ r.req = call[t].req /\ r.from = call[t].now /\ r.at = call[t].seen
           /\ r.at <= clock
           /\ r.late <=> r.at < Counted(buckets[Scope(r.req)], r.at).resetAt - Window
           /\ r.response.run = Cardinality(runs) + 1
           /\ r.response.code # 429 <=> Counted(buckets[Scope(r.req)], r.at).count <= Limit
           /\ r.req.route \in RequiresIdempotency =>
                call' = [call EXCEPT ![t] =
                           [call[t] EXCEPT !.response = r.response, !.pc = "store"]]
           /\ r.req.route \notin RequiresIdempotency => call' = [call EXCEPT ![t] = Free]
<1> DEFINE q == call[t].req
           b == Counted(buckets[Scope(q)], call[t].seen)
           run(code) == [req |-> q, from |-> call[t].now, at |-> call[t].seen,
                         late |-> call[t].seen < b.resetAt - Window,
                         response |-> [code |-> code, run |-> Cardinality(runs) + 1]]
<1>1. PICK code \in IF b.count <= Limit THEN HandlerCodes(q) ELSE {429} :
        LET response == [code |-> code, run |-> Cardinality(runs) + 1] IN
        /\ runs' = runs \union {run(code)}
        /\ call' = [call EXCEPT ![t] =
             IF q.route \in RequiresIdempotency
               THEN [@ EXCEPT !.response = response, !.pc = "store"] ELSE Free]
  BY DEF Handle
<1> DEFINE r == run(code)
<1>2. /\ q \in Requests /\ call[t].now \in Nat /\ call[t].seen \in Nat
      /\ call[t].seen <= clock /\ Cardinality(runs) \in Nat
  BY FS_CardinalityType DEF Handle, BaseInv, TypeOK, CallsInv, RunsInv, Calls
<1>3. code \in Nat
  BY <1>1, CodeIsNat
<1>4. r \in Runs
  BY <1>2, <1>3 DEF Runs, Responses
<1>5. r \notin runs
  BY <1>2 DEF BaseInv, RunsInv
<1>6. code # 429 <=> b.count <= Limit
  BY <1>1 DEF HandlerCodes
<1>7. r.req = q /\ r.response.code = code /\ r.response.run = Cardinality(runs) + 1
      /\ r.from = call[t].now /\ r.at = call[t].seen
      /\ r.late = (call[t].seen < b.resetAt - Window)
  OBVIOUS
<1>8. runs' = runs \union {r}
  BY <1>1
<1>9. /\ q.route \in RequiresIdempotency =>
           call' = [call EXCEPT ![t] = [call[t] EXCEPT !.response = r.response, !.pc = "store"]]
      /\ q.route \notin RequiresIdempotency => call' = [call EXCEPT ![t] = Free]
  BY <1>1
<1>10. b = Counted(buckets[Scope(r.req)], r.at)
  BY <1>7
<1> HIDE DEF r, run
<1>11. /\ r.late <=> r.at < Counted(buckets[Scope(r.req)], r.at).resetAt - Window
       /\ r.response.code # 429 <=> Counted(buckets[Scope(r.req)], r.at).count <= Limit
  BY <1>6, <1>7, <1>10
<1>12. r.req = call[t].req /\ r.from = call[t].now /\ r.at = call[t].seen /\ r.at <= clock
       /\ r.response.run = Cardinality(runs) + 1
  BY <1>2, <1>7
<1>13. /\ r.req.route \in RequiresIdempotency =>
            call' = [call EXCEPT ![t] = [call[t] EXCEPT !.response = r.response, !.pc = "store"]]
       /\ r.req.route \notin RequiresIdempotency => call' = [call EXCEPT ![t] = Free]
  BY <1>7, <1>9
<1> QED BY <1>4, <1>5, <1>8, <1>11, <1>12, <1>13

\* What Lookup does to the call: it is done, or goes on as it is.
LEMMA LookupCall ==
  ASSUME TypeOK, CallsInv, NEW t \in Threads, Lookup(t)
  PROVE  /\ CacheKey(call[t].req) \in CacheKeys
         /\ UNCHANGED <<buckets, runs, contested, clock>>
         /\ \E c \in Calls :
              /\ call' = [call EXCEPT ![t] = c]
              /\ \/ c = Free /\ UNCHANGED entries
                 \/ /\ Found(t) /\ SameRequest(call[t].req) /\ UNCHANGED entries
                    /\ c.pc = "done" /\ c.req = call[t].req /\ c.now = call[t].now
                    /\ c.response = entries[CacheKey(call[t].req)].response
                 \/ /\ ~Found(t) /\ c.pc = "produce" /\ c.req = call[t].req
                    /\ c.now = call[t].now /\ c.seen = call[t].seen
                    /\ c.replayed = call[t].replayed
                    /\ entries' = [entries EXCEPT ![CacheKey(call[t].req)] = NoEntry]
<1> DEFINE q == call[t].req
           K == CacheKey(q)
<1>1. call[t] \in Calls /\ q \in Requests /\ q.key \in Keys
  BY DEF Lookup, CallsInv, TypeOK
<1>2. K \in CacheKeys
  BY <1>1, KeyIsKnown
<1>3. entries[K].response \in Responses
  BY <1>2 DEF TypeOK, Entries
<1>4. UNCHANGED <<buckets, runs, contested, clock>>
  BY DEF Lookup
<1>5. CASE Found(t) /\ SameRequest(q)
  <2> DEFINE c == [call[t] EXCEPT !.pc = "done", !.replayed = TRUE,
                                  !.response = entries[K].response]
  <2>1. call' = [call EXCEPT ![t] = c] /\ UNCHANGED entries
    BY <1>5 DEF Lookup, TypeOK
  <2>2. c \in Calls /\ c.pc = "done" /\ c.req = q /\ c.now = call[t].now
        /\ c.response = entries[K].response
    BY <1>1, <1>3 DEF Calls
  <2> HIDE DEF c
  <2> QED BY <1>2, <1>4, <1>5, <2>1, <2>2
<1>6. CASE Found(t) /\ ~SameRequest(q)
  <2>1. call' = [call EXCEPT ![t] = Free] /\ UNCHANGED entries
    BY <1>6 DEF Lookup
  <2>2. Free \in Calls
    BY DEF Free, Calls, NoResponse, Responses
  <2> QED BY <1>2, <1>4, <2>1, <2>2
<1>7. CASE ~Found(t)
  <2> DEFINE c == [call[t] EXCEPT !.pc = "produce"]
  <2>1. call' = [call EXCEPT ![t] = c] /\ entries' = [entries EXCEPT ![K] = NoEntry]
    BY <1>7 DEF Lookup, TypeOK
  <2>2. c \in Calls /\ c.pc = "produce" /\ c.req = q /\ c.now = call[t].now
        /\ c.seen = call[t].seen /\ c.replayed = call[t].replayed
    BY <1>1 DEF Calls
  <2> HIDE DEF c
  <2> QED BY <1>2, <1>4, <1>7, <2>1, <2>2
<1> QED BY <1>5, <1>6, <1>7

\* What the steps before the handler do to the call, Lookup excepted.
LEMMA EarlyCall ==
  ASSUME TypeOK, CallsInv, NEW t \in Threads,
         \/ \E q \in Requests : Refuse(t, q) \/ Start(t, q) \/ Arrive(t, q)
         \/ ReadClock(t)
  PROVE  /\ UNCHANGED <<entries, buckets, runs, contested, clock>>
         /\ \E c \in Calls :
              /\ call' = [call EXCEPT ![t] = c]
              /\ \/ c = Free /\ call[t].pc \in {"free", "done"}
                 \/ /\ call[t].pc \in {"free", "done"} /\ c.pc \in {"limit", "lookup"}
                    /\ c.pc = "lookup" <=> c.req.route \in RequiresIdempotency
                    /\ c.req \in Requests /\ ~c.replayed
                    /\ c.req.route \in RequiresIdempotency => c.req.key \in Keys
                    /\ c.now <= clock /\ c.seen <= clock
                 \/ /\ call[t].pc = "produce" /\ c.pc = "limit" /\ c.req = call[t].req
                    /\ c.now = call[t].now /\ c.seen = clock
                    /\ c.replayed = call[t].replayed
<1>0. Free \in Calls /\ clock \in Nat /\ 0 <= clock /\ clock <= clock
  BY DEF Free, Calls, NoResponse, Responses, TypeOK
<1>1. ASSUME NEW q \in Requests, Refuse(t, q)
      PROVE  /\ UNCHANGED <<entries, buckets, runs, contested, clock>>
             /\ call' = [call EXCEPT ![t] = Free] /\ call[t].pc \in {"free", "done"}
  BY <1>1 DEF Refuse, Serving
<1>2. ASSUME NEW q \in Requests, Start(t, q)
      PROVE  /\ UNCHANGED <<entries, buckets, runs, contested, clock>>
             /\ call[t].pc \in {"free", "done"}
             /\ \E c \in Calls :
                  /\ call' = [call EXCEPT ![t] = c] /\ c.pc = "limit" /\ c.req = q
                  /\ q.route \notin RequiresIdempotency
                  /\ ~c.replayed /\ c.now <= clock /\ c.seen <= clock
  <2> DEFINE c == [Free EXCEPT !.pc = "limit", !.req = q, !.seen = clock]
  <2>0. c \in Calls /\ c.pc = "limit" /\ c.req = q /\ ~c.replayed /\ c.now = 0 /\ c.seen = clock
    BY <1>0 DEF Free, Calls
  <2>1. c.now <= clock /\ c.seen <= clock
    <3> HIDE DEF c
    <3> QED BY <1>0, <2>0
  <2>2. /\ UNCHANGED <<entries, buckets, runs, contested, clock>>
        /\ call[t].pc \in {"free", "done"}
        /\ call' = [call EXCEPT ![t] = c] /\ q.route \notin RequiresIdempotency
    BY <1>2 DEF Start, Serving
  <2> HIDE DEF c
  <2> QED BY <2>0, <2>1, <2>2
<1>3. ASSUME NEW q \in Requests, Arrive(t, q)
      PROVE  /\ UNCHANGED <<entries, buckets, runs, contested, clock>>
             /\ call[t].pc \in {"free", "done"}
             /\ \E c \in Calls :
                  /\ call' = [call EXCEPT ![t] = c] /\ c.pc = "lookup" /\ c.req = q
                  /\ q.route \in RequiresIdempotency /\ q.key \in Keys
                  /\ ~c.replayed /\ c.now <= clock /\ c.seen <= clock
  <2> DEFINE c == [Free EXCEPT !.pc = "lookup", !.req = q, !.now = clock]
  <2>0. c \in Calls /\ c.pc = "lookup" /\ c.req = q /\ ~c.replayed /\ c.now = clock /\ c.seen = 0
    BY <1>0 DEF Free, Calls
  <2>1. c.now <= clock /\ c.seen <= clock
    <3> HIDE DEF c
    <3> QED BY <1>0, <2>0
  <2>2. /\ UNCHANGED <<entries, buckets, runs, contested, clock>>
        /\ call[t].pc \in {"free", "done"}
        /\ call' = [call EXCEPT ![t] = c] /\ q.route \in RequiresIdempotency
        /\ q.key \in Keys
    BY <1>3, Keyed DEF Arrive, Serving
  <2> HIDE DEF c
  <2> QED BY <2>0, <2>1, <2>2
<1>4. ASSUME ReadClock(t)
      PROVE  /\ UNCHANGED <<entries, buckets, runs, contested, clock>>
             /\ call[t].pc = "produce"
             /\ \E c \in Calls :
                  /\ call' = [call EXCEPT ![t] = c] /\ c.pc = "limit"
                  /\ c.req = call[t].req /\ c.now = call[t].now /\ c.seen = clock
                  /\ c.replayed = call[t].replayed
  <2> DEFINE c == [call[t] EXCEPT !.pc = "limit", !.seen = clock]
  <2>1. c \in Calls /\ c.pc = "limit" /\ c.req = call[t].req /\ c.now = call[t].now
        /\ c.seen = clock /\ c.replayed = call[t].replayed
    BY <1>0 DEF TypeOK, Calls
  <2>2. /\ UNCHANGED <<entries, buckets, runs, contested, clock>>
        /\ call[t].pc = "produce" /\ call' = [call EXCEPT ![t] = c]
    BY <1>4 DEF ReadClock, TypeOK
  <2> HIDE DEF c
  <2> QED BY <2>1, <2>2
<1>5. CASE ReadClock(t)
  <2>1. PICK c \in Calls :
          /\ call' = [call EXCEPT ![t] = c] /\ c.pc = "limit"
          /\ c.req = call[t].req /\ c.now = call[t].now /\ c.seen = clock
          /\ c.replayed = call[t].replayed
    BY <1>4, <1>5
  <2> QED BY <1>4, <1>5, <2>1
<1>6. ASSUME NEW q \in Requests, Refuse(t, q) \/ Start(t, q) \/ Arrive(t, q)
      PROVE  /\ UNCHANGED <<entries, buckets, runs, contested, clock>>
             /\ \E c \in Calls :
                  /\ call' = [call EXCEPT ![t] = c]
                  /\ \/ c = Free /\ call[t].pc \in {"free", "done"}
                     \/ /\ call[t].pc \in {"free", "done"} /\ c.pc \in {"limit", "lookup"}
                        /\ c.pc = "lookup" <=> c.req.route \in RequiresIdempotency
                        /\ c.req \in Requests /\ ~c.replayed
                        /\ c.req.route \in RequiresIdempotency => c.req.key \in Keys
                        /\ c.now <= clock /\ c.seen <= clock
  <2>1. CASE Refuse(t, q)
    BY <1>0, <1>1, <2>1
  <2>2. CASE Start(t, q)
    <3>1. PICK c \in Calls :
            /\ call' = [call EXCEPT ![t] = c] /\ c.pc = "limit" /\ c.req = q
            /\ q.route \notin RequiresIdempotency
            /\ ~c.replayed /\ c.now <= clock /\ c.seen <= clock
      BY <1>2, <2>2
    <3> QED BY <1>2, <2>2, <3>1
  <2>3. CASE Arrive(t, q)
    <3>1. PICK c \in Calls :
            /\ call' = [call EXCEPT ![t] = c] /\ c.pc = "lookup" /\ c.req = q
            /\ q.route \in RequiresIdempotency /\ q.key \in Keys
            /\ ~c.replayed /\ c.now <= clock /\ c.seen <= clock
      BY <1>3, <2>3
    <3> QED BY <1>3, <2>3, <3>1
  <2> QED BY <1>6, <2>1, <2>2, <2>3
<1> QED BY <1>5, <1>6

\* A step of a request that is neither the handler nor the store.
Early(t) ==
  \/ \E q \in Requests : Refuse(t, q) \/ Start(t, q) \/ Arrive(t, q)
  \/ ReadClock(t)

LEMMA NextCases ==
  ASSUME [Next]_vars
  PROVE  \/ \E t \in Threads : Early(t) \/ Lookup(t) \/ Handle(t) \/ Store(t)
         \/ Restart
         \/ Tick \/ UNCHANGED vars
BY DEF Next, Early

LEMMA TypeStep ==
  ASSUME BaseInv, [Next]_vars
  PROVE  TypeOK'
<1> USE DEF BaseInv, TypeOK
<1>0. NoResponse \in Responses /\ Free \in Calls /\ NoEntry \in Entries
  BY DEF NoResponse, Responses, Free, Calls, NoEntry, Entries
<1>1. ASSUME NEW t \in Threads, Early(t) PROVE TypeOK'
  <2>1. /\ UNCHANGED <<entries, buckets, runs, contested, clock>>
        /\ \E c \in Calls : call' = [call EXCEPT ![t] = c]
    BY <1>1, EarlyCall DEF Early
  <2> QED BY <2>1
<1>2. ASSUME NEW t \in Threads, Lookup(t) PROVE TypeOK'
  <2>1. /\ UNCHANGED <<buckets, runs, contested, clock>>
        /\ \E c \in Calls : call' = [call EXCEPT ![t] = c]
        /\ \/ UNCHANGED entries
           \/ entries' = [entries EXCEPT ![CacheKey(call[t].req)] = NoEntry]
    BY <1>2, LookupCall
  <2> QED BY <1>0, <2>1
<1>3. ASSUME NEW t \in Threads, Handle(t) PROVE TypeOK'
  <2>1. PICK r \in Runs :
           /\ runs' = runs \union {r}
           /\ r.req = call[t].req /\ r.at = call[t].seen
           /\ r.req.route \in RequiresIdempotency =>
                call' = [call EXCEPT ![t] =
                           [call[t] EXCEPT !.response = r.response, !.pc = "store"]]
           /\ r.req.route \notin RequiresIdempotency => call' = [call EXCEPT ![t] = Free]
    BY <1>3, HandleRun
  <2>2. call' \in [Threads -> Calls]
    <3>1. call[t] \in Calls /\ r.response \in Responses
      BY DEF Runs
    <3>2. [call[t] EXCEPT !.response = r.response, !.pc = "store"] \in Calls
      BY <3>1 DEF Calls
    <3> QED BY <1>0, <2>1, <3>2
  <2>3. buckets' \in [Scopes -> [resetAt : Nat, count : Nat]]
    <3>1. Scope(r.req) \in Scopes /\ r.at \in Nat
      BY ScopeIsKnown DEF Runs
    <3> QED BY <1>3, <2>1, <3>1, CountedType DEF Handle
  <2> QED BY <1>3, <2>1, <2>2, <2>3 DEF Handle, Runs
<1>4. ASSUME NEW t \in Threads, Store(t) PROVE TypeOK'
  <2>1. call[t].req \in Requests /\ call[t] \in Calls /\ call[t].req.body \in Bodies
    BY <1>4, ControlPlaneAssumption DEF Store, CallsInv, RequestKinds
  <2>2. [body |-> call[t].req.body, expiresAt |-> call[t].now + TTL,
         response |-> call[t].response] \in Entries
    BY <2>1, ControlPlaneAssumption DEF Calls, Entries
  <2>3. call[t].response.run \in Nat
    BY <2>1 DEF Calls, Responses
  <2>4. contested' \subseteq Nat
    BY <1>4, <2>3 DEF Store, NoteStore
  <2>5. entries' \in [CacheKeys -> Entries] /\ call' \in [Threads -> Calls]
    BY <1>0, <1>4, <2>2 DEF Store
  <2> QED BY <1>4, <2>4, <2>5 DEF Store
<1>5. CASE Restart
  BY <1>0, <1>5 DEF Restart, NoEntries, NoBuckets, NoBucket, AllFree
<1>6. CASE Tick \/ UNCHANGED vars
  <2>1. UNCHANGED <<entries, buckets, call, runs, contested>> /\ clock' \in Nat
    BY <1>6 DEF Tick, vars
  <2> QED BY <2>1
<1> QED BY <1>1, <1>2, <1>3, <1>4, <1>5, <1>6, NextCases

LEMMA RunsStep ==
  ASSUME BaseInv, [Next]_vars
  PROVE  RunsInv'
<1>1. ASSUME UNCHANGED runs, clock' \in Nat, clock <= clock' PROVE RunsInv'
  BY <1>1 DEF BaseInv, RunsInv, TypeOK
<1>2. ASSUME NEW t \in Threads, Handle(t) PROVE RunsInv'
  <2>1. PICK r \in Runs :
           /\ runs' = runs \union {r} /\ r \notin runs /\ r.at <= clock
           /\ r.response.run = Cardinality(runs) + 1
    BY <1>2, HandleRun
  <2>2. /\ IsFiniteSet(runs') /\ Cardinality(runs') = Cardinality(runs) + 1
        /\ Cardinality(runs) \in Nat
    BY <2>1, FS_AddElement, FS_CardinalityType DEF BaseInv, RunsInv
  <2>3. clock' = clock /\ clock \in Nat
    BY <1>2 DEF Handle, BaseInv, TypeOK
  <2>4. \A p \in runs' : p.response.run \in 1..Cardinality(runs') /\ p.at <= clock'
    BY <2>1, <2>2, <2>3 DEF BaseInv, RunsInv
  <2>5. \A p, o \in runs' : p.response.run = o.response.run => p = o
    BY <2>1, <2>2 DEF BaseInv, RunsInv
  <2> QED BY <2>2, <2>4, <2>5 DEF RunsInv
<1>3. CASE Restart
  BY <1>3, FS_EmptySet DEF Restart, RunsInv
<1>4. ASSUME NEW t \in Threads, Early(t) \/ Lookup(t) \/ Store(t) PROVE RunsInv'
  <2>1. UNCHANGED <<runs, clock>>
    BY <1>4, EarlyCall DEF Early, Lookup, Store, BaseInv
  <2> QED BY <1>1, <2>1 DEF BaseInv, TypeOK
<1>5. CASE Tick \/ UNCHANGED vars
  BY <1>1, <1>5 DEF Tick, vars, BaseInv, TypeOK
<1> QED BY <1>2, <1>3, <1>4, <1>5, NextCases

LEMMA CallsStep ==
  ASSUME BaseInv, [Next]_vars
  PROVE  CallsInv'
<1> USE DEF BaseInv
<1>1. ASSUME NEW t \in Threads, NEW c, call' = [call EXCEPT ![t] = c],
             c.pc \in {"free", "done"}, UNCHANGED <<runs, clock>>
      PROVE  CallsInv'
  BY <1>1, CallAfter DEF CallsInv
<1>2. ASSUME NEW t \in Threads, NEW c, call' = [call EXCEPT ![t] = c],
             c.pc \in {"lookup", "produce", "limit"}, UNCHANGED <<runs, clock>>,
             c.req \in Requests, ~c.replayed,
             c.req.route \in RequiresIdempotency => c.req.key \in Keys,
             c.now <= clock, c.seen <= clock,
             c.pc # "limit" => c.req.route \in RequiresIdempotency
      PROVE  CallsInv'
  BY <1>2, CallAfter DEF CallsInv
<1>3. ASSUME NEW t \in Threads, Early(t) PROVE CallsInv'
  <2>1. /\ UNCHANGED <<entries, buckets, runs, contested, clock>>
        /\ \E c \in Calls :
             /\ call' = [call EXCEPT ![t] = c]
             /\ \/ c = Free /\ call[t].pc \in {"free", "done"}
                \/ /\ call[t].pc \in {"free", "done"} /\ c.pc \in {"limit", "lookup"}
                   /\ c.pc = "lookup" <=> c.req.route \in RequiresIdempotency
                   /\ c.req \in Requests /\ ~c.replayed
                   /\ c.req.route \in RequiresIdempotency => c.req.key \in Keys
                   /\ c.now <= clock /\ c.seen <= clock
                \/ /\ call[t].pc = "produce" /\ c.pc = "limit" /\ c.req = call[t].req
                   /\ c.now = call[t].now /\ c.seen = clock
                   /\ c.replayed = call[t].replayed
    BY <1>3, EarlyCall DEF Early
  <2>2. PICK c \in Calls :
          /\ call' = [call EXCEPT ![t] = c]
          /\ \/ c = Free /\ call[t].pc \in {"free", "done"}
             \/ /\ call[t].pc \in {"free", "done"} /\ c.pc \in {"limit", "lookup"}
                /\ c.pc = "lookup" <=> c.req.route \in RequiresIdempotency
                /\ c.req \in Requests /\ ~c.replayed
                /\ c.req.route \in RequiresIdempotency => c.req.key \in Keys
                /\ c.now <= clock /\ c.seen <= clock
             \/ /\ call[t].pc = "produce" /\ c.pc = "limit" /\ c.req = call[t].req
                /\ c.now = call[t].now /\ c.seen = clock
                /\ c.replayed = call[t].replayed
    BY <2>1
  <2>3. CASE c = Free
    BY <1>1, <2>1, <2>2, <2>3 DEF Free
  <2>4. CASE call[t].pc \in {"free", "done"} /\ c # Free
    BY <1>2, <2>1, <2>2, <2>4
  <2>5. CASE call[t].pc = "produce" /\ c # Free
    <3>1. clock <= clock
      BY DEF TypeOK
    <3> QED BY <1>2, <2>1, <2>2, <2>5, <3>1 DEF CallsInv
  <2> QED BY <2>2, <2>3, <2>4, <2>5
<1>4. ASSUME NEW t \in Threads, Lookup(t) PROVE CallsInv'
  <2>1. PICK c \in Calls :
          /\ call' = [call EXCEPT ![t] = c]
          /\ \/ c = Free
             \/ c.pc = "done"
             \/ /\ c.pc = "produce" /\ c.req = call[t].req
                /\ c.now = call[t].now /\ c.seen = call[t].seen
                /\ c.replayed = call[t].replayed
    BY <1>4, LookupCall
  <2>2. call[t].pc = "lookup" /\ UNCHANGED <<runs, clock>>
    BY <1>4 DEF Lookup
  <2>3. CASE c = Free \/ c.pc = "done"
    BY <1>1, <2>1, <2>2, <2>3 DEF Free
  <2>4. CASE c.pc = "produce" /\ c # Free
    BY <1>2, <2>1, <2>2, <2>4 DEF CallsInv
  <2> QED BY <2>1, <2>3, <2>4
<1>5. ASSUME NEW t \in Threads, Handle(t) PROVE CallsInv'
  <2>1. PICK r \in Runs :
           /\ runs' = runs \union {r}
           /\ r.req = call[t].req /\ r.from = call[t].now
           /\ r.response.run = Cardinality(runs) + 1
           /\ r.req.route \in RequiresIdempotency =>
                call' = [call EXCEPT ![t] =
                           [call[t] EXCEPT !.response = r.response, !.pc = "store"]]
           /\ r.req.route \notin RequiresIdempotency => call' = [call EXCEPT ![t] = Free]
    BY <1>5, HandleRun
  <2>0. call[t].pc = "limit" /\ UNCHANGED clock
    BY <1>5 DEF Handle
  <2>2. CASE r.req.route \notin RequiresIdempotency
    <3>1. Free.pc = "free" /\ \A u \in Threads : call'[u] = IF u = t THEN Free ELSE call[u]
      BY <2>1, <2>2, CallAfter DEF Free
    <3>2. runs \subseteq runs' /\ clock' = clock
      BY <2>0, <2>1
    <3> QED BY <3>1, <3>2 DEF CallsInv
  <2>3. CASE r.req.route \in RequiresIdempotency
    <3>1. /\ call'[t].pc = "store" /\ call'[t].req = call[t].req /\ call'[t].now = call[t].now
          /\ call'[t].seen = call[t].seen
          /\ call'[t].response = r.response /\ call'[t].replayed = call[t].replayed
          /\ \A u \in Threads : u # t => call'[u] = call[u]
      BY <2>1, <2>3 DEF TypeOK, Calls
    <3>2. /\ r.req \in Requests /\ r.req.key \in Keys /\ ~call[t].replayed
          /\ call[t].now <= clock /\ call[t].seen <= clock
      BY <2>0, <2>1, <2>3 DEF Runs, CallsInv
    <3>3. ASSUME NEW u \in Threads, u # t, call[u].pc = "store"
          PROVE  call[u].response.run # r.response.run
      <4>1. PICK p \in runs : p.response = call[u].response
        BY <3>3 DEF CallsInv
      <4>2. p.response.run \in 1..Cardinality(runs) /\ Cardinality(runs) \in Nat
        BY FS_CardinalityType DEF RunsInv
      <4> QED BY <2>1, <4>1, <4>2
    <3>4. ASSUME NEW u \in Threads, NEW v \in Threads,
                 call'[u].pc = "store", call'[v].pc = "store",
                 call'[u].response.run = call'[v].response.run
          PROVE  u = v
      BY <3>1, <3>3, <3>4 DEF CallsInv
    <3>5. ASSUME NEW u \in Threads, call'[u].pc \in {"lookup", "produce", "limit", "store"}
          PROVE  /\ call'[u].req \in Requests /\ ~call'[u].replayed
                 /\ call'[u].req.route \in RequiresIdempotency => call'[u].req.key \in Keys
                 /\ call'[u].now <= clock' /\ call'[u].seen <= clock'
                 /\ call'[u].pc \in {"lookup", "produce", "store"} =>
                      call'[u].req.route \in RequiresIdempotency
      <4>1. CASE u = t
        BY <2>0, <2>1, <2>3, <3>1, <3>2, <4>1
      <4>2. CASE u # t
        BY <2>0, <3>1, <3>5, <4>2 DEF CallsInv
      <4> QED BY <4>1, <4>2
    <3>6. ASSUME NEW u \in Threads, call'[u].pc = "store"
          PROVE  \E p \in runs' : p.req = call'[u].req /\ p.from = call'[u].now
                                  /\ p.response = call'[u].response
      BY <2>1, <2>3, <3>1, <3>6 DEF CallsInv
    <3> QED BY <3>4, <3>5, <3>6 DEF CallsInv
  <2> QED BY <2>2, <2>3
<1>6. ASSUME NEW t \in Threads, Store(t) PROVE CallsInv'
  BY <1>1, <1>6 DEF Store, Free
<1>7. CASE Restart
  BY <1>7 DEF Restart, CallsInv, AllFree, Free
<1>8. CASE Tick \/ UNCHANGED vars
  <2>1. UNCHANGED <<call, runs>> /\ clock \in Nat /\ clock' \in Nat /\ clock <= clock'
    BY <1>8 DEF Tick, vars, TypeOK
  <2>2. \A t \in Threads : call[t].now \in Nat /\ call[t].seen \in Nat
    BY DEF TypeOK, Calls
  <2> QED BY <2>1, <2>2 DEF CallsInv
<1> QED BY <1>3, <1>4, <1>5, <1>6, <1>7, <1>8, NextCases

\* Every variable keeps its type, runs are numbered apart and each response that
\* waits to be stored is the one of its own run (getOrStore between its two locks).
THEOREM BaseInvariance == Spec => []BaseInv
<1>1. Init => BaseInv
  BY FS_EmptySet DEF Init, BaseInv, TypeOK, RunsInv, CallsInv, NoEntries, NoEntry, NoBuckets,
     NoBucket, AllFree, Free, Entries, Calls, NoResponse, Responses
<1>2. BaseInv /\ [Next]_vars => BaseInv'
  BY TypeStep, RunsStep, CallsStep DEF BaseInv
<1> QED BY <1>1, <1>2, PTL DEF Spec

\* Every variable has its type in every reachable state.
THEOREM TypeCorrect == Spec => []TypeOK
<1>1. BaseInv => TypeOK
  BY DEF BaseInv
<1> QED BY <1>1, BaseInvariance, PTL

-------------------------------------------------------------------------------
(***************************************************************************)
(* The idempotency store.                                                  *)
(***************************************************************************)

IdempotencyInv == EntriesInv /\ ForgottenInv /\ ReplayFits

\* A thread that neither had nor has a response to store leaves the finished runs
\* as they are.
LEMMA FinishedStays ==
  ASSUME TypeOK, NEW t \in Threads, NEW c, call' = [call EXCEPT ![t] = c],
         call[t].pc # "store", c.pc # "store", UNCHANGED runs, NEW k
  PROVE  Finished(k)' = Finished(k)
BY CallAfter DEF Finished

\* No step of a handler finishes a run or unmakes a finished one, and it leaves the
\* requests that are on their way there.
LEMMA FinishedHandle ==
  ASSUME BaseInv, NEW t \in Threads, Handle(t), NEW k
  PROVE  Finished(k)' = Finished(k) /\ OnTheirWay(k)' = OnTheirWay(k)
<1>1. PICK r \in Runs :
         /\ runs' = runs \union {r}
         /\ r.req = call[t].req
         /\ r.response.run = Cardinality(runs) + 1
         /\ r.req.route \in RequiresIdempotency =>
              call' = [call EXCEPT ![t] =
                         [call[t] EXCEPT !.response = r.response, !.pc = "store"]]
         /\ r.req.route \notin RequiresIdempotency => call' = [call EXCEPT ![t] = Free]
  BY HandleRun
<1>2. Cardinality(runs) \in Nat
  BY FS_CardinalityType DEF BaseInv, RunsInv
<1>3. \A p \in runs : p.response.run # r.response.run
  BY <1>1, <1>2 DEF BaseInv, RunsInv
<1>4. call[t].pc = "limit" /\ \A u \in Threads : u # t => call'[u] = call[u]
  BY <1>1 DEF Handle, BaseInv, TypeOK
<1>5. /\ r.req.route \in RequiresIdempotency =>
           /\ call'[t].pc = "store" /\ call'[t].response = r.response
           /\ call'[t].req = call[t].req
      /\ r.req.route \notin RequiresIdempotency => call'[t].pc = "free"
  <2>1. CASE r.req.route \in RequiresIdempotency
    BY <1>1, <2>1 DEF BaseInv, TypeOK, Calls
  <2>2. CASE r.req.route \notin RequiresIdempotency
    BY <1>1, <2>2 DEF BaseInv, TypeOK, Free
  <2> QED BY <2>1, <2>2
<1>6. ASSUME NEW p \in runs PROVE p \in Finished(k)' <=> p \in Finished(k)
  BY <1>1, <1>3, <1>4, <1>5 DEF Finished
<1>7. r \notin Finished(k)'
  BY <1>5 DEF Finished
<1>8. Finished(k) \subseteq runs /\ Finished(k)' \subseteq runs \union {r}
  BY <1>1 DEF Finished
<1>9. OnTheirWay(k)' = OnTheirWay(k)
  BY <1>1, <1>4, <1>5 DEF OnTheirWay
<1> QED BY <1>6, <1>7, <1>8, <1>9

\* Storing a response finishes its run, and that run only.
LEMMA FinishedStore ==
  ASSUME BaseInv, NEW t \in Threads, Store(t), NEW r \in runs, r.req = call[t].req,
         r.response = call[t].response, NEW k
  PROVE  /\ k = CacheKey(r.req) => Finished(k)' = Finished(k) \union {r}
         /\ k # CacheKey(r.req) => Finished(k)' = Finished(k)
         /\ OnTheirWay(k)' = OnTheirWay(k) \ {t}
<1>1. /\ call[t].pc = "store" /\ call'[t].pc = "free" /\ UNCHANGED runs
      /\ \A u \in Threads : u # t => call'[u] = call[u]
      /\ r.req.route \in RequiresIdempotency
  <2>1. call[t].pc = "store" /\ call' = [call EXCEPT ![t] = Free] /\ UNCHANGED runs
    BY DEF Store
  <2>2. Free.pc = "free"
    BY DEF Free
  <2>3. \A u \in Threads : call'[u] = IF u = t THEN Free ELSE call[u]
    BY <2>1, CallAfter DEF BaseInv
  <2>4. r.req.route \in RequiresIdempotency
    BY <2>1 DEF BaseInv, CallsInv
  <2> QED BY <2>1, <2>2, <2>3, <2>4
<1>2. Finished(k) \subseteq Finished(k)'
  BY <1>1 DEF Finished
<1>3. r \in Finished(CacheKey(r.req))'
  <2>1. ASSUME NEW u \in Threads, call'[u].pc = "store"
        PROVE  call'[u].response.run # r.response.run
    BY <1>1, <2>1 DEF BaseInv, CallsInv
  <2> QED BY <1>1, <2>1 DEF Finished
<1>4. ASSUME NEW p \in Finished(k)', p # r PROVE p \in Finished(k)
  <2>1. p \in runs /\ p.response.run # r.response.run
    BY <1>1, <1>4 DEF Finished, BaseInv, RunsInv
  <2> QED BY <1>1, <1>4, <2>1 DEF Finished
<1>5. k # CacheKey(r.req) => r \notin Finished(k)'
  BY <1>1 DEF Finished
<1>6. OnTheirWay(k)' = OnTheirWay(k) \ {t}
  BY <1>1 DEF OnTheirWay
<1> QED BY <1>2, <1>3, <1>4, <1>5, <1>6

\* An entry's run and what became of the others are the same while finished runs
\* stay and nobody new is on the way.
LEMMA StoreStays ==
  ASSUME BaseInv, IdempotencyInv, clock' \in Nat, clock <= clock',
         \A k \in CacheKeys : Finished(k)' = Finished(k),
         \A k \in CacheKeys : OnTheirWay(k)' \subseteq OnTheirWay(k),
         UNCHANGED <<entries, contested>>
  PROVE  EntriesInv' /\ ForgottenInv'
<1>1. ASSUME NEW k \in CacheKeys, entries'[k] # NoEntry
      PROVE  \E r \in Finished(k)' :
               /\ r.req.body = entries'[k].body /\ r.response = entries'[k].response
               /\ entries'[k].expiresAt = r.from + TTL
               /\ r.response.run \in contested' \/ OnTheirWay(k)' = {}
  <2>1. PICK r \in Finished(k) :
          /\ r.req.body = entries[k].body /\ r.response = entries[k].response
          /\ entries[k].expiresAt = r.from + TTL
          /\ r.response.run \in contested \/ OnTheirWay(k) = {}
    BY <1>1 DEF IdempotencyInv, EntriesInv
  <2>2. r \in Finished(k)' /\ OnTheirWay(k)' \subseteq OnTheirWay(k)
    BY <2>1
  <2> QED BY <2>1, <2>2
<1>2. ASSUME NEW k \in CacheKeys, NEW r \in Finished(k)'
      PROVE  \/ clock' > r.from + TTL
             \/ r.response.run \in contested'
             \/ entries'[k] # NoEntry /\ entries'[k].response = r.response
  <2>1. r \in Finished(k)
    BY <1>2
  <2>2. \/ clock > r.from + TTL
        \/ r.response.run \in contested
        \/ entries[k] # NoEntry /\ entries[k].response = r.response
    BY <2>1 DEF IdempotencyInv, ForgottenInv
  <2>3. r.from \in Nat /\ clock \in Nat
    BY <2>1 DEF BaseInv, TypeOK, Finished
  <2> QED BY <2>2, <2>3, ControlPlaneAssumption
<1> QED BY <1>1, <1>2 DEF EntriesInv, ForgottenInv

\* A call that is not a new replay keeps ReplayFits.
LEMMA ReplayStays ==
  ASSUME BaseInv, ReplayFits, NEW t \in Threads, NEW c, call' = [call EXCEPT ![t] = c],
         ~c.replayed, runs \subseteq runs'
  PROVE  ReplayFits'
<1>1. \A u \in Threads : call'[u] = IF u = t THEN c ELSE call[u]
  BY CallAfter DEF BaseInv
<1> QED BY <1>1 DEF ReplayFits

\* A step that makes no one new look a key up and stores nothing.
LEMMA QuietStep ==
  ASSUME BaseInv, IdempotencyInv, NEW t \in Threads, NEW c, call' = [call EXCEPT ![t] = c],
         call[t].pc # "store", c.pc # "store", ~c.replayed,
         \A k \in CacheKeys : OnTheirWay(k)' \subseteq OnTheirWay(k),
         UNCHANGED <<entries, runs, contested, clock>>
  PROVE  IdempotencyInv'
<1>1. \A k \in CacheKeys : Finished(k)' = Finished(k)
  BY FinishedStays DEF BaseInv
<1>2. EntriesInv' /\ ForgottenInv'
  BY <1>1, StoreStays DEF BaseInv, TypeOK
<1>3. ReplayFits'
  BY ReplayStays DEF IdempotencyInv
<1> QED BY <1>2, <1>3 DEF IdempotencyInv

LEMMA EarlyStep ==
  ASSUME BaseInv, IdempotencyInv, NEW t \in Threads, Early(t)
  PROVE  IdempotencyInv'
<1>1. /\ UNCHANGED <<entries, buckets, runs, contested, clock>>
      /\ \E c \in Calls :
           /\ call' = [call EXCEPT ![t] = c]
           /\ \/ c = Free /\ call[t].pc \in {"free", "done"}
              \/ /\ call[t].pc \in {"free", "done"} /\ c.pc \in {"limit", "lookup"}
                 /\ c.pc = "lookup" <=> c.req.route \in RequiresIdempotency
                 /\ ~c.replayed
              \/ /\ call[t].pc = "produce" /\ c.pc = "limit" /\ c.req = call[t].req
                 /\ c.replayed = call[t].replayed
  BY EarlyCall DEF Early, BaseInv
<1>2. PICK c \in Calls :
        /\ call' = [call EXCEPT ![t] = c]
        /\ \/ c = Free /\ call[t].pc \in {"free", "done"}
           \/ /\ call[t].pc \in {"free", "done"} /\ c.pc \in {"limit", "lookup"}
              /\ c.pc = "lookup" <=> c.req.route \in RequiresIdempotency
              /\ ~c.replayed
           \/ /\ call[t].pc = "produce" /\ c.pc = "limit" /\ c.req = call[t].req
              /\ c.replayed = call[t].replayed
  BY <1>1
<1>3. call[t].pc # "store" /\ c.pc # "store"
  BY <1>2 DEF Free
<1>4. ~c.replayed
  BY <1>2 DEF Free, BaseInv, CallsInv
<1>5. \A u \in Threads : call'[u] = IF u = t THEN c ELSE call[u]
  BY <1>2, CallAfter DEF BaseInv
<1>6. ASSUME NEW k \in CacheKeys PROVE OnTheirWay(k)' \subseteq OnTheirWay(k)
  <2>1. CASE c = Free
    BY <1>5, <2>1 DEF OnTheirWay, Free
  <2>2. CASE c # Free
    BY <1>2, <1>5, <2>2 DEF OnTheirWay
  <2> QED BY <2>1, <2>2
<1> QED BY <1>1, <1>2, <1>3, <1>4, <1>6, QuietStep

\* A run of a key that is looked up anew is too old or was contested.
LEMMA RunIsOld ==
  ASSUME BaseInv, IdempotencyInv, NEW t \in Threads, call[t].pc = "lookup", ~Found(t),
         CacheKey(call[t].req) \in CacheKeys, NEW r \in Finished(CacheKey(call[t].req))
  PROVE  clock > r.from + TTL \/ r.response.run \in contested
<1> DEFINE K == CacheKey(call[t].req)
<1>1. \/ clock > r.from + TTL
      \/ r.response.run \in contested
      \/ entries[K] # NoEntry /\ entries[K].response = r.response
  BY DEF IdempotencyInv, ForgottenInv
<1>2. CASE entries[K] # NoEntry /\ entries[K].response = r.response
  <2>1. PICK p \in Finished(K) :
          p.response = entries[K].response /\ entries[K].expiresAt = p.from + TTL
    BY <1>2 DEF IdempotencyInv, EntriesInv
  <2>2. p = r
    BY <1>2, <2>1 DEF Finished, BaseInv, RunsInv
  <2>3. r.from \in Nat /\ clock \in Nat /\ call[t].now \in Nat /\ call[t].now <= clock
    BY DEF BaseInv, TypeOK, CallsInv, Finished, Calls
  <2>4. ~(call[t].now <= r.from + TTL)
    BY <1>2, <2>1, <2>2 DEF Found
  <2> QED BY <2>3, <2>4, ControlPlaneAssumption
<1> QED BY <1>1, <1>2

\* The lookup of a key: a replay is the response of the entry's run; an entry is
\* deleted because its run is too old.
LEMMA LookupStep ==
  ASSUME BaseInv, IdempotencyInv, NEW t \in Threads, Lookup(t)
  PROVE  IdempotencyInv'
<1>1. /\ CacheKey(call[t].req) \in CacheKeys
      /\ UNCHANGED <<buckets, runs, contested, clock>>
      /\ \E c \in Calls :
           /\ call' = [call EXCEPT ![t] = c]
           /\ \/ c = Free /\ UNCHANGED entries
              \/ /\ Found(t) /\ SameRequest(call[t].req) /\ UNCHANGED entries
                 /\ c.pc = "done" /\ c.req = call[t].req /\ c.now = call[t].now
                 /\ c.response = entries[CacheKey(call[t].req)].response
              \/ /\ ~Found(t) /\ c.pc = "produce" /\ c.req = call[t].req
                 /\ c.now = call[t].now /\ c.seen = call[t].seen
                 /\ c.replayed = call[t].replayed
                 /\ entries' = [entries EXCEPT ![CacheKey(call[t].req)] = NoEntry]
  BY LookupCall DEF BaseInv
<1>2. PICK K \in CacheKeys : K = CacheKey(call[t].req)
  BY <1>1
<1>3. PICK c \in Calls :
        /\ call' = [call EXCEPT ![t] = c]
        /\ \/ c = Free /\ UNCHANGED entries
           \/ /\ Found(t) /\ SameRequest(call[t].req) /\ UNCHANGED entries
              /\ c.pc = "done" /\ c.req = call[t].req /\ c.now = call[t].now
              /\ c.response = entries[K].response
           \/ /\ ~Found(t) /\ c.pc = "produce" /\ c.req = call[t].req
              /\ c.replayed = call[t].replayed
              /\ entries' = [entries EXCEPT ![K] = NoEntry]
  BY <1>1, <1>2
<1>4. call[t].pc = "lookup" /\ ~call[t].replayed
  BY DEF Lookup, BaseInv, CallsInv
<1>5. \A u \in Threads : call'[u] = IF u = t THEN c ELSE call[u]
  BY <1>3, CallAfter DEF BaseInv
<1>6. c.pc \in {"free", "done", "produce"}
  BY <1>3 DEF Free
<1>7. \A k : Finished(k)' = Finished(k)
  BY <1>1, <1>3, <1>4, <1>6, FinishedStays DEF BaseInv
<1>8. CASE c = Free /\ UNCHANGED entries
  <2>1. c.pc = "free" /\ ~c.replayed
    BY <1>8 DEF Free
  <2>2. \A k \in CacheKeys : OnTheirWay(k)' \subseteq OnTheirWay(k)
    BY <1>5, <2>1 DEF OnTheirWay
  <2> QED BY <1>1, <1>3, <1>4, <1>8, <2>1, <2>2, QuietStep
<1>9. CASE /\ Found(t) /\ SameRequest(call[t].req) /\ UNCHANGED entries
           /\ c.pc = "done" /\ c.req = call[t].req /\ c.now = call[t].now
           /\ c.response = entries[K].response
  <2>1. PICK r \in Finished(K) :
          /\ r.req.body = entries[K].body /\ r.response = entries[K].response
          /\ entries[K].expiresAt = r.from + TTL
    BY <1>2, <1>9 DEF Found, IdempotencyInv, EntriesInv
  <2>2. /\ r \in runs /\ CacheKey(r.req) = K /\ r.req.body = call[t].req.body
        /\ call[t].now <= r.from + TTL
    BY <1>2, <1>9, <2>1 DEF Finished, Found, SameRequest
  <2>3. ReplayFits'
    <3>1. ASSUME NEW u \in Threads, call'[u].replayed
          PROVE  \E p \in runs :
                   /\ p.response = call'[u].response
                   /\ CacheKey(p.req) = CacheKey(call'[u].req)
                   /\ p.req.body = call'[u].req.body
                   /\ call'[u].now <= p.from + TTL
      <4>1. CASE u = t
        BY <1>2, <1>5, <1>9, <2>1, <2>2, <4>1
      <4>2. CASE u # t
        BY <1>5, <3>1, <4>2 DEF IdempotencyInv, ReplayFits
      <4> QED BY <4>1, <4>2
    <3> QED BY <1>1, <3>1 DEF ReplayFits
  <2>4. \A k \in CacheKeys : OnTheirWay(k)' \subseteq OnTheirWay(k)
    BY <1>5, <1>9 DEF OnTheirWay
  <2>5. EntriesInv' /\ ForgottenInv'
    BY <1>1, <1>7, <1>9, <2>4, StoreStays DEF BaseInv, TypeOK
  <2> QED BY <2>3, <2>5 DEF IdempotencyInv
<1>10. CASE /\ ~Found(t) /\ c.pc = "produce" /\ c.req = call[t].req
            /\ c.replayed = call[t].replayed
            /\ entries' = [entries EXCEPT ![K] = NoEntry]
  <2>1. \A k \in CacheKeys : entries'[k] = IF k = K THEN NoEntry ELSE entries[k]
    BY <1>10 DEF BaseInv, TypeOK
  <2>2. \A k \in CacheKeys : k # K => OnTheirWay(k)' = OnTheirWay(k)
    BY <1>2, <1>4, <1>5, <1>10 DEF OnTheirWay
  <2>3. EntriesInv'
    <3>1. ASSUME NEW k \in CacheKeys, entries'[k] # NoEntry
          PROVE  \E r \in Finished(k)' :
                   /\ r.req.body = entries'[k].body /\ r.response = entries'[k].response
                   /\ entries'[k].expiresAt = r.from + TTL
                   /\ r.response.run \in contested' \/ OnTheirWay(k)' = {}
      <4>1. entries'[k] = entries[k] /\ k # K
        BY <2>1, <3>1
      <4>2. PICK r \in Finished(k) :
              /\ r.req.body = entries[k].body /\ r.response = entries[k].response
              /\ entries[k].expiresAt = r.from + TTL
              /\ r.response.run \in contested \/ OnTheirWay(k) = {}
        BY <3>1, <4>1 DEF IdempotencyInv, EntriesInv
      <4>3. r \in Finished(k)' /\ OnTheirWay(k)' = OnTheirWay(k) /\ contested' = contested
        BY <1>1, <1>7, <2>2, <4>1
      <4> QED BY <4>1, <4>2, <4>3
    <3> QED BY <3>1 DEF EntriesInv
  <2>4. ForgottenInv'
    <3>1. ASSUME NEW k \in CacheKeys, NEW r \in Finished(k)'
          PROVE  \/ clock > r.from + TTL
                 \/ r.response.run \in contested
                 \/ entries'[k] # NoEntry /\ entries'[k].response = r.response
      <4>1. r \in Finished(k)
        BY <1>7, <3>1
      <4>2. CASE k = K
        BY <1>2, <1>4, <1>10, <4>1, <4>2, RunIsOld
      <4>3. CASE k # K
        <5>1. \/ clock > r.from + TTL
              \/ r.response.run \in contested
              \/ entries[k] # NoEntry /\ entries[k].response = r.response
          BY <4>1 DEF IdempotencyInv, ForgottenInv
        <5> QED BY <2>1, <4>3, <5>1
      <4> QED BY <4>2, <4>3
    <3> QED BY <1>1, <3>1 DEF ForgottenInv
  <2>5. ReplayFits'
    BY <1>1, <1>3, <1>4, <1>10, ReplayStays DEF IdempotencyInv
  <2> QED BY <2>3, <2>4, <2>5 DEF IdempotencyInv
<1> QED BY <1>3, <1>8, <1>9, <1>10

\* A stored response is the entry of its key; the run is finished by that.
LEMMA StoreStep ==
  ASSUME BaseInv, IdempotencyInv, NEW t \in Threads, Store(t)
  PROVE  IdempotencyInv'
<1>1. PICK r \in runs : r.req = call[t].req /\ r.from = call[t].now
                        /\ r.response = call[t].response
  BY DEF Store, BaseInv, CallsInv
<1>2. /\ r.req \in Requests /\ r.req.key \in Keys /\ r.from \in Nat
      /\ call[t].pc = "store" /\ call[t].req.route \in RequiresIdempotency
  BY <1>1 DEF Store, BaseInv, TypeOK, CallsInv
<1>3. PICK K \in CacheKeys : K = CacheKey(r.req)
  BY <1>2, KeyIsKnown
<1>4. /\ call' = [call EXCEPT ![t] = Free]
      /\ UNCHANGED <<buckets, runs, clock>>
      /\ contested' = IF OnTheirWay(K) = {t} THEN contested
                      ELSE contested \union {r.response.run}
  BY <1>1, <1>3 DEF Store, NoteStore
<1>5. /\ Finished(K)' = Finished(K) \union {r}
      /\ \A k : k # K => Finished(k)' = Finished(k)
      /\ \A k : OnTheirWay(k)' = OnTheirWay(k) \ {t}
  BY <1>1, <1>3, FinishedStore
<1> DEFINE e == [body |-> r.req.body, expiresAt |-> r.from + TTL, response |-> r.response]
<1>6. entries' = [entries EXCEPT ![K] = e]
  BY <1>1, <1>3 DEF Store
<1>7. /\ entries'[K] = e /\ e # NoEntry
      /\ \A k \in CacheKeys : k # K => entries'[k] = entries[k]
  <2>1. e.expiresAt # NoEntry.expiresAt
    BY <1>2, ControlPlaneAssumption DEF NoEntry
  <2> QED BY <1>3, <1>6, <2>1 DEF BaseInv, TypeOK
<1>8. t \in OnTheirWay(K)
  BY <1>1, <1>2, <1>3 DEF OnTheirWay
<1>a. e.body = r.req.body /\ e.expiresAt = r.from + TTL /\ e.response = r.response
  OBVIOUS
<1> HIDE DEF e
<1>9. EntriesInv'
  <2>1. ASSUME NEW k \in CacheKeys, entries'[k] # NoEntry
        PROVE  \E p \in Finished(k)' :
                 /\ p.req.body = entries'[k].body /\ p.response = entries'[k].response
                 /\ entries'[k].expiresAt = p.from + TTL
                 /\ p.response.run \in contested' \/ OnTheirWay(k)' = {}
    <3>1. CASE k = K
      <4>1. r \in Finished(k)'
        BY <1>5, <3>1
      <4>2. r.response.run \in contested' \/ OnTheirWay(k)' = {}
        BY <1>4, <1>5, <3>1
      <4> QED BY <1>7, <1>a, <3>1, <4>1, <4>2
    <3>2. CASE k # K
      <4>1. entries'[k] = entries[k]
        BY <1>7, <3>2
      <4>2. PICK p \in Finished(k) :
              /\ p.req.body = entries[k].body /\ p.response = entries[k].response
              /\ entries[k].expiresAt = p.from + TTL
              /\ p.response.run \in contested \/ OnTheirWay(k) = {}
        BY <2>1, <4>1 DEF IdempotencyInv, EntriesInv
      <4>3. p \in Finished(k)' /\ contested \subseteq contested'
        BY <1>4, <1>5, <3>2
      <4>4. OnTheirWay(k) = {} => OnTheirWay(k)' = {}
        BY <1>5
      <4> QED BY <4>1, <4>2, <4>3, <4>4
    <3> QED BY <3>1, <3>2
  <2> QED BY <2>1 DEF EntriesInv
<1>10. ForgottenInv'
  <2>1. ASSUME NEW k \in CacheKeys, NEW p \in Finished(k)'
        PROVE  \/ clock > p.from + TTL
               \/ p.response.run \in contested'
               \/ entries'[k] # NoEntry /\ entries'[k].response = p.response
    <3>1. CASE p = r /\ k = K
      BY <1>7, <1>a, <3>1
    <3>2. CASE p \in Finished(k)
      <4>1. \/ clock > p.from + TTL
            \/ p.response.run \in contested
            \/ entries[k] # NoEntry /\ entries[k].response = p.response
        BY <3>2 DEF IdempotencyInv, ForgottenInv
      <4>2. contested \subseteq contested'
        BY <1>4
      <4>3. CASE k # K
        BY <1>7, <4>1, <4>2, <4>3
      <4>4. CASE k = K /\ entries[k] # NoEntry /\ entries[k].response = p.response
        <5>1. PICK o \in Finished(k) :
                o.response = entries[k].response
                /\ (o.response.run \in contested \/ OnTheirWay(k) = {})
          BY <4>4 DEF IdempotencyInv, EntriesInv
        <5>2. p.response.run \in contested
          BY <1>8, <4>4, <5>1
        <5> QED BY <4>2, <5>2
      <4> QED BY <4>1, <4>2, <4>3, <4>4
    <3> QED BY <1>5, <2>1, <3>1, <3>2
  <2> QED BY <1>4, <2>1 DEF ForgottenInv
<1>11. ReplayFits'
  <2>1. ~Free.replayed
    BY DEF Free
  <2> QED BY <1>4, <2>1, ReplayStays DEF IdempotencyInv
<1> QED BY <1>9, <1>10, <1>11 DEF IdempotencyInv

LEMMA IdempotencyHandle ==
  ASSUME BaseInv, IdempotencyInv, NEW t \in Threads, Handle(t)
  PROVE  IdempotencyInv'
<1>1. PICK r \in Runs :
         /\ runs' = runs \union {r}
         /\ r.req.route \in RequiresIdempotency =>
              call' = [call EXCEPT ![t] =
                         [call[t] EXCEPT !.response = r.response, !.pc = "store"]]
         /\ r.req.route \notin RequiresIdempotency => call' = [call EXCEPT ![t] = Free]
  BY HandleRun
<1>2. UNCHANGED <<entries, contested, clock>>
  BY DEF Handle
<1>3. EntriesInv' /\ ForgottenInv'
  BY <1>2, FinishedHandle, StoreStays DEF BaseInv, TypeOK
<1>4. ~[call[t] EXCEPT !.response = r.response, !.pc = "store"].replayed
  BY DEF Handle, BaseInv, TypeOK, CallsInv, Calls
<1>5. ~Free.replayed
  BY DEF Free
<1>6. ReplayFits'
  <2>1. CASE r.req.route \in RequiresIdempotency
    BY <1>1, <1>4, <2>1, ReplayStays DEF IdempotencyInv
  <2>2. CASE r.req.route \notin RequiresIdempotency
    BY <1>1, <1>5, <2>2, ReplayStays DEF IdempotencyInv
  <2> QED BY <2>1, <2>2
<1> QED BY <1>3, <1>6 DEF IdempotencyInv

LEMMA IdempotencyStep ==
  ASSUME BaseInv, IdempotencyInv, [Next]_vars
  PROVE  IdempotencyInv'
<1>1. CASE Restart
  <2>1. \A k \in CacheKeys : entries'[k] = NoEntry /\ Finished(k)' = {}
    BY <1>1 DEF Restart, NoEntries, Finished
  <2>2. \A t \in Threads : call'[t] = Free
    BY <1>1 DEF Restart, AllFree
  <2> QED BY <2>1, <2>2 DEF IdempotencyInv, EntriesInv, ForgottenInv, ReplayFits, Free
<1>2. CASE Tick \/ UNCHANGED vars
  <2>1. UNCHANGED <<entries, call, runs, contested>> /\ clock' \in Nat /\ clock <= clock'
    BY <1>2 DEF Tick, vars, BaseInv, TypeOK
  <2>2. \A k \in CacheKeys : Finished(k)' = Finished(k) /\ OnTheirWay(k)' = OnTheirWay(k)
    BY <2>1 DEF Finished, OnTheirWay
  <2>3. EntriesInv' /\ ForgottenInv'
    BY <2>1, <2>2, StoreStays
  <2>4. ReplayFits'
    BY <2>1 DEF IdempotencyInv, ReplayFits
  <2> QED BY <2>3, <2>4 DEF IdempotencyInv
<1> QED BY <1>1, <1>2, EarlyStep, LookupStep, IdempotencyHandle, StoreStep, NextCases

\* The store's invariant holds in every reachable state: an entry stands for a
\* finished run, and a finished run without its entry is old or was contested
\* (getOrStore).
THEOREM IdempotencyInvariance == Spec => []IdempotencyInv
<1>1. Init => IdempotencyInv
  BY DEF Init, IdempotencyInv, EntriesInv, ForgottenInv, ReplayFits, Finished, NoEntries,
     AllFree, Free
<1>2. BaseInv /\ IdempotencyInv /\ [Next]_vars => IdempotencyInv'
  BY IdempotencyStep
<1> QED BY <1>1, <1>2, BaseInvariance, PTL DEF Spec

\* A replay answers with a run of the same text of route, subject and key and the
\* same body that is no older than the time to live, whatever requests overlap
\* (getOrStore).
THEOREM ReplaysFit == Spec => []ReplayFits
<1>1. IdempotencyInv => ReplayFits
  BY DEF IdempotencyInv
<1> QED BY <1>1, IdempotencyInvariance, PTL

\* The only step that takes a request from the lookup on to the handler is a lookup
\* that finds no fresh entry.
LEMMA RunsAgain ==
  ASSUME BaseInv, IdempotencyInv, [Next]_vars, NEW t \in Threads,
         call[t].pc = "lookup", call'[t].pc = "produce",
         NEW r \in Finished(CacheKey(call[t].req))
  PROVE  clock > r.from + TTL \/ r.response.run \in contested
<1>1. ASSUME NEW u \in Threads, Early(u) PROVE FALSE
  <2>1. PICK c : /\ call' = [call EXCEPT ![u] = c]
                 /\ c = Free \/ c.pc \in {"limit", "lookup"}
    BY <1>1, EarlyCall DEF Early, BaseInv
  <2>2. call'[t] = IF t = u THEN c ELSE call[t]
    BY <2>1, CallAfter DEF BaseInv
  <2> QED BY <2>1, <2>2 DEF Free
<1>2. ASSUME NEW u \in Threads, Handle(u) \/ Store(u) PROVE FALSE
  <2>1. call[u].pc \in {"limit", "store"} /\ u # t
    BY <1>2 DEF Handle, Store
  <2>2. \E c : call' = [call EXCEPT ![u] = c]
    <3>1. CASE Handle(u)
      BY <3>1 DEF Handle
    <3>2. CASE Store(u)
      BY <3>2 DEF Store
    <3> QED BY <1>2, <3>1, <3>2
  <2>3. call'[t] = call[t]
    BY <2>1, <2>2, CallAfter DEF BaseInv
  <2> QED BY <2>3
<1>3. CASE Restart
  BY <1>3 DEF Restart, AllFree, Free
<1>4. CASE Tick \/ UNCHANGED vars
  BY <1>4 DEF Tick, vars
<1>5. ASSUME NEW u \in Threads, Lookup(u)
      PROVE  clock > r.from + TTL \/ r.response.run \in contested
  <2>1. PICK c : /\ call' = [call EXCEPT ![u] = c]
                 /\ c = Free \/ c.pc = "done" \/ ~Found(u)
    BY <1>5, LookupCall DEF BaseInv
  <2>2. call'[t] = IF t = u THEN c ELSE call[t]
    BY <2>1, CallAfter DEF BaseInv
  <2>3. t = u /\ ~Found(t)
    BY <2>1, <2>2 DEF Free
  <2>4. CacheKey(call[t].req) \in CacheKeys
    BY <1>5, <2>3, LookupCall DEF BaseInv
  <2> QED BY <2>3, <2>4, RunIsOld
<1> QED BY <1>1, <1>2, <1>3, <1>4, <1>5, NextCases

\* A key is run again only when each of its stored runs is older than the time to
\* live or was stored while another request of the key was on its way: the store
\* forgets a key for no other reason but a restart, which forgets the runs as well.
THEOREM KeysAreKept == Spec => RunsAgainOnlyWhenOld
<1>1. BaseInv /\ IdempotencyInv /\ [Next]_vars =>
        [\A t \in Threads : call[t].pc = "lookup" /\ call'[t].pc = "produce" =>
           \A r \in Finished(CacheKey(call[t].req)) :
             clock > r.from + TTL \/ r.response.run \in contested]_vars
  BY RunsAgain
<1> QED BY <1>1, BaseInvariance, IdempotencyInvariance, PTL DEF Spec, RunsAgainOnlyWhenOld

-------------------------------------------------------------------------------
(***************************************************************************)
(* The rate limiter.                                                       *)
(***************************************************************************)

LEMMA PassedFinite ==
  ASSUME BaseInv, NEW s, NEW lo, NEW hi
  PROVE  IsFiniteSet(Passed(s, lo, hi)) /\ Cardinality(Passed(s, lo, hi)) \in Nat
<1>1. Passed(s, lo, hi) \in SUBSET runs
  BY DEF Passed
<1>2. IsFiniteSet(Passed(s, lo, hi))
  BY <1>1, FS_Subset DEF BaseInv, RunsInv
<1> QED BY <1>2, FS_CardinalityType

\* A scope whose runs and bucket stay, as time goes on.
LEMMA LimitStays ==
  ASSUME BaseInv, NEW s \in Scopes, WithinLimit(s), buckets'[s] = buckets[s],
         \A lo, hi \in Int : Passed(s, lo, hi)' = Passed(s, lo, hi),
         \A r \in runs' : Scope(r.req) = s => r \in runs
  PROVE  WithinLimit(s)'
<1>1. buckets[s].resetAt \in Int /\ Window \in Int
  BY ControlPlaneAssumption DEF BaseInv, TypeOK
<1> QED BY <1>1 DEF WithinLimit

\* The runs of a scope after one more: those in a span that holds it are one more,
\* the others stay.
LEMMA PassedAfter ==
  ASSUME BaseInv, NEW r, runs' = runs \union {r}, NEW s, NEW lo, NEW hi
  PROVE  /\ Passed(s, lo, hi)' \subseteq Passed(s, lo, hi) \union {r}
         /\ Passed(s, lo, hi) \subseteq Passed(s, lo, hi)'
         /\ Scope(r.req) # s \/ r.response.code = 429 \/ r.late \/ ~(lo <= r.at) \/ ~(r.at < hi) =>
              Passed(s, lo, hi)' = Passed(s, lo, hi)
         /\ IsFiniteSet(Passed(s, lo, hi)')
         /\ Cardinality(Passed(s, lo, hi)') \in Nat
         /\ Cardinality(Passed(s, lo, hi)') <= Cardinality(Passed(s, lo, hi)) + 1
<1>1. /\ Passed(s, lo, hi)' \subseteq Passed(s, lo, hi) \union {r}
      /\ Passed(s, lo, hi) \subseteq Passed(s, lo, hi)'
      /\ Scope(r.req) # s \/ r.response.code = 429 \/ r.late \/ ~(lo <= r.at) \/ ~(r.at < hi) =>
           Passed(s, lo, hi)' = Passed(s, lo, hi)
  BY DEF Passed
<1> DEFINE P == Passed(s, lo, hi)
           Q == Passed(s, lo, hi)'
<1>2. IsFiniteSet(P) /\ Cardinality(P) \in Nat
  BY PassedFinite
<1>3. /\ IsFiniteSet(P \union {r})
      /\ Cardinality(P \union {r}) <= Cardinality(P) + 1
      /\ Cardinality(P \union {r}) \in Nat
  <2> HIDE DEF P
  <2> QED BY <1>2, FS_AddElement
<1>4. Q \in SUBSET (P \union {r})
  BY <1>1
<1>5. IsFiniteSet(Q) /\ Cardinality(Q) <= Cardinality(P \union {r}) /\ Cardinality(Q) \in Nat
  <2> HIDE DEF P, Q
  <2> QED BY <1>3, <1>4, FS_Subset, FS_CardinalityType
<1>6. Cardinality(Q) <= Cardinality(P) + 1
  <2> HIDE DEF P, Q
  <2> QED BY <1>2, <1>3, <1>5
<1> QED BY <1>1, <1>5, <1>6

LEMMA UnionBound ==
  ASSUME NEW A, NEW P, NEW Q, A \subseteq P \union Q, IsFiniteSet(P), IsFiniteSet(Q)
  PROVE  Cardinality(A) <= Cardinality(P) + Cardinality(Q)
<1>1. /\ IsFiniteSet(P \union Q)
      /\ Cardinality(P \union Q) = Cardinality(P) + Cardinality(Q) - Cardinality(P \cap Q)
  BY FS_Union
<1>2. IsFiniteSet(A) /\ Cardinality(A) <= Cardinality(P \union Q)
  BY <1>1, FS_Subset
<1>3. IsFiniteSet(P \cap Q)
  BY FS_Intersection
<1>4. /\ Cardinality(A) \in Nat /\ Cardinality(P) \in Nat /\ Cardinality(Q) \in Nat
      /\ Cardinality(P \cap Q) \in Nat
  BY <1>2, <1>3, FS_CardinalityType
<1> QED BY <1>1, <1>2, <1>4

\* A run the limiter refuses, or counts late, counts and changes nothing else.
LEMMA LimitRefused ==
  ASSUME BaseInv, NEW s \in Scopes, WithinLimit(s), NEW r \in Runs,
         runs' = runs \union {r}, Scope(r.req) = s, r.response.code = 429 \/ r.late,
         r.at < buckets[s].resetAt, buckets'[s] = Counted(buckets[s], r.at)
  PROVE  WithinLimit(s)'
<1> DEFINE b == buckets[s]
<1>1. b \in [resetAt : Nat, count : Nat] /\ r.at \in Nat
  BY DEF BaseInv, TypeOK, Runs
<1>2. PICK end \in Int : end = b.resetAt
  BY <1>1
<1>3. PICK opened \in Int : opened = end - Window
  BY ControlPlaneAssumption
<1>4. buckets'[s].resetAt = end /\ buckets'[s].count = b.count + 1
  BY <1>1, <1>2 DEF Counted
<1>5. \A lo, hi : Passed(s, lo, hi)' = Passed(s, lo, hi)
  BY PassedAfter
<1>6. \A p \in runs' : Scope(p.req) = s => p.at < end
  BY <1>2 DEF WithinLimit
<1>7. Cardinality(Passed(s, opened, end)) \in Nat
  BY PassedFinite
<1>8. /\ end = 0 \/ \E p \in Passed(s, opened, end) : p.at = opened
      /\ Cardinality(Passed(s, opened, end)) <= b.count
      /\ Cardinality(Passed(s, opened, end)) <= Limit
      /\ \A x \in Int : x > opened - Window => Cardinality(Passed(s, x, opened)) < Limit
      /\ \A x \in Int : Cardinality(Passed(s, x, x + Window)) < 2 * Limit
  BY <1>2, <1>3 DEF WithinLimit
<1>9. Cardinality(Passed(s, opened, end)) <= b.count + 1
  BY <1>1, <1>7, <1>8
<1> QED BY <1>3, <1>4, <1>5, <1>6, <1>8, <1>9 DEF WithinLimit

\* A run the limiter lets through in the window that is open.
LEMMA LimitCounted ==
  ASSUME BaseInv, NEW s \in Scopes, WithinLimit(s), NEW r \in Runs,
         runs' = runs \union {r}, Scope(r.req) = s,
         r.at < buckets[s].resetAt, buckets[s].resetAt - Window <= r.at,
         buckets'[s] = Counted(buckets[s], r.at), buckets'[s].count <= Limit
  PROVE  WithinLimit(s)'
<1> DEFINE b == buckets[s]
<1>1. b \in [resetAt : Nat, count : Nat] /\ r.at \in Nat /\ Window \in Nat /\ Limit \in Nat
  BY ControlPlaneAssumption DEF BaseInv, TypeOK, Runs
<1>a. PICK end \in Int : end = b.resetAt
  BY <1>1
<1>b. PICK opened \in Int : opened = end - Window
  BY <1>1
<1>2. buckets'[s].resetAt = end /\ buckets'[s].count = b.count + 1
  BY <1>1, <1>a DEF Counted
<1>3. opened <= r.at /\ r.at < end
  BY <1>a, <1>b
<1>4. \A p \in runs' : Scope(p.req) = s => p.at < end
  BY <1>3, <1>a DEF WithinLimit
<1>5. /\ Cardinality(Passed(s, opened, end)') \in Nat
      /\ Cardinality(Passed(s, opened, end)') <= Cardinality(Passed(s, opened, end)) + 1
  BY PassedAfter
<1>6. /\ Cardinality(Passed(s, opened, end)') <= b.count + 1
      /\ Cardinality(Passed(s, opened, end)') <= Limit
  <2>1. Cardinality(Passed(s, opened, end)) <= b.count
    BY <1>a, <1>b DEF WithinLimit
  <2>2. Cardinality(Passed(s, opened, end)) \in Nat
    BY PassedFinite
  <2> QED BY <1>1, <1>2, <1>5, <2>1, <2>2
<1>7. ASSUME NEW x \in Int, x > opened - Window
      PROVE  Cardinality(Passed(s, x, opened)') < Limit
  <2>1. ~(r.at < opened)
    BY <1>1, <1>3
  <2>2. Passed(s, x, opened)' = Passed(s, x, opened)
    BY <2>1, PassedAfter
  <2> QED BY <1>7, <1>a, <1>b, <2>2 DEF WithinLimit
<1>8. ASSUME NEW x \in Int
      PROVE  Cardinality(Passed(s, x, x + Window)') < 2 * Limit
  <2>1. CASE ~(x <= r.at) \/ ~(r.at < x + Window)
    <3>1. Passed(s, x, x + Window)' = Passed(s, x, x + Window)
      BY <2>1, PassedAfter
    <3> QED BY <3>1 DEF WithinLimit
  <2>2. CASE x <= r.at /\ r.at < x + Window
    <3> DEFINE P == Passed(s, x, opened)'
               Q == Passed(s, opened, end)'
               A == Passed(s, x, x + Window)'
    <3>1. x > opened - Window
      BY <1>1, <1>3, <1>b, <2>2
    <3>2. A \subseteq P \union Q
      <4>1. ASSUME NEW p \in A PROVE p \in P \union Q
        <5>1. p \in runs' /\ Scope(p.req) = s /\ p.response.code # 429 /\ ~p.late
              /\ x <= p.at
          BY DEF Passed
        <5>2. p.at \in Nat /\ p.at < end
          BY <1>4, <5>1 DEF BaseInv, TypeOK, Runs
        <5> QED BY <1>3, <5>1, <5>2 DEF Passed
      <4> QED BY <4>1
    <3>3. /\ IsFiniteSet(P) /\ IsFiniteSet(Q)
          /\ Cardinality(P) \in Nat /\ Cardinality(Q) \in Nat
      BY PassedAfter
    <3>4. Cardinality(P) < Limit /\ Cardinality(Q) <= Limit
      BY <1>6, <1>7, <3>1
    <3>5. Cardinality(A) <= Cardinality(P) + Cardinality(Q)
      BY <3>2, <3>3, UnionBound
    <3>6. Cardinality(A) \in Nat
      BY PassedAfter
    <3> HIDE DEF P, Q, A
    <3>7. Cardinality(A) < 2 * Limit
      BY <1>1, <3>3, <3>4, <3>5, <3>6
    <3> QED BY <3>7 DEF A
  <2> QED BY <2>1, <2>2
<1>9. end = 0 \/ \E p \in Passed(s, opened, end)' : p.at = opened
  <2>1. end = 0 \/ \E p \in Passed(s, opened, end) : p.at = opened
    BY <1>a, <1>b DEF WithinLimit
  <2>2. Passed(s, opened, end) \subseteq Passed(s, opened, end)'
    BY PassedAfter
  <2> QED BY <2>1, <2>2
<1> QED BY <1>2, <1>4, <1>6, <1>7, <1>8, <1>9, <1>b DEF WithinLimit

\* A run that opens a window: the one before it was opened by a run outside any span
\* that reaches the new window, so the others in the span are fewer than the limit.
LEMMA LimitOpened ==
  ASSUME BaseInv, NEW s \in Scopes, WithinLimit(s), NEW r \in Runs,
         runs' = runs \union {r}, Scope(r.req) = s, r.response.code # 429, ~r.late,
         r.at >= buckets[s].resetAt, buckets'[s] = Counted(buckets[s], r.at)
  PROVE  WithinLimit(s)'
<1> DEFINE b == buckets[s]
<1>1. /\ b \in [resetAt : Nat, count : Nat] /\ r.at \in Nat /\ Window \in Nat \ {0}
      /\ Limit \in Nat \ {0}
  BY ControlPlaneAssumption DEF BaseInv, TypeOK, Runs
<1>2. PICK end \in Int : end = b.resetAt
  BY <1>1
<1>3. PICK opened \in Int : opened = end - Window
  BY <1>1
<1>4. PICK now \in Nat : now = r.at
  BY <1>1
<1>5. buckets'[s].resetAt = now + Window /\ buckets'[s].count = 1
  BY <1>1, <1>4 DEF Counted
<1>6. \A p \in runs : Scope(p.req) = s => p.at < end /\ p.at \in Nat
  BY <1>2 DEF WithinLimit, BaseInv, TypeOK
<1>7. \A p \in runs' : Scope(p.req) = s => p.at < now + Window
  BY <1>1, <1>2, <1>4, <1>6
\* The old runs of a span that ends after now lie in the old window, after its opener.
<1>8. ASSUME NEW x \in Int, x > now - Window, NEW hi \in Int
      PROVE  Cardinality(Passed(s, x, hi)) < Limit /\ Cardinality(Passed(s, x, hi)) \in Nat
  <2> DEFINE P == Passed(s, x, hi)
             W == Passed(s, opened, end)
  <2>1. IsFiniteSet(P) /\ IsFiniteSet(W) /\ Cardinality(P) \in Nat /\ Cardinality(W) \in Nat
    BY PassedFinite
  <2>2. ASSUME NEW p \in P PROVE p \in W /\ opened < p.at
    <3>1. p \in runs /\ Scope(p.req) = s /\ p.response.code # 429 /\ ~p.late /\ x <= p.at
      BY DEF Passed
    <3>2. p.at \in Nat /\ p.at < end
      BY <1>6, <3>1
    <3>3. opened < p.at /\ opened <= p.at
      BY <1>1, <1>2, <1>3, <1>4, <1>8, <3>1, <3>2
    <3> QED BY <3>1, <3>2, <3>3 DEF Passed
  <2>3. CASE end = 0
    <3>1. P = {}
      BY <1>6, <2>3 DEF Passed
    <3>2. Cardinality(P) = 0
      BY <3>1, FS_EmptySet
    <3> QED BY <1>1, <2>1, <3>2
  <2>4. CASE end # 0
    <3>1. PICK o \in W : o.at = opened
      BY <1>2, <1>3, <2>4 DEF WithinLimit
    <3>2. P \in SUBSET (W \ {o})
      BY <2>2, <3>1
    <3>3. Cardinality(W) <= Limit
      BY <1>2, <1>3 DEF WithinLimit
    <3> HIDE DEF P, W
    <3>4. IsFiniteSet(W \ {o}) /\ Cardinality(W \ {o}) = Cardinality(W) - 1
      BY <2>1, <3>1, FS_RemoveElement
    <3>5. Cardinality(P) <= Cardinality(W \ {o})
      BY <3>2, <3>4, FS_Subset
    <3>6. Cardinality(P) < Limit
      BY <1>1, <2>1, <3>3, <3>4, <3>5
    <3> QED BY <2>1, <3>6 DEF P
  <2> QED BY <2>3, <2>4
<1>9. Cardinality(Passed(s, now, now + Window)') <= 1
  <2>1. Passed(s, now, now + Window) = {}
    BY <1>1, <1>2, <1>4, <1>6 DEF Passed
  <2>2. Cardinality(Passed(s, now, now + Window)) = 0
    BY <2>1, FS_EmptySet
  <2> QED BY <2>2, PassedAfter
<1>10. ASSUME NEW x \in Int, x > now - Window
       PROVE  Cardinality(Passed(s, x, now)') < Limit
  <2>1. Passed(s, x, now)' = Passed(s, x, now)
    BY <1>1, <1>4, PassedAfter
  <2> QED BY <1>8, <1>10, <2>1
<1>11. ASSUME NEW x \in Int
       PROVE  Cardinality(Passed(s, x, x + Window)') < 2 * Limit
  <2>1. CASE ~(x <= r.at) \/ ~(r.at < x + Window)
    <3>1. Passed(s, x, x + Window)' = Passed(s, x, x + Window)
      BY <2>1, PassedAfter
    <3> QED BY <3>1 DEF WithinLimit
  <2>2. CASE x <= r.at /\ r.at < x + Window
    <3>1. x > now - Window /\ x + Window \in Int
      BY <1>1, <1>4, <2>2
    <3>2. Cardinality(Passed(s, x, x + Window)) < Limit
          /\ Cardinality(Passed(s, x, x + Window)) \in Nat
      BY <1>8, <3>1
    <3>3. /\ Cardinality(Passed(s, x, x + Window)') \in Nat
          /\ Cardinality(Passed(s, x, x + Window)') <= Cardinality(Passed(s, x, x + Window)) + 1
      BY PassedAfter
    <3> QED BY <1>1, <3>2, <3>3
  <2> QED BY <2>1, <2>2
<1>12. 1 <= Limit /\ Cardinality(Passed(s, now, now + Window)') \in Nat
  BY <1>1, <1>4, PassedAfter
<1>13. Cardinality(Passed(s, now, now + Window)') <= Limit
  BY <1>1, <1>9, <1>12
<1>14. PICK till \in Int : till = now + Window /\ now = till - Window
  BY <1>1
<1>15. r \in Passed(s, now, till)' /\ r.at = now
  <2>1. now <= r.at /\ r.at < till /\ r.at = now /\ r \in runs'
    BY <1>1, <1>4, <1>14
  <2> QED BY <2>1 DEF Passed
<1>16. /\ buckets'[s].resetAt = till /\ buckets'[s].count = 1
       /\ Cardinality(Passed(s, now, till)') <= 1 /\ Cardinality(Passed(s, now, till)') <= Limit
       /\ \A p \in runs' : Scope(p.req) = s => p.at < till
  BY <1>5, <1>7, <1>9, <1>13, <1>14
<1>17. /\ \A x \in Int : x > now - Window => Cardinality(Passed(s, x, now)') < Limit
       /\ \A x \in Int : Cardinality(Passed(s, x, x + Window)') < 2 * Limit
  BY <1>10, <1>11
<1> QED BY <1>14, <1>15, <1>16, <1>17 DEF WithinLimit

\* A limiter that has forgotten everything, with the runs.
LEMMA LimitFresh ==
  ASSUME NEW s \in Scopes, buckets[s] = NoBucket, runs = {}
  PROVE  WithinLimit(s)
<1>1. \A x, y : Passed(s, x, y) = {}
  BY DEF Passed
<1>2. \A x, y : Cardinality(Passed(s, x, y)) = 0
  BY <1>1, FS_EmptySet
<1>3. buckets[s].resetAt = 0 /\ buckets[s].count = 0
  BY DEF NoBucket
<1>4. 0 <= Limit /\ 0 < Limit /\ 0 < 2 * Limit /\ 0 <= 0
  BY ControlPlaneAssumption
<1> QED BY <1>2, <1>3, <1>4 DEF WithinLimit

LEMMA LimitHandle ==
  ASSUME BaseInv, LimitInv, NEW t \in Threads, Handle(t)
  PROVE  LimitInv'
<1>1. PICK r \in Runs :
         /\ runs' = runs \union {r} /\ r.at = call[t].seen /\ r.req = call[t].req
         /\ r.late <=> r.at < Counted(buckets[Scope(r.req)], r.at).resetAt - Window
         /\ r.response.code # 429 <=> Counted(buckets[Scope(r.req)], r.at).count <= Limit
  BY HandleRun
<1>2. PICK s \in Scopes : s = Scope(r.req)
  BY ScopeIsKnown DEF Runs
<1>3. buckets' = [buckets EXCEPT ![s] = Counted(buckets[s], r.at)]
  BY <1>1, <1>2 DEF Handle
<1>4. /\ buckets'[s] = Counted(buckets[s], r.at)
      /\ \A z \in Scopes : z # s => buckets'[z] = buckets[z]
  BY <1>3 DEF BaseInv, TypeOK
<1>5. ASSUME NEW z \in Scopes, z # s PROVE WithinLimit(z)'
  <2>1. \A lo, hi \in Int : Passed(z, lo, hi)' = Passed(z, lo, hi)
    BY <1>1, <1>2, <1>5, PassedAfter
  <2>2. \A p \in runs' : Scope(p.req) = z => p \in runs
    BY <1>1, <1>2, <1>5
  <2> QED BY <1>4, <1>5, <2>1, <2>2, LimitStays DEF LimitInv
<1>6. WithinLimit(s)'
  <2>1. /\ WithinLimit(s) /\ r.at \in Nat /\ buckets[s] \in [resetAt : Nat, count : Nat]
        /\ Limit \in Nat \ {0} /\ Window \in Nat \ {0}
    BY ControlPlaneAssumption DEF LimitInv, BaseInv, TypeOK, Runs
  <2>2. CASE r.at >= buckets[s].resetAt
    <3>1. Counted(buckets[s], r.at) = [resetAt |-> r.at + Window, count |-> 1]
      BY <2>2 DEF Counted
    <3>2. r.response.code # 429
      BY <1>1, <1>2, <2>1, <3>1
    <3>3. ~r.late
      BY <1>1, <1>2, <2>1, <3>1
    <3> QED BY <1>1, <1>2, <1>4, <2>1, <2>2, <3>2, <3>3, LimitOpened
  <2>3. CASE r.at < buckets[s].resetAt
    <3>1. Counted(buckets[s], r.at).resetAt = buckets[s].resetAt
      BY <2>1, <2>3 DEF Counted
    <3>2. CASE r.response.code = 429 \/ r.late
      BY <1>1, <1>2, <1>4, <2>1, <2>3, <3>2, LimitRefused
    <3>3. CASE r.response.code # 429 /\ ~r.late
      <4>1. buckets'[s].count <= Limit
        BY <1>1, <1>2, <1>4, <3>3
      <4>2. buckets[s].resetAt - Window <= r.at
        BY <1>1, <1>2, <2>1, <3>1, <3>3
      <4> QED BY <1>1, <1>2, <1>4, <2>1, <2>3, <4>1, <4>2, LimitCounted
    <3> QED BY <3>2, <3>3
  <2> QED BY <2>1, <2>2, <2>3
<1> QED BY <1>5, <1>6 DEF LimitInv

LEMMA LimitStep ==
  ASSUME BaseInv, LimitInv, [Next]_vars
  PROVE  LimitInv'
<1>1. ASSUME UNCHANGED <<buckets, runs>> PROVE LimitInv'
  <2>1. \A s, lo, hi : Passed(s, lo, hi)' = Passed(s, lo, hi)
    BY <1>1 DEF Passed
  <2> QED BY <1>1, <2>1, LimitStays DEF LimitInv
<1>2. ASSUME NEW t \in Threads, Early(t) \/ Lookup(t) \/ Store(t) PROVE LimitInv'
  <2>1. UNCHANGED <<buckets, runs>>
    BY <1>2, EarlyCall DEF Early, Lookup, Store, BaseInv
  <2> QED BY <1>1, <2>1
<1>3. CASE Restart
  <2>1. \A s \in Scopes : buckets'[s] = NoBucket
    BY <1>3 DEF Restart, NoBuckets
  <2>2. runs' = {}
    BY <1>3 DEF Restart
  <2>3. ASSUME NEW s \in Scopes PROVE WithinLimit(s)'
    <3>1. \A x, y : Passed(s, x, y)' = {}
      BY <2>2 DEF Passed
    <3>2. \A x, y : Cardinality(Passed(s, x, y)') = 0
      BY <3>1, FS_EmptySet
    <3>3. buckets'[s].resetAt = 0 /\ buckets'[s].count = 0
      BY <2>1 DEF NoBucket
    <3>4. 0 <= Limit /\ 0 < Limit /\ 0 < 2 * Limit /\ 0 <= 0
      BY ControlPlaneAssumption
    <3> QED BY <2>2, <3>2, <3>3, <3>4 DEF WithinLimit
  <2> QED BY <2>3 DEF LimitInv
<1>4. CASE Tick \/ UNCHANGED vars
  BY <1>1, <1>4 DEF Tick, vars
<1> QED BY <1>1, <1>2, <1>3, <1>4, LimitHandle, NextCases

\* The limiter's invariant holds in every reachable state, with the window that is
\* open and the one before it kept apart (rateLimiter.allow).
THEOREM LimitInvariance == Spec => []LimitInv
<1>1. Init => LimitInv
  <2> SUFFICES ASSUME Init, NEW s \in Scopes PROVE WithinLimit(s)
    BY DEF LimitInv
  <2>1. buckets[s] = NoBucket /\ runs = {}
    BY DEF Init, NoBuckets
  <2> QED BY <2>1, LimitFresh
<1>2. BaseInv /\ LimitInv /\ [Next]_vars => LimitInv'
  BY LimitStep
<1> QED BY <1>1, <1>2, BaseInvariance, PTL DEF Spec

\* A scope gets at most its limit in the window that is open and less than twice
\* its limit in any span as long as a window, requests that are counted late
\* excepted, for every limit, window and number of threads (rateLimiter.allow, and
\* Handle, where what it lets through runs).
THEOREM LimitIsKept == Spec => []LimitHolds
<1>1. BaseInv /\ LimitInv => LimitHolds
  <2> SUFFICES ASSUME BaseInv, LimitInv, NEW s \in Scopes
               PROVE  /\ Cardinality(Allowed(s, buckets[s].resetAt - Window)) <= Limit
                      /\ \A x \in 0..MaxClock : Cardinality(Allowed(s, x)) < 2 * Limit
    BY DEF LimitHolds
  <2>1. ASSUME NEW x \in Int PROVE Allowed(s, x) = Passed(s, x, x + Window)
    <3>1. \A r \in runs : r.at \in x..(x + Window - 1) <=> x <= r.at /\ r.at < x + Window
      BY ControlPlaneAssumption DEF BaseInv, TypeOK
    <3> QED BY <3>1 DEF Allowed, Passed
  <2>2. buckets[s].resetAt \in Int /\ Window \in Int /\ MaxClock \in Nat
    BY ControlPlaneAssumption DEF BaseInv, TypeOK
  <2>3. Cardinality(Allowed(s, buckets[s].resetAt - Window)) <= Limit
    BY <2>1, <2>2 DEF LimitInv, WithinLimit
  <2>4. \A x \in 0..MaxClock : Cardinality(Allowed(s, x)) < 2 * Limit
    BY <2>1, <2>2 DEF LimitInv, WithinLimit
  <2> QED BY <2>3, <2>4
<1> QED BY <1>1, BaseInvariance, LimitInvariance, PTL
===============================================================================
