----------------------------- MODULE RateLimiter -----------------------------
(***************************************************************************)
(* The in-memory rate limiter (auth/ratelimit.go): a map from keys to      *)
(* buckets of timestamps, the goroutines that call Allow, and the cleanup  *)
(* goroutine that sweeps the map.                                          *)
(*                                                                         *)
(* Allow takes the map's lock to find or make the bucket, lets go of it,   *)
(* and then takes the bucket's lock to count and append: two actions.      *)
(* cleanup keeps the map's lock for a whole sweep and takes each bucket's  *)
(* lock in turn, so between two of its steps only a caller that already    *)
(* holds its bucket can run.  The ticker fires at most once per tick of    *)
(* the clock, or never again, which is what Stop does.  Left out: SetLimit,*)
(* Reset and Remaining, which nothing calls, and an endpoint without a     *)
(* limit, which Allow lets through untouched.                              *)
(*                                                                         *)
(* A bucket's slice of timestamps is a set of stamps: only how many of     *)
(* them are in a window matters, and stamps of one tick are numbered.      *)
(***************************************************************************)
EXTENDS Integers, FiniteSets

CONSTANTS
  Keys,     \* endpoint ":" identifier
  Owner,    \* the endpoint of each key
  Claims,   \* the endpoints whose name and two more characters fit in the key, as
            \* cleanup matches them: none for "login:", of an empty identifier
  Requests, \* limitConfig.requests of each endpoint
  Window,   \* limitConfig.window of each endpoint, in ticks of the clock
  Callers,  \* goroutines that call Allow
  None,     \* no bucket
  Buckets,  \* addresses of buckets
  MaxTime   \* bound: the last tick of the clock

Endpoints == DOMAIN Requests

ASSUME EndpointsAssumption ==
  /\ Owner \in [Keys -> Endpoints]
  /\ Claims \in [Keys -> SUBSET Endpoints]
  /\ Requests \in [Endpoints -> Nat \ {0}]
  /\ Window \in [Endpoints -> Nat \ {0}]
ASSUME MaxTimeAssumption == MaxTime \in Nat
ASSUME NoneAssumption == None \notin Buckets

VARIABLES
  now,      \* the clock
  buckets,  \* rl.buckets: the bucket of each key, None without one
  entries,  \* the stamps in each bucket that somebody can still reach
  held,     \* what each caller looked up: a key and its bucket, or Idle
  sweep,    \* the cleanup goroutine: whether it holds rl.mu, its keys to go,
            \* and its now, or the time of its last sweep
  granted   \* ghost: the requests let through for each key, in their window

vars == <<now, buckets, entries, held, sweep, granted>>

Time == 0 .. MaxTime
Idle == [key |-> None, bucket |-> None]
NoSweep == [on |-> FALSE, todo |-> {}, now |-> 0]

\* A request in a bucket: its tick, and the how-manieth of the bucket in that tick.
Stamp == [at : Time, nth : Nat \ {0}]

\* A request let through: its stamp, and whether its bucket had left the map.
Grant == [at : Time, nth : Nat \ {0}, stray : BOOLEAN]

Init ==
  /\ now = 0
  /\ buckets = [k \in Keys |-> None]
  /\ entries = [b \in Buckets |-> {}]
  /\ held = [c \in Callers |-> Idle]
  /\ sweep = NoSweep
  /\ granted = [k \in Keys |-> {}]

-----------------------------------------------------------------------------
(* Helpers *)

\* "t.After(windowStart)" where windowStart is time - window
InWindow(t, time, window) == t > time - window

\* "Remove expired requests"
Valid(requests, time, window) == {t \in requests : InWindow(t.at, time, window)}

\* The stamp of a request that is added to those of a bucket now.
NextStamp(requests) ==
  [at |-> now, nth |-> Cardinality({t \in requests : t.at = now}) + 1]

Reachable(b) == \/ \E k \in Keys : buckets[k] = b
                \/ \E c \in Callers : held[c].bucket = b

\* The entries after a step: what nobody can reach any more is collected.
Collected(f) == [b \in Buckets |-> IF Reachable(b)' THEN f[b] ELSE {}]

\* What was let through for a key in the window that ends at a time.
Recent(k, time) == Valid(granted[k], time, Window[Owner[k]])

-----------------------------------------------------------------------------
(* Allow *)

\* Mutant: the bucket is found by the identifier alone, so endpoints share it.
LookupAcross(c, k) ==
  /\ held[c] = Idle
  /\ ~sweep.on
  /\ \/ \E l \in Keys : buckets[l] # None
                        /\ buckets' = [buckets EXCEPT ![k] = buckets[l]]
     \/ /\ \A l \in Keys : buckets[l] = None
        /\ \E b \in Buckets :
             ~Reachable(b) /\ buckets' = [buckets EXCEPT ![k] = b]
  /\ held' = [held EXCEPT ![c] = [key |-> k, bucket |-> buckets'[k]]]
  /\ UNCHANGED <<now, entries, sweep, granted>>

\* Under rl.mu: the bucket of the key, made if there is none.
Lookup(c, k) ==
  /\ held[c] = Idle
  /\ ~sweep.on
  /\ \/ /\ buckets[k] # None
        /\ UNCHANGED buckets
     \/ /\ buckets[k] = None
        /\ \E b \in Buckets :
             ~Reachable(b) /\ buckets' = [buckets EXCEPT ![k] = b]
  /\ held' = [held EXCEPT ![c] = [key |-> k, bucket |-> buckets'[k]]]
  /\ UNCHANGED <<now, entries, sweep, granted>>

\* Mutant: Allow counts every request the bucket still keeps.
CountedForever(k, b) == entries[b]

\* What is left of a bucket's requests when a caller counts them.
Counted(k, b) == Valid(entries[b], now, Window[Owner[k]])

\* "Check if under limit"
UnderLimit(k, b) == Cardinality(Counted(k, b)) < Requests[Owner[k]]

\* Under b.mu: count, and append or refuse.
Decide(c) ==
  /\ held[c] # Idle
  /\ held' = [held EXCEPT ![c] = Idle]
  /\ UNCHANGED <<now, buckets, sweep>>
  /\ LET k == held[c].key
         b == held[c].bucket
         kept == Counted(k, b)
         new == NextStamp(kept)
     IN \/ /\ ~UnderLimit(k, b)
           /\ entries' = Collected([entries EXCEPT ![b] = kept])
           /\ UNCHANGED granted
        \/ /\ UnderLimit(k, b)
           /\ entries' = Collected([entries EXCEPT ![b] = kept \cup {new}])
           /\ granted' = [granted EXCEPT ![k] = @ \cup
                {[at |-> new.at, nth |-> new.nth, stray |-> buckets[k] # b]}]

-----------------------------------------------------------------------------
(* cleanup *)

CleanupStart ==
  /\ ~sweep.on
  /\ now > sweep.now
  /\ sweep' = [on |-> TRUE, now |-> now,
               todo |-> {k \in Keys : buckets[k] # None}]
  /\ UNCHANGED <<now, buckets, entries, held, granted>>

\* Mutant: the sweep deletes a bucket only if it was empty before.
SweptLate(k, valid) ==
  /\ buckets' = IF entries[buckets[k]] = {} THEN [buckets EXCEPT ![k] = None]
                ELSE buckets
  /\ entries' = Collected([entries EXCEPT ![buckets[k]] = valid])

\* The sweep of one bucket keeps its valid requests, or deletes it.
Swept(k, valid) ==
  /\ buckets' = IF valid = {} THEN [buckets EXCEPT ![k] = None] ELSE buckets
  /\ entries' = Collected(IF valid = {} THEN entries
                          ELSE [entries EXCEPT ![buckets[k]] = valid])

\* Mutant: the window of whichever endpoint comes first, matched or not.
CleanupKeyUnmatched(k) ==
  /\ k \in sweep.todo
  /\ sweep' = [sweep EXCEPT !.todo = @ \ {k}]
  /\ UNCHANGED <<now, held, granted>>
  /\ \E e \in Endpoints :
       Swept(k, Valid(entries[buckets[k]], sweep.now, Window[e]))

\* "Find the endpoint from key": the first match in the map's random order.  A key
\* that no endpoint claims is passed over, and so keeps its bucket for good.
CleanupKey(k) ==
  /\ k \in sweep.todo
  /\ sweep' = [sweep EXCEPT !.todo = @ \ {k}]
  /\ UNCHANGED <<now, held, granted>>
  /\ \/ \E e \in Claims[k] :
          Swept(k, Valid(entries[buckets[k]], sweep.now, Window[e]))
     \/ Claims[k] = {} /\ UNCHANGED <<buckets, entries>>

CleanupEnd ==
  /\ sweep.on
  /\ sweep.todo = {}
  /\ sweep' = [sweep EXCEPT !.on = FALSE]
  /\ UNCHANGED <<now, buckets, entries, held, granted>>

-----------------------------------------------------------------------------
(* Time, and the system *)

Tick ==
  /\ now < MaxTime
  /\ now' = now + 1
  /\ granted' = [k \in Keys |-> Recent(k, now + 1)]
  /\ UNCHANGED <<buckets, entries, held, sweep>>

Next ==
  \/ \E c \in Callers : Decide(c) \/ \E k \in Keys : Lookup(c, k)
  \/ CleanupStart
  \/ \E k \in Keys : CleanupKey(k)
  \/ CleanupEnd
  \/ Tick

Spec == Init /\ [][Next]_vars

-----------------------------------------------------------------------------
(* Properties *)

\* The map, the buckets and what callers hold have their types, two keys never
\* share a bucket, and a caller that finds its bucket gone from the map holds one
\* that no key maps to: a bucket never changes hands.
TypeOK ==
  /\ now \in Time
  /\ buckets \in [Keys -> Buckets \cup {None}]
  /\ entries \in [Buckets -> SUBSET Stamp]
  /\ held \in [Callers -> {Idle} \cup [key : Keys, bucket : Buckets]]
  /\ sweep \in [on : BOOLEAN, todo : SUBSET Keys, now : Time]
  /\ granted \in [Keys -> SUBSET Grant]
  /\ \A k, l \in Keys : buckets[k] = buckets[l] /\ buckets[k] # None => k = l
  /\ \A c \in Callers, k \in Keys :
       held[c] # Idle /\ buckets[k] = held[c].bucket => held[c].key = k

\* "Check if under limit": however calls and sweeps interleave, no more requests of
\* a key are let through within its window than its limit, not counting those that
\* were recorded in a bucket the sweep had taken out of the map between a caller's
\* two locks.
WithinLimitInMap ==
  \A k \in Keys :
    Cardinality({g \in Recent(k, now) : ~g.stray}) <= Requests[Owner[k]]

\* Who would be refused has had the whole limit of the window: neither an expired
\* request, nor another key's, nor the sweep, nor another bucket of the same key counts
\* against a caller that has looked up its bucket.
NoUnfairRefusal ==
  \A c \in Callers :
    held[c] # Idle /\ ~UnderLimit(held[c].key, held[c].bucket)
      => Cardinality(Recent(held[c].key, now)) >= Requests[Owner[held[c].key]]

\* "cleanup removes expired buckets", as far as it can tell whose they are: when a sweep
\* ends, every bucket left in the map whose key some endpoint claims has a request in the
\* window of such an endpoint, seen from the moment when the sweep began, however
\* the map's order chose among them and whatever callers did to the bucket meanwhile.
\* A bucket that no endpoint claims is never removed.
SweepLeavesNoDeadBucket ==
  [][sweep.on /\ ~sweep'.on =>
       \A k \in Keys : buckets[k] # None /\ Claims[k] # {} =>
         \E e \in Claims[k] :
           Valid(entries[buckets[k]], sweep.now, Window[e]) # {}]_vars
=============================================================================
