-------------------------- MODULE RateLimiterProofs --------------------------
(***************************************************************************)
(* Proofs about RateLimiter, for any keys, limits and callers.             *)
(*                                                                         *)
(* Three inductive invariants.  LockInv is what the two locks keep         *)
(* whatever the cleanup does: which bucket is whose, that a bucket is      *)
(* empty when it is handed out, and that what a bucket counts was granted. *)
(* PassedIsAlive says that a bucket which the sweep has passed has a       *)
(* request it could have kept.  LimitInv needs the cleanup not to take a   *)
(* key for another endpoint's (SureOfEndpoint): what was granted in the    *)
(* window is still counted.                                                *)
(***************************************************************************)
EXTENDS RateLimiter, FiniteSetTheorems, TLAPS

\* The name of no other endpoint begins a key: cleanup finds the right window or none.
SureOfEndpoint == \A k \in Keys : Claims[k] \subseteq {Owner[k]}

\* A bucket is in the map for a key, or in the hands of a caller that looked it up.
Serves(b, k) == buckets[k] = b \/ \E c \in Callers : held[c] = [key |-> k, bucket |-> b]

AllFinite == /\ \A b \in Buckets : IsFiniteSet(entries[b])
             /\ \A k \in Keys : IsFiniteSet(granted[k])

\* Callers that hold one bucket hold it for one key.
HeldForOneKey == \A c, d \in Callers :
  held[c] # Idle /\ held[d] # Idle /\ held[c].bucket = held[d].bucket
    => held[c].key = held[d].key

FreshIsEmpty == \A b \in Buckets : ~Reachable(b) => entries[b] = {}

SweepState == /\ sweep.now <= now
              /\ ~sweep.on => sweep.todo = {}
              /\ \A k \in sweep.todo : buckets[k] # None

\* What a bucket counts for a key was granted to that key.
CountedWasGranted == \A k \in Keys, b \in Buckets : Serves(b, k) =>
  \A t \in Valid(entries[b], now, Window[Owner[k]]) :
    \E g \in granted[k] : g.at = t.at /\ g.nth = t.nth

LockInv == /\ TypeOK
           /\ AllFinite
           /\ HeldForOneKey
           /\ FreshIsEmpty
           /\ SweepState
           /\ CountedWasGranted

\* What was granted in the window and recorded in the map is in the bucket of the map.
GrantedIsCounted == \A k \in Keys : \A g \in Recent(k, now) :
  ~g.stray => buckets[k] # None /\ [at |-> g.at, nth |-> g.nth] \in entries[buckets[k]]

NeverOverLimit == \A k \in Keys, b \in Buckets : Serves(b, k) =>
  Cardinality(Valid(entries[b], now, Window[Owner[k]])) <= Requests[Owner[k]]

\* A bucket has a request in the window of an endpoint that claims its key, for a sweep.
Alive(k) == \E e \in Claims[k] : Valid(entries[buckets[k]], sweep.now, Window[e]) # {}

\* The buckets that the sweep has passed, but for those of keys nobody claims.
PassedIsAlive == sweep.on => \A k \in Keys \ sweep.todo :
  buckets[k] # None /\ Claims[k] # {} => Alive(k)

LimitInv == GrantedIsCounted /\ NeverOverLimit

-----------------------------------------------------------------------------
(* Lemmas about the helpers *)

LEMMA ConstantTypes ==
  /\ \A k \in Keys : Owner[k] \in Endpoints /\ Claims[k] \subseteq Endpoints
  /\ \A e \in Endpoints : Requests[e] \in Nat \ {0} /\ Window[e] \in Nat \ {0}
  /\ MaxTime \in Nat /\ None \notin Buckets
BY EndpointsAssumption, MaxTimeAssumption, NoneAssumption

\* What is left of a finite set of requests is finite and no bigger.
LEMMA ValidIsSmaller ==
  ASSUME NEW S, IsFiniteSet(S), NEW time, NEW window
  PROVE  /\ Valid(S, time, window) \subseteq S
         /\ IsFiniteSet(Valid(S, time, window))
         /\ Cardinality(Valid(S, time, window)) <= Cardinality(S)
<1>1. Valid(S, time, window) \subseteq S
  BY DEF Valid
<1>2. QED
  BY <1>1, FS_Subset

\* A later window keeps less.
LEMMA ValidShrinks ==
  ASSUME NEW S, \A t \in S : t.at \in Int, NEW T, T \subseteq S,
         NEW early \in Int, NEW late \in Int, early <= late, NEW window \in Int
  PROVE  Valid(T, late, window) \subseteq Valid(S, early, window)
BY DEF Valid, InWindow

\* The stamp of a new request has its type.
LEMMA NextStampType ==
  ASSUME now \in Time, NEW S, IsFiniteSet(S)
  PROVE  NextStamp(S) \in Stamp /\ NextStamp(S).at = now
<1>1. IsFiniteSet({t \in S : t.at = now})
  BY FS_Subset, {t \in S : t.at = now} \subseteq S
<1>2. Cardinality({t \in S : t.at = now}) \in Nat
  BY <1>1, FS_CardinalityType
<1>3. Cardinality({t \in S : t.at = now}) + 1 \in Nat \ {0}
  BY <1>2
<1>4. QED
  BY <1>3 DEF NextStamp, Stamp

-----------------------------------------------------------------------------
(* What the steps do to the buckets *)

\* What a decision does to the bucket that the caller holds, and to no other: it is
\* refused, or the request is added and granted.
Decided(c, k, b, kept) ==
  /\ k \in Keys /\ b \in Buckets /\ held[c] = [key |-> k, bucket |-> b]
  /\ kept = Valid(entries[b], now, Window[Owner[k]])
  /\ kept \subseteq entries[b] /\ IsFiniteSet(kept)
  /\ entries' \in [Buckets -> SUBSET Stamp]
  /\ entries'[b] \subseteq kept \cup {NextStamp(kept)}
  /\ buckets[k] = b => kept \subseteq entries'[b]
  /\ kept \subseteq entries'[b] \/ entries'[b] = {}
  /\ \A l \in Keys :
       buckets[l] \in Buckets \ {b} => entries'[buckets[l]] = entries[buckets[l]]
  /\ \A a \in Buckets \ {b} : entries'[a] = entries[a] \/ entries'[a] = {}
  /\ \A a \in Buckets : ~Reachable(a)' => entries'[a] = {}
  /\ \/ /\ Cardinality(kept) >= Requests[Owner[k]]
        /\ entries'[b] \subseteq kept
        /\ granted' = granted
     \/ /\ Cardinality(kept) < Requests[Owner[k]]
        /\ buckets[k] = b => entries'[b] = kept \cup {NextStamp(kept)}
        /\ \E g \in Grant :
             /\ g.at = now /\ g.nth = NextStamp(kept).nth
             /\ g.stray <=> buckets[k] # b
             /\ granted' = [granted EXCEPT ![k] = @ \cup {g}]

LEMMA DecideEffect ==
  ASSUME LockInv, NEW c \in Callers, Decide(c)
  PROVE  \E k, b, kept : Decided(c, k, b, kept)
<1> PICK k, b, kept : /\ k = held[c].key /\ b = held[c].bucket
                      /\ kept = Valid(entries[b], now, Window[Owner[k]])
  OBVIOUS
<1> DEFINE new == NextStamp(kept)
<1>1. /\ k \in Keys /\ b \in Buckets
      /\ held[c] = [key |-> k, bucket |-> b]
  BY DEF LockInv, TypeOK, Decide
<1>2. entries[b] \subseteq Stamp /\ IsFiniteSet(entries[b])
  BY <1>1 DEF LockInv, TypeOK, AllFinite
<1>3. kept \subseteq entries[b] /\ IsFiniteSet(kept)
  BY <1>2, ValidIsSmaller
<1>4. new \in Stamp /\ new.at = now
  BY <1>3, NextStampType DEF LockInv, TypeOK
<1>5. kept = Counted(k, b)
  BY DEF Counted
<1>6. Cardinality(kept) \in Nat /\ Requests[Owner[k]] \in Nat
  BY <1>1, <1>3, FS_CardinalityType, ConstantTypes
<1> DEFINE grant == [at |-> new.at, nth |-> new.nth, stray |-> buckets[k] # b]
<1>7. \/ /\ Cardinality(kept) >= Requests[Owner[k]]
         /\ entries' = [a \in Buckets |->
              IF Reachable(a)' THEN [entries EXCEPT ![b] = kept][a] ELSE {}]
         /\ UNCHANGED granted
      \/ /\ Cardinality(kept) < Requests[Owner[k]]
         /\ entries' = [a \in Buckets |->
              IF Reachable(a)' THEN [entries EXCEPT ![b] = kept \cup {new}][a] ELSE {}]
         /\ granted' = [granted EXCEPT ![k] = @ \cup {grant}]
  <2> HIDE DEF new
  <2>1. k = held[c].key /\ b = held[c].bucket
    OBVIOUS
  <2>2. new = NextStamp(Counted(k, b))
    BY <1>5 DEF new
  <2>3. QED
    BY <1>5, <1>6, <2>1, <2>2 DEF Decide, UnderLimit, Collected
<1>8. grant \in Grant
  <2>1. (buckets[k] # b) \in BOOLEAN
    OBVIOUS
  <2>2. new.at \in Time /\ new.nth \in Nat \ {0}
    BY <1>4 DEF LockInv, TypeOK, Stamp
  <2>3. QED
    BY <2>1, <2>2, Zenon DEF Grant
<1>9. grant.at = now /\ grant.nth = new.nth /\ (grant.stray <=> buckets[k] # b)
  BY <1>4, Zenon
<1> DEFINE added == IF Cardinality(kept) < Requests[Owner[k]] THEN kept \cup {new} ELSE kept
<1> HIDE DEF new, grant
<1>10. entries' = [a \in Buckets |->
         IF Reachable(a)' THEN [entries EXCEPT ![b] = added][a] ELSE {}]
  <2>1. CASE Cardinality(kept) < Requests[Owner[k]]
    <3>1. added = kept \cup {new}
      BY <2>1
    <3>2. ~(Cardinality(kept) >= Requests[Owner[k]])
      BY <1>6, <2>1
    <3> HIDE DEF added
    <3>3. QED
      BY <1>7, <3>1, <3>2
  <2>2. CASE ~(Cardinality(kept) < Requests[Owner[k]])
    <3>1. added = kept
      BY <2>2
    <3> HIDE DEF added
    <3>2. QED
      BY <1>7, <2>2, <3>1
  <2>3. QED
    BY <2>1, <2>2
<1>11. added \subseteq kept \cup {new} /\ kept \subseteq added /\ added \subseteq Stamp
  BY <1>2, <1>3, <1>4
<1> HIDE DEF added
<1>12. [entries EXCEPT ![b] = added] \in [Buckets -> SUBSET Stamp]
  BY <1>1, <1>11 DEF LockInv, TypeOK
<1>13. entries' \in [Buckets -> SUBSET Stamp]
  BY <1>10, <1>12
<1>14. \A a \in Buckets : [entries EXCEPT ![b] = added][a] = IF a = b THEN added ELSE entries[a]
  BY <1>1 DEF LockInv, TypeOK
<1>15. \A a \in Buckets :
         entries'[a] = IF Reachable(a)' THEN (IF a = b THEN added ELSE entries[a]) ELSE {}
  BY <1>10, <1>14
<1>16. /\ entries'[b] \subseteq added
       /\ buckets[k] = b => entries'[b] = added
       /\ \A l \in Keys : buckets[l] \in Buckets \ {b} => entries'[buckets[l]] = entries[buckets[l]]
  <2>1. \A l \in Keys, a \in Buckets : buckets[l] = a => Reachable(a)'
    BY DEF Reachable, Decide
  <2>2. QED
    BY <1>1, <1>15, <2>1
<1>17. /\ Cardinality(kept) >= Requests[Owner[k]] => added = kept
       /\ Cardinality(kept) < Requests[Owner[k]] => added = kept \cup {new}
  BY <1>6 DEF added
<1>18. /\ entries'[b] \subseteq kept \cup {new}
       /\ buckets[k] = b => kept \subseteq entries'[b]
       /\ kept \subseteq entries'[b] \/ entries'[b] = {}
       /\ \A a \in Buckets \ {b} : entries'[a] = entries[a] \/ entries'[a] = {}
       /\ \A a \in Buckets : ~Reachable(a)' => entries'[a] = {}
  <2>1. /\ entries'[b] \subseteq kept \cup {new}
        /\ buckets[k] = b => kept \subseteq entries'[b]
        /\ kept \subseteq entries'[b] \/ entries'[b] = {}
    BY <1>1, <1>11, <1>15, <1>16
  <2>2. \A a \in Buckets \ {b} : entries'[a] = entries[a] \/ entries'[a] = {}
    BY <1>15
  <2>3. \A a \in Buckets : ~Reachable(a)' => entries'[a] = {}
    BY <1>15
  <2>4. QED
    BY <2>1, <2>2, <2>3
<1>19. \/ /\ Cardinality(kept) >= Requests[Owner[k]]
          /\ entries'[b] \subseteq kept
          /\ granted' = granted
       \/ /\ Cardinality(kept) < Requests[Owner[k]]
          /\ buckets[k] = b => entries'[b] = kept \cup {new}
          /\ \E g \in Grant : /\ g.at = now /\ g.nth = new.nth
                              /\ g.stray <=> buckets[k] # b
                              /\ granted' = [granted EXCEPT ![k] = @ \cup {g}]
  BY <1>16, <1>17, <1>8, <1>9, <1>7
<1>20. Decided(c, k, b, kept)
  BY <1>1, <1>3, <1>13, <1>16, <1>18, <1>19 DEF new, Decided
<1> WITNESS k, b, kept
<1>21. QED
  BY <1>20

\* The sweep of a key leaves other buckets alone, and only takes requests away.
LEMMA CleanupEffect ==
  ASSUME LockInv, NEW k \in Keys, CleanupKey(k)
  PROVE  /\ k \in sweep.todo /\ buckets[k] \in Buckets
         /\ sweep' = [sweep EXCEPT !.todo = @ \ {k}]
         /\ UNCHANGED <<now, held, granted>>
         /\ entries' \in [Buckets -> SUBSET Stamp]
         /\ \A a \in Buckets : entries'[a] \subseteq entries[a]
         /\ \A a \in Buckets : ~Reachable(a)' => entries'[a] = {}
         /\ \A a \in Buckets \ {buckets[k]} : Reachable(a)' => entries'[a] = entries[a]
         /\ \/ Claims[k] = {} /\ UNCHANGED <<buckets, entries>>
            \/ \E e \in Claims[k] : LET valid == Valid(entries[buckets[k]], sweep.now, Window[e])
               IN \/ valid = {} /\ buckets' = [buckets EXCEPT ![k] = None]
                     /\ \A a \in Buckets : Reachable(a)' => entries'[a] = entries[a]
                  \/ valid # {} /\ buckets' = buckets /\ entries'[buckets[k]] = valid
<1>1. k \in sweep.todo /\ buckets[k] \in Buckets
  BY DEF LockInv, TypeOK, SweepState, CleanupKey
<1> PICK b \in Buckets : b = buckets[k]
  BY <1>1
<1>2. entries \in [Buckets -> SUBSET Stamp]
  BY DEF LockInv, TypeOK
<1>8. CASE Claims[k] = {} /\ UNCHANGED <<buckets, entries>>
  BY <1>1, <1>2, <1>8 DEF CleanupKey, LockInv, FreshIsEmpty, Reachable
<1> SUFFICES ASSUME ~(Claims[k] = {} /\ UNCHANGED <<buckets, entries>>)
             PROVE  /\ UNCHANGED <<now, held, granted>>
                    /\ sweep' = [sweep EXCEPT !.todo = @ \ {k}]
                    /\ entries' \in [Buckets -> SUBSET Stamp]
                    /\ \A a \in Buckets : entries'[a] \subseteq entries[a]
                    /\ \A a \in Buckets : ~Reachable(a)' => entries'[a] = {}
                    /\ \A a \in Buckets \ {b} : Reachable(a)' => entries'[a] = entries[a]
                    /\ \E e \in Claims[k] :
                         LET valid == Valid(entries[b], sweep.now, Window[e])
                         IN \/ valid = {} /\ buckets' = [buckets EXCEPT ![k] = None]
                               /\ \A a \in Buckets : Reachable(a)' => entries'[a] = entries[a]
                            \/ valid # {} /\ buckets' = buckets /\ entries'[b] = valid
  BY <1>1, <1>8
<1>3. PICK e \in Claims[k] : Swept(k, Valid(entries[b], sweep.now, Window[e]))
  BY DEF CleanupKey
<1> DEFINE valid == Valid(entries[b], sweep.now, Window[e])
<1>4. valid \subseteq entries[b]
  BY DEF Valid
<1> HIDE DEF valid
<1>5. CASE valid = {}
  <2>1. buckets' = [buckets EXCEPT ![k] = None] /\ entries' = Collected(entries)
    BY <1>3, <1>5 DEF Swept, valid
  <2>2. \A a \in Buckets : entries'[a] = IF Reachable(a)' THEN entries[a] ELSE {}
    BY <2>1 DEF Collected
  <2>3. entries' \in [Buckets -> SUBSET Stamp]
    BY <1>2, <2>1 DEF Collected
  <2>4. QED
    BY <1>1, <1>3, <1>5, <2>1, <2>2, <2>3 DEF CleanupKey, valid
<1>6. CASE valid # {}
  <2>1. buckets' = buckets /\ entries' = Collected([entries EXCEPT ![b] = valid])
    BY <1>3, <1>6 DEF Swept, valid
  <2>2. \A a \in Buckets :
          entries'[a] = IF Reachable(a)' THEN (IF a = b THEN valid ELSE entries[a]) ELSE {}
    BY <1>1, <1>2, <2>1 DEF Collected
  <2>3. [entries EXCEPT ![b] = valid] \in [Buckets -> SUBSET Stamp]
    BY <1>1, <1>2, <1>4
  <2>4. entries' \in [Buckets -> SUBSET Stamp]
    BY <2>1, <2>3 DEF Collected
  <2>5. Reachable(b)'
    BY <2>1 DEF Reachable
  <2>6. entries'[b] = valid
    BY <1>1, <2>2, <2>5
  <2>7. QED
    BY <1>1, <1>3, <1>4, <1>6, <2>1, <2>2, <2>4, <2>6 DEF CleanupKey, valid
<1>7. QED
  BY <1>5, <1>6

-----------------------------------------------------------------------------
(* The discipline of the locks *)

LEMMA InitLockInv == Init => LockInv
<1> SUFFICES ASSUME Init PROVE LockInv
  OBVIOUS
<1> USE DEF Init, Idle, NoSweep, Time
<1>1. TypeOK
  BY ConstantTypes DEF TypeOK
<1>2. AllFinite
  BY FS_EmptySet DEF AllFinite
<1>3. HeldForOneKey /\ FreshIsEmpty /\ SweepState
  BY ConstantTypes DEF HeldForOneKey, FreshIsEmpty, SweepState
<1>4. CountedWasGranted
  BY DEF CountedWasGranted, Valid
<1>5. QED
  BY <1>1, <1>2, <1>3, <1>4 DEF LockInv

\* A bucket serves one key.
LEMMA OneKeyServed ==
  ASSUME TypeOK, HeldForOneKey, NEW b \in Buckets, NEW k \in Keys, NEW l \in Keys,
         Serves(b, k), Serves(b, l)
  PROVE  k = l
BY NoneAssumption DEF TypeOK, HeldForOneKey, Serves, Idle

LEMMA ServingIsReachable ==
  ASSUME NEW b, NEW k \in Keys, Serves(b, k)
  PROVE  Reachable(b)
BY DEF Serves, Reachable

\* A caller gets the bucket of its key, or a fresh one that nobody can reach.
LEMMA LookupEffect ==
  ASSUME LockInv, NEW c \in Callers, NEW k \in Keys, Lookup(c, k)
  PROVE  \E b \in Buckets :
           /\ held[c] = Idle /\ ~sweep.on
           /\ held' = [held EXCEPT ![c] = [key |-> k, bucket |-> b]]
           /\ buckets' = [buckets EXCEPT ![k] = b]
           /\ buckets[k] = b \/ (buckets[k] = None /\ ~Reachable(b))
           /\ UNCHANGED <<now, entries, sweep, granted>>
<1>1. CASE buckets[k] # None
  <2>1. buckets[k] \in Buckets /\ buckets' = [buckets EXCEPT ![k] = buckets[k]]
    BY <1>1 DEF LockInv, TypeOK, Lookup
  <2>2. buckets'[k] = buckets[k]
    BY <1>1 DEF Lookup
  <2>3. QED
    BY <2>1, <2>2 DEF Lookup
<1>2. CASE buckets[k] = None
  <2>1. PICK b \in Buckets : ~Reachable(b) /\ buckets' = [buckets EXCEPT ![k] = b]
    BY <1>2 DEF Lookup
  <2>2. buckets'[k] = b
    BY <2>1 DEF LockInv, TypeOK
  <2>3. QED
    BY <1>2, <2>1, <2>2 DEF Lookup
<1>3. QED
  BY <1>1, <1>2

LEMMA LookupLockInv ==
  ASSUME LockInv, NEW c \in Callers, NEW k \in Keys, Lookup(c, k)
  PROVE  LockInv'
<1> USE ConstantTypes
<1>1. PICK b \in Buckets :
        /\ held[c] = Idle /\ ~sweep.on
        /\ held' = [held EXCEPT ![c] = [key |-> k, bucket |-> b]]
        /\ buckets' = [buckets EXCEPT ![k] = b]
        /\ buckets[k] = b \/ (buckets[k] = None /\ ~Reachable(b))
        /\ UNCHANGED <<now, entries, sweep, granted>>
  BY LookupEffect
<1>2. \A l \in Keys : buckets[l] = b => l = k
  BY <1>1 DEF LockInv, TypeOK, Reachable
<1>3. \A d \in Callers : held[d] # Idle /\ held[d].bucket = b => held[d].key = k
  BY <1>1 DEF LockInv, TypeOK, Reachable
<1>4. TypeOK'
  <2>1. /\ buckets' \in [Keys -> Buckets \cup {None}]
        /\ held' \in [Callers -> {Idle} \cup [key : Keys, bucket : Buckets]]
    BY <1>1 DEF LockInv, TypeOK
  <2>2. \A l, m \in Keys : buckets'[l] = buckets'[m] /\ buckets'[l] # None => l = m
    BY <1>1, <1>2 DEF LockInv, TypeOK
  <2>3. ASSUME NEW d \in Callers, NEW l \in Keys, held'[d] # Idle, buckets'[l] = held'[d].bucket
        PROVE  held'[d].key = l
    BY <1>1, <1>2, <1>3, <2>3 DEF LockInv, TypeOK
  <2>4. QED
    BY <1>1, <2>1, <2>2, <2>3 DEF LockInv, TypeOK
<1>5. AllFinite' /\ SweepState'
  BY <1>1 DEF LockInv, TypeOK, AllFinite, SweepState
<1>6. HeldForOneKey'
  BY <1>1, <1>3 DEF LockInv, TypeOK, HeldForOneKey
<1>7. FreshIsEmpty'
  <2>1. ASSUME NEW a \in Buckets, Reachable(a) PROVE Reachable(a)'
    BY <1>1, <2>1 DEF LockInv, TypeOK, Reachable, Idle
  <2>2. QED
    BY <1>1, <2>1 DEF LockInv, FreshIsEmpty
<1>8. CountedWasGranted'
  <2> SUFFICES ASSUME NEW l \in Keys, NEW a \in Buckets, Serves(a, l)',
                      NEW t \in Valid(entries[a], now, Window[Owner[l]])
               PROVE  \E g \in granted[l] : g.at = t.at /\ g.nth = t.nth
    BY <1>1 DEF CountedWasGranted, Valid
  <2>1. t \in entries[a]
    BY DEF Valid
  <2>2. Reachable(a)
    BY <1>1, <2>1 DEF LockInv, FreshIsEmpty
  <2>3. Serves(a, l)
    BY <1>1, <2>2 DEF Serves, LockInv, TypeOK
  <2>4. QED
    BY <2>3 DEF LockInv, CountedWasGranted
<1>9. QED
  BY <1>4, <1>5, <1>6, <1>7, <1>8 DEF LockInv

LEMMA DecideLockInv ==
  ASSUME LockInv, NEW c \in Callers, Decide(c)
  PROVE  LockInv'
<1>0. PICK k, b, kept : Decided(c, k, b, kept)
  BY DecideEffect
<1> DEFINE new == NextStamp(kept)
<1>1. /\ k \in Keys /\ b \in Buckets /\ held[c] = [key |-> k, bucket |-> b]
      /\ kept \subseteq entries[b] /\ IsFiniteSet(kept)
      /\ entries' \in [Buckets -> SUBSET Stamp]
      /\ entries'[b] \subseteq kept \cup {new}
      /\ \A a \in Buckets \ {b} : entries'[a] \subseteq entries[a]
      /\ \A a \in Buckets : ~Reachable(a)' => entries'[a] = {}
  BY <1>0 DEF Decided
<1>2. new \in Stamp /\ new.at = now
  BY <1>1, NextStampType DEF LockInv, TypeOK
<1>3. \/ entries'[b] \subseteq kept /\ granted' = granted
      \/ \E g \in Grant : /\ g.at = now /\ g.nth = new.nth
                          /\ granted' = [granted EXCEPT ![k] = @ \cup {g}]
  BY <1>0 DEF Decided
<1> HIDE DEF new
<1>4. /\ held' = [held EXCEPT ![c] = Idle]
      /\ UNCHANGED <<now, buckets, sweep>>
  BY DEF Decide
<1>5. /\ granted' \in [Keys -> SUBSET Grant]
      /\ \A l \in Keys : granted[l] \subseteq granted'[l]
  <2>1. CASE granted' = granted
    BY <2>1 DEF LockInv, TypeOK
  <2>2. ASSUME NEW g \in Grant, granted' = [granted EXCEPT ![k] = @ \cup {g}]
        PROVE  /\ granted' \in [Keys -> SUBSET Grant]
               /\ \A l \in Keys : granted[l] \subseteq granted'[l]
    BY <1>1, <2>2 DEF LockInv, TypeOK
  <2>3. QED
    BY <1>3, <2>1, <2>2
<1>6. TypeOK'
  <2>1. granted' \in [Keys -> SUBSET Grant]
    BY <1>5
  <2>2. held' \in [Callers -> {Idle} \cup [key : Keys, bucket : Buckets]]
    BY <1>4 DEF LockInv, TypeOK
  <2>3. ASSUME NEW d \in Callers, NEW l \in Keys, held'[d] # Idle, buckets'[l] = held'[d].bucket
        PROVE  held'[d].key = l
    BY <1>4, <2>3 DEF LockInv, TypeOK
  <2>4. QED
    BY <1>1, <1>4, <2>1, <2>2, <2>3 DEF LockInv, TypeOK
<1>7. AllFinite'
  <2>1. IsFiniteSet(kept \cup {new})
    <3>1. IsFiniteSet(kept)
      BY <1>1
    <3>2. ASSUME NEW x PROVE IsFiniteSet(kept \cup {x})
      BY <3>1, FS_AddElement
    <3>3. QED
      BY <3>2
  <2>2. ASSUME NEW a \in Buckets PROVE IsFiniteSet(entries'[a])
    <3>1. CASE a = b
      BY <1>1, <2>1, <3>1, FS_Subset
    <3>2. CASE a # b
      <4>1. entries'[a] \in SUBSET entries[a] /\ IsFiniteSet(entries[a])
        BY <1>1, <3>2 DEF LockInv, AllFinite
      <4>2. QED
        BY <4>1, FS_Subset
    <3>3. QED
      BY <3>1, <3>2
  <2>3. ASSUME NEW l \in Keys PROVE IsFiniteSet(granted'[l])
    <3>1. IsFiniteSet(granted[l])
      BY DEF LockInv, AllFinite
    <3>2. \/ granted'[l] = granted[l]
          \/ \E g \in Grant : granted'[l] = granted[l] \cup {g}
      BY <1>3 DEF LockInv, TypeOK
    <3>3. ASSUME NEW g PROVE IsFiniteSet(granted[l] \cup {g})
      BY <3>1, FS_AddElement
    <3>4. QED
      BY <3>1, <3>2, <3>3
  <2>4. QED
    BY <2>2, <2>3 DEF AllFinite
<1>8. HeldForOneKey' /\ SweepState'
  BY <1>1, <1>4 DEF LockInv, TypeOK, HeldForOneKey, SweepState
<1>9. FreshIsEmpty'
  BY <1>1 DEF FreshIsEmpty
<1>10. CountedWasGranted'
  <2> SUFFICES ASSUME NEW l \in Keys, NEW a \in Buckets, Serves(a, l)',
                      NEW t \in Valid(entries'[a], now, Window[Owner[l]])
               PROVE  \E g \in granted'[l] : g.at = t.at /\ g.nth = t.nth
    BY <1>4 DEF CountedWasGranted, Valid
  <2>1. Serves(a, l)
    BY <1>1, <1>4, NoneAssumption DEF Serves, LockInv, TypeOK, Idle
  <2>2. t \in entries'[a] /\ InWindow(t.at, now, Window[Owner[l]])
    BY DEF Valid
  <2>3. CASE t \in entries[a]
    <3>1. t \in Valid(entries[a], now, Window[Owner[l]])
      BY <2>2, <2>3 DEF Valid
    <3>2. PICK g \in granted[l] : g.at = t.at /\ g.nth = t.nth
      BY <2>1, <3>1 DEF LockInv, CountedWasGranted
    <3>3. QED
      BY <1>5, <3>2
  <2>4. CASE t \notin entries[a]
    <3>1. a = b /\ t = new /\ ~(entries'[b] \subseteq kept)
      BY <1>1, <2>2, <2>4
    <3>2. Serves(b, k) /\ Serves(b, l)
      BY <1>1, <2>1, <3>1 DEF Serves
    <3>3. l = k
      BY <1>1, <3>2, OneKeyServed DEF LockInv
    <3>4. PICK g \in Grant : /\ g.at = now /\ g.nth = new.nth
                             /\ granted' = [granted EXCEPT ![k] = @ \cup {g}]
      BY <1>3, <3>1
    <3>5. g \in granted'[l]
      BY <1>1, <3>3, <3>4 DEF LockInv, TypeOK
    <3>6. QED
      BY <1>2, <3>1, <3>4, <3>5
  <2>5. QED
    BY <2>3, <2>4
<1>11. QED
  BY <1>6, <1>7, <1>8, <1>9, <1>10 DEF LockInv

LEMMA CleanupLockInv ==
  ASSUME LockInv, NEW k \in Keys, CleanupKey(k)
  PROVE  LockInv'
<1> USE ConstantTypes
<1>1. /\ k \in sweep.todo /\ buckets[k] \in Buckets
      /\ sweep' = [sweep EXCEPT !.todo = @ \ {k}]
      /\ UNCHANGED <<now, held, granted>>
      /\ entries' \in [Buckets -> SUBSET Stamp]
      /\ \A a \in Buckets : entries'[a] \subseteq entries[a]
      /\ \A a \in Buckets : ~Reachable(a)' => entries'[a] = {}
      /\ buckets' = buckets \/ buckets' = [buckets EXCEPT ![k] = None]
  BY CleanupEffect
<1>2. /\ buckets' \in [Keys -> Buckets \cup {None}]
      /\ \A l \in Keys : buckets'[l] # None => buckets'[l] = buckets[l]
      /\ \A l \in Keys \ {k} : buckets'[l] = buckets[l]
  BY <1>1 DEF LockInv, TypeOK
<1>3. /\ sweep' \in [on : BOOLEAN, todo : SUBSET Keys, now : Time]
      /\ sweep'.now = sweep.now /\ sweep'.on = sweep.on /\ sweep'.todo = sweep.todo \ {k}
  BY <1>1 DEF LockInv, TypeOK
<1>4. TypeOK'
  <2>1. \A l, m \in Keys : buckets'[l] = buckets'[m] /\ buckets'[l] # None => l = m
    BY <1>2 DEF LockInv, TypeOK
  <2>2. ASSUME NEW c \in Callers, NEW l \in Keys, held'[c] # Idle, buckets'[l] = held'[c].bucket
        PROVE  held'[c].key = l
    <3>1. buckets'[l] # None
      BY <1>1, <2>2 DEF LockInv, TypeOK
    <3>2. QED
      BY <1>1, <1>2, <2>2, <3>1 DEF LockInv, TypeOK
  <2>3. QED
    BY <1>1, <1>2, <1>3, <2>1, <2>2 DEF LockInv, TypeOK
<1>5. AllFinite'
  <2>1. ASSUME NEW a \in Buckets PROVE IsFiniteSet(entries'[a])
    <3>1. entries'[a] \in SUBSET entries[a] /\ IsFiniteSet(entries[a])
      BY <1>1 DEF LockInv, AllFinite
    <3>2. QED
      BY <3>1, FS_Subset
  <2>2. QED
    BY <1>1, <2>1 DEF LockInv, AllFinite
<1>6. HeldForOneKey' /\ FreshIsEmpty' /\ SweepState'
  BY <1>1, <1>2, <1>3 DEF LockInv, HeldForOneKey, FreshIsEmpty, SweepState
<1>7. CountedWasGranted'
  <2> SUFFICES ASSUME NEW l \in Keys, NEW a \in Buckets, Serves(a, l)',
                      NEW t \in Valid(entries'[a], now, Window[Owner[l]])
               PROVE  \E g \in granted[l] : g.at = t.at /\ g.nth = t.nth
    BY <1>1 DEF CountedWasGranted, Valid
  <2>1. Serves(a, l)
    BY <1>1, <1>2 DEF Serves
  <2>2. t \in Valid(entries[a], now, Window[Owner[l]])
    BY <1>1 DEF Valid
  <2>3. QED
    BY <2>1, <2>2 DEF LockInv, CountedWasGranted
<1>8. QED
  BY <1>4, <1>5, <1>6, <1>7 DEF LockInv

\* Only time can change the window, and it can only move on.
LEMMA TickLockInv == ASSUME LockInv, Tick PROVE LockInv'
<1> USE ConstantTypes
<1>1. /\ now \in Int /\ now' = now + 1 /\ now' \in Time
      /\ granted' = [k \in Keys |-> Recent(k, now + 1)]
      /\ UNCHANGED <<buckets, entries, held, sweep>>
  BY DEF LockInv, TypeOK, Tick, Time
<1>2. \A k \in Keys : granted'[k] \subseteq granted[k]
  BY <1>1 DEF Recent, Valid
<1>3. TypeOK'
  <2>1. granted' \in [Keys -> SUBSET Grant]
    BY <1>1, <1>2 DEF LockInv, TypeOK
  <2>2. QED
    BY <1>1, <2>1 DEF LockInv, TypeOK
<1>4. AllFinite'
  <2>1. ASSUME NEW k \in Keys PROVE IsFiniteSet(granted'[k])
    <3>1. granted'[k] \in SUBSET granted[k] /\ IsFiniteSet(granted[k])
      BY <1>2 DEF LockInv, AllFinite
    <3>2. QED
      BY <3>1, FS_Subset
  <2>2. QED
    BY <1>1, <2>1 DEF LockInv, AllFinite
<1>5. HeldForOneKey' /\ FreshIsEmpty'
  BY <1>1 DEF LockInv, HeldForOneKey, FreshIsEmpty, Reachable
<1>6. SweepState'
  BY <1>1 DEF LockInv, TypeOK, SweepState, Time
<1>7. CountedWasGranted'
  <2> SUFFICES ASSUME NEW k \in Keys, NEW b \in Buckets, Serves(b, k)',
                      NEW t \in Valid(entries[b], now', Window[Owner[k]])
               PROVE  \E g \in granted'[k] : g.at = t.at /\ g.nth = t.nth
    BY <1>1 DEF CountedWasGranted, Valid
  <2>1. Serves(b, k)
    BY <1>1 DEF Serves
  <2>2. t \in entries[b] /\ t.at \in Int /\ t.at > now + 1 - Window[Owner[k]]
    BY <1>1 DEF Valid, InWindow, LockInv, TypeOK, Stamp, Time
  <2>3. t.at > now - Window[Owner[k]]
    BY <1>1, <2>2
  <2>4. t \in Valid(entries[b], now, Window[Owner[k]])
    BY <2>2, <2>3 DEF Valid, InWindow
  <2>5. PICK g \in granted[k] : g.at = t.at /\ g.nth = t.nth
    BY <2>1, <2>4 DEF LockInv, CountedWasGranted
  <2>6. g \in granted'[k]
    BY <1>1, <2>2, <2>5 DEF Recent, Valid, InWindow
  <2>7. QED
    BY <2>5, <2>6
<1>8. QED
  BY <1>3, <1>4, <1>5, <1>6, <1>7 DEF LockInv

\* The sweep begins and ends without touching a bucket.
LEMMA SweepLockInv == ASSUME LockInv, CleanupStart \/ CleanupEnd PROVE LockInv'
<1> USE DEF LockInv, TypeOK
<1>1. UNCHANGED <<now, buckets, entries, held, granted>>
  BY DEF CleanupStart, CleanupEnd
<1>2. SweepState' /\ sweep' \in [on : BOOLEAN, todo : SUBSET Keys, now : Time]
  <2>1. CASE CleanupStart
    <3>1. sweep' = [on |-> TRUE, now |-> now, todo |-> {k \in Keys : buckets[k] # None}]
      BY <2>1 DEF CleanupStart
    <3>2. QED
      BY <1>1, <3>1 DEF SweepState, Time
  <2>2. CASE CleanupEnd
    <3>1. sweep' = [sweep EXCEPT !.on = FALSE] /\ sweep.todo = {}
      BY <2>2 DEF CleanupEnd
    <3>2. QED
      BY <1>1, <3>1 DEF SweepState
  <2>3. QED
    BY <2>1, <2>2
<1>3. AllFinite' /\ HeldForOneKey' /\ FreshIsEmpty'
  BY <1>1 DEF AllFinite, HeldForOneKey, FreshIsEmpty, Reachable
<1>4. CountedWasGranted'
  BY <1>1 DEF CountedWasGranted, Serves
<1>5. QED
  BY <1>1, <1>2, <1>3, <1>4

LEMMA NextLockInv == LockInv /\ [Next]_vars => LockInv'
<1> SUFFICES ASSUME LockInv, [Next]_vars PROVE LockInv'
  OBVIOUS
<1>1. CASE Next
  BY <1>1, LookupLockInv, DecideLockInv, CleanupLockInv, SweepLockInv, TickLockInv DEF Next
<1>2. CASE UNCHANGED vars
  BY <1>2 DEF LockInv, TypeOK, AllFinite, HeldForOneKey, FreshIsEmpty, SweepState,
     CountedWasGranted, Reachable, Serves, vars
<1>3. QED
  BY <1>1, <1>2

LEMMA LocksKept == Spec => []LockInv
BY InitLockInv, NextLockInv, PTL DEF Spec

\* The map and what the callers hold are always well typed, and a bucket never changes
\* hands: not even the sweep lets a key have another's.
THEOREM TypeCorrect == Spec => []TypeOK
<1>1. LockInv => TypeOK
  BY DEF LockInv
<1>2. QED
  BY LocksKept, <1>1, PTL

\* Each request that a bucket counts has a grant of its own.
LEMMA CountedInGranted ==
  ASSUME LockInv, NEW k \in Keys, NEW b \in Buckets, Serves(b, k)
  PROVE  /\ Cardinality(Counted(k, b)) \in Nat
         /\ Cardinality(Recent(k, now)) \in Nat
         /\ Cardinality(Counted(k, b)) <= Cardinality(Recent(k, now))
<1> DEFINE S == Counted(k, b)
           T == Recent(k, now)
           Of(t) == CHOOSE g \in T : g.at = t.at /\ g.nth = t.nth
           f == [t \in S |-> Of(t)]
<1>1. IsFiniteSet(S) /\ IsFiniteSet(T)
  BY ValidIsSmaller DEF LockInv, AllFinite, Counted, Recent
<1>2. S \subseteq Stamp
  BY DEF Counted, Valid, LockInv, TypeOK
<1>3. ASSUME NEW t \in S PROVE \E g \in T : g.at = t.at /\ g.nth = t.nth
  BY DEF LockInv, CountedWasGranted, Counted, Recent, Valid
<1>4. ASSUME NEW t \in S PROVE Of(t) \in T /\ Of(t).at = t.at /\ Of(t).nth = t.nth
  BY <1>3
<1> HIDE DEF S, T, Of
<1>5. \A t, u \in S : f[t] = f[u] => t = u
  BY <1>2, <1>4 DEF Stamp
<1>6. f \in Injection(S, T)
  BY <1>4, <1>5 DEF Injection, IsInjective
<1>7. Cardinality(S) <= Cardinality(T)
  BY <1>1, <1>6, FS_Injection
<1>8. QED
  BY <1>1, <1>7, FS_CardinalityType DEF S, T

\* Whoever is refused has had the whole limit of the window, whatever the sweep did.
THEOREM RefusedWereServed == Spec => []NoUnfairRefusal
<1>1. ASSUME LockInv, NEW c \in Callers, held[c] # Idle,
             ~UnderLimit(held[c].key, held[c].bucket)
      PROVE  Cardinality(Recent(held[c].key, now)) >= Requests[Owner[held[c].key]]
  <2> DEFINE k == held[c].key
             b == held[c].bucket
  <2>1. k \in Keys /\ b \in Buckets /\ held[c] = [key |-> k, bucket |-> b]
    BY <1>1 DEF LockInv, TypeOK
  <2>2. Serves(b, k)
    BY <2>1 DEF Serves
  <2>3. /\ Cardinality(Counted(k, b)) \in Nat /\ Cardinality(Recent(k, now)) \in Nat
        /\ Cardinality(Counted(k, b)) <= Cardinality(Recent(k, now))
    BY <1>1, <2>1, <2>2, CountedInGranted
  <2>4. ~(Cardinality(Counted(k, b)) < Requests[Owner[k]])
    BY <1>1 DEF UnderLimit
  <2>5. Requests[Owner[k]] \in Nat
    BY <2>1, ConstantTypes
  <2> HIDE DEF k, b
  <2>6. Cardinality(Recent(k, now)) >= Requests[Owner[k]]
    BY <2>3, <2>4, <2>5
  <2>7. QED
    BY <2>6 DEF k
<1>2. LockInv => NoUnfairRefusal
  BY <1>1 DEF NoUnfairRefusal
<1>3. QED
  BY LocksKept, <1>2, PTL

-----------------------------------------------------------------------------
(* The limit, where the cleanup is sure of the endpoint *)

LEMMA AddedAtMostOne ==
  ASSUME NEW S, IsFiniteSet(S), NEW x
  PROVE  /\ IsFiniteSet(S \cup {x})
         /\ Cardinality(S \cup {x}) \in Nat
         /\ Cardinality(S \cup {x}) <= Cardinality(S) + 1
<1>1. IsFiniteSet(S \cup {x}) /\ Cardinality(S) \in Nat
  BY FS_AddElement, FS_CardinalityType
<1>2. Cardinality(S \cup {x}) = Cardinality(S) \/ Cardinality(S \cup {x}) = Cardinality(S) + 1
  BY FS_AddElement
<1>3. QED
  BY <1>1, <1>2

LEMMA InitLimitInv == Init => LimitInv
<1> SUFFICES ASSUME Init PROVE LimitInv
  OBVIOUS
<1>1. \A k \in Keys : Valid({}, now, Window[Owner[k]]) = {}
  BY DEF Valid
<1>2. NeverOverLimit
  <2>1. \A k \in Keys, b \in Buckets :
          Cardinality(Valid(entries[b], now, Window[Owner[k]])) = 0 /\ Requests[Owner[k]] \in Nat
    BY <1>1, FS_EmptySet, ConstantTypes DEF Init
  <2>2. QED
    BY <2>1 DEF NeverOverLimit
<1>3. QED
  BY <1>2 DEF Init, LimitInv, GrantedIsCounted, Recent, Valid

\* Fewer requests are within the limit, too.
LEMMA FewerWithinLimit ==
  ASSUME NEW S, IsFiniteSet(S), NEW T, T \subseteq S, NEW n \in Nat, Cardinality(S) <= n
  PROVE  Cardinality(T) <= n
<1>1. IsFiniteSet(T) /\ Cardinality(T) <= Cardinality(S)
  BY FS_Subset
<1>2. Cardinality(S) \in Nat /\ Cardinality(T) \in Nat
  BY <1>1, FS_CardinalityType
<1>3. QED
  BY <1>1, <1>2

\* A bucket that loses requests, or time, stays within the limit.
LEMMA LimitShrinks ==
  ASSUME LockInv, NeverOverLimit, NEW k \in Keys, NEW b \in Buckets, Serves(b, k),
         NEW T, T \subseteq Valid(entries[b], now, Window[Owner[k]])
  PROVE  Cardinality(T) <= Requests[Owner[k]]
<1>1. IsFiniteSet(Valid(entries[b], now, Window[Owner[k]]))
  BY ValidIsSmaller DEF LockInv, AllFinite
<1>2. Cardinality(Valid(entries[b], now, Window[Owner[k]])) <= Requests[Owner[k]]
  BY DEF NeverOverLimit
<1>3. QED
  BY <1>1, <1>2, FewerWithinLimit, ConstantTypes

LEMMA LookupLimitInv ==
  ASSUME LockInv, LimitInv, NEW c \in Callers, NEW k \in Keys, Lookup(c, k)
  PROVE  LimitInv'
<1> USE ConstantTypes
<1>1. PICK b \in Buckets :
        /\ held[c] = Idle /\ ~sweep.on
        /\ held' = [held EXCEPT ![c] = [key |-> k, bucket |-> b]]
        /\ buckets' = [buckets EXCEPT ![k] = b]
        /\ buckets[k] = b \/ (buckets[k] = None /\ ~Reachable(b))
        /\ UNCHANGED <<now, entries, sweep, granted>>
  BY LookupEffect
<1>2. GrantedIsCounted'
  BY <1>1 DEF LimitInv, GrantedIsCounted, Recent, LockInv, TypeOK
<1>3. NeverOverLimit'
  <2> SUFFICES ASSUME NEW l \in Keys, NEW a \in Buckets, Serves(a, l)'
               PROVE  Cardinality(Valid(entries[a], now, Window[Owner[l]])) <= Requests[Owner[l]]
    BY <1>1 DEF NeverOverLimit, Valid
  <2>1. CASE Serves(a, l)
    BY <2>1 DEF LimitInv, NeverOverLimit
  <2>2. CASE ~Serves(a, l)
    <3>1. ~Reachable(a)
      BY <1>1, <2>2 DEF Serves, LockInv, TypeOK
    <3>2. Valid(entries[a], now, Window[Owner[l]]) = {}
      BY <3>1 DEF LockInv, FreshIsEmpty, Valid
    <3>3. QED
      BY <3>2, FS_EmptySet
  <2>3. QED
    BY <2>1, <2>2
<1>4. QED
  BY <1>2, <1>3 DEF LimitInv

\* Who decides counts before it adds.
LEMMA DecideLimitInv ==
  ASSUME LockInv, LimitInv, NEW c \in Callers, Decide(c)
  PROVE  LimitInv'
<1>1. PICK k, b, kept : Decided(c, k, b, kept)
  BY DecideEffect
<1> DEFINE new == NextStamp(kept)
           W(l) == Window[Owner[l]]
<1>2. /\ k \in Keys /\ b \in Buckets /\ held[c] = [key |-> k, bucket |-> b]
      /\ kept = Valid(entries[b], now, W(k))
      /\ IsFiniteSet(kept)
      /\ entries'[b] \subseteq kept \cup {new}
      /\ buckets[k] = b => kept \subseteq entries'[b]
      /\ \A l \in Keys :
           buckets[l] \in Buckets \ {b} => entries'[buckets[l]] = entries[buckets[l]]
      /\ \A a \in Buckets \ {b} : entries'[a] \subseteq entries[a]
  BY <1>1 DEF Decided
<1>3. \/ /\ Cardinality(kept) >= Requests[Owner[k]]
         /\ entries'[b] \subseteq kept
         /\ granted' = granted
      \/ /\ Cardinality(kept) < Requests[Owner[k]]
         /\ buckets[k] = b => entries'[b] = kept \cup {new}
         /\ \E g \in Grant : /\ g.at = now /\ g.nth = new.nth
                             /\ g.stray <=> buckets[k] # b
                             /\ granted' = [granted EXCEPT ![k] = @ \cup {g}]
  BY <1>1 DEF Decided
<1>4. new \in Stamp /\ new.at = now
  BY <1>2, NextStampType DEF LockInv, TypeOK
<1>5. now \in Int /\ sweep.now \in Int /\ sweep.now <= now
  BY DEF LockInv, TypeOK, SweepState, Time
<1>6. \A l \in Keys : W(l) \in Nat \ {0} /\ Requests[Owner[l]] \in Nat \ {0}
  BY ConstantTypes
<1>7. Cardinality(kept) \in Nat
  BY <1>2, FS_CardinalityType
<1>8. /\ held' = [held EXCEPT ![c] = Idle]
      /\ UNCHANGED <<now, buckets, sweep>>
  BY DEF Decide
<1>9. ASSUME NEW l \in Keys, Serves(b, l) PROVE l = k
  <2>1. Serves(b, k)
    BY <1>2 DEF Serves
  <2>2. QED
    BY <1>2, <1>9, <2>1, OneKeyServed DEF LockInv
<1>10. \A l \in Keys : buckets[l] \in Buckets \cup {None}
  BY DEF LockInv, TypeOK
<1> HIDE DEF new, W
<1>11. GrantedIsCounted'
  <2> SUFFICES ASSUME NEW l \in Keys, NEW g \in Recent(l, now)', ~g.stray
               PROVE  /\ buckets[l] # None
                      /\ [at |-> g.at, nth |-> g.nth] \in entries'[buckets[l]]
    BY <1>8 DEF GrantedIsCounted
  <2>1. g \in granted'[l] /\ InWindow(g.at, now, Window[Owner[l]])
    BY <1>8 DEF Recent, Valid
  <2>2. CASE g \in granted[l]
    <3>1. g \in Recent(l, now)
      BY <2>1, <2>2 DEF Recent, Valid
    <3>2. /\ buckets[l] # None
          /\ [at |-> g.at, nth |-> g.nth] \in entries[buckets[l]]
      BY <3>1 DEF LimitInv, GrantedIsCounted
    <3>3. CASE buckets[l] = b
      <4>1. l = k
        BY <1>9, <3>3 DEF Serves
      <4>2. [at |-> g.at, nth |-> g.nth] \in kept
        BY <1>2, <2>1, <3>2, <3>3, <4>1 DEF Valid, W
      <4>3. QED
        BY <1>2, <3>2, <3>3, <4>1, <4>2
    <3>4. CASE buckets[l] # b
      <4>1. entries'[buckets[l]] = entries[buckets[l]]
        BY <1>2, <1>10, <3>2, <3>4
      <4>2. QED
        BY <3>2, <4>1
    <3>5. QED
      BY <3>3, <3>4
  <2>3. CASE g \notin granted[l]
    <3>1. PICK h \in Grant : /\ h.at = now /\ h.nth = new.nth
                             /\ h.stray <=> buckets[k] # b
                             /\ granted' = [granted EXCEPT ![k] = @ \cup {h}]
      BY <1>3, <2>1, <2>3
    <3>2. l = k /\ g = h
      BY <1>2, <2>1, <2>3, <3>1 DEF LockInv, TypeOK
    <3>3. buckets[k] = b
      BY <3>1, <3>2
    <3>4. Cardinality(kept) < Requests[Owner[k]]
      BY <1>3, <2>1, <2>3
    <3>5. entries'[b] = kept \cup {new}
      BY <1>2, <1>3, <1>6, <1>7, <3>3, <3>4
    <3>6. new = [at |-> g.at, nth |-> g.nth]
      BY <1>4, <3>1, <3>2 DEF Stamp
    <3>7. QED
      BY <1>2, <3>2, <3>3, <3>5, <3>6, ConstantTypes
  <2>4. QED
    BY <2>2, <2>3
<1>12. NeverOverLimit'
  <2> SUFFICES ASSUME NEW l \in Keys, NEW a \in Buckets, Serves(a, l)'
               PROVE  Cardinality(Valid(entries'[a], now, Window[Owner[l]])) <= Requests[Owner[l]]
    BY <1>8 DEF NeverOverLimit, Valid
  <2>1. Serves(a, l)
    BY <1>2, <1>8, ConstantTypes DEF Serves, LockInv, TypeOK, Idle
  <2>2. CASE a # b
    <3>1. Valid(entries'[a], now, Window[Owner[l]]) \subseteq Valid(entries[a], now, Window[Owner[l]])
      BY <1>2, <2>2 DEF Valid
    <3>2. QED
      BY <2>1, <3>1, LimitShrinks DEF LimitInv
  <2>3. CASE a = b
    <3>1. l = k
      BY <1>9, <2>1, <2>3
    <3>2. Valid(entries'[a], now, Window[Owner[l]]) \subseteq entries'[b]
      BY <2>3 DEF Valid
    <3>3. CASE entries'[b] \subseteq kept
      <4>1. Valid(entries'[a], now, Window[Owner[l]])
              \subseteq Valid(entries[a], now, Window[Owner[l]])
        BY <1>2, <2>3, <3>1, <3>2, <3>3 DEF W
      <4>2. QED
        BY <2>1, <4>1, LimitShrinks DEF LimitInv
    <3>4. CASE Cardinality(kept) < Requests[Owner[k]]
      <4>1. /\ IsFiniteSet(kept \cup {new})
            /\ Cardinality(kept \cup {new}) \in Nat
            /\ Cardinality(kept \cup {new}) <= Cardinality(kept) + 1
        BY <1>2, AddedAtMostOne, Zenon
      <4>2. Cardinality(kept \cup {new}) <= Requests[Owner[k]]
        BY <1>2, <1>6, <1>7, <3>4, <4>1
      <4>3. Valid(entries'[a], now, Window[Owner[l]]) \subseteq kept \cup {new}
        BY <1>2, <3>2
      <4>4. QED
        BY <1>2, <1>6, <3>1, <4>1, <4>2, <4>3, FewerWithinLimit
    <3>5. QED
      BY <1>3, <3>3, <3>4
  <2>4. QED
    BY <2>2, <2>3
<1>13. QED
  BY <1>11, <1>12 DEF LimitInv

\* The sweep takes away only what has left the window, and no bucket that has more.
LEMMA CleanupLimitInv ==
  ASSUME SureOfEndpoint, LockInv, LimitInv, NEW k \in Keys, CleanupKey(k)
  PROVE  LimitInv'
<1> DEFINE W(l) == Window[Owner[l]]
<1>1. PICK b \in Buckets : b = buckets[k]
  BY CleanupEffect
<1>2. PICK valid : valid = Valid(entries[b], sweep.now, W(k))
  OBVIOUS
<1>3. /\ k \in sweep.todo
      /\ sweep' = [sweep EXCEPT !.todo = @ \ {k}]
      /\ UNCHANGED <<now, held, granted>>
      /\ \A a \in Buckets : entries'[a] \subseteq entries[a]
      /\ \A a \in Buckets \ {buckets[k]} : Reachable(a)' => entries'[a] = entries[a]
  BY CleanupEffect
<1>4. \/ valid = {} /\ buckets' = [buckets EXCEPT ![k] = None]
      \/ buckets' = buckets /\ entries'[b] = valid
      \/ buckets' = buckets /\ entries' = entries
  BY <1>1, <1>2, CleanupEffect DEF SureOfEndpoint
<1>5. /\ buckets' \in [Keys -> Buckets \cup {None}]
      /\ \A l \in Keys \ {k} : buckets'[l] = buckets[l]
      /\ \A l \in Keys : buckets'[l] # None => buckets'[l] = buckets[l]
      /\ \A l \in Keys \ {k} : buckets[l] # b
  <2>1. buckets' = buckets \/ buckets' = [buckets EXCEPT ![k] = None]
    BY <1>4
  <2>2. QED
    BY <1>1, <2>1, NoneAssumption DEF LockInv, TypeOK
<1>6. /\ sweep'.now = sweep.now /\ sweep'.on = sweep.on /\ sweep'.todo = sweep.todo \ {k}
  BY <1>3 DEF LockInv, TypeOK
<1>7. now \in Int /\ sweep.now \in Int /\ sweep.now <= now
  BY DEF LockInv, TypeOK, SweepState, Time
<1>8. \A l \in Keys : W(l) \in Nat \ {0}
  BY ConstantTypes
<1>9. \A l \in Keys \ {k} : buckets[l] # None => entries'[buckets[l]] = entries[buckets[l]]
  <2> SUFFICES ASSUME NEW l \in Keys \ {k}, buckets[l] # None
               PROVE  entries'[buckets[l]] = entries[buckets[l]]
    OBVIOUS
  <2>1. PICK a \in Buckets : a = buckets[l]
    BY DEF LockInv, TypeOK
  <2>2. buckets'[l] = a
    BY <1>5, <2>1
  <2>3. Reachable(a)'
    BY <2>2 DEF Reachable
  <2>4. QED
    BY <1>1, <1>3, <1>5, <2>1, <2>3
<1> HIDE DEF W
<1>10. GrantedIsCounted'
  <2> SUFFICES ASSUME NEW l \in Keys, NEW g \in Recent(l, now), ~g.stray
               PROVE  /\ buckets'[l] # None
                      /\ [at |-> g.at, nth |-> g.nth] \in entries'[buckets'[l]]
    BY <1>3 DEF GrantedIsCounted, Recent
  <2>1. /\ buckets[l] # None
        /\ [at |-> g.at, nth |-> g.nth] \in entries[buckets[l]]
    BY DEF LimitInv, GrantedIsCounted
  <2>2. CASE l # k
    BY <1>5, <1>9, <2>1, <2>2
  <2>3. CASE l = k
    <3>1. g.at \in Int /\ g.at > now - W(k)
      BY <2>3 DEF Recent, Valid, InWindow, LockInv, TypeOK, Grant, Time, W
    <3>2. g.at > sweep.now - W(k)
      BY <1>7, <1>8, <3>1
    <3>3. [at |-> g.at, nth |-> g.nth] \in valid
      BY <1>1, <1>2, <2>1, <2>3, <3>2 DEF Valid, InWindow
    <3>4. QED
      BY <1>1, <1>4, <2>1, <2>3, <3>3
  <2>4. QED
    BY <2>2, <2>3
<1>11. NeverOverLimit'
  <2> SUFFICES ASSUME NEW l \in Keys, NEW a \in Buckets, Serves(a, l)'
               PROVE  Cardinality(Valid(entries'[a], now, Window[Owner[l]])) <= Requests[Owner[l]]
    BY <1>3 DEF NeverOverLimit, Valid
  <2>1. Serves(a, l)
    BY <1>3, <1>5, NoneAssumption DEF Serves
  <2>2. Valid(entries'[a], now, Window[Owner[l]]) \subseteq Valid(entries[a], now, Window[Owner[l]])
    BY <1>3 DEF Valid
  <2>3. QED
    BY <2>1, <2>2, LimitShrinks DEF LimitInv
<1>12. QED
  BY <1>10, <1>11 DEF LimitInv

LEMMA TickLimitInv == ASSUME LockInv, LimitInv, Tick PROVE LimitInv'
<1>1. /\ now \in Int /\ now' = now + 1
      /\ granted' = [k \in Keys |-> Recent(k, now + 1)]
      /\ UNCHANGED <<buckets, entries, held, sweep>>
  BY DEF LockInv, TypeOK, Tick, Time
<1>2. \A k \in Keys : Window[Owner[k]] \in Nat
  BY ConstantTypes
<1>3. GrantedIsCounted'
  <2> SUFFICES ASSUME NEW k \in Keys, NEW g \in Recent(k, now)', ~g.stray
               PROVE  /\ buckets[k] # None
                      /\ [at |-> g.at, nth |-> g.nth] \in entries[buckets[k]]
    BY <1>1 DEF GrantedIsCounted
  <2>1. g \in granted'[k]
    BY DEF Recent, Valid
  <2>2. granted'[k] = Recent(k, now + 1)
    BY <1>1 DEF Recent, Valid
  <2>3. g \in granted[k] /\ InWindow(g.at, now + 1, Window[Owner[k]])
    BY <2>1, <2>2 DEF Recent, Valid
  <2>4. g.at \in Int
    BY <2>3 DEF LockInv, TypeOK, Grant, Time
  <2>5. InWindow(g.at, now, Window[Owner[k]])
    BY <1>1, <1>2, <2>3, <2>4 DEF InWindow
  <2>6. g \in Recent(k, now)
    BY <2>3, <2>5 DEF Recent, Valid
  <2>7. QED
    BY <2>6 DEF LimitInv, GrantedIsCounted
<1>4. NeverOverLimit'
  <2> SUFFICES ASSUME NEW k \in Keys, NEW b \in Buckets, Serves(b, k)'
               PROVE  Cardinality(Valid(entries[b], now + 1, Window[Owner[k]])) <= Requests[Owner[k]]
    BY <1>1 DEF NeverOverLimit, Valid
  <2>1. Serves(b, k)
    BY <1>1 DEF Serves
  <2>2. \A t \in entries[b] : t.at \in Int
    BY DEF LockInv, TypeOK, Stamp, Time
  <2>3. Valid(entries[b], now + 1, Window[Owner[k]]) \subseteq Valid(entries[b], now, Window[Owner[k]])
    BY <1>1, <1>2, <2>2, ValidShrinks
  <2>4. QED
    BY <2>1, <2>3, LimitShrinks DEF LimitInv
<1>5. QED
  BY <1>3, <1>4 DEF LimitInv

LEMMA SweepLimitInv ==
  ASSUME LockInv, LimitInv, CleanupStart \/ CleanupEnd
  PROVE  LimitInv'
<1>1. UNCHANGED <<now, buckets, entries, held, granted>>
  BY DEF CleanupStart, CleanupEnd
<1>2. GrantedIsCounted' /\ NeverOverLimit'
  BY <1>1 DEF LimitInv, GrantedIsCounted, NeverOverLimit, Recent, Valid, Serves
<1>3. QED
  BY <1>2 DEF LimitInv

LEMMA NextLimitInv ==
  ASSUME SureOfEndpoint PROVE LockInv /\ LimitInv /\ [Next]_vars => LimitInv'
<1> SUFFICES ASSUME LockInv, LimitInv, [Next]_vars PROVE LimitInv'
  OBVIOUS
<1>1. CASE Next
  BY <1>1, LookupLimitInv, DecideLimitInv, CleanupLimitInv, SweepLimitInv, TickLimitInv DEF Next
<1>2. CASE UNCHANGED vars
  BY <1>2 DEF LimitInv, GrantedIsCounted, NeverOverLimit, Recent, Valid, Serves, vars
<1>3. QED
  BY <1>1, <1>2

LEMMA LimitKept == ASSUME SureOfEndpoint PROVE Spec => []LimitInv
<1>1. LockInv /\ LimitInv /\ [Next]_vars => LimitInv'
  BY NextLimitInv
<1>2. QED
  BY InitLimitInv, LocksKept, <1>1, PTL DEF Spec

\* No more requests of a key than its limit are let through in its window, whatever
\* calls and sweeps interleave, but for those recorded in a bucket that the sweep had
\* taken out of the map; if no other endpoint's name begins the key.
THEOREM LimitHolds == ASSUME SureOfEndpoint PROVE Spec => []WithinLimitInMap
<1>1. ASSUME LockInv, LimitInv, NEW k \in Keys
      PROVE  Cardinality({g \in Recent(k, now) : ~g.stray}) <= Requests[Owner[k]]
  <2> DEFINE S == {g \in Recent(k, now) : ~g.stray}
  <2>1. CASE buckets[k] = None
    <3>1. S = {}
      BY <1>1, <2>1 DEF LimitInv, GrantedIsCounted
    <3>2. Cardinality(S) = 0
      BY <3>1, FS_EmptySet
    <3>3. Requests[Owner[k]] \in Nat
      BY <1>1, ConstantTypes
    <3> HIDE DEF S
    <3>4. Cardinality(S) <= Requests[Owner[k]]
      BY <3>2, <3>3
    <3>5. QED
      BY <3>4 DEF S
  <2>2. CASE buckets[k] # None
    <3>1. PICK b \in Buckets : b = buckets[k]
      BY <1>1, <2>2 DEF LockInv, TypeOK
    <3> DEFINE T == Valid(entries[b], now, Window[Owner[k]])
               f == [g \in S |-> [at |-> g.at, nth |-> g.nth]]
    <3>2. Cardinality(T) <= Requests[Owner[k]]
      BY <1>1, <3>1 DEF LimitInv, NeverOverLimit, Serves
    <3>3. IsFiniteSet(T)
      BY <1>1, ValidIsSmaller DEF LockInv, AllFinite
    <3>4. ASSUME NEW g \in S PROVE f[g] \in T
      BY <1>1, <3>1 DEF LimitInv, GrantedIsCounted, Recent, Valid
    <3>5. ASSUME NEW g \in S, NEW h \in S, f[g] = f[h] PROVE g = h
      <4>1. g \in Grant /\ h \in Grant /\ ~g.stray /\ ~h.stray
        BY <1>1 DEF Recent, Valid, LockInv, TypeOK
      <4>2. g.at = h.at /\ g.nth = h.nth
        BY <3>5
      <4>3. QED
        BY <4>1, <4>2 DEF Grant
    <3>6. f \in [S -> T]
      BY <3>4
    <3> HIDE DEF f, S, T
    <3>7. f \in Injection(S, T)
      BY <3>5, <3>6 DEF Injection, IsInjective
    <3>8. IsFiniteSet(S) /\ Cardinality(S) <= Cardinality(T)
      BY <3>3, <3>7, FS_Injection
    <3>9. Cardinality(S) \in Nat /\ Cardinality(T) \in Nat /\ Requests[Owner[k]] \in Nat
      BY <1>1, <3>3, <3>8, FS_CardinalityType, ConstantTypes
    <3>10. QED
      BY <3>2, <3>8, <3>9 DEF S
  <2>3. QED
    BY <2>1, <2>2
<1>2. LockInv /\ LimitInv => WithinLimitInMap
  BY <1>1 DEF WithinLimitInMap
<1>3. QED
  BY LocksKept, LimitKept, <1>2, PTL

-----------------------------------------------------------------------------
(* What a sweep has passed *)

\* A decision leaves a request in the bucket that is no older than those it takes away.
LEMMA DecidePassed ==
  ASSUME LockInv, PassedIsAlive, NEW c \in Callers, Decide(c)
  PROVE  PassedIsAlive'
<1>1. PICK k, b, kept : Decided(c, k, b, kept)
  BY DecideEffect
<1> DEFINE new == NextStamp(kept)
           W == Window[Owner[k]]
<1>2. /\ k \in Keys /\ b \in Buckets /\ held[c] = [key |-> k, bucket |-> b]
      /\ kept = Valid(entries[b], now, W)
      /\ IsFiniteSet(kept)
      /\ buckets[k] = b => kept \subseteq entries'[b]
      /\ \A l \in Keys :
           buckets[l] \in Buckets \ {b} => entries'[buckets[l]] = entries[buckets[l]]
      /\ \/ Cardinality(kept) >= Requests[Owner[k]]
         \/ buckets[k] = b => entries'[b] = kept \cup {new}
  BY <1>1 DEF Decided
<1>3. new \in Stamp /\ new.at = now
  BY <1>2, NextStampType DEF LockInv, TypeOK
<1>4. /\ now \in Int /\ sweep.now \in Int /\ sweep.now <= now
      /\ W \in Nat \ {0} /\ Requests[Owner[k]] \in Nat \ {0}
      /\ entries[b] \subseteq Stamp
      /\ \A l \in Keys : buckets[l] \in Buckets \cup {None}
  BY <1>2, ConstantTypes DEF LockInv, TypeOK, SweepState, Time
<1>5. UNCHANGED <<now, buckets, sweep>>
  BY DEF Decide
<1> HIDE DEF new, W
<1> SUFFICES ASSUME sweep.on, NEW l \in Keys \ sweep.todo, buckets[l] # None, Claims[l] # {}
             PROVE  \E e \in Claims[l] : \E t \in entries'[buckets[l]] :
                      InWindow(t.at, sweep.now, Window[e])
  BY <1>5 DEF PassedIsAlive, Alive, Valid
<1>6. PICK e \in Claims[l], s \in entries[buckets[l]] : InWindow(s.at, sweep.now, Window[e])
  BY DEF PassedIsAlive, Alive, Valid
<1>7. CASE buckets[l] # b
  <2>1. entries'[buckets[l]] = entries[buckets[l]]
    BY <1>2, <1>4, <1>7
  <2>2. QED
    BY <1>6, <2>1
<1>8. CASE buckets[l] = b
  <2>1. l = k
    BY <1>2, <1>8, OneKeyServed DEF Serves, LockInv
  <2>2. kept \subseteq entries'[b]
    BY <1>2, <1>8, <2>1
  <2>3. s \in entries[b] /\ s.at \in Int /\ Window[e] \in Int
    BY <1>4, <1>6, <1>8, ConstantTypes DEF Stamp, Time
  <2>4. CASE s \in kept
    BY <1>6, <1>8, <2>2, <2>4
  <2>5. CASE s \notin kept
    <3>1. s.at <= now - W
      BY <1>2, <1>4, <2>3, <2>5 DEF Valid, InWindow
    <3>2. PICK t \in entries'[b] : t.at \in Int /\ t.at > now - W
      <4>1. CASE Cardinality(kept) >= Requests[Owner[k]]
        <5>1. kept # {}
          <6>1. Cardinality(kept) # 0
            BY <1>2, <1>4, <4>1, FS_CardinalityType
          <6>2. QED
            BY <6>1, FS_EmptySet
        <5>2. PICK t \in kept : TRUE
          BY <5>1
        <5>3. t \in Stamp /\ t.at > now - W
          BY <1>2, <1>4 DEF Valid, InWindow
        <5>4. QED
          BY <2>2, <5>2, <5>3 DEF Stamp, Time
      <4>2. CASE entries'[b] = kept \cup {new}
        <5>1. now > now - W
          BY <1>4
        <5>2. QED
          BY <1>3, <1>4, <4>2, <5>1
      <4>3. QED
        BY <1>2, <1>8, <2>1, <4>1, <4>2
    <3>3. t.at > sweep.now - Window[e]
      BY <1>4, <1>6, <2>3, <3>1, <3>2 DEF InWindow
    <3>4. QED
      BY <1>8, <3>2, <3>3 DEF InWindow
  <2>6. QED
    BY <2>4, <2>5
<1>9. QED
  BY <1>7, <1>8

\* The sweep keeps a bucket for what is in the window of an endpoint that claims its key.
LEMMA CleanupPassed ==
  ASSUME LockInv, PassedIsAlive, NEW k \in Keys, CleanupKey(k)
  PROVE  PassedIsAlive'
<1>1. PICK b \in Buckets : b = buckets[k]
  BY CleanupEffect
<1>2. /\ sweep'.now = sweep.now /\ sweep'.on = sweep.on /\ sweep'.todo = sweep.todo \ {k}
      /\ \A a \in Buckets \ {b} : Reachable(a)' => entries'[a] = entries[a]
      /\ buckets' = buckets \/ buckets' = [buckets EXCEPT ![k] = None]
  BY <1>1, CleanupEffect DEF LockInv, TypeOK
<1> SUFFICES ASSUME sweep.on, NEW l \in Keys, l \notin sweep.todo \ {k},
                    buckets'[l] # None, Claims[l] # {}
             PROVE  Alive(l)'
  BY <1>2 DEF PassedIsAlive
<1>3. CASE l # k
  <2>1. buckets'[l] = buckets[l] /\ buckets[l] \in Buckets \ {b}
    BY <1>1, <1>2, <1>3 DEF LockInv, TypeOK
  <2>2. entries'[buckets[l]] = entries[buckets[l]]
    BY <1>2, <2>1 DEF Reachable
  <2>3. Alive(l)
    BY <1>3, <2>1 DEF PassedIsAlive
  <2>4. QED
    BY <1>2, <2>1, <2>2, <2>3 DEF Alive, Valid
<1>4. CASE l = k
  <2>1. PICK e \in Claims[k] : LET valid == Valid(entries[b], sweep.now, Window[e])
          IN \/ valid = {} /\ buckets' = [buckets EXCEPT ![k] = None]
             \/ valid # {} /\ buckets' = buckets /\ entries'[b] = valid
    BY <1>1, <1>4, CleanupEffect
  <2>2. buckets'[k] = b
    BY <1>1, <1>2, <1>4 DEF LockInv, TypeOK
  <2>3. /\ Valid(entries[b], sweep.now, Window[e]) # {}
        /\ entries'[b] = Valid(entries[b], sweep.now, Window[e])
    BY <1>1, <1>4, <2>1, <2>2 DEF LockInv, TypeOK
  <2>4. Valid(entries'[b], sweep.now, Window[e]) # {}
    BY <2>3 DEF Valid
  <2>5. QED
    BY <1>2, <1>4, <2>2, <2>4 DEF Alive, Valid
<1>5. QED
  BY <1>3, <1>4

LEMMA NextPassed == LockInv /\ PassedIsAlive /\ [Next]_vars => PassedIsAlive'
<1> SUFFICES ASSUME LockInv, PassedIsAlive, [Next]_vars PROVE PassedIsAlive'
  OBVIOUS
<1>1. ASSUME NEW c \in Callers, NEW k \in Keys, Lookup(c, k) PROVE PassedIsAlive'
  BY <1>1 DEF Lookup, PassedIsAlive
<1>2. CASE CleanupStart
  BY <1>2 DEF CleanupStart, PassedIsAlive
<1>3. CASE CleanupEnd
  BY <1>3 DEF CleanupEnd, PassedIsAlive, LockInv, TypeOK
<1>4. CASE Tick
  BY <1>4 DEF Tick, PassedIsAlive, Alive, Valid
<1>5. CASE UNCHANGED vars
  BY <1>5 DEF vars, PassedIsAlive, Alive, Valid
<1>6. QED
  BY <1>1, <1>2, <1>3, <1>4, <1>5, DecidePassed, CleanupPassed DEF Next

\* A sweep that ends has left no bucket behind that was dead when it began, unless no
\* endpoint claims its key, however it matched the keys and whatever callers did.
THEOREM SweepIsThorough == Spec => SweepLeavesNoDeadBucket
<1> DEFINE Thorough == sweep.on /\ ~sweep'.on =>
             \A k \in Keys : buckets[k] # None /\ Claims[k] # {} => Alive(k)
<1>1. Init => PassedIsAlive
  BY DEF Init, NoSweep, PassedIsAlive
<1>2. LockInv /\ PassedIsAlive /\ [Next]_vars => [Thorough]_vars
  <2> SUFFICES ASSUME LockInv, PassedIsAlive, Next, sweep.on, ~sweep'.on
               PROVE  \A k \in Keys : buckets[k] # None /\ Claims[k] # {} => Alive(k)
    OBVIOUS
  <2>1. CleanupEnd
    <3>1. ASSUME NEW k \in Keys, CleanupKey(k) PROVE sweep'.on = sweep.on
      BY <3>1 DEF CleanupKey, LockInv, TypeOK
    <3>2. QED
      BY <3>1 DEF Next, Lookup, Decide, CleanupStart, Tick
  <2>2. QED
    BY <2>1 DEF CleanupEnd, PassedIsAlive
<1>3. [][Thorough]_vars => SweepLeavesNoDeadBucket
  <2>1. [Thorough]_vars => [sweep.on /\ ~sweep'.on =>
          \A k \in Keys : buckets[k] # None /\ Claims[k] # {} =>
            \E e \in Claims[k] : Valid(entries[buckets[k]], sweep.now, Window[e]) # {}]_vars
    BY DEF Alive
  <2>2. QED
    BY <2>1, PTL DEF SweepLeavesNoDeadBucket
<1>4. QED
  BY LocksKept, <1>1, NextPassed, <1>2, <1>3, PTL DEF Spec

-----------------------------------------------------------------------------
(* Stamps and grants do not collide *)

\* The stamps of one tick are numbered from 1, and none is of a tick to come.
Numbered(S, time) == \A t \in S :
  t.at <= time /\ (t.at = time => t.nth <= Cardinality({u \in S : u.at = time}))

NumberedInv == \A b \in Buckets : Numbered(entries[b], now)

\* What was granted in this tick and recorded in the map is there still.
GrantedNowKept == \A k \in Keys : \A g \in granted[k] :
  /\ g.at <= now
  /\ ~g.stray /\ g.at = now
       => buckets[k] # None /\ [at |-> g.at, nth |-> g.nth] \in entries[buckets[k]]

\* The request that a caller is about to add is not in its bucket yet.
StampsAreFresh == \A c \in Callers : held[c] # Idle =>
  LET counted == Counted(held[c].key, held[c].bucket)
  IN NextStamp(counted) \notin counted

\* Nor has its grant been recorded before, if the bucket is in the map.
GrantsAreFresh == \A c \in Callers :
  held[c] # Idle /\ buckets[held[c].key] = held[c].bucket =>
    LET new == NextStamp(Counted(held[c].key, held[c].bucket))
    IN [at |-> new.at, nth |-> new.nth, stray |-> FALSE] \notin granted[held[c].key]

LEMMA NumberedLater ==
  ASSUME NEW time \in Int, NEW S, \A t \in S : t.at \in Int, Numbered(S, time)
  PROVE  Numbered(S, time + 1)
<1>1. \A t \in S : t.at <= time + 1 /\ t.at # time + 1
  <2>1. \A t \in S : t.at <= time
    BY DEF Numbered
  <2>2. QED
    BY <2>1
<1>2. QED
  BY <1>1, Zenon DEF Numbered

\* A window that ends now or earlier takes away no stamp of this tick.
LEMMA NumberedValid ==
  ASSUME NEW time \in Int, NEW S, \A t \in S : t.at \in Int, Numbered(S, time),
         NEW early \in Int, early <= time, NEW window \in Nat \ {0}
  PROVE  /\ Numbered(Valid(S, early, window), time)
         /\ \A t \in S : t.at = time => t \in Valid(S, early, window)
<1>1. \A t \in S : t.at = time => t \in Valid(S, early, window)
  BY DEF Valid, InWindow
<1>2. {u \in Valid(S, early, window) : u.at = time} = {u \in S : u.at = time}
  BY <1>1 DEF Valid
<1>3. QED
  BY <1>1, <1>2 DEF Numbered, Valid

\* The next stamp is a new one, and carries the numbering on.
LEMMA NumberedNext ==
  ASSUME now \in Time, NEW S, IsFiniteSet(S), S \subseteq Stamp, Numbered(S, now)
  PROVE  NextStamp(S) \notin S /\ Numbered(S \cup {NextStamp(S)}, now)
<1> DEFINE T == {u \in S : u.at = now}
           new == NextStamp(S)
           U == {u \in S \cup {new} : u.at = now}
<1>1. IsFiniteSet(T) /\ Cardinality(T) \in Nat
  BY FS_Subset, FS_CardinalityType, T \subseteq S
<1>2. new.at = now /\ new.nth = Cardinality(T) + 1
  BY DEF NextStamp
<1>3. \A t \in S : t.nth \in Nat /\ (t.at = now => t.nth <= Cardinality(T))
  BY DEF Numbered, Stamp
<1> HIDE DEF new
<1>4. new \notin S
  <2> HIDE DEF T
  <2>1. QED
    BY <1>1, <1>2, <1>3
<1>5. U = T \cup {new} /\ new \notin T
  BY <1>2, <1>4
<1>6. Cardinality(U) = Cardinality(T) + 1
  BY <1>1, <1>5, FS_AddElement
<1>7. \A t \in S \cup {new} : t.at <= now
  BY <1>2, MaxTimeAssumption DEF Numbered, Time
<1>8. \A t \in S \cup {new} : t.at = now => t.nth <= Cardinality(U)
  <2> HIDE DEF T, U
  <2>1. QED
    BY <1>1, <1>2, <1>3, <1>6
<1>9. QED
  BY <1>4, <1>7, <1>8 DEF new, Numbered

\* The invariant behind both: how requests are numbered in the buckets, and that those
\* of this tick stay where they were recorded.
FreshInv == NumberedInv /\ GrantedNowKept

LEMMA InitFreshInv == Init => FreshInv
BY DEF Init, FreshInv, NumberedInv, Numbered, GrantedNowKept

LEMMA LookupFreshInv ==
  ASSUME LockInv, FreshInv, NEW c \in Callers, NEW k \in Keys, Lookup(c, k)
  PROVE  FreshInv'
<1>1. PICK b \in Buckets :
        /\ buckets' = [buckets EXCEPT ![k] = b]
        /\ buckets[k] = b \/ (buckets[k] = None /\ ~Reachable(b))
        /\ UNCHANGED <<now, entries, sweep, granted>>
  BY LookupEffect
<1>2. \A l \in Keys : buckets[l] # None => buckets'[l] = buckets[l]
  BY <1>1 DEF LockInv, TypeOK
<1>3. NumberedInv'
  BY <1>1 DEF FreshInv, NumberedInv, Numbered
<1>4. GrantedNowKept'
  BY <1>1, <1>2 DEF FreshInv, GrantedNowKept
<1>5. QED
  BY <1>3, <1>4 DEF FreshInv

\* A subset that keeps the stamps of this tick keeps their numbering.
LEMMA NumberedSubset ==
  ASSUME NEW time, NEW S, Numbered(S, time), NEW T, T \subseteq S,
         \A t \in S : t.at = time => t \in T
  PROVE  Numbered(T, time)
<1>1. {u \in T : u.at = time} = {u \in S : u.at = time}
  OBVIOUS
<1>2. QED
  BY <1>1 DEF Numbered

\* A bucket that nobody can reach any more is empty, and the others keep this tick.
LEMMA NumberedKept ==
  ASSUME NumberedInv, now' = now,
         \A a \in Buckets : \/ entries'[a] = {}
                            \/ /\ entries'[a] \subseteq entries[a]
                               /\ \A t \in entries[a] : t.at = now => t \in entries'[a]
                            \/ Numbered(entries'[a], now)
  PROVE  NumberedInv'
<1>1. ASSUME NEW a \in Buckets PROVE Numbered(entries'[a], now)
  <2>1. CASE entries'[a] = {}
    BY <2>1 DEF Numbered
  <2>2. CASE /\ entries'[a] \subseteq entries[a]
             /\ \A t \in entries[a] : t.at = now => t \in entries'[a]
    BY <2>2, NumberedSubset DEF NumberedInv
  <2>3. QED
    BY <2>1, <2>2
<1>2. QED
  BY <1>1 DEF NumberedInv, Numbered

\* A decision adds the next stamp to its bucket, if it adds any, and its grant with it.
LEMMA DecideFreshInv ==
  ASSUME LockInv, FreshInv, NEW c \in Callers, Decide(c)
  PROVE  FreshInv'
<1>0. PICK k, b, kept : Decided(c, k, b, kept)
  BY DecideEffect
<1> DEFINE new == NextStamp(kept)
<1>1. /\ k \in Keys /\ b \in Buckets /\ IsFiniteSet(kept)
      /\ kept = Valid(entries[b], now, Window[Owner[k]])
      /\ entries'[b] \subseteq kept \cup {new}
      /\ buckets[k] = b => kept \subseteq entries'[b]
      /\ kept \subseteq entries'[b] \/ entries'[b] = {}
      /\ \A a \in Buckets \ {b} : entries'[a] = entries[a] \/ entries'[a] = {}
      /\ \A l \in Keys :
           buckets[l] \in Buckets \ {b} => entries'[buckets[l]] = entries[buckets[l]]
  BY <1>0 DEF Decided
<1>2. entries[b] \subseteq Stamp /\ now \in Int /\ now \in Time
      /\ \A t \in entries[b] : t.at \in Int
  BY <1>1 DEF LockInv, TypeOK, Stamp, Time
<1>3. Numbered(kept, now) /\ \A t \in entries[b] : t.at = now => t \in kept
  <2>1. Window[Owner[k]] \in Nat \ {0} /\ Numbered(entries[b], now)
    BY <1>1, ConstantTypes DEF FreshInv, NumberedInv
  <2>2. QED
    BY <1>1, <1>2, <2>1, NumberedValid
<1>4. kept \subseteq Stamp /\ kept \subseteq entries[b]
  BY <1>1, <1>2 DEF Valid
<1>5. Numbered(kept \cup {new}, now)
  BY <1>1, <1>2, <1>3, <1>4, NumberedNext
<1>6. now' = now /\ buckets' = buckets
  BY DEF Decide
<1> HIDE DEF new
<1>7. entries'[b] = {} \/ entries'[b] = kept \/ entries'[b] = kept \cup {new}
  BY <1>1
<1>8. NumberedInv'
  <2>1. \A a \in Buckets :
          \/ entries'[a] = {}
          \/ entries'[a] \subseteq entries[a] /\ \A t \in entries[a] : t.at = now => t \in entries'[a]
          \/ Numbered(entries'[a], now)
    BY <1>1, <1>3, <1>5, <1>7
  <2>2. QED
    BY <1>6, <2>1, NumberedKept DEF FreshInv
<1>9. \A l \in Keys : buckets[l] # None =>
        \A t \in entries[buckets[l]] : t.at = now => t \in entries'[buckets[l]]
  <2> SUFFICES ASSUME NEW l \in Keys, buckets[l] # None
               PROVE  \A t \in entries[buckets[l]] : t.at = now => t \in entries'[buckets[l]]
    OBVIOUS
  <2>1. buckets[l] \in Buckets
    BY DEF LockInv, TypeOK
  <2>2. CASE buckets[l] = b
    <3>1. l = k
      BY <1>0, <1>1, <2>1, <2>2 DEF Decided, LockInv, TypeOK, Idle
    <3>2. QED
      BY <1>1, <1>3, <2>2, <3>1
  <2>3. QED
    BY <1>1, <2>1, <2>2
<1>10. ASSUME NEW l \in Keys, NEW g \in granted'[l]
       PROVE  /\ g.at <= now
              /\ ~g.stray /\ g.at = now
                   => buckets[l] # None /\ [at |-> g.at, nth |-> g.nth] \in entries'[buckets[l]]
  <2>1. CASE g \in granted[l]
    <3>1. /\ g.at <= now
          /\ ~g.stray /\ g.at = now
               => buckets[l] # None /\ [at |-> g.at, nth |-> g.nth] \in entries[buckets[l]]
      BY <2>1 DEF FreshInv, GrantedNowKept
    <3>2. QED
      BY <1>9, <3>1
  <2>2. CASE g \notin granted[l]
    <3>1. /\ l = k /\ g.at = now /\ g.nth = new.nth /\ (g.stray <=> buckets[k] # b)
          /\ buckets[k] = b => entries'[b] = kept \cup {new}
      BY <1>0, <2>2 DEF new, Decided, LockInv, TypeOK
    <3>2. [at |-> g.at, nth |-> g.nth] = new
      BY <3>1 DEF new, NextStamp
    <3>3. b # None /\ g.at <= now
      BY <1>1, <1>2, <3>1, NoneAssumption
    <3>4. QED
      BY <3>1, <3>2, <3>3
  <2>3. QED
    BY <2>1, <2>2
<1>11. GrantedNowKept'
  BY <1>6, <1>10 DEF GrantedNowKept
<1>12. QED
  BY <1>8, <1>11 DEF FreshInv

\* The sweep takes no request of this tick from a bucket, whichever window it applies.
LEMMA CleanupFreshInv ==
  ASSUME LockInv, FreshInv, NEW k \in Keys, CleanupKey(k)
  PROVE  FreshInv'
<1> DEFINE b == buckets[k]
<1>1. /\ b \in Buckets /\ UNCHANGED <<now, granted>>
      /\ \A a \in Buckets : ~Reachable(a)' => entries'[a] = {}
      /\ \A a \in Buckets \ {b} : Reachable(a)' => entries'[a] = entries[a]
  BY CleanupEffect
<1>12. CASE Claims[k] = {} /\ UNCHANGED <<buckets, entries>>
  BY <1>1, <1>12 DEF FreshInv, NumberedInv, GrantedNowKept
<1> SUFFICES ASSUME ~(Claims[k] = {} /\ UNCHANGED <<buckets, entries>>) PROVE FreshInv'
  BY <1>12
<1>2. PICK e \in Claims[k] : LET valid == Valid(entries[b], sweep.now, Window[e])
        IN \/ valid = {} /\ buckets' = [buckets EXCEPT ![k] = None]
              /\ \A a \in Buckets : Reachable(a)' => entries'[a] = entries[a]
           \/ valid # {} /\ buckets' = buckets /\ entries'[b] = valid
  BY CleanupEffect
<1>3. entries[b] \subseteq Stamp /\ \A t \in entries[b] : t.at \in Int
  BY <1>1 DEF LockInv, TypeOK, Stamp, Time
<1> DEFINE valid == Valid(entries[b], sweep.now, Window[e])
<1>4. /\ valid \subseteq entries[b]
      /\ \A t \in entries[b] : t.at = now => t \in valid
  <2>1. /\ now \in Int /\ sweep.now \in Int /\ sweep.now <= now
        /\ Window[e] \in Nat \ {0} /\ Numbered(entries[b], now)
    BY <1>1, ConstantTypes DEF LockInv, TypeOK, SweepState, Time, FreshInv, NumberedInv
  <2>2. \A t \in entries[b] : t.at = now => t \in valid
    BY <1>3, <2>1, NumberedValid
  <2>3. QED
    BY <2>2 DEF Valid
<1> HIDE DEF valid
<1>5. \/ valid = {} /\ buckets' = [buckets EXCEPT ![k] = None]
         /\ \A a \in Buckets : Reachable(a)' => entries'[a] = entries[a]
      \/ valid # {} /\ buckets' = buckets /\ entries'[b] = valid
  BY <1>2 DEF valid
<1> HIDE DEF b
<1>6. \A a \in Buckets :
        \/ entries'[a] = {}
        \/ entries'[a] \subseteq entries[a] /\ \A t \in entries[a] : t.at = now => t \in entries'[a]
        \/ Numbered(entries'[a], now)
  BY <1>1, <1>4, <1>5
<1>7. NumberedInv'
  BY <1>1, <1>6, NumberedKept DEF FreshInv
<1>8. ASSUME NEW l \in Keys, NEW t \in entries[buckets[l]], buckets[l] # None, t.at = now
      PROVE  buckets'[l] = buckets[l] /\ t \in entries'[buckets[l]]
  <2>1. buckets[l] \in Buckets
    BY <1>8 DEF LockInv, TypeOK
  <2>2. CASE l = k
    BY <1>4, <1>5, <1>8, <2>1, <2>2 DEF b
  <2>3. CASE l # k
    <3>1. buckets'[l] = buckets[l] /\ buckets[l] # b
      BY <1>5, <1>8, <2>3 DEF b, LockInv, TypeOK
    <3>2. Reachable(buckets[l])'
      BY <3>1 DEF Reachable
    <3>3. QED
      BY <1>1, <1>8, <2>1, <3>1, <3>2
  <2>4. QED
    BY <2>2, <2>3
<1>9. ASSUME NEW l \in Keys, NEW g \in granted[l]
      PROVE  /\ g.at <= now
             /\ ~g.stray /\ g.at = now
                  => buckets'[l] # None /\ [at |-> g.at, nth |-> g.nth] \in entries'[buckets'[l]]
  <2> DEFINE stamp == [at |-> g.at, nth |-> g.nth]
  <2>1. /\ g.at <= now
        /\ ~g.stray /\ g.at = now => buckets[l] # None /\ stamp \in entries[buckets[l]]
    BY <1>9 DEF FreshInv, GrantedNowKept
  <2>2. stamp.at = g.at
    OBVIOUS
  <2> HIDE DEF stamp
  <2>3. ~g.stray /\ g.at = now => buckets'[l] # None /\ stamp \in entries'[buckets'[l]]
    BY <1>8, <2>1, <2>2
  <2>4. QED
    BY <2>1, <2>3 DEF stamp
<1>10. GrantedNowKept'
  BY <1>1, <1>9 DEF GrantedNowKept
<1>11. QED
  BY <1>7, <1>10 DEF FreshInv

LEMMA TickFreshInv == ASSUME LockInv, FreshInv, Tick PROVE FreshInv'
<1>1. /\ now \in Int /\ now' = now + 1 /\ UNCHANGED <<buckets, entries>>
      /\ \A k \in Keys : granted'[k] \subseteq granted[k]
  BY DEF LockInv, TypeOK, Tick, Time, Recent, Valid
<1>2. \A b \in Buckets : \A t \in entries[b] : t.at \in Int
  BY DEF LockInv, TypeOK, Stamp, Time
<1>3. NumberedInv'
  <2>1. \A b \in Buckets : Numbered(entries[b], now + 1)
    BY <1>1, <1>2, NumberedLater DEF FreshInv, NumberedInv
  <2>2. QED
    BY <1>1, <2>1 DEF NumberedInv, Numbered
<1>4. ASSUME NEW k \in Keys, NEW g \in granted'[k] PROVE g.at <= now' /\ g.at # now'
  <2>1. g \in granted[k] /\ g \in Grant
    BY <1>1, <1>4 DEF LockInv, TypeOK
  <2>2. g.at \in Int
    BY <2>1 DEF Grant, Time
  <2>3. g.at <= now
    BY <2>1 DEF FreshInv, GrantedNowKept
  <2>4. QED
    BY <1>1, <2>2, <2>3
<1>5. QED
  BY <1>3, <1>4 DEF FreshInv, GrantedNowKept

LEMMA FreshKept == Spec => [](LockInv /\ FreshInv)
<1>1. LockInv /\ FreshInv /\ [Next]_vars => FreshInv'
  <2> SUFFICES ASSUME LockInv, FreshInv, [Next]_vars PROVE FreshInv'
    OBVIOUS
  <2>1. ASSUME CleanupStart \/ CleanupEnd \/ UNCHANGED vars PROVE FreshInv'
    BY <2>1 DEF CleanupStart, CleanupEnd, vars, FreshInv, NumberedInv, Numbered, GrantedNowKept
  <2>2. QED
    BY <2>1, LookupFreshInv, DecideFreshInv, CleanupFreshInv, TickFreshInv DEF Next
<1>2. QED
  BY InitFreshInv, LocksKept, <1>1, PTL DEF Spec

\* What a caller counts is a well numbered set, so the next stamp is not in it.
LEMMA CountedNumbered ==
  ASSUME LockInv, FreshInv, NEW c \in Callers, held[c] # Idle
  PROVE  LET k == held[c].key
             b == held[c].bucket
             counted == Counted(k, b)
         IN /\ k \in Keys /\ b \in Buckets
            /\ NextStamp(counted) \notin counted
            /\ \A t \in entries[b] : t.at = now => t \in counted
<1> DEFINE k == held[c].key
           b == held[c].bucket
           counted == Counted(k, b)
<1>1. k \in Keys /\ b \in Buckets
  BY DEF LockInv, TypeOK
<1>2. /\ IsFiniteSet(entries[b]) /\ entries[b] \subseteq Stamp
      /\ \A t \in entries[b] : t.at \in Int
      /\ now \in Int /\ now \in Time /\ Window[Owner[k]] \in Nat \ {0}
      /\ Numbered(entries[b], now)
  BY <1>1, ConstantTypes
     DEF LockInv, TypeOK, AllFinite, Stamp, Time, FreshInv, NumberedInv
<1>3. counted \subseteq entries[b] /\ IsFiniteSet(counted)
  BY <1>2, ValidIsSmaller DEF Counted
<1>4. Numbered(counted, now) /\ \A t \in entries[b] : t.at = now => t \in counted
  BY <1>2, NumberedValid DEF Counted
<1>5. NextStamp(counted) \notin counted
  BY <1>2, <1>3, <1>4, NumberedNext
<1>6. QED
  BY <1>1, <1>4, <1>5

\* The slice of a bucket may be a set: the entry that Allow appends is never in it yet,
\* so the set counts every one that the slice does.
THEOREM NoStampTwice == Spec => []StampsAreFresh
<1>1. LockInv /\ FreshInv => StampsAreFresh
  BY CountedNumbered DEF StampsAreFresh
<1>2. QED
  BY FreshKept, <1>1, PTL

\* The ghost misses nothing: every request that Allow lets through and records in the
\* map is a grant of its own, however the sweep matches keys. What WithinLimitInMap counts
\* is therefore all of them.
THEOREM NoGrantTwice == Spec => []GrantsAreFresh
<1>1. ASSUME LockInv, FreshInv, NEW c \in Callers, held[c] # Idle,
             buckets[held[c].key] = held[c].bucket
      PROVE  LET new == NextStamp(Counted(held[c].key, held[c].bucket))
             IN [at |-> new.at, nth |-> new.nth, stray |-> FALSE] \notin granted[held[c].key]
  <2> DEFINE k == held[c].key
             counted == Counted(k, held[c].bucket)
             new == NextStamp(counted)
             grant == [at |-> new.at, nth |-> new.nth, stray |-> FALSE]
  <2>1. /\ k \in Keys /\ new \notin counted
        /\ \A t \in entries[buckets[k]] : t.at = now => t \in counted
    BY <1>1, CountedNumbered
  <2>2. new.at = now /\ [at |-> new.at, nth |-> new.nth] = new
    BY DEF NextStamp
  <2> HIDE DEF new
  <2>3. ~grant.stray /\ grant.at = now /\ [at |-> grant.at, nth |-> grant.nth] = new
    BY <2>2
  <2>4. SUFFICES ASSUME grant \in granted[k] PROVE FALSE
    BY DEF new
  <2>5. new \in entries[buckets[k]]
    BY <1>1, <2>1, <2>3, <2>4 DEF FreshInv, GrantedNowKept
  <2>6. QED
    BY <2>1, <2>2, <2>5
<1>2. LockInv /\ FreshInv => GrantsAreFresh
  BY <1>1 DEF GrantsAreFresh
<1>3. QED
  BY FreshKept, <1>2, PTL
=============================================================================
