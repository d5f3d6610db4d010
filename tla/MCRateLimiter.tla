---------------------------- MODULE MCRateLimiter ----------------------------
(* Model checking RateLimiter: its keys, limits and symmetries. *)
EXTENDS RateLimiter, TLC

\* Two endpoints with limits of their own; the key "login:" has an empty identifier,
\* and cleanup matches it with no endpoint.
LoginKeys == {"login:a", "login:", "register:a"}
LoginOwner == [k \in LoginKeys |-> IF k = "register:a" THEN "register" ELSE "login"]
LoginClaims == [k \in LoginKeys |-> IF k = "login:" THEN {} ELSE {LoginOwner[k]}]
LoginRequests == "login" :> 2 @@ "register" :> 1
LoginWindow == "login" :> 1 @@ "register" :> 2

\* The pair of NewRateLimiter's defaults whose names overlap: a key of
\* "api_key_create" begins with "api" too.
ApiKeys == {"api_key_create"}
ApiOwner == [k \in ApiKeys |-> k]
ApiClaims == [k \in ApiKeys |-> {"api", "api_key_create"}]
ApiRequests == "api" :> 2 @@ "api_key_create" :> 1
ApiWindow == "api" :> 1 @@ "api_key_create" :> 3

Symmetry == Permutations(Callers) \cup Permutations(Buckets)
=============================================================================
