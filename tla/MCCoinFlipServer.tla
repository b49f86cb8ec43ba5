-------------------------- MODULE MCCoinFlipServer --------------------------
(***************************************************************************)
(* CoinFlipServer with two confirm-deposit requests and two sessions.      *)
(***************************************************************************)
EXTENDS CoinFlipServer, TLC

\* The house can cover one of the player's two stakes at a time.
MCFunds == House :> 1 @@ Player :> 2

MCAllRoutes == [Requests -> Sessions]

\* Each request names a session of its own.
CONSTANTS r1, r2, s1, s2
MCDistinctRoutes == {r1 :> s1 @@ r2 :> s2}

\* Requests and sessions are interchangeable: the initial states give every
\* assignment of requests to sessions.
MCSymmetry == Permutations(Requests) \cup Permutations(Sessions)
=============================================================================
