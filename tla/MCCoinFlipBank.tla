--------------------------- MODULE MCCoinFlipBank ---------------------------
(***************************************************************************)
(* CoinFlipBank on three callers and two sessions.                         *)
(***************************************************************************)
EXTENDS CoinFlipBank, TLC

CONSTANTS owner, alice, bob

MCUsers == {owner, alice, bob}

\* The owner can cover one unit stake, and a double one after a game that it
\* won; one player can stake three.  Together they hold exactly MaxU256 tokens.
MCFunds == owner :> 1 @@ alice :> 3 @@ bob :> 1

\* Both parities occur for each player that can win.
MCOutcome ==
    [seed \in Seeds |->
        [u \in MCUsers |-> IF u = alice THEN seed % 2 ELSE 1 - (seed % 2)]]
=============================================================================
