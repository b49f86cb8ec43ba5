------------------------------- MODULE Escrow -------------------------------
(***************************************************************************)
(* What the CoinFlipBank contract promises, without its storage: every     *)
(* game session has a pot of its own.  A user stakes into an unused pot,   *)
(* the house doubles it, and the doubled pot is paid out whole, once, to   *)
(* the staker or to the house.  Nothing else moves a pot, and the reserve  *)
(* that prefunds the bank is never drawn on.                               *)
(***************************************************************************)
EXTENDS Naturals

CONSTANTS
    Users,      \* accounts that can call the bank, the house among them
    House,      \* the bank's owner
    Nobody,     \* the staker of an unused session
    Sessions,   \* session identifiers
    Amounts     \* numbers of tokens that can be staked or given

VARIABLES
    wallet,     \* wallet[u]: tokens user u holds
    pot,        \* pot[s]: tokens held for session s
    stage,      \* stage[s]: how far session s has come
    staker,     \* staker[s]: who staked session s
    reserve     \* tokens held for no session

vars == <<wallet, pot, stage, staker, reserve>>

Stage == {"empty", "staked", "covered", "paid"}

TypeOK ==
    /\ wallet \in [Users -> Nat]
    /\ pot \in [Sessions -> Nat]
    /\ stage \in [Sessions -> Stage]
    /\ staker \in [Sessions -> Users \cup {Nobody}]
    /\ reserve \in Nat

Init ==
    /\ wallet \in [Users -> Nat]
    /\ pot = [s \in Sessions |-> 0]
    /\ stage = [s \in Sessions |-> "empty"]
    /\ staker = [s \in Sessions |-> Nobody]
    /\ reserve = 0

\* User u opens session s with a positive stake of n tokens.
Stake(u, s, n) ==
    /\ stage[s] = "empty"
    /\ n > 0
    /\ wallet[u] >= n
    /\ wallet' = [wallet EXCEPT ![u] = @ - n]
    /\ pot' = [pot EXCEPT ![s] = n]
    /\ stage' = [stage EXCEPT ![s] = "staked"]
    /\ staker' = [staker EXCEPT ![s] = u]
    /\ UNCHANGED reserve

\* The house doubles the pot of a staked session out of its own wallet.
Cover(s) ==
    /\ stage[s] = "staked"
    /\ wallet[House] >= pot[s]
    /\ wallet' = [wallet EXCEPT ![House] = @ - pot[s]]
    /\ pot' = [pot EXCEPT ![s] = 2 * @]
    /\ stage' = [stage EXCEPT ![s] = "covered"]
    /\ UNCHANGED <<staker, reserve>>

\* The whole pot of a covered session goes to w, its staker or the house.
Pay(s, w) ==
    /\ stage[s] = "covered"
    /\ w \in {staker[s], House}
    /\ wallet' = [wallet EXCEPT ![w] = @ + pot[s]]
    /\ pot' = [pot EXCEPT ![s] = 0]
    /\ stage' = [stage EXCEPT ![s] = "paid"]
    /\ UNCHANGED <<staker, reserve>>

\* Anyone may give tokens to the reserve; they are nobody's afterwards.
Donate(u, n) ==
    /\ wallet[u] >= n
    /\ wallet' = [wallet EXCEPT ![u] = @ - n]
    /\ reserve' = reserve + n
    /\ UNCHANGED <<pot, stage, staker>>

Next ==
    \/ \E u \in Users, n \in Amounts : Donate(u, n)
    \/ \E s \in Sessions :
          \/ Cover(s)
          \/ \E w \in Users : Pay(s, w)
          \/ \E u \in Users, n \in Amounts : Stake(u, s, n)

Spec == Init /\ [][Next]_vars
=============================================================================
