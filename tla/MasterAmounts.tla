---------------------------- MODULE MasterAmounts ----------------------------
(***************************************************************************)
(* How amounts of STRK cross between the CLI, which counts wei in a u128,  *)
(* and the token, whose u256 is a pair of u128 halves: `snip36 fund`       *)
(* (src/crates/snip36-cli/src/commands/fund.rs) and the balance check of   *)
(* `snip36 health` (src/apps/counter/src/health.rs).                       *)
(*                                                                         *)
(* Both shift a u128 by 128 bits.  They do so in async functions, where    *)
(* the compiler's lint does not look: a debug build panics there, and a    *)
(* release build shifts by 128 modulo 128 bits, that is not at all.        *)
(***************************************************************************)
EXTENDS Naturals

CONSTANTS
    Bits,     \* width of the CLI's integers (128 in the code)
    Builds,   \* the profiles of cargo: "debug", "release"
    Balances  \* what the master account may have, in wei

VARIABLES
    build,    \* the profile this CLI is built with
    balance,  \* the master account's
    amount,   \* what `snip36 fund` is asked to transfer
    halves,   \* the token call's two arguments
    moved,    \* what the call has transferred
    seen,     \* what `snip36 health` takes the balance for
    pc

vars == <<build, balance, amount, halves, moved, seen, pc>>

Width == 2 ^ Bits
Shl(x, k) == (x * 2 ^ (k % Bits)) % Width
Shr(x, k) == x \div 2 ^ (k % Bits)
Low128(x, bound) == x % bound                  \* x & (bound - 1), for a power of two
U256(pair) == pair.low + pair.high * Width

Init ==
    /\ build \in Builds
    /\ balance \in Balances
    /\ amount = 0
    /\ halves = [low |-> 0, high |-> 0]
    /\ moved = 0 /\ seen = 0
    /\ pc = "idle"

\* The command line is read, and its amount split in two.
Split(wei) ==
    /\ pc = "idle"
    /\ amount' = wei
    /\ IF build = "debug"
       THEN pc' = "panicked" /\ UNCHANGED halves
       ELSE /\ halves' = [low |-> Low128(wei, Shl(1, Bits)), high |-> Shr(wei, Bits)]
            /\ pc' = "invoke"
    /\ UNCHANGED <<build, balance, moved, seen>>

\* sncast invokes transfer, which reverts when the balance does not cover it.
Invoke ==
    /\ pc = "invoke"
    /\ IF U256(halves) <= balance
       THEN /\ balance' = balance - U256(halves)
            /\ moved' = U256(halves)
            /\ pc' = "done"
       ELSE pc' = "failed" /\ UNCHANGED <<balance, moved>>
    /\ UNCHANGED <<build, amount, halves, seen>>

\* The halves of balance_of are put together again.
CheckBalance ==
    /\ pc \in {"idle", "done", "failed"}
    /\ IF build = "debug"
       THEN pc' = "panicked" /\ UNCHANGED seen
       ELSE /\ seen' = ((balance % Width) + Shl(balance \div Width, Bits)) % Width
            /\ pc' = "checked"
    /\ UNCHANGED <<build, balance, amount, halves, moved>>

Next == (\E wei \in 0 .. Width - 1 : Split(wei)) \/ Invoke \/ CheckBalance

Spec == Init /\ [][Next]_vars

-----------------------------------------------------------------------------
\* fund.rs:17 calls its argument "Amount to transfer in wei": when the command is
\* over and the account had that much, that much has been transferred.
FundMovesAmount ==
    pc \in {"done", "failed"} /\ balance + moved >= amount => moved = amount
=============================================================================
