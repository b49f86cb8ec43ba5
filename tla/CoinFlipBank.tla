---------------------------- MODULE CoinFlipBank ----------------------------
(***************************************************************************)
(* The CoinFlipBank contract of src/tests/contracts/src/lib.cairo together *)
(* with the ERC20 token it moves.  One action per external entry point of  *)
(* the contract; a call that fails an assert, or whose token transfer      *)
(* reverts, changes nothing and so is no step.  The token (balance,        *)
(* allowance, approve, transfer) is external: it is modelled from the      *)
(* calls the contract and the server make to it.                           *)
(***************************************************************************)
EXTENDS Naturals

CONSTANTS
    Users,        \* accounts that call the contract, the owner among them
    Owner,        \* the account passed to the constructor
    Bank,         \* the contract's own address
    Nobody,       \* the zero address an unwritten game_player reads as
    NumSessions,  \* session ids are 1 .. NumSessions
    MaxU256,      \* the largest u256
    Amounts,      \* u256 values callers pass
    Seeds, Bets,  \* felts callers pass
    Funds,        \* Funds[u]: what u holds when the bank is deployed
    Outcome       \* Outcome[seed][player]: parity of pedersen(seed, player)

Sessions == 1 .. NumSessions
U256 == 0 .. MaxU256
Accounts == Users \cup {Bank}

ASSUME BankAssumption ==
    /\ Owner \in Users
    /\ Bank \notin Users
    /\ NumSessions \in Nat
    /\ MaxU256 \in Nat
    /\ Amounts \subseteq U256
    /\ Seeds \subseteq Nat
    /\ Bets \subseteq Nat
    /\ Funds \in [Users -> U256]
    /\ Outcome \in [Seeds -> [Users -> {0, 1}]]

STATE_EMPTY == 0
STATE_DEPOSITED == 1
STATE_MATCHED == 2
STATE_SETTLED == 3

VARIABLES
    balance,         \* ERC20: balance[a] of every account, the bank included
    allowance,       \* ERC20: what each user lets the bank pull
    game_player, game_amount, game_seed, game_bet, game_state,
    player_balance,  \* the contract's withdrawable balances
    reserve          \* history: tokens given to the bank outside any game

game == <<game_player, game_amount, game_seed, game_bet, game_state>>
vars == <<balance, allowance, game, player_balance, reserve>>

Init ==
    /\ balance = [a \in Accounts |-> IF a \in Users THEN Funds[a] ELSE 0]
    /\ allowance = [u \in Users |-> 0]
    /\ game_player = [s \in Sessions |-> Nobody]
    /\ game_amount = [s \in Sessions |-> 0]
    /\ game_seed = [s \in Sessions |-> 0]
    /\ game_bet = [s \in Sessions |-> 0]
    /\ game_state = [s \in Sessions |-> STATE_EMPTY]
    /\ player_balance = [u \in Users |-> 0]
    /\ reserve = 0

-----------------------------------------------------------------------------
(* The token. *)

\* transfer: reverts on a short balance or a recipient that would overflow.
Transfer(from, to, n) ==
    /\ balance[from] >= n
    /\ balance[to] + n <= MaxU256
    /\ balance' = [balance EXCEPT ![from] = @ - n, ![to] = @ + n]

\* transfer_from by the bank: also needs, and uses up, the allowance.
Pull(u, n) ==
    /\ allowance[u] >= n
    /\ allowance' = [allowance EXCEPT ![u] = @ - n]
    /\ Transfer(u, Bank, n)

\* approve(bank, n): a player's before its deposit, the owner's in deploy_bank.
Approve(u, n) ==
    /\ allowance' = [allowance EXCEPT ![u] = n]
    /\ UNCHANGED <<balance, game, player_balance, reserve>>

\* A plain transfer to the bank, as deploy_bank makes to prefund it.
Fund(u, n) ==
    /\ Transfer(u, Bank, n)
    /\ reserve' = reserve + n
    /\ UNCHANGED <<allowance, game, player_balance>>

-----------------------------------------------------------------------------
(* The contract. *)

RecordGame(s, caller, amount, seed, bet) ==
    /\ game_player' = [game_player EXCEPT ![s] = caller]
    /\ game_amount' = [game_amount EXCEPT ![s] = amount]
    /\ game_seed' = [game_seed EXCEPT ![s] = seed]
    /\ game_bet' = [game_bet EXCEPT ![s] = bet]
    /\ game_state' = [game_state EXCEPT ![s] = STATE_DEPOSITED]

\* Mutant of Deposit: the 'Session already exists' assert is missing.
Deposit_NoExistsCheck(caller, s, amount, seed, bet) ==
    /\ amount > 0
    /\ Pull(caller, amount)
    /\ RecordGame(s, caller, amount, seed, bet)
    /\ UNCHANGED <<player_balance, reserve>>

\* Mutant of Deposit: the pulled amount is not checked against the balance.
Deposit_UncheckedPull(caller, s, amount, seed, bet) ==
    /\ amount > 0
    /\ game_state[s] = STATE_EMPTY
    /\ balance' = [balance EXCEPT ![caller] = @ - amount, ![Bank] = @ + amount]
    /\ RecordGame(s, caller, amount, seed, bet)
    /\ UNCHANGED <<allowance, player_balance, reserve>>

Deposit(caller, s, amount, seed, bet) ==
    /\ amount > 0
    /\ game_state[s] = STATE_EMPTY
    /\ Pull(caller, amount)
    /\ RecordGame(s, caller, amount, seed, bet)
    /\ UNCHANGED <<player_balance, reserve>>

Matched(s) ==
    /\ game_state' = [game_state EXCEPT ![s] = STATE_MATCHED]
    /\ UNCHANGED <<game_player, game_amount, game_seed, game_bet,
                   player_balance, reserve>>

\* Mutant of MatchDeposit: anyone's approved tokens can cover the stake.
MatchDeposit_AnyCaller(caller, s) ==
    /\ game_state[s] = STATE_DEPOSITED
    /\ Pull(caller, game_amount[s])
    /\ Matched(s)

\* Mutant of MatchDeposit: a transfer_from that moves nothing is not noticed.
MatchDeposit_NoTransfer(caller, s) ==
    /\ caller = Owner
    /\ game_state[s] = STATE_DEPOSITED
    /\ Matched(s)
    /\ UNCHANGED <<balance, allowance>>

MatchDeposit(caller, s) ==
    /\ caller = Owner
    /\ game_state[s] = STATE_DEPOSITED
    /\ Pull(caller, game_amount[s])
    /\ Matched(s)

Payout(s) == game_amount[s] * 2

Winner(s, seed) ==
    IF Outcome[seed][game_player[s]] = game_bet[s] THEN game_player[s] ELSE Owner

\* Mutant of Settle: the 'Not matched' assert lets a settled game in again.
Settle_Twice(caller, s, seed) ==
    /\ caller = Owner
    /\ game_state[s] \in {STATE_MATCHED, STATE_SETTLED}
    /\ Payout(s) <= MaxU256
    /\ Transfer(Bank, Winner(s, seed), Payout(s))
    /\ game_state' = [game_state EXCEPT ![s] = STATE_SETTLED]
    /\ UNCHANGED <<allowance, game_player, game_amount, game_seed, game_bet,
                   player_balance, reserve>>

\* The seed is the caller's argument; the deposited game_seed is not read.
\* amount * 2 is checked u256 arithmetic.
Settle(caller, s, seed) ==
    /\ caller = Owner
    /\ game_state[s] = STATE_MATCHED
    /\ Payout(s) <= MaxU256
    /\ Transfer(Bank, Winner(s, seed), Payout(s))
    /\ game_state' = [game_state EXCEPT ![s] = STATE_SETTLED]
    /\ UNCHANGED <<allowance, game_player, game_amount, game_seed, game_bet,
                   player_balance, reserve>>

\* A reverted withdraw is kept as a stuttering step: it is every withdraw.
Withdraw(caller) ==
    IF player_balance[caller] > 0
    THEN /\ player_balance' = [player_balance EXCEPT ![caller] = 0]
         /\ Transfer(Bank, caller, player_balance[caller])
         /\ UNCHANGED <<allowance, game, reserve>>
    ELSE UNCHANGED vars

Next ==
    \E u \in Users :
        \/ Withdraw(u)
        \/ \E n \in Amounts : Approve(u, n) \/ Fund(u, n)
        \/ \E s \in Sessions :
              \/ MatchDeposit(u, s)
              \/ \E seed \in Seeds : Settle(u, s, seed)
              \/ \E n \in Amounts, seed \in Seeds, bet \in Bets :
                    Deposit(u, s, n, seed, bet)

Spec == Init /\ [][Next]_vars

-----------------------------------------------------------------------------
(* What the bank keeps true. *)

TypeOK ==
    /\ balance \in [Accounts -> U256]
    /\ allowance \in [Users -> U256]
    /\ game_player \in [Sessions -> Users \cup {Nobody}]
    /\ game_amount \in [Sessions -> U256]
    /\ game_seed \in [Sessions -> Seeds \cup {0}]
    /\ game_bet \in [Sessions -> Bets \cup {0}]
    /\ game_state \in [Sessions -> STATE_EMPTY .. STATE_SETTLED]
    /\ player_balance \in [Users -> U256]
    /\ reserve \in Nat

\* The tokens session s has put into the bank and not yet taken out.
Held(s) ==
    IF game_state[s] = STATE_DEPOSITED THEN game_amount[s]
    ELSE IF game_state[s] = STATE_MATCHED THEN 2 * game_amount[s]
    ELSE 0

\* total is the running total of Held over the sessions 1, 2, ...
RunningTotal(total) ==
    /\ total[0] = 0
    /\ \A s \in Sessions : total[s] = total[s - 1] + Held(s)

\* Exact accounting: the bank's single token balance is the reserve plus what
\* all the sessions together hold.  deposit, match_deposit and settle of
\* different sessions move the same balance; none may ever use another's part.
BalanceIsHeldPlusReserve ==
    \E total \in [0 .. NumSessions -> U256] :
        /\ RunningTotal(total)
        /\ balance[Bank] = reserve + total[NumSessions]

\* Solvency: whatever other sessions have done, a matched session's whole
\* payout is in the bank, and doubling its amount cannot overflow a u256, so
\* the owner's settle of it never reverts in the contract.
MatchedGamesPayable ==
    \A s \in Sessions :
        game_state[s] = STATE_MATCHED =>
            Payout(s) <= balance[Bank] /\ Payout(s) <= MaxU256

\* A session's life: a step moves a game at most one state forward, never
\* back, and what the player staked and bet on never changes once recorded,
\* whoever calls deposit again for the same id.
GamesAdvanceWithFixedTerms ==
    [][\A s \in Sessions :
          /\ game_state'[s] \in {game_state[s], game_state[s] + 1}
          /\ game_state[s] # STATE_EMPTY =>
                /\ game_player'[s] = game_player[s]
                /\ game_amount'[s] = game_amount[s]
                /\ game_bet'[s] = game_bet[s]]_vars

-----------------------------------------------------------------------------
(* The bank implements separate pots. *)

StageName(s) ==
    IF game_state[s] = STATE_EMPTY THEN "empty"
    ELSE IF game_state[s] = STATE_DEPOSITED THEN "staked"
    ELSE IF game_state[s] = STATE_MATCHED THEN "covered"
    ELSE "paid"

Pots == INSTANCE Escrow WITH
    House <- Owner,
    wallet <- [u \in Users |-> balance[u]],
    pot <- [s \in Sessions |-> Held(s)],
    stage <- [s \in Sessions |-> StageName(s)],
    staker <- game_player,
    reserve <- reserve

\* The commingled balance behaves as the segregated pots of Escrow: a payout
\* is exactly the settled session's pot and goes to its player or the owner.
\* (Escrow starts from any wallets; the run starts from Funds.)
SeparatePots == Pots!Spec
=============================================================================
