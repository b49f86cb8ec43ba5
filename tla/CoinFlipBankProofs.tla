------------------------- MODULE CoinFlipBankProofs -------------------------
(***************************************************************************)
(* Proofs about CoinFlipBank for every set of callers, number of sessions, *)
(* amounts and outcomes.                                                   *)
(***************************************************************************)
EXTENDS CoinFlipBank, TLAPS

-----------------------------------------------------------------------------
(* Running totals.  A sum over the sessions is a recursive definition that *)
(* the provers cannot unfold, so the ledger is the statement that some     *)
(* function is a running total of Held, and a step exhibits the new one.   *)

\* t is the running total of f, and grows with the session number.
Totals(t, f) ==
    /\ t \in [0 .. NumSessions -> Nat]
    /\ t[0] = 0
    /\ \A s \in Sessions : t[s] = t[s - 1] + f[s]
    /\ \A i, j \in 0 .. NumSessions : i <= j => t[i] <= t[j]

\* What each session holds, as a function.
HeldBy == [s \in Sessions |-> Held(s)]

\* The ledger: the bank's balance is the reserve and a running total of Held.
Ledger == \E t : Totals(t, HeldBy) /\ balance[Bank] = reserve + t[NumSessions]

\* A game that has started has a player and a positive amount.
StartedGames ==
    \A s \in Sessions :
        game_state[s] # STATE_EMPTY => game_player[s] \in Users /\ game_amount[s] > 0

\* Nothing is ever credited to player_balance, so withdraw always reverts.
NothingWithdrawable == \A u \in Users : player_balance[u] = 0

\* The inductive invariant of the bank.
BankInv == TypeOK /\ StartedGames /\ NothingWithdrawable /\ Ledger

\* Changing what one session holds shifts every later total by the change.
LEMMA TotalsUpdate ==
    ASSUME NEW f \in [Sessions -> Nat], NEW k \in Sessions, NEW v \in Nat,
           NEW t, Totals(t, f)
    PROVE  \E u : /\ Totals(u, [f EXCEPT ![k] = v])
                  /\ u[NumSessions] = t[NumSessions] - f[k] + v
<1> DEFINE u == [i \in 0 .. NumSessions |-> IF i < k THEN t[i] ELSE t[i] - f[k] + v]
           g == [f EXCEPT ![k] = v]
<1>1. NumSessions \in Nat /\ k \in 1 .. NumSessions
  BY BankAssumption DEF Sessions
<1>2. t \in [0 .. NumSessions -> Nat] /\ t[k] = t[k - 1] + f[k] /\ f[k] \in Nat
  BY DEF Totals
<1>3. \A i \in 0 .. NumSessions : k <= i => t[i] >= t[k - 1] + f[k]
  BY <1>1, <1>2 DEF Totals
<1>4. \A i \in 0 .. NumSessions : t[i] \in Nat /\ (k <= i => t[i] >= f[k])
  BY <1>1, <1>2, <1>3
<1>5. u \in [0 .. NumSessions -> Nat]
  BY <1>1, <1>2, <1>4
<1>6. u[0] = 0
  BY <1>1 DEF Totals
<1>7. \A s \in Sessions : u[s] = u[s - 1] + g[s]
  <2> SUFFICES ASSUME NEW s \in Sessions PROVE u[s] = u[s - 1] + g[s]
    OBVIOUS
  <2>1. /\ s \in 0 .. NumSessions /\ s - 1 \in 0 .. NumSessions
        /\ t[s] = t[s - 1] + f[s] /\ f[s] \in Nat /\ t[s - 1] \in Nat
    BY <1>1, <1>2 DEF Sessions, Totals
  <2>2. CASE s < k
    BY <2>1, <2>2, <1>1 DEF Sessions
  <2>3. CASE s = k
    BY <2>1, <2>3, <1>1, <1>2 DEF Sessions
  <2>4. CASE s > k
    BY <2>1, <2>4, <1>1, <1>2 DEF Sessions
  <2> QED BY <2>2, <2>3, <2>4, <1>1 DEF Sessions
<1>8. \A i, j \in 0 .. NumSessions : i <= j => u[i] <= u[j]
  <2> SUFFICES ASSUME NEW i \in 0 .. NumSessions, NEW j \in 0 .. NumSessions, i <= j
               PROVE  u[i] <= u[j]
    OBVIOUS
  <2>1. t[i] <= t[j] /\ t[i] \in Nat /\ t[j] \in Nat
    BY <1>2 DEF Totals
  <2>2. CASE j < k
    BY <2>1, <2>2, <1>1
  <2>3. CASE i >= k
    BY <2>1, <2>3, <1>1, <1>2
  <2>4. CASE i < k /\ k <= j
    <3>1. k - 1 \in 0 .. NumSessions /\ i <= k - 1
      BY <1>1, <2>4
    <3>2. t[i] <= t[k - 1]
      BY <3>1 DEF Totals
    <3> QED BY <3>1, <3>2, <2>1, <2>4, <1>1, <1>2, <1>3
  <2> QED BY <2>2, <2>3, <2>4, <1>1
<1>9. u[NumSessions] = t[NumSessions] - f[k] + v
  BY <1>1
<1> HIDE DEF u
<1> QED BY <1>5, <1>6, <1>7, <1>8, <1>9 DEF Totals

\* A session's part of a running total is at most the whole.
LEMMA TotalsBound ==
    ASSUME NEW f \in [Sessions -> Nat], NEW k \in Sessions, NEW t, Totals(t, f)
    PROVE  f[k] <= t[NumSessions] /\ t[NumSessions] \in Nat
<1>1. NumSessions \in Nat /\ k \in 1 .. NumSessions
  BY BankAssumption DEF Sessions
<1>2. /\ t[k] = t[k - 1] + f[k] /\ t[k - 1] \in Nat /\ f[k] \in Nat
      /\ t[k] <= t[NumSessions] /\ t[NumSessions] \in Nat /\ t[k] \in Nat
  BY <1>1 DEF Totals
<1> QED BY <1>2

-----------------------------------------------------------------------------
\* Only sessions' states and amounts matter to what they hold.
LEMMA HeldByNat == TypeOK => HeldBy \in [Sessions -> Nat]
<1> SUFFICES ASSUME TypeOK, NEW s \in Sessions PROVE Held(s) \in Nat
  BY DEF HeldBy
<1>1. game_amount[s] \in Nat
  BY BankAssumption DEF TypeOK, U256
<1> QED BY <1>1 DEF Held

\* A step that changes what session k holds to v, and moves the balance net of
\* the reserve by the same amount, keeps the ledger.
LEMMA LedgerStep ==
    ASSUME TypeOK, Ledger, NEW k \in Sessions, NEW v \in Nat,
           HeldBy' = [HeldBy EXCEPT ![k] = v],
           balance'[Bank] = balance[Bank] - Held(k) + v,
           reserve' = reserve
    PROVE  Ledger'
<1>1. PICK t : Totals(t, HeldBy) /\ balance[Bank] = reserve + t[NumSessions]
  BY DEF Ledger
<1>2. HeldBy \in [Sessions -> Nat] /\ HeldBy[k] = Held(k)
  BY HeldByNat DEF HeldBy
<1>3. PICK u : /\ Totals(u, [HeldBy EXCEPT ![k] = v])
               /\ u[NumSessions] = t[NumSessions] - HeldBy[k] + v
  BY <1>1, <1>2, TotalsUpdate
<1>4. t[NumSessions] \in Nat /\ HeldBy[k] \in Nat /\ reserve \in Nat
  BY <1>1, <1>2, BankAssumption DEF Totals, TypeOK
<1>5. Totals(u, HeldBy') /\ balance'[Bank] = reserve' + u[NumSessions]
  BY <1>1, <1>2, <1>3, <1>4
<1>6. Totals(u, HeldBy)'
  BY <1>5 DEF Totals, Sessions
<1> QED BY <1>5, <1>6 DEF Ledger

-----------------------------------------------------------------------------
(* The inductive invariant. *)

\* Nothing has happened yet: every session holds nothing and so does the bank.
LEMMA InitBankInv == Init => BankInv
<1> SUFFICES ASSUME Init PROVE BankInv
  OBVIOUS
<1> USE BankAssumption DEF Init
<1>1. TypeOK
  BY DEF TypeOK, Accounts, U256, STATE_EMPTY, STATE_SETTLED
<1>2. StartedGames /\ NothingWithdrawable
  BY DEF StartedGames, NothingWithdrawable
<1>3. Ledger
  <2> DEFINE t == [i \in 0 .. NumSessions |-> 0]
  <2>1. \A s \in Sessions : HeldBy[s] = 0
    BY DEF HeldBy, Held, STATE_EMPTY, STATE_DEPOSITED, STATE_MATCHED
  <2>2. Totals(t, HeldBy)
    BY <2>1 DEF Totals, Sessions
  <2>3. balance[Bank] = reserve + t[NumSessions]
    BY DEF Accounts
  <2> QED BY <2>2, <2>3 DEF Ledger
<1> QED BY <1>1, <1>2, <1>3 DEF BankInv

\* A transfer to or from the bank, in terms of balances.
LEMMA TransferEffect ==
    ASSUME TypeOK, NEW from \in Accounts, NEW to \in Accounts, NEW n \in Nat,
           from # to, Transfer(from, to, n)
    PROVE  /\ balance' \in [Accounts -> U256]
           /\ balance[from] \in Nat /\ balance[to] \in Nat
           /\ balance'[from] = balance[from] - n
           /\ balance'[to] = balance[to] + n
           /\ \A a \in Accounts \ {from, to} : balance'[a] = balance[a]
<1>1. balance \in [Accounts -> U256] /\ MaxU256 \in Nat
  BY BankAssumption DEF TypeOK
<1>2. balance[from] \in U256 /\ balance[to] \in U256
  BY <1>1
<1>3. /\ balance[from] - n \in U256
      /\ balance[to] + n \in U256
  BY <1>1, <1>2 DEF Transfer, U256
<1>4. balance' = [[balance EXCEPT ![from] = balance[from] - n]
                    EXCEPT ![to] = balance[to] + n]
  BY <1>1 DEF Transfer
<1> QED BY <1>1, <1>2, <1>3, <1>4 DEF U256

\* Only session k's state and amount change, so only what k holds changes.
LEMMA HeldByUpdate ==
    ASSUME NEW k \in Sessions,
           \A s \in Sessions \ {k} :
              game_state'[s] = game_state[s] /\ game_amount'[s] = game_amount[s]
    PROVE  HeldBy' = [HeldBy EXCEPT ![k] = Held(k)']
<1>1. \A s \in Sessions \ {k} : Held(s)' = Held(s)
  BY DEF Held
<1> QED BY <1>1 DEF HeldBy, Sessions

\* No session's state or amount changes, and neither does what they hold.
LEMMA HeldByUnchanged ==
    ASSUME UNCHANGED <<game_state, game_amount>>
    PROVE  HeldBy' = HeldBy
BY DEF HeldBy, Held, Sessions

\* A tokens-only step that keeps the bank's balance net of the reserve.
LEMMA LedgerUnchanged ==
    ASSUME TypeOK, Ledger, UNCHANGED <<game_state, game_amount>>,
           NEW n \in Nat, balance'[Bank] = balance[Bank] + n, reserve' = reserve + n
    PROVE  Ledger'
<1>1. PICK t : Totals(t, HeldBy) /\ balance[Bank] = reserve + t[NumSessions]
  BY DEF Ledger
<1>2. t[NumSessions] \in Nat /\ reserve \in Nat
  BY <1>1, BankAssumption DEF Totals, TypeOK
<1>3. Totals(t, HeldBy)' /\ balance'[Bank] = reserve' + t[NumSessions]
  BY <1>1, <1>2, HeldByUnchanged DEF Totals, Sessions
<1> QED BY <1>3 DEF Ledger

-----------------------------------------------------------------------------
(* One lemma per entry point: it keeps the inductive invariant. *)

\* deposit opens an unused session and pulls its stake into the bank.
LEMMA DepositKeepsInv ==
    ASSUME BankInv, NEW u \in Users, NEW s \in Sessions, NEW n \in Amounts,
           NEW seed \in Seeds, NEW bet \in Bets, Deposit(u, s, n, seed, bet)
    PROVE  BankInv'
<1>1. TypeOK /\ n \in U256 /\ n \in Nat /\ u \in Accounts /\ Bank \in Accounts /\ u # Bank
  BY BankAssumption DEF BankInv, Accounts, U256
<1>2. Transfer(u, Bank, n) /\ allowance[u] >= n /\ allowance' = [allowance EXCEPT ![u] = @ - n]
  BY DEF Deposit, Pull
<1>3. /\ balance' \in [Accounts -> U256]
      /\ balance'[Bank] = balance[Bank] + n
      /\ balance[Bank] \in Nat
  BY <1>1, <1>2, TransferEffect
<1>4. TypeOK'
  <2>1. allowance' \in [Users -> U256]
    BY <1>1, <1>2, BankAssumption DEF TypeOK, U256
  <2> QED
    BY <1>1, <1>3, <2>1
       DEF TypeOK, Deposit, RecordGame, STATE_EMPTY, STATE_DEPOSITED, STATE_SETTLED
<1>5. StartedGames'
  BY <1>1 DEF BankInv, TypeOK, StartedGames, Deposit, RecordGame
<1>6. NothingWithdrawable'
  BY DEF BankInv, NothingWithdrawable, Deposit
<1>7. Ledger'
  <2>1. HeldBy' = [HeldBy EXCEPT ![s] = Held(s)']
    BY <1>1, HeldByUpdate DEF Deposit, RecordGame, TypeOK
  <2>2. Held(s) = 0 /\ Held(s)' = n
    BY <1>1 DEF Held, Deposit, RecordGame, TypeOK, STATE_EMPTY, STATE_DEPOSITED, STATE_MATCHED
  <2>3. balance'[Bank] = balance[Bank] - Held(s) + n
    BY <1>1, <1>3, <2>2
  <2>4. reserve' = reserve /\ Ledger
    BY DEF Deposit, BankInv
  <2> QED BY <1>1, <2>1, <2>2, <2>3, <2>4, LedgerStep
<1> QED BY <1>4, <1>5, <1>6, <1>7 DEF BankInv

\* match_deposit pulls the same amount again, from the owner.
LEMMA MatchDepositKeepsInv ==
    ASSUME BankInv, NEW u \in Users, NEW s \in Sessions, MatchDeposit(u, s)
    PROVE  BankInv'
<1> DEFINE n == game_amount[s]
<1>1. TypeOK /\ n \in U256 /\ n \in Nat /\ u \in Accounts /\ Bank \in Accounts /\ u # Bank
  BY BankAssumption DEF BankInv, Accounts, U256, TypeOK
<1>2. Transfer(u, Bank, n) /\ allowance[u] >= n /\ allowance' = [allowance EXCEPT ![u] = @ - n]
  BY DEF MatchDeposit, Pull
<1>3. /\ balance' \in [Accounts -> U256]
      /\ balance'[Bank] = balance[Bank] + n
      /\ balance[Bank] \in Nat
  BY <1>1, <1>2, TransferEffect
<1>4. TypeOK'
  <2>1. allowance' \in [Users -> U256]
    BY <1>1, <1>2, BankAssumption DEF TypeOK, U256
  <2> QED
    BY <1>1, <1>3, <2>1
       DEF TypeOK, MatchDeposit, Matched, STATE_EMPTY, STATE_MATCHED, STATE_SETTLED
<1>5. StartedGames'
  BY <1>1 DEF BankInv, TypeOK, StartedGames, MatchDeposit, Matched,
              STATE_EMPTY, STATE_DEPOSITED, STATE_MATCHED
<1>6. NothingWithdrawable'
  BY DEF BankInv, NothingWithdrawable, MatchDeposit, Matched
<1>7. Ledger'
  <2>1. HeldBy' = [HeldBy EXCEPT ![s] = Held(s)']
    BY <1>1, HeldByUpdate DEF MatchDeposit, Matched, TypeOK
  <2>2. Held(s) = n /\ Held(s)' = 2 * n
    BY <1>1 DEF Held, MatchDeposit, Matched, TypeOK, STATE_DEPOSITED, STATE_MATCHED
  <2>3. balance'[Bank] = balance[Bank] - Held(s) + 2 * n /\ 2 * n \in Nat
    BY <1>1, <1>3, <2>2
  <2>4. reserve' = reserve /\ Ledger
    BY DEF MatchDeposit, Matched, BankInv
  <2> QED BY <1>1, <2>1, <2>2, <2>3, <2>4, LedgerStep
<1> QED BY <1>4, <1>5, <1>6, <1>7 DEF BankInv

\* settle pays out exactly what the session holds.
LEMMA SettleKeepsInv ==
    ASSUME BankInv, NEW u \in Users, NEW s \in Sessions, NEW seed \in Seeds,
           Settle(u, s, seed)
    PROVE  BankInv'
<1> DEFINE n == Payout(s)
           w == Winner(s, seed)
<1>1. /\ TypeOK /\ n \in Nat /\ Bank \in Accounts
      /\ game_state[s] = STATE_MATCHED /\ game_amount[s] \in Nat
  BY BankAssumption DEF BankInv, Accounts, U256, TypeOK, Payout, Settle
<1>2. w \in Users /\ w \in Accounts /\ w # Bank
  BY <1>1, BankAssumption
     DEF BankInv, StartedGames, Winner, Accounts, STATE_EMPTY, STATE_MATCHED
<1>3. Transfer(Bank, w, n)
  BY DEF Settle
<1>4. /\ balance' \in [Accounts -> U256]
      /\ balance'[Bank] = balance[Bank] - n
      /\ balance[Bank] \in Nat
  BY <1>1, <1>2, <1>3, TransferEffect
<1>5. TypeOK'
  BY <1>1, <1>4 DEF TypeOK, Settle, STATE_EMPTY, STATE_SETTLED
<1>6. StartedGames'
  BY <1>1 DEF BankInv, TypeOK, StartedGames, Settle, STATE_EMPTY, STATE_MATCHED
<1>7. NothingWithdrawable'
  BY DEF BankInv, NothingWithdrawable, Settle
<1>8. Ledger'
  <2>1. HeldBy' = [HeldBy EXCEPT ![s] = Held(s)']
    BY <1>1, HeldByUpdate DEF Settle, TypeOK
  <2>2. Held(s) = n /\ Held(s)' = 0
    BY <1>1 DEF Held, Settle, Payout, TypeOK, STATE_DEPOSITED, STATE_MATCHED, STATE_SETTLED
  <2>3. balance'[Bank] = balance[Bank] - Held(s) + 0 /\ 0 \in Nat
    BY <1>1, <1>4, <2>2
  <2>4. reserve' = reserve /\ Ledger
    BY DEF Settle, BankInv
  <2>5. HeldBy' = [HeldBy EXCEPT ![s] = 0]
    BY <2>1, <2>2
  <2> QED BY <1>1, <2>3, <2>4, <2>5, LedgerStep
<1> QED BY <1>5, <1>6, <1>7, <1>8 DEF BankInv

\* withdraw never gets past its assert.
LEMMA WithdrawReverts ==
    ASSUME BankInv, NEW u \in Users, Withdraw(u)
    PROVE  UNCHANGED vars
BY DEF BankInv, NothingWithdrawable, Withdraw

\* approve and a plain transfer to the bank leave the games alone.
LEMMA TokenStepKeepsInv ==
    ASSUME BankInv, NEW u \in Users, NEW n \in Amounts, Approve(u, n) \/ Fund(u, n)
    PROVE  BankInv'
<1>1. TypeOK /\ n \in U256 /\ n \in Nat /\ u \in Accounts /\ Bank \in Accounts /\ u # Bank
  BY BankAssumption DEF BankInv, Accounts, U256
<1>2. UNCHANGED game /\ UNCHANGED player_balance
  BY DEF Approve, Fund
<1>3. StartedGames' /\ NothingWithdrawable'
  BY <1>2 DEF BankInv, StartedGames, NothingWithdrawable, game
<1>4. CASE Approve(u, n)
  <2>1. TypeOK'
    BY <1>1, <1>4 DEF TypeOK, Approve, game
  <2>2. balance'[Bank] = balance[Bank] + 0 /\ reserve' = reserve + 0
    BY <1>1, <1>4, BankAssumption DEF TypeOK, Approve, U256
  <2>3. Ledger'
    BY <1>1, <1>2, <2>2, LedgerUnchanged DEF game, BankInv
  <2> QED BY <1>3, <2>1, <2>3 DEF BankInv
<1>5. CASE Fund(u, n)
  <2>1. Transfer(u, Bank, n) /\ reserve' = reserve + n
    BY <1>5 DEF Fund
  <2>2. balance' \in [Accounts -> U256] /\ balance'[Bank] = balance[Bank] + n
    BY <1>1, <2>1, TransferEffect
  <2>3. TypeOK'
    BY <1>1, <1>5, <2>2 DEF TypeOK, Fund, game
  <2>4. Ledger'
    BY <1>1, <1>2, <2>1, <2>2, LedgerUnchanged DEF game, BankInv
  <2> QED BY <1>3, <2>3, <2>4 DEF BankInv
<1> QED BY <1>4, <1>5

\* Stuttering keeps the invariant.
LEMMA StutterKeepsInv == ASSUME BankInv, UNCHANGED vars PROVE BankInv'
<1>1. TypeOK' /\ StartedGames' /\ NothingWithdrawable'
  BY DEF BankInv, TypeOK, StartedGames, NothingWithdrawable, vars, game
<1>2. Ledger'
  BY HeldByUnchanged DEF BankInv, Ledger, Totals, Sessions, vars, game
<1> QED BY <1>1, <1>2 DEF BankInv

\* Every step of the bank keeps the invariant.
LEMMA NextKeepsBankInv == BankInv /\ [Next]_vars => BankInv'
<1> SUFFICES ASSUME BankInv, [Next]_vars PROVE BankInv'
  OBVIOUS
<1>1. ASSUME NEW u \in Users, Withdraw(u) PROVE BankInv'
  BY <1>1, WithdrawReverts, StutterKeepsInv
<1>2. ASSUME NEW u \in Users, NEW n \in Amounts, Approve(u, n) \/ Fund(u, n) PROVE BankInv'
  BY <1>2, TokenStepKeepsInv
<1>3. ASSUME NEW u \in Users, NEW s \in Sessions, MatchDeposit(u, s) PROVE BankInv'
  BY <1>3, MatchDepositKeepsInv
<1>4. ASSUME NEW u \in Users, NEW s \in Sessions, NEW seed \in Seeds, Settle(u, s, seed)
      PROVE  BankInv'
  BY <1>4, SettleKeepsInv
<1>5. ASSUME NEW u \in Users, NEW s \in Sessions, NEW n \in Amounts, NEW seed \in Seeds,
             NEW bet \in Bets, Deposit(u, s, n, seed, bet)
      PROVE  BankInv'
  BY <1>5, DepositKeepsInv
<1>6. CASE UNCHANGED vars
  BY <1>6, StutterKeepsInv
<1> QED BY <1>1, <1>2, <1>3, <1>4, <1>5, <1>6 DEF Next

-----------------------------------------------------------------------------
(* Safety. *)

\* The inductive invariant holds throughout.
LEMMA BankInvariant == Spec => []BankInv
<1>1. Init => BankInv
  BY InitBankInv
<1>2. BankInv /\ [Next]_vars => BankInv'
  BY NextKeepsBankInv
<1> QED BY <1>1, <1>2, PTL DEF Spec

\* Every balance stays a u256 and every stored field stays in its type.
THEOREM BankTypeCorrect == Spec => []TypeOK
<1>1. BankInv => TypeOK
  BY DEF BankInv
<1> QED BY <1>1, BankInvariant, PTL

\* The bank's token balance is exactly the reserve plus what the sessions hold.
THEOREM BankAccountsExactly == Spec => []BalanceIsHeldPlusReserve
<1>1. BankInv => BalanceIsHeldPlusReserve
  <2> SUFFICES ASSUME BankInv PROVE BalanceIsHeldPlusReserve
    OBVIOUS
  <2>1. PICK t : Totals(t, HeldBy) /\ balance[Bank] = reserve + t[NumSessions]
    BY DEF BankInv, Ledger
  <2>2. balance[Bank] \in U256 /\ reserve \in Nat /\ NumSessions \in Nat /\ MaxU256 \in Nat
    BY BankAssumption DEF BankInv, TypeOK, Accounts
  <2>3. \A i \in 0 .. NumSessions : t[i] \in Nat /\ t[i] <= t[NumSessions]
    BY <2>1, <2>2 DEF Totals
  <2>4. t[NumSessions] <= MaxU256 /\ t[NumSessions] \in Nat
    BY <2>1, <2>2, <2>3 DEF U256
  <2>5. \A i \in 0 .. NumSessions : t[i] \in U256
    BY <2>2, <2>3, <2>4 DEF U256
  <2>6. t \in [0 .. NumSessions -> U256]
    BY <2>1, <2>5 DEF Totals
  <2>7. RunningTotal(t)
    BY <2>1 DEF Totals, RunningTotal, HeldBy
  <2> QED BY <2>1, <2>6, <2>7 DEF BalanceIsHeldPlusReserve
<1> QED BY <1>1, BankInvariant, PTL

\* A matched game can always be paid out of the bank, without overflow.
THEOREM BankSolvent == Spec => []MatchedGamesPayable
<1>1. BankInv => MatchedGamesPayable
  <2> SUFFICES ASSUME BankInv, NEW s \in Sessions, game_state[s] = STATE_MATCHED
               PROVE  Payout(s) <= balance[Bank] /\ Payout(s) <= MaxU256
    BY DEF MatchedGamesPayable
  <2>1. PICK t : Totals(t, HeldBy) /\ balance[Bank] = reserve + t[NumSessions]
    BY DEF BankInv, Ledger
  <2>2. /\ HeldBy \in [Sessions -> Nat]
        /\ balance[Bank] \in U256 /\ reserve \in Nat /\ MaxU256 \in Nat
        /\ game_amount[s] \in U256
    BY HeldByNat, BankAssumption DEF BankInv, TypeOK, Accounts
  <2>3. HeldBy[s] <= t[NumSessions] /\ t[NumSessions] \in Nat
    BY <2>1, <2>2, TotalsBound
  <2>4. HeldBy[s] = Payout(s) /\ Payout(s) \in Nat
    BY <2>2 DEF HeldBy, Held, Payout, U256, STATE_DEPOSITED, STATE_MATCHED
  <2> QED BY <2>1, <2>2, <2>3, <2>4 DEF U256
<1> QED BY <1>1, BankInvariant, PTL

\* Games move forward one state at a time and keep their recorded terms.
THEOREM BankGamesAdvance == Spec => GamesAdvanceWithFixedTerms
<1> DEFINE Fixed(s) == /\ game_state'[s] \in {game_state[s], game_state[s] + 1}
                       /\ game_state[s] # STATE_EMPTY =>
                             /\ game_player'[s] = game_player[s]
                             /\ game_amount'[s] = game_amount[s]
                             /\ game_bet'[s] = game_bet[s]
<1>1. ASSUME BankInv, [Next]_vars, NEW s \in Sessions PROVE Fixed(s)
  <2>1. TypeOK
    BY <1>1 DEF BankInv
  <2>2. CASE UNCHANGED game
    BY <2>1, <2>2 DEF game, TypeOK
  <2>3. ASSUME NEW u \in Users, Withdraw(u) PROVE UNCHANGED game
    BY <1>1, <2>3, WithdrawReverts DEF vars
  <2>4. ASSUME NEW u \in Users, NEW n \in Amounts, Approve(u, n) \/ Fund(u, n)
        PROVE  UNCHANGED game
    BY <2>4 DEF Approve, Fund
  <2>5. ASSUME NEW u \in Users, NEW k \in Sessions, MatchDeposit(u, k) PROVE Fixed(s)
    BY <2>1, <2>5 DEF TypeOK, MatchDeposit, Matched, STATE_DEPOSITED, STATE_MATCHED
  <2>6. ASSUME NEW u \in Users, NEW k \in Sessions, NEW seed \in Seeds, Settle(u, k, seed)
        PROVE  Fixed(s)
    BY <2>1, <2>6 DEF TypeOK, Settle, STATE_MATCHED, STATE_SETTLED
  <2>7. ASSUME NEW u \in Users, NEW k \in Sessions, NEW n \in Amounts,
               NEW seed \in Seeds, NEW bet \in Bets, Deposit(u, k, n, seed, bet)
        PROVE  Fixed(s)
    BY <2>1, <2>7 DEF TypeOK, Deposit, RecordGame, STATE_EMPTY, STATE_DEPOSITED
  <2> QED BY <1>1, <2>2, <2>3, <2>4, <2>5, <2>6, <2>7 DEF Next, vars
<1>2. BankInv /\ [Next]_vars => [\A s \in Sessions : Fixed(s)]_vars
  BY <1>1
<1> QED BY <1>2, BankInvariant, PTL DEF Spec, GamesAdvanceWithFixedTerms

-----------------------------------------------------------------------------
(* Refinement. *)

\* The bank starts as Escrow does.
LEMMA InitRefines == Init => Pots!Init
<1> SUFFICES ASSUME Init PROVE Pots!Init
  OBVIOUS
<1>1. \A s \in Sessions : Held(s) = 0 /\ StageName(s) = "empty"
  BY DEF Init, Held, StageName, STATE_EMPTY, STATE_DEPOSITED, STATE_MATCHED
<1>2. [u \in Users |-> balance[u]] \in [Users -> Nat]
  BY BankAssumption DEF Init, Accounts, U256
<1> QED BY <1>1, <1>2 DEF Init, Pots!Init

\* A deposit is a stake of its amount.
LEMMA DepositRefines ==
    ASSUME BankInv, NEW u \in Users, NEW s \in Sessions, NEW n \in Amounts,
           NEW seed \in Seeds, NEW bet \in Bets, Deposit(u, s, n, seed, bet)
    PROVE  Pots!Stake(u, s, n)
<1>1. TypeOK /\ n \in Nat /\ u \in Accounts /\ Bank \in Accounts /\ u # Bank
  BY BankAssumption DEF BankInv, Accounts, U256
<1>2. Transfer(u, Bank, n)
  BY DEF Deposit, Pull
<1>3. /\ balance'[u] = balance[u] - n /\ balance[u] >= n
      /\ \A a \in Users \ {u} : balance'[a] = balance[a]
  BY <1>1, <1>2, TransferEffect, BankAssumption DEF Accounts, Transfer
<1>4. /\ \A k \in Sessions \ {s} : Held(k)' = Held(k) /\ StageName(k)' = StageName(k)
      /\ Held(s)' = n /\ StageName(s) = "empty" /\ StageName(s)' = "staked"
  BY <1>1 DEF TypeOK, Deposit, RecordGame, Held, StageName,
              STATE_EMPTY, STATE_DEPOSITED, STATE_MATCHED
<1>5. [a \in Users |-> balance'[a]] = [[a \in Users |-> balance[a]] EXCEPT ![u] = @ - n]
  BY <1>3
<1>6. [k \in Sessions |-> Held(k)'] = [[k \in Sessions |-> Held(k)] EXCEPT ![s] = n]
  BY <1>4
<1>7. [k \in Sessions |-> StageName(k)'] = [[k \in Sessions |-> StageName(k)] EXCEPT ![s] = "staked"]
  BY <1>4
<1> QED
  BY <1>1, <1>3, <1>4, <1>5, <1>6, <1>7
     DEF Pots!Stake, Deposit, RecordGame, TypeOK, Sessions

\* A match doubles the pot out of the owner's wallet.
LEMMA MatchDepositRefines ==
    ASSUME BankInv, NEW u \in Users, NEW s \in Sessions, MatchDeposit(u, s)
    PROVE  Pots!Cover(s)
<1> DEFINE n == game_amount[s]
<1>1. /\ TypeOK /\ n \in Nat /\ u \in Accounts /\ Bank \in Accounts
      /\ u # Bank /\ u = Owner
  BY BankAssumption DEF BankInv, Accounts, U256, TypeOK, MatchDeposit
<1>2. Transfer(u, Bank, n)
  BY DEF MatchDeposit, Pull
<1>3. /\ balance'[u] = balance[u] - n /\ balance[u] >= n
      /\ \A a \in Users \ {u} : balance'[a] = balance[a]
  BY <1>1, <1>2, TransferEffect, BankAssumption DEF Accounts, Transfer
<1>4. /\ \A k \in Sessions \ {s} : Held(k)' = Held(k) /\ StageName(k)' = StageName(k)
      /\ Held(s) = n /\ Held(s)' = 2 * n
      /\ StageName(s) = "staked" /\ StageName(s)' = "covered"
  BY <1>1 DEF TypeOK, MatchDeposit, Matched, Held, StageName,
              STATE_EMPTY, STATE_DEPOSITED, STATE_MATCHED
<1>5. [a \in Users |-> balance'[a]] = [[a \in Users |-> balance[a]] EXCEPT ![Owner] = @ - n]
  BY <1>1, <1>3
<1>6. [k \in Sessions |-> Held(k)'] = [[k \in Sessions |-> Held(k)] EXCEPT ![s] = 2 * @]
  BY <1>4
<1>7. [k \in Sessions |-> StageName(k)'] = [[k \in Sessions |-> StageName(k)] EXCEPT ![s] = "covered"]
  BY <1>4
<1> QED
  BY <1>1, <1>3, <1>4, <1>5, <1>6, <1>7 DEF Pots!Cover, MatchDeposit, Matched, Sessions

\* The winner of a matched game is a caller, and one of the two entitled.
LEMMA WinnerEntitled ==
    ASSUME BankInv, NEW s \in Sessions, NEW seed \in Seeds, game_state[s] = STATE_MATCHED
    PROVE  Winner(s, seed) \in Users /\ Winner(s, seed) \in {game_player[s], Owner}
BY BankAssumption DEF BankInv, StartedGames, Winner, STATE_EMPTY, STATE_MATCHED

\* A settlement pays the whole pot to its winner.
LEMMA SettleRefines ==
    ASSUME BankInv, NEW u \in Users, NEW s \in Sessions, NEW seed \in Seeds,
           Settle(u, s, seed), NEW w \in Users, w = Winner(s, seed)
    PROVE  Pots!Pay(s, w)
<1> DEFINE n == Payout(s)
<1>1. /\ TypeOK /\ n \in Nat /\ Bank \in Accounts
      /\ game_state[s] = STATE_MATCHED /\ game_amount[s] \in Nat
  BY BankAssumption DEF BankInv, Accounts, U256, TypeOK, Payout, Settle
<1>2. w \in Accounts /\ w # Bank /\ w \in {game_player[s], Owner}
  BY <1>1, WinnerEntitled, BankAssumption DEF Accounts
<1>3. Transfer(Bank, w, n)
  BY DEF Settle
<1>4. /\ balance'[w] = balance[w] + n
      /\ \A a \in Users \ {w} : balance'[a] = balance[a]
  BY <1>1, <1>2, <1>3, TransferEffect, BankAssumption DEF Accounts
<1>5. /\ \A k \in Sessions \ {s} : Held(k)' = Held(k) /\ StageName(k)' = StageName(k)
      /\ Held(s) = n /\ Held(s)' = 0
      /\ StageName(s) = "covered" /\ StageName(s)' = "paid"
  BY <1>1 DEF TypeOK, Settle, Payout, Held, StageName,
              STATE_EMPTY, STATE_DEPOSITED, STATE_MATCHED, STATE_SETTLED
<1>6. [a \in Users |-> balance'[a]] = [[a \in Users |-> balance[a]] EXCEPT ![w] = @ + n]
  BY <1>2, <1>4
<1>7. [k \in Sessions |-> Held(k)'] = [[k \in Sessions |-> Held(k)] EXCEPT ![s] = 0]
  BY <1>5
<1>8. [k \in Sessions |-> StageName(k)'] = [[k \in Sessions |-> StageName(k)] EXCEPT ![s] = "paid"]
  BY <1>5
<1> QED
  BY <1>1, <1>2, <1>5, <1>6, <1>7, <1>8 DEF Pots!Pay, Settle, Sessions

\* A transfer to the bank is a donation; an approval is invisible.
LEMMA TokenStepRefines ==
    ASSUME BankInv, NEW u \in Users, NEW n \in Amounts, Approve(u, n) \/ Fund(u, n)
    PROVE  Pots!Donate(u, n) \/ UNCHANGED Pots!vars
<1>1. TypeOK /\ n \in Nat /\ u \in Accounts /\ Bank \in Accounts /\ u # Bank
  BY BankAssumption DEF BankInv, Accounts, U256
<1>2. UNCHANGED game
  BY DEF Approve, Fund
<1>3. \A k \in Sessions : Held(k)' = Held(k) /\ StageName(k)' = StageName(k)
  BY <1>2 DEF game, Held, StageName
<1>4. CASE Approve(u, n)
  BY <1>2, <1>3, <1>4 DEF Pots!vars, Approve, game, Sessions
<1>5. CASE Fund(u, n)
  <2>1. Transfer(u, Bank, n)
    BY <1>5 DEF Fund
  <2>2. /\ balance'[u] = balance[u] - n /\ balance[u] >= n
        /\ \A a \in Users \ {u} : balance'[a] = balance[a]
    BY <1>1, <2>1, TransferEffect, BankAssumption DEF Accounts, Transfer
  <2>3. [a \in Users |-> balance'[a]] = [[a \in Users |-> balance[a]] EXCEPT ![u] = @ - n]
    BY <2>2
  <2> QED BY <1>2, <1>3, <1>5, <2>2, <2>3 DEF Pots!Donate, Fund, game, Sessions
<1> QED BY <1>4, <1>5

\* The bank, one balance and all, implements a separate pot per session.
THEOREM BankRefinesEscrow == Spec => SeparatePots
<1>1. ASSUME BankInv, [Next]_vars PROVE [Pots!Next]_(Pots!vars)
  <2>1. ASSUME UNCHANGED vars PROVE UNCHANGED Pots!vars
    <3>1. \A k \in Sessions : Held(k)' = Held(k) /\ StageName(k)' = StageName(k)
      BY <2>1 DEF vars, game, Held, StageName
    <3> QED BY <2>1, <3>1 DEF Pots!vars, vars, game, Sessions
  <2>2. ASSUME NEW u \in Users, Withdraw(u) PROVE UNCHANGED Pots!vars
    BY <1>1, <2>1, <2>2, WithdrawReverts
  <2>3. ASSUME NEW u \in Users, NEW n \in Amounts, Approve(u, n) \/ Fund(u, n)
        PROVE  Pots!Next \/ UNCHANGED Pots!vars
    BY <1>1, <2>3, TokenStepRefines DEF Pots!Next
  <2>4. ASSUME NEW u \in Users, NEW s \in Sessions, MatchDeposit(u, s) PROVE Pots!Next
    BY <1>1, <2>4, MatchDepositRefines DEF Pots!Next
  <2>5. ASSUME NEW u \in Users, NEW s \in Sessions, NEW seed \in Seeds, Settle(u, s, seed)
        PROVE  Pots!Next
    <3>1. PICK w \in Users : w = Winner(s, seed)
      BY <1>1, <2>5, WinnerEntitled DEF Settle
    <3>2. Pots!Pay(s, w)
      BY <1>1, <2>5, <3>1, SettleRefines
    <3> QED BY <3>2 DEF Pots!Next
  <2>6. ASSUME NEW u \in Users, NEW s \in Sessions, NEW n \in Amounts, NEW seed \in Seeds,
               NEW bet \in Bets, Deposit(u, s, n, seed, bet)
        PROVE  Pots!Next
    BY <1>1, <2>6, DepositRefines DEF Pots!Next
  <2> QED BY <1>1, <2>1, <2>2, <2>3, <2>4, <2>5, <2>6 DEF Next
<1>2. BankInv /\ [Next]_vars => [Pots!Next]_(Pots!vars)
  BY <1>1
<1> QED BY <1>2, InitRefines, BankInvariant, PTL DEF Spec, SeparatePots, Pots!Spec
=============================================================================
