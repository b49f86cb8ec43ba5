# Verification of the SNIP-36 prover backend

TLA+ models, TLC runs and TLAPS proofs for the program in `src/`: a Rust
workspace that proves Starknet transactions virtually (SNIP-36), submits the
proofs, and runs demonstration applications on top, one of which moves real
tokens.

The models are about what goes wrong *between* steps: handlers that await for
minutes while others run, one account whose nonce several code paths spend, a
lock released by a timeout, answers that get lost, a restart that keeps the
chain and the files but loses the memory, prover processes that share a port and
file names, an installation built up by commands that stop anywhere, and a
contract that keeps the stakes of every game in one token balance.

## 1. Inventory

### The parts, their state and their operations

| Part | Source | State | Operations that change state |
|---|---|---|---|
| CoinFlipBank contract | `tests/contracts/src/lib.cairo:89-235` | per session: player, amount, seed, bet, state; per player: `player_balance`; the token balance it owns | `deposit`, `match_deposit`, `settle`, `withdraw` |
| CoinFlip contract and outcome | `lib.cairo:237-279`, `apps/coinflip/src/outcome.rs` | none | `play` returns an outcome, a function of its arguments |
| Counter, Messenger contracts | `lib.cairo:1-46` | one counter; none | one assignment; one syscall |
| CoinFlip server | `apps/coinflip/src/routes.rs`, `state.rs` | `coinflip`, `bank` registries, `commitments` map (memory); `output/deployments.json` | deploy, bank/deploy, commit, deposit-info, confirm-deposit, play |
| Generic server | `crates/snip36-server/src` | `sessions` map, `sncast_lock`, proof files | fund, deploy account, prove |
| Counter application (the playground) | `apps/counter/src/routes.rs` | `last_invoke_tx`, `invoke_block`, `last_reference_block` of a session, artifact files per session | deploy, invoke, prove-block, submit-proof |
| JSON-RPC client | `crates/snip36-core/src/rpc.rs` | none; polls the chain | `wait_for_tx`, `wait_for_block_after`, transaction submission |
| Signing, types, proof payload | `snip36-core/src/{signing,types,proof}.rs` | none | hashing, conversion, parsing |
| sncast helpers | `snip36-core/src/cli_util.rs` | none | `run_sncast_with_retries` |
| Prover command | `crates/snip36-cli/src/commands/prove.rs`, `scripts/run-virtual-os.sh` | runner process, port, artifact files | `prove virtual-os` |
| Setup and doctor | `commands/setup.rs`, `commands/doctor.rs`, `snip36-core/src/config.rs` | `deps/`: checkouts, manifest and lock file, virtual environment, binaries, `.deps-version` | `setup` from source, `setup --prebuilt`; `doctor` only looks |
| Fund and health commands | `commands/fund.rs`, `apps/counter/src/health.rs` | none | one transfer; one balance check |
| Submit, deploy, extract commands | `commands/{submit,deploy,extract}.rs` | files | sequential I/O |
| End-to-end drivers | `apps/*/src/e2e*.rs`, `tests/e2e_bank_nonce.sh` | none | a fixed sequence of calls |
| Web applications | `web/coinflip`, `web/frontend` | UI state | the order in which the endpoints are called |

### How they interact

One *owner* account pays for everything the server does. Its transactions come
from `sncast` child processes (match, settle, approve, transfer, declare,
deploy), serialised by one `tokio::sync::Mutex`, `sncast_lock`, and from the
proof transactions of `play_coinflip`, which are signed in-process with the nonce
the account had at the *seed block* and take no lock. A game goes
commit -> player's deposit -> confirm-deposit (match, then the block of the match
becomes the seed block) -> play (reveal, prove at the seed block, submit, await
inclusion, settle). The player talks to the chain by itself in between. The
registries say which two contracts all of this happens in.

A session of the playground goes deploy account -> deploy counter -> invoke ->
prove -> submit, or prove-block in one request. Its requests share one `Session`
record behind a lock that is taken for each read and each write and never across
an await, and one file each for the transaction, the proof and the facts, named
after the session. The two proving handlers start a prover job as a child
process: `run-virtual-os.sh` or `snip36 prove virtual-os`. A job starts a runner
that listens on a fixed port, polls until *something* answers there, sends the
request and writes what comes back. The runner is the one that
`Config::runner_bin` finds, which is whatever the `setup` commands of the past
have left.

### Where the behaviour is hard, and what makes it correct

* **CoinFlipBank** has one token balance and many sessions, a prefunded
  reserve nobody accounts for, allowances, `u256` arithmetic, and calls in any
  order by anyone. Correct: the balance is exactly what the open games hold plus
  the reserve; a matched game can always be paid, once; recorded terms never
  change; one session cannot draw on another.
* **Match, play and settle** interleave at every await; a wait may time out
  while its transaction is still pending; a handler may be dropped while its
  `sncast` child lives on; the gateway's answer may be lost; a restart loses
  the commitments. Correct: nobody is paid without a proof on chain; two
  transactions never race for a nonce unless a wait was abandoned; a reply
  `matched: true` is true; the seed block counts the match and comes after the
  commitment; the seed of a revealed bet never changes; every request ends; a
  play with a covered stake is paid unless something failed or was overtaken.
* **Deployments** are looked up before a wait and stored after it; two
  registries are saved to one file with three separate reads and writes.
  Correct: a restart finds what the server held; a deployment in use is not
  replaced behind its sessions' backs.
* **Playground session**: two requests of one session write `last_invoke_tx`
  and `invoke_block` in separate steps and share file names; a reference block
  is stored by whoever ends last. Correct: a proof is made against the block of
  its own transaction, the proof reported or sent is the one just made, the
  reference block has the contract, a proof is refused only when its nonce was
  spent, every request ends. The first does not hold (section 4).
* **Prover jobs**: a port that is checked and then used, a runner that may die
  or hang while it is polled, artifact files of earlier runs that are replaced
  one by one and only when there is something to write. Correct: a job leaves no
  runner behind, is never served by a runner that was there before it, leaves
  artifacts that belong together, and ends.
* **Provisioning**: every step of `setup` writes something that a later command
  finds, and any step may be the last. Correct: a download repairs whatever came
  before, a build leaves what its flags ask for, the stamp never names a release
  newer than the files, and what is in the way of a build can be listed.
* **Amounts**: the CLI's `u128` and the token's pair of halves. Correct: what
  `fund` transfers is what it was asked to.

`PROJECT.json` lists each of these hazards at its line, with the properties that
would catch it going wrong. Some things do go wrong in this code and contradict
nothing that it promises: a restart that forgets a matched session, a settlement
that fails and is not retried, an approval that reverts unnoticed, an earlier proof
reported after a failed run, the artifacts of an earlier run beside a new proof, a
late `prove_block` that sets the reference back. The models have these steps and
the properties name them as exceptions. Such a hazard is listed without a
property, or with one that catches a part of it, and a note says which exception
stands for the rest.

## 2. What is modelled

| Module | Models | Used by |
|---|---|---|
| `Escrow` | the promise of the bank: one pot per session, staked, covered, paid to one winner | refined by `CoinFlipBank`; the bank of `CoinFlipServer` |
| `CoinFlipBank` | the contract and the token calls it makes | `MCCoinFlipBank`, `CoinFlipBankProofs` |
| `CoinFlipServer` | `commit_bet`, `confirm_deposit`, `play_coinflip`, `sncast_invoke`, the owner's transactions and nonce, blocks | `MCCoinFlipServer`, `CoinFlipServerProofs`, `CoinFlipServerProgress` |
| `Deployments` | `deploy_coinflip`, `deploy_bank`, `save_deployments`, `load_deployments`, and each look-up of the bank by a session | `MCDeployments`, `DeploymentsProofs` |
| `ProofFiles` | the promise of a prover job: in which order it opens and fills its artifact files | refined by `VirtualOsProver`; the jobs of `PlaygroundSession` |
| `VirtualOsProver` | `prove virtual-os`, local and remote, and `run-virtual-os.sh`, on one port | `MCVirtualOsProver`, `VirtualOsProverProofs` |
| `PlaygroundSession` | the seven handlers that change a session, the prover jobs they start, the master account's transactions and nonce | `MCPlaygroundSession`, `PlaygroundSessionProofs`, `PlaygroundSessionProgress` |
| `Provisioning` | `setup` in both ways, `doctor`, `Config::runner_bin`, the version warning of `prove` | `MCProvisioning`, `ProvisioningProofs` |
| `MasterAmounts` | `fund` and the balance check of `health`, with the width of their integers | run as it is |

### CoinFlipBank

`game_player`, `game_amount`, `game_seed`, `game_bet`, `game_state` and
`player_balance` are the contract's storage; `balance` and `allowance` are the
STRK token's. `Deposit`, `MatchDeposit`, `Settle` and `Withdraw` are the entry
points, each a successful call: an assert that fails or a token call that panics
reverts the whole transaction and is therefore no step. `Approve` and `Fund` are
the token calls that users, and `deploy_bank`, make around it. `withdraw` is
modelled in full and its assert is never met, so that every call of it is the
reverting one: no entry point adds to `player_balance` (see Findings).

The outcome is a CONSTANT function of the seed: the contract recomputes it, and
nothing but the winner depends on it. `reserve` is a history variable: the
tokens sent to the bank outside any game. `Escrow`'s `pot` and `stage` are the
refinement mapping's functions of a game's amount and state; its `wallet` is the
balances of everyone else.

### CoinFlipServer

A *task* is a request being served. `pc[t]` names the await it stands at, and
every action is the code from one await to the next:

| Action | Code | |
|---|---|---|
| `Commit` | `commit_bet` | inserts the commitment, seed 0 |
| `ConfirmDeposit` | up to `sncast_invoke` | the client's hash was confirmed, the commitment exists |
| `Acquire`, `Send`, `SendFails`, `Confirmed`, `GiveUp` | `sncast_invoke` | lock, child process, `wait_for_tx`, both ways each can go |
| `LockSeed` | the end of `confirm_deposit` | receipt's block, else head, else 0; at least the deploy block, which is 0 when its receipt named none; `get_mut` |
| `Reveal` | `play_coinflip` up to the spawn | consumes the commitment, then checks it |
| `Prove`, `Submit`, `AwaitInclusion` | the spawned task | nonce at the seed block, prover, gateway, `wait_for_tx` |
| `Include*`, `Seal`, `PlayerDeposit` | external | a pending transaction with the account's nonce is executed; the block closes |
| `Disconnect` | external | a handler is dropped where it waits; a play's task is spawned and is not |
| `Restart` | `CoinFlipAppState::new` | tasks, lock and commitments are gone; chain and children are not |

`invoke[t]` and `proof[s]` are the transactions on their way; `commitHead`,
`abandoned` and `faults` are history. The bank is `Escrow`, which `CoinFlipBank`
implements, so what the server can do to the bank is what the contract allows.

Assumed: both contracts are deployed; blocks without one of the owner's
transactions are left out (they change no nonce); the owner's other users of
`sncast_lock` (fund, deploy and the counter application) are left out, and
another match or settlement stands for them; a session id is never generated
twice; a connected client reads its event stream.

### Deployments

`memory` is the two registries, `file` is what `load_deployments` would read:
an unreadable file loads as no deployments, so truncation is the empty value. A
contract is named after the request that deployed it. `save_deployments` is four
steps, as two threads can run it at once: two reads, the truncation `fs::write`
starts with, and its write, which leaves an unreadable mixture if another save
wrote a longer text in between. Either of the last two may fail, with nothing or a
part written, and the error is ignored. `overlapped` and `dirty` are history. A session
looks up the bank three times, in `DepositInfo`, `ConfirmDeposit` and `Settle`;
the match succeeds in the bank that holds its stake and may draw on the owner.
Nonces, reserves and funds are `CoinFlipServer`'s subject and are left out here.

### ProofFiles and VirtualOsProver

`ProofFiles` has two variables: `phase[j]`, how far a job has come with its files,
and `files[p][f]`, whose data is in artifact `f` beside output path `p`. Opening a
file truncates it; filling it replaces it, adds to what another job put there in
between, or writes nothing. A job may fail anywhere, and succeeds once it has
written its proof.

`VirtualOsProver` says how a job gets there:

| Action | Code | |
|---|---|---|
| `Load`, `CheckPort`, `PortTaken`, `Spawn` | `run_virtual_os` up to the runner | only the CLI looks at the port, and only a local prover has a runner |
| `PollAnswered`, `PollRefused`, `Inspect` | the readiness loop | the process is looked at only after a refused poll; after the last poll the job goes on |
| `Post`, `Answer`, `NoAnswer` | the JSON-RPC request | it reaches whichever runner has the port |
| `Open`, `Fill`, `Finish` | the writes and the way out | facts and messages only when the answer has them |
| `StepFails`, `Crash` | any error return; the job is killed | `kill_on_drop` and the script's trap run in the first case only |
| `Bind`, `RunnerFails`, `Pkill` | external | a second runner finds the port taken and exits; a runner dies or hangs; the operator kills what was left |

`upSince` and `met` are history: the runners that came up since a job saw the
port free, and the jobs that wrote to its path while it did.

### PlaygroundSession

`pc[r]` names the await that request `r` stands at. `InvokeSend`, `InvokeRecord`,
`InvokeConfirmed`, `InvokeUnconfirmed` are `invoke_increment`; `SncastBegin` to
`SncastUnconfirmed` are `deploy_counter`, `deploy_account` and `fund_account`,
which differ in what they store, and of which the first sends a declaration before
its deployment (`Declare`) and does not wait for it: a node refuses to deploy a
class whose declaration it has not executed (external); `ScriptBegin`, `ScriptBlock`, `ScriptWaited`,
`ScriptEnds` are `prove_transaction`, which reads the session twice; `BlockBegin`
to `BlockIncluded` are `prove_block` with its submission loop; `SubmitBegin`,
`SubmitSign`, `SubmitSend` are `submit_proof`; `ReadProof` and `ReadFacts` are
shared by the last two. `Disconnect` drops a handler where it waits, and with it
its guard of `sncast_lock`; the two proving handlers work in tasks of their own,
and go on. `Restart` loses the sessions and the requests and
keeps jobs, files and chain. A `sncast` child outlives both (`Orphans`), and sends
what it was started for. An answer can be lost when the node has the transaction
(`RequestFails` of an accepted invoke, `Unanswered`, `SncastFails`). `nonceAt[n]` is the master account's nonce after block
`n`, because `prove_block` signs with the nonce of a past block. `rivals` and
`crossed` are history: with which jobs a request shared the files, and whether a
contract was stored while a `prove_block` was under way.

The jobs are `ProofFiles`, which `VirtualOsProver` is proved to implement: that a
session's job may be served by another's runner, or find the port taken, is
inside the promise. The `messages` artifact is left out here, because no handler
reads it. The contents of the invoke's transaction and the account that signs it
are left out: an invoke is signed by the session's account and changes no nonce
that a proof depends on.

### Provisioning

A command is a sequence of steps; `pc` is the next one. `repo`, `edited`, `pins`
and `sections` are the checkouts: what is at each path, which tracked files have
local changes, whether the lock file still names the pinned revisions, how often
the low-memory section was appended. `file[f]` is the number of the command that
`f` is from, so that ages can be compared. `torn`, `linked`, `stamp`, `venv`,
`reqs` are what the names say. `again`, `clean` and `expected` are history. The
version of the CLI is part of the command, as each build pins a sequencer and
names a release. Toolchain checks, prompts and progress output are left out; the
four repositories of the low-memory prover do the same steps and are one.

### MasterAmounts

Integers have `Bits` bits. A shift by the full width panics in a debug build and
shifts by zero in a release build (the compiler rejects such a shift of constants
in ordinary functions; it does not look into `async fn` bodies).

## 3. The runs

| Run | Module, configuration | Bounds | States | Shows |
|---|---|---|---|---|
| `bank` | `MCCoinFlipBank.cfg` | 3 accounts, 2 sessions, stakes 0-3, `MaxU256` 5, 5 tokens | 589,824 | exact accounting, solvency, forward-only games, refinement of `Escrow` |
| `server` | `MCCoinFlipServer.cfg` | 2 confirm-deposits, 2 plays, every routing of requests to sessions, 2 failures | 1,801,539 (symmetry) | the safety of match, play and settle; nobody waits in vain |
| `server_live` | `MCServerLive.cfg` | the same without failures, one request per session | 87,663 | every task ends; a covered play is paid or overtaken, and never ends unpaid without an excuse |
| `deployments` | `MCDeployments.cfg` | 1 game and 2 bank requests, 1 session, 2 failures | 428,696 | saves, replacement, stranded stakes, every request answered |
| `prover` | `MCVirtualOsProver.cfg` | 2 jobs of any two kinds (one of them the CLI) on one port and one path, 2 polls, 1 failure | 230,295 | runners, artifacts, refinement of `ProofFiles`, every job ends |
| `playground` | `MCPlaygroundSession.cfg` | 6 workloads of 2-3 requests, fresh or deployed session, 2 attempts, 2 failures | 298,725 | whose proof and whose block, references, refusals, nobody waits in vain, every request answered |
| `provisioning` | `MCProvisioning.cfg` | 3 commands of 5 kinds and 2 versions, 1 failure | 559,554 | repair by download, builds as asked, the stamp |
| `seed_claim`, `wrong_block`, `setup_rerun`, `stale_runner`, `fund_amount` | violations | as above, with no failure or one | | the findings below |

Why the bounds are enough to be interesting. Two sessions are what it takes for
one to draw on the other's tokens, and two amounts for a sum to hide a
difference. The three accounts start with one, three and one token, `MaxU256` in
all, as a token's supply fits its type. So a stake of three can be deposited though
its double is out of range, and a matched one would make `settle` overflow; what
keeps it unmatched is that both halves would have to be in tokens. The run reaches
the deposit and finds that it stays unmatched; `BankSolvent` proves the same for
every amount. One token lets the owner run out, and play again with what it won.
In the server, two requests can name one session (a repeated confirm-deposit) or
two; two failures allow a timeout whose transaction is included after a restart; the house's
single token makes the second match revert. Deployments needs two bank requests
that overlap, a game's save beside a bank's, and a failure before the restart
that reveals it. The game and the bank registry run the same steps, so that a
second game request would only repeat what the second bank request shows.
Prover jobs interact in pairs, over the port and over the path; a third job meets
each of them as the second does, and one failure is what it takes to leave a
stale runner for the other to meet. Two polls tell the last from the others. The
workloads of the playground are the groups of requests that write what another
reads: two invokes and a proof of one; a proof of each kind, and a submission;
two proofs of blocks; a new contract, and transactions of the master account that
are not the session's, beside a proof. Two failures exhaust the two attempts of a
submission, or restart the server after a lost answer. Three setup commands are
one that leaves something, one that is cut short by it, and one that is to
repair it; of the two releases one lacks a file, and the two pins differ in the
lock file, as a difference in more files is obstructed in the same place.
`MasterAmounts` has two-bit halves, where all amounts can be tried; nothing in it
depends on the width. The proofs of section 5 do not depend on any of these
numbers.

`CHECK_DEADLOCK FALSE` is used where the system really stops: requests are
served once and the failures are bounded.

`MaxFaults` bounds the failures (`Fault` in every module that has them),
`MaxCommands` the setup commands, `MaxTries` and `MaxAttempts` are the code's own
bounds (30 polls, 20 attempts). `nonce`, `head` and `nonceAt` need no bound: each
task sends one transaction.

### Fairness

Safety needs none. For liveness, `Fairness` in `CoinFlipServer` is one weak
fairness of *include a transaction, close a block, give the lock to a task, let
a task take its next step*. No task ever returns to an earlier await, so each of
these steps is progress, and not stopping altogether is all that is needed. The
code justifies most of it: the runtime polls tasks that are ready, tokio's mutex
is a FIFO queue, `wait_for_tx` has a deadline. The rest is assumed of the
outside: Starknet includes transactions with the right nonce, and every RPC call
and child process returns. The code does not enforce the last one (`wait_for_tx`
checks its deadline between polls, and the HTTP client has no timeout). Nothing
is assumed of the
player, who may never deposit or play, and failures never have to happen. A
wait that *must* time out, because its transaction was reverted or its nonce was
taken, is not counted as a failure.

`server_live` runs without failures: `CoveredPlayIsPaid` excuses any failure
anyway, and `EveryTaskEnds` is then about the waits that the code itself brings
about, behind a lock held for a transaction that can no longer be included.
`Deployments` checks its liveness together with up to two failures, under one
weak fairness of the requests' own steps, and so do `VirtualOsProver` and
`PlaygroundSession`. In `VirtualOsProver` it is a fairness of the jobs' steps
alone: processes are scheduled and polls are counted, while a runner need not
ever come up. `EveryJobEnds` says what is left: a job that waits for a poll to be
answered by a runner that never will, because that poll has no timeout. In
`PlaygroundSession` the chain and the jobs are in it as well: the chain executes
what it can or the wait times out, and a job ends, which `EveryJobEnds` shows but
for hung runners. Requests never have to arrive, and failures never have to
happen. `Provisioning` has no liveness: a command's steps are one sequence.

## 4. Findings

Each is a run that violates one property that a comment or document states.

* `seed_claim`: `play_coinflip` says the match was confirmed before the seed was
  locked. When the wait for the match fails, the seed is locked all the same and
  the reply says `matched: true`. `ReceiptSeedIsSound` and `MatchedReplyTrue` are
  what does hold.
* `wrong_block`: `invoke_increment` waits for inclusion "so the prover can
  reference the correct block", but it stores the transaction before the wait and
  the block after it. A proof asked for in between takes the new transaction with
  the block of the invoke before. `WrongBlockIsAnotherInvokes` is what does hold:
  it is always the block of another confirmed invoke of the session.
* `setup_rerun`: a source setup is said to be idempotent. Cargo rewrites the
  sequencer's lock file once the low-memory patches are appended, and the next
  run refuses a lock file that does not name the pinned revisions.
  `SourceRepairs` lists everything that can be in the way of a build.
* `stale_runner`: `starknet_os_runner` is called an alias of the canonical
  runner, and is preferred when it exists. A build writes only the canonical
  name, so that after an earlier download the old runner is started.
  `RunnerAsAsked` is what does hold, at the path that the build writes.
* `fund_amount`: `fund` splits its amount with shifts by the full width of a
  `u128`: a panic in a debug build, and in a release build a low half of zero and
  a high half that is the whole amount.

Five more disagreements came up that the properties of the passing runs account
for, and that have no run of their own. `withdraw` and `/winnings` are documented
as paying accumulated winnings, and nothing ever adds to `player_balance`
(`NothingWithdrawable` in `CoinFlipBankProofs`). `sncast_invoke` says it holds the
lock until the transaction is confirmed, and a failed wait releases it with the
transaction pending (`NonceRacesAreAbandoned`). The seed block is said to be
locked at commit time and is 0 until a confirm-deposit. `deploy_coinflip` is
called idempotent, and two requests that both find nothing both deploy
(`ReplacedOnlyByOverlap`). The session's reference block is documented as "updated
after each proven tx lands"; `submit_proof` lands one and leaves it, with a nonce
spent that the next `prove_block` signs, which is refused at every attempt
(`RefusedOnlyWhenSpent`).

## 5. The proofs

TLAPS checks every theorem for all values of the constants, from the modules'
named assumptions alone (`BankAssumption`, `ServerAssumption`,
`DeploymentsAssumption`, `ProverAssumption`, `SessionAssumption`,
`ProvisioningAssumption`: the types of the constants, the bank's address distinct
from its callers', disjoint names of requests, sessions and jobs).

* **`CoinFlipBankProofs`**. `BankTypeCorrect`, `BankAccountsExactly`,
  `BankSolvent`, `BankGamesAdvance` and `BankRefinesEscrow` follow from
  `BankInv = TypeOK /\ StartedGames /\ NothingWithdrawable /\ Ledger`. Exact
  accounting is not inductive: that a payout fits needs every *other* game's
  share of the balance. The provers cannot unfold a sum, so `Ledger` says that
  *some* function is a monotone running total of what the sessions hold, ending
  in the bank's balance; `TotalsUpdate` exhibits the new one when a step changes
  what session `k` holds, and monotonicity bounds each session's part.
  `NothingWithdrawable` is why `Withdraw` never happens, `StartedGames` why an
  unused session has no amount. The refinement maps each step to `Escrow`'s and
  `Approve` and refused calls to stutters.
* **`CoinFlipServerProofs`**. Five invariants, each proved action by action.
  `ProofComesFirst`: a play that reached its settlement has its proof on chain,
  hence `ServerPaysAfterProof`. `LockInv`: a task whose transaction is
  unconfirmed holds the lock or was abandoned, hence `ServerNonceRaces`.
  `MatchIsReal`: a match executed with success covered its session, hence
  `ServerMatchedReplies`. `ServerFixesSeed` is an action property: `SeedWritten`
  looks for the commitment, and nothing puts one back. `SeedInv`: a match executed
  with success is in a block after the commitment's head and counted in the nonce
  of every block from there on, what a request found is that block, and a seed was
  locked by a request that has answered, at the block it found if it found one;
  hence `ServerSeedsAreSound`. `ServerTypeCorrect` says among others that no seed
  is a future block.
* **`CoinFlipServerProgress`**. `ServerUsesEscrow` composes the two parts: the
  server's own steps keep `Bank!Spec`, the `Escrow` that `CoinFlipBank` is proved
  to implement, so that what is proved of the pots holds under any order of the
  server's transactions. `WaitInv`: whoever waits has sent its transaction, and
  what was executed above the chain's head has a block that can still be closed.
  A pending transaction has the next nonce or one that is spent. With `LockInv`
  (the lock is held by exactly those who use it) no state leaves a task waiting
  for something that cannot come: `ServerNeverStuck`.
  `OfferInv` follows a proof from its seed block, hence
  `ServerProvesAfterConfirm`. `ServerPaysCoveredPlays` is about whole behaviours,
  and its invariant is one of a suffix: `Past(s)`, which a play establishes when
  it starts with a covered stake and a seed, and no step undoes. It says that the
  play is `OnCourse` (each await with what its proof, the pot and its settlement
  look like there) or has an `Excuse`. That an excuse is the only way off the
  course needs `SpentInv` (a nonce was spent by some transaction of a task or a
  play: so a stale proof was *overtaken*) and `LateInv` (without failures no seed
  is a block from before the model's own transactions). `ServerAlwaysGoesOn` is
  the action property that no step takes a task, an executed transaction or the
  chain back, and that each step under `Fairness` raises a rank, the nonce or the
  height; `SpentInv` and `PaceInv` bound the last two.
* **`DeploymentsProofs`**. `SaveInv`: if no save overlapped or was cut short, at
  most one is under way, what it has read is what the server holds, and nobody
  else writes the file; hence `DeploymentsSurviveRestart`. `OverlapInv` and
  `StrandInv`: what is stored anywhere belongs to a request past its store (so
  its history is final), every deploying request is in the `overlapped` set of
  the deployment in use, and a session still in play either finds its bank or
  that set is not empty; hence `DeploymentsReplacedOnlyByOverlap` and
  `DeploymentsStrandOnlyByOverlap`. `LockInv`: the lock is held by a deployment
  at one of the steps that need it, hence `DeploymentsNeverStuck`; and
  `DeploymentsAlwaysGoOn` gives each request a rank of at most 18 that no step
  lowers, a restart included, and that its own steps raise.
* **`VirtualOsProverProofs`**. `TypeInv` adds to the types that a polling job has
  polls left and that only a job with a runner is past its start; hence
  `ProverTypeCorrect`. `RunnerInv` says for each place a job can be at whether it
  has a runner and a server (`Unasked`), and that the runners that were up when a
  CLI job saw the port free are none (`Screened`): whoever listens later came up
  since. Hence `ProverRunnersEnd` and `ProverScreensStaleRunners`.
  `ProverKeepsPromise` is the refinement of `ProofFiles`: `phase` is `pc` with
  everything before the first write collapsed, so each step opens, fills, ends,
  or stutters; `TypeInv` is used for the jobs that a step leaves alone.
  `ArtifactsInv`: a job that has met no other is alone at its path while it
  writes, finds what it opens empty and keeps what it has written, and after it
  has ended its proof is gone as soon as another job writes there; hence
  `ProverArtifactsBelongTogether`. `ProverAlwaysGoesOn`: the rank `Far` counts the
  polls in, so that each step of a job raises it, a refused poll included, up to
  `2 * MaxTries + 13`.
* **`PlaygroundSessionProofs`**. `TypeInv` adds that the account's nonce never
  falls (`Chain`), that what was executed is in a block, and that a request knows
  what it began with. `Footprint` says once what any step may do to a request and
  its transaction, from which `Settled` (a transaction is sent once, an executed
  one and an ended request stay) follows without looking at the actions again.
  `BlockInv`: the block in the session and the block of a proof are those of
  confirmed invokes, or of the proof's own; hence `SessionWrongBlocks`. `RefInv`:
  unless `crossed`, neither the reference nor the block of a prove_block on its
  way back is older than the contract; hence `SessionReference`. `SpentInv`: the
  nonce signed is that of the reference block, and every refusal was a failure or
  found it spent; hence `SessionRefusals`. `FilesInv`: a job that has met no other
  is alone with the files (`Alone`, kept because `Meets` tells both sides), so
  that the proof on disk, the transaction read and the proof sent are its own;
  hence `SessionSendsOwnProof` and the action property `SessionReportsOwnProof`.
* **`PlaygroundSessionProgress`**. `SessionUsesPromise`: the session's requests
  keep `Prover!Spec`, the `ProofFiles` that `VirtualOsProver` is proved to
  implement. `WaitInv` says which places each kind of request has (`RoleInv`),
  that a job is started by its own request's step and never before (`StartInv`),
  that whoever waits for a transaction has sent it or picked one that was sent
  (`SentInv`), and that `sncast_lock` is held by one whose `sncast` is running or
  whose transaction is awaited (`LockInv`), and that a class is declared once
  (`DeclareInv`); hence `SessionNeverStuck`. `SessionAlwaysGoesOn`: places,
  transactions, declarations, jobs and attempts have bounded ranks that no step lowers, and every step but a restart
  raises one.
* **`ProvisioningProofs`**. `Emptied`: past the step that restores the manifest
  and before the one that appends, there is no section, hence
  `ProvisioningTypeCorrect` with its bound of one. `Ways`, `Patching`, `Sectioned`
  and `Built` follow one build from its flags to the runner it links, hence
  `BuildsAsAsked`. `AgeInv`: a file that has been placed by this command is from
  this command, and no file of the stamped release is older than the stamp, with
  the exceptions that the steps between extraction and stamp make; hence
  `StampNeverYounger`. `ClearInv`: when nothing has failed in a build that began
  without an obstruction, none of its remaining steps finds one (a repository
  that cannot be fetched, a changed file in the way of a checkout, requirements
  or a directory that are missing); `Committed` says what the steps of a checkout
  leave in general. Hence `BuildsRepair`. `RepairInv`: when nothing has failed in
  the download of a complete release, each file of it that has been reached is
  new and whole, wherever it lies at that step, and what the Python steps need
  is there; hence `ReleasesRepair`.

Liveness cannot be proved here: the prover knows neither `ENABLED` nor what a
fairness condition gives. Its safety half can. For `EveryTaskEnds`,
`EveryDeployEnds` and `EveryRequestEnds` there are two theorems each: in no
reachable state does anybody wait for what cannot come (`...NeverStuck`), and no
step goes back while each step that fairness speaks of raises a bounded rank
(`...AlwaysGoesOn`), so that there can be only so many of them. For `EveryJobEnds`
it is the second alone, since a job does get stuck, behind a hung runner.
`CoveredPlayIsPaid` has its safety half in `CoveredPlayEndsPaid`. The step from
the two halves to the liveness property, that a bounded rank which must rise
again and again comes to an end, is an induction that stays with TLC.
`NobodyStuck` is stated with the guards of the actions written out, in
`CoinFlipServer`, `PlaygroundSession` and `DeploymentsProofs`; the first two are
also checked by TLC.

Every safety invariant, every action property and the refinements of the passing
runs are proved, and so is `CoveredPlayEndsPaid`. Only model-checked: the liveness
properties `EveryTaskEnds`, `CoveredPlayIsPaid`, `EveryDeployEnds`,
`EveryRequestEnds` and `EveryJobEnds`, for the reason above, and what the runs
that expect a violation refute. Induction over data is out of the prover's reach,
which is why the ledger states monotonicity of its total instead of deriving it.

## 6. What is not modelled, and the plan

Not modelled for good:

* vendored patches, build and CI files, the extractor, rendering in the web
  applications: third-party or presentation;
* hashing, signatures and the proof payload (`signing.rs`, `types.rs`,
  `proof.rs`): cryptography and parsing without state. `submit` makes one attempt
  with the nonce read just before, which is `SubmitSign` and `SubmitSend`;
* `prove program` and `prove pie`: one child process each, without a port or
  shared files; `deploy` and `extract`: one call and its output;
* `run_sncast_with_retries`: used only by the drivers, where nothing else runs.
  That a retry may submit a second time is a hazard of theirs;
* the end-to-end drivers and the full flow of `health`: fixed sequences of calls
  whose expected results the properties of the bank and the session generalise;
* `play_coinflip`'s event channel of 64 entries: a connected client is assumed to
  read it; and RPC calls that never return (`wait_for_tx` checks its deadline
  between polls): the fairness assumes that they do. Both are listed
  under the hazards without a property.

Partly: of the JSON-RPC client the waits and the nonce and block reads, where a
handler makes them; of the Cairo file the bank, and `play`'s outcome as a
constant function; of the configuration its paths.

Next, in this order:

1. What the deployments hold and what the server finds there, as one theorem: a
   session in play is in the bank that `CoinFlipServer` assumes.
2. A version of `run_sncast_with_retries` with the drivers around it, against a
   node that loses answers.
