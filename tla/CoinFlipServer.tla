--------------------------- MODULE CoinFlipServer ---------------------------
(***************************************************************************)
(* The CoinFlip server of src/apps/coinflip/src/routes.rs over the chain   *)
(* and the bank.  A task is an HTTP request being served: a confirm-deposit *)
(* request, or the play of a session, which shares the session's name.     *)
(* Tasks interleave at every await.  They share the in-memory commitments, *)
(* sncast_lock, and the nonce of the owner's account, which both sncast    *)
(* and the proof transactions of play_coinflip spend.                      *)
(*                                                                         *)
(* The chain includes a pending transaction when its nonce is the          *)
(* account's, seals blocks, and keeps the nonce at each sealed block.  The *)
(* bank is the abstract Escrow that CoinFlipBank implements.               *)
(***************************************************************************)
EXTENDS Naturals, FiniteSets

CONSTANTS
    Requests,     \* confirm-deposit requests, each served once
    Sessions,     \* session ids that commit_bet can generate
    NoTask,       \* holder of a free lock
    House,        \* the server's account, owner of the bank
    Player,       \* the account that commits, stakes and plays
    Nobody,       \* staker of an unused session
    Funds,        \* Funds[u]: initial wallet of House and Player
    Routes,       \* the ways requests may name sessions
    DeployNonce,  \* the owner's nonce at the game's deploy block
    MaxFaults     \* bound on failures: see Fault

Users == {House, Player}
Tasks == Requests \cup Sessions

ASSUME ServerAssumption ==
    /\ Requests \cap Sessions = {}
    /\ NoTask \notin Tasks
    /\ House # Player
    /\ Nobody \notin Users
    /\ Funds \in [Users -> Nat]
    /\ Routes \subseteq [Requests -> Sessions]
    /\ DeployNonce \in {0, 1}
    /\ MaxFaults \in Nat

VARIABLES
    head, nonce, nonceAt,   \* last sealed block, the owner's nonce now, and at each block
    wallet, pot, stage, staker, reserve,    \* the bank: see Escrow
    pc,          \* pc[t]: where task t is; "committed" while s is in commitments
    reqSession,  \* session a confirm-deposit request names
    seedBlock,   \* BetCommitment.seed_block
    lock,        \* sncast_lock
    found,       \* found[r]: InvokeResult.block_number, 0 for None
    invoke,      \* invoke[t]: the transaction sncast sends for t
    proof,       \* proof[s]: the SNIP-36 transaction of play s
    commitHead,  \* history: head when s was committed
    abandoned,   \* history: tasks whose lock was released with their transaction not confirmed
    faults       \* failures so far

chain == <<head, nonce, nonceAt>>
pots == <<wallet, pot, stage, staker, reserve>>
server == <<pc, reqSession, seedBlock, lock, found>>
vars == <<chain, pots, server, invoke, proof, commitHead, abandoned, faults>>

Bank == INSTANCE Escrow WITH Amounts <- {1}

\* CoinFlipDeployment.deploy_block: the block of the receipt, or 0 when the
\* receipt names none or there is no deployment.
DeployBlock == 1
DeployBlocks == {0, DeployBlock}
NoTx == [status |-> "none", nonce |-> 0, block |-> 0]
TxStatus == {"none", "pending", "ok", "reverted"}

RequestPC == {"new", "queued", "locked", "orphan", "waiting", "seeding",
              "matched", "failed"}
SessionPC == {"new", "committed", "proving", "submitting", "including",
              "queued", "locked", "orphan", "waiting", "result", "failed"}
Ended == {"matched", "result", "failed"}
Active(t) == pc[t] \notin Ended \cup {"new", "committed"}

\* The account has transacted since the game was deployed iff DeployNonce is 0.
Init ==
    /\ head = 2
    /\ nonce = 1
    /\ nonceAt = [b \in 1 .. 2 |-> IF b = DeployBlock THEN DeployNonce ELSE 1]
    /\ wallet = Funds
    /\ pot = [s \in Sessions |-> 0]
    /\ stage = [s \in Sessions |-> "empty"]
    /\ staker = [s \in Sessions |-> Nobody]
    /\ reserve = 0
    /\ pc = [t \in Tasks |-> "new"]
    /\ reqSession \in Routes
    /\ seedBlock = [s \in Sessions |-> 0]
    /\ lock = NoTask
    /\ found = [r \in Requests |-> 0]
    /\ invoke = [t \in Tasks |-> NoTx]
    /\ proof = [s \in Sessions |-> NoTx]
    /\ commitHead = [s \in Sessions |-> 0]
    /\ abandoned = {}
    /\ faults = 0

\* Something the code handles but cannot prevent: a timeout, a failed process
\* or RPC call, a dropped connection, a restart.
Fault == faults < MaxFaults /\ faults' = faults + 1

Go(t, to) == pc' = [pc EXCEPT ![t] = to]
Pending == [status |-> "pending", nonce |-> nonce, block |-> 0]

-----------------------------------------------------------------------------
(* Chain and player (external). *)

Includable(tx) == tx.status = "pending" /\ tx.nonce = nonce
Executed(tx, status) == [status |-> status, nonce |-> tx.nonce, block |-> head + 1]
SpendNonce == nonce' = nonce + 1 /\ UNCHANGED <<head, nonceAt>>
\* Mutant of Sealed: the execution status is not looked at.
Sealed_AnyStatus(tx) == tx.status \in {"ok", "reverted"} /\ tx.block <= head

\* A successful transaction of a closed block.
Sealed(tx) == tx.status = "ok" /\ tx.block <= head

IncludeInvoke(t, status) ==
    /\ Includable(invoke[t])
    /\ SpendNonce
    /\ invoke' = [invoke EXCEPT ![t] = Executed(@, status)]
    /\ UNCHANGED <<server, proof, commitHead, abandoned, faults>>

IncludeMatch(r) ==
    LET s == reqSession[r]
    IN  \/ Bank!Cover(s) /\ IncludeInvoke(r, "ok")
        \/ /\ ~(stage[s] = "staked" /\ wallet[House] >= pot[s])
           /\ IncludeInvoke(r, "reverted")
           /\ UNCHANGED pots

IncludeSettle(s) ==
    \/ \E w \in Users : Bank!Pay(s, w) /\ IncludeInvoke(s, "ok")
    \/ stage[s] # "covered" /\ IncludeInvoke(s, "reverted") /\ UNCHANGED pots

IncludeProof(s) ==
    /\ Includable(proof[s])
    /\ SpendNonce
    /\ \/ proof' = [proof EXCEPT ![s] = Executed(@, "ok")] /\ UNCHANGED faults
       \/ proof' = [proof EXCEPT ![s] = Executed(@, "reverted")] /\ Fault
    /\ UNCHANGED <<pots, server, invoke, commitHead, abandoned>>

\* The block being built closes.  Blocks without one of the owner's
\* transactions change no nonce and are left out.
Seal ==
    /\ nonceAt[head] < nonce
    /\ head' = head + 1
    /\ nonceAt' = [b \in 1 .. head + 1 |-> IF b = head + 1 THEN nonce ELSE nonceAt[b]]
    /\ UNCHANGED <<nonce, pots, server, invoke, proof, commitHead, abandoned, faults>>

\* The player's own approve + deposit, for a session id it was given.
PlayerDeposit(s) ==
    /\ pc[s] # "new"
    /\ Bank!Stake(Player, s, 1)
    /\ UNCHANGED <<chain, server, invoke, proof, commitHead, abandoned, faults>>

-----------------------------------------------------------------------------
(* sncast_invoke, shared by confirm_deposit and play_coinflip. *)

Acquire(t) ==
    /\ pc[t] = "queued"
    /\ lock = NoTask
    /\ lock' = t
    /\ Go(t, "locked")
    /\ UNCHANGED <<chain, pots, reqSession, seedBlock, found, invoke, proof,
                   commitHead, abandoned, faults>>

\* Mutant of Send: the lock is released as soon as sncast returns.
Send_Unlocked(t) ==
    /\ pc[t] \in {"locked", "orphan"}
    /\ invoke' = [invoke EXCEPT ![t] = Pending]
    /\ lock' = IF pc[t] = "locked" THEN NoTask ELSE lock
    /\ Go(t, IF pc[t] = "locked" THEN "waiting" ELSE "failed")
    /\ UNCHANGED <<chain, pots, reqSession, seedBlock, found, proof,
                   commitHead, abandoned, faults>>

\* sncast prints a transaction hash: it read the account's nonce and sent.
\* An orphaned sncast, whose task is gone, sends all the same.
Send(t) ==
    /\ pc[t] \in {"locked", "orphan"}
    /\ invoke' = [invoke EXCEPT ![t] = Pending]
    /\ Go(t, IF pc[t] = "locked" THEN "waiting" ELSE "failed")
    /\ UNCHANGED <<chain, pots, reqSession, seedBlock, lock, found, proof,
                   commitHead, abandoned, faults>>

\* After sncast_invoke: confirm_deposit goes on to lock the seed, play sends
\* its result whatever became of the settlement.
AfterInvoke(t) == IF t \in Requests THEN "seeding" ELSE "result"

\* sncast fails or prints no hash, though the transaction may have been sent:
\* confirm_deposit is an error, play reports the settlement missing and sends
\* its result.
SendFails(t) ==
    /\ pc[t] \in {"locked", "orphan"}
    /\ Fault
    /\ \/ UNCHANGED <<invoke, abandoned>>
       \/ /\ invoke' = [invoke EXCEPT ![t] = Pending]
          /\ abandoned' = abandoned \cup {t}
    /\ lock' = IF pc[t] = "locked" THEN NoTask ELSE lock
    /\ Go(t, IF pc[t] = "locked" /\ t \in Sessions THEN "result" ELSE "failed")
    /\ UNCHANGED <<chain, pots, reqSession, seedBlock, found, proof, commitHead>>

NoteBlock(t, b) == found' = IF t \in Requests THEN [found EXCEPT ![t] = b] ELSE found

\* wait_for_tx returns the receipt of a successful transaction of a closed block.
Confirmed(t) ==
    /\ pc[t] = "waiting"
    /\ Sealed(invoke[t])
    /\ NoteBlock(t, invoke[t].block)
    /\ lock' = NoTask
    /\ Go(t, AfterInvoke(t))
    /\ UNCHANGED <<chain, pots, reqSession, seedBlock, invoke, proof,
                   commitHead, abandoned, faults>>

\* A pending transaction whose nonce is spent is never included.
Dead(tx) == tx.status = "pending" /\ tx.nonce < nonce

\* Mutant of WaitFails: wait_for_tx has no deadline.
WaitFails_NoDeadline(tx) == tx.status = "reverted" /\ UNCHANGED faults

\* wait_for_tx must fail on these; on others it may, a timeout or an RPC fault.
WaitFails(tx) ==
    \/ tx.status = "reverted" /\ UNCHANGED faults
    \/ Dead(tx) /\ UNCHANGED faults
    \/ Fault

\* Tasks among ts whose transaction is, or may yet be, out and not executed.
Unconfirmed(ts) == {t \in ts : pc[t] = "locked" \/ invoke[t].status = "pending"}

\* Mutant of GiveUp: the error return keeps the lock.
GiveUp_KeepsLock(t) ==
    /\ pc[t] = "waiting"
    /\ WaitFails(invoke[t])
    /\ NoteBlock(t, 0)
    /\ abandoned' = abandoned \cup Unconfirmed({t})
    /\ Go(t, AfterInvoke(t))
    /\ UNCHANGED <<chain, pots, reqSession, seedBlock, lock, invoke, proof, commitHead>>

\* The error is only logged and the lock released; the result still carries
\* the hash, without a block.
GiveUp(t) ==
    /\ pc[t] = "waiting"
    /\ WaitFails(invoke[t])
    /\ NoteBlock(t, 0)
    /\ lock' = NoTask
    /\ abandoned' = abandoned \cup Unconfirmed({t})
    /\ Go(t, AfterInvoke(t))
    /\ UNCHANGED <<chain, pots, reqSession, seedBlock, invoke, proof, commitHead>>

-----------------------------------------------------------------------------
(* commit_bet and confirm_deposit. *)

Commit(s) ==
    /\ pc[s] = "new"
    /\ Go(s, "committed")
    /\ commitHead' = [commitHead EXCEPT ![s] = head]
    /\ UNCHANGED <<chain, pots, reqSession, seedBlock, lock, found, invoke,
                   proof, abandoned, faults>>

\* The client's transaction hash is confirmed and the session has a
\* commitment.  Nothing relates that hash to the session's deposit.
ConfirmDeposit(r) ==
    /\ pc[r] = "new"
    /\ pc[reqSession[r]] = "committed"
    /\ Go(r, "queued")
    /\ UNCHANGED <<chain, pots, reqSession, seedBlock, lock, found, invoke,
                   proof, commitHead, abandoned, faults>>

\* Mutant of Larger: the block after the confirmation.
Larger_NextBlock(a, b) == IF a >= b THEN a + 1 ELSE b

\* Mutant of Larger: min for max.
Larger_Smaller(a, b) == IF a >= b THEN b ELSE a

Larger(a, b) == IF a >= b THEN a ELSE b

\* Mutant of SeedWritten: insert, where the code has get_mut.
SeedWritten_Insert(s, b) == [seedBlock EXCEPT ![s] = b]

\* Only a commitment that is still there is updated.
SeedWritten(s, b) ==
    IF pc[s] = "committed" THEN [seedBlock EXCEPT ![s] = b] ELSE seedBlock

\* The seed is the block of the receipt; without one, the chain's head, or 0
\* when that call fails; at least the deploy block that the registry has now.
LockSeed(r) ==
    /\ pc[r] = "seeding"
    /\ \E b \in {found[r], head, 0} :
          /\ \/ found[r] # 0 /\ b = found[r] /\ UNCHANGED faults
             \/ found[r] = 0 /\ b = head /\ UNCHANGED faults
             \/ found[r] = 0 /\ b = 0 /\ Fault
          /\ \E d \in DeployBlocks : seedBlock' = SeedWritten(reqSession[r], Larger(b, d))
    /\ Go(r, "matched")
    /\ UNCHANGED <<chain, pots, reqSession, lock, found, invoke, proof,
                   commitHead, abandoned>>

-----------------------------------------------------------------------------
(* play_coinflip. *)

\* The commitment is consumed first, then checked against the reveal.
Reveal(s) ==
    /\ pc[s] = "committed"
    /\ Go(s, "proving") \/ Go(s, "failed")
    /\ UNCHANGED <<chain, pots, reqSession, seedBlock, lock, found, invoke,
                   proof, commitHead, abandoned, faults>>

\* Mutant of Prove: a seed of 0 stands for the deploy block.
Prove_AnySeed(s) ==
    /\ pc[s] = "proving"
    /\ proof' = [proof EXCEPT ![s].nonce = nonceAt[Larger(seedBlock[s], DeployBlock)]]
    /\ Go(s, "submitting")
    /\ UNCHANGED <<chain, pots, reqSession, seedBlock, lock, found, invoke,
                   commitHead, abandoned, faults>>

\* The nonce at the seed block is read, signed and proved.  The account has
\* no nonce at block 0.
Prove(s) ==
    /\ pc[s] = "proving"
    /\ \/ /\ seedBlock[s] # 0
          /\ proof' = [proof EXCEPT ![s].nonce = nonceAt[seedBlock[s]]]
          /\ Go(s, "submitting")
          /\ UNCHANGED faults
       \/ /\ (seedBlock[s] = 0 /\ UNCHANGED faults) \/ Fault
          /\ Go(s, "failed")
          /\ UNCHANGED proof
    /\ UNCHANGED <<chain, pots, reqSession, seedBlock, lock, found, invoke,
                   commitHead, abandoned>>

\* The gateway refuses a spent nonce.  A lost answer fails the play whether
\* or not the transaction was received.
Submit(s) ==
    /\ pc[s] = "submitting"
    /\ \/ /\ proof[s].nonce >= nonce
          /\ proof' = [proof EXCEPT ![s].status = "pending"]
          /\ \/ Go(s, "including") /\ UNCHANGED faults
             \/ Go(s, "failed") /\ Fault
       \/ /\ (proof[s].nonce < nonce /\ UNCHANGED faults) \/ Fault
          /\ Go(s, "failed")
          /\ UNCHANGED proof
    /\ UNCHANGED <<chain, pots, reqSession, seedBlock, lock, found, invoke,
                   commitHead, abandoned>>

\* Mutant of AwaitInclusion: an unconfirmed proof is settled all the same.
AwaitInclusion_IgnoresError(s) ==
    /\ pc[s] = "including"
    /\ (Sealed(proof[s]) /\ UNCHANGED faults) \/ WaitFails(proof[s])
    /\ Go(s, "queued")
    /\ UNCHANGED <<chain, pots, reqSession, seedBlock, lock, found, invoke,
                   proof, commitHead, abandoned>>

\* Mutant of AwaitInclusion: the settlement is left out.
AwaitInclusion_NoSettle(s) ==
    /\ pc[s] = "including"
    /\ (Sealed(proof[s]) /\ UNCHANGED faults) \/ WaitFails(proof[s])
    /\ Go(s, "result")
    /\ UNCHANGED <<chain, pots, reqSession, seedBlock, lock, found, invoke,
                   proof, commitHead, abandoned>>

AwaitInclusion(s) ==
    /\ pc[s] = "including"
    /\ \/ Sealed(proof[s]) /\ Go(s, "queued") /\ UNCHANGED faults
       \/ WaitFails(proof[s]) /\ Go(s, "failed")
    /\ UNCHANGED <<chain, pots, reqSession, seedBlock, lock, found, invoke,
                   proof, commitHead, abandoned>>

-----------------------------------------------------------------------------
(* Lost tasks. *)

\* A task's future is dropped; a running sncast child outlives it.
Lost(t) == IF pc[t] \in {"locked", "orphan"} THEN "orphan" ELSE "failed"

\* The client closes its connection and the handler is dropped where it waits.
Disconnect(r) ==
    /\ Active(r) /\ pc[r] # "orphan"
    /\ Fault
    /\ Go(r, Lost(r))
    /\ lock' = IF lock = r THEN NoTask ELSE lock
    /\ abandoned' = abandoned \cup Unconfirmed({r})
    /\ UNCHANGED <<chain, pots, reqSession, seedBlock, found, invoke, proof, commitHead>>

\* The server restarts: every task, the lock and the commitments are lost.
Restart ==
    /\ Fault
    /\ pc' = [t \in Tasks |-> IF Active(t) \/ pc[t] = "committed" THEN Lost(t) ELSE pc[t]]
    /\ lock' = NoTask
    /\ abandoned' = abandoned \cup Unconfirmed({t \in Tasks : Active(t)})
    /\ UNCHANGED <<chain, pots, reqSession, seedBlock, found, invoke, proof, commitHead>>

-----------------------------------------------------------------------------
Include ==
    \/ \E r \in Requests : IncludeMatch(r)
    \/ \E s \in Sessions : IncludeSettle(s) \/ IncludeProof(s)

\* The steps a task takes by itself, other than getting the lock.
Step(t) ==
    \/ Send(t) \/ SendFails(t) \/ Confirmed(t) \/ GiveUp(t)
    \/ t \in Requests /\ LockSeed(t)
    \/ t \in Sessions /\ (Prove(t) \/ Submit(t) \/ AwaitInclusion(t))

Next ==
    \/ Include \/ Seal
    \/ \E s \in Sessions : PlayerDeposit(s) \/ Commit(s) \/ Reveal(s)
    \/ \E t \in Tasks : Acquire(t) \/ Step(t)
    \/ Restart
    \/ \E r \in Requests : ConfirmDeposit(r) \/ Disconnect(r)

Spec == Init /\ [][Next]_vars

\* The chain includes and seals, and the runtime polls a task that can go on.
\* Every step is progress (no task ever goes back), so it is enough that the
\* system does not stop while some task or the chain can take a step.  Nothing
\* makes a player commit, deposit or play, and nothing makes a failure happen.
Fairness == WF_vars(Include \/ Seal \/ \E t \in Tasks : Acquire(t) \/ Step(t))

FairSpec == Spec /\ Fairness

-----------------------------------------------------------------------------
(* Safety. *)

TxRec == [status : TxStatus, nonce : 0 .. nonce, block : 0 .. head + 1]

TypeOK ==
    /\ head \in Nat \ {0}
    /\ nonce \in Nat
    /\ nonceAt \in [1 .. head -> 0 .. nonce]
    /\ Bank!TypeOK
    /\ pc \in [Tasks -> RequestPC \cup SessionPC]
    /\ \A r \in Requests : pc[r] \in RequestPC
    /\ \A s \in Sessions : pc[s] \in SessionPC
    /\ reqSession \in [Requests -> Sessions]
    /\ seedBlock \in [Sessions -> 0 .. head]
    /\ lock \in Tasks \cup {NoTask}
    /\ found \in [Requests -> 0 .. head]
    /\ invoke \in [Tasks -> TxRec]
    /\ proof \in [Sessions -> TxRec]
    /\ commitHead \in [Sessions -> 0 .. head]
    /\ abandoned \subseteq Tasks
    /\ faults \in 0 .. MaxFaults

\* Two of the server's sncast transactions wait for the same nonce only if
\* the lock was released before one of them was confirmed: by a timeout, a
\* dropped connection or a restart.
NonceRacesAreAbandoned ==
    \A t, u \in Tasks :
        /\ t # u
        /\ invoke[t].status = "pending" /\ invoke[u].status = "pending"
        /\ invoke[t].nonce = invoke[u].nonce
        => t \in abandoned \/ u \in abandoned

\* No pot is paid out before the proof of its own session's play is on chain,
\* through every interleaving, lost answer, orphaned sncast and restart.
PaidOnlyAfterProof ==
    \A s \in Sessions : stage[s] = "paid" => proof[s].status = "ok"

\* A confirm-deposit that answers from a receipt tells the truth: the house
\* has covered this session's stake, whatever other requests did since.
MatchedReplyTrue ==
    \A r \in Requests :
        pc[r] = "matched" /\ found[r] # 0 =>
            stage[reqSession[r]] \in {"covered", "paid"}

\* The confirm-deposit requests that reached session s.
Confirms(s) == {r \in Requests : reqSession[r] = s /\ pc[r] # "new"}

\* A seed locked from receipts alone is a block at which the match is already
\* counted in the nonce the play will prove with, and it was sealed after the
\* commitment, when the player could not know it.
ReceiptSeedIsSound ==
    \A s \in Sessions :
        seedBlock[s] # 0 /\ (\A r \in Confirms(s) : pc[r] = "matched" => found[r] # 0) =>
            /\ seedBlock[s] > commitHead[s]
            /\ \E r \in Confirms(s) : nonceAt[seedBlock[s]] > invoke[r].nonce
                                      /\ invoke[r].status = "ok"

\* The seed of a revealed bet never changes, though a confirm-deposit for it
\* may still be running or be repeated, and the commitment never comes back.
SeedFixedOnceRevealed ==
    [][\A s \in Sessions :
          pc[s] \notin {"new", "committed"} =>
              seedBlock'[s] = seedBlock[s] /\ pc'[s] # "committed"]_vars

\* No proof is sent on the placeholder seed of a bet that was revealed at once:
\* a confirm-deposit of the session has locked the seed and answered before.
ProvedOnlyAfterConfirm ==
    \A s \in Sessions :
        proof[s].status # "none" => \E r \in Confirms(s) : pc[r] = "matched"

\* wait_for_tx ends at its next poll, or as soon as the chain goes on.
Decided(tx) == Sealed(tx) \/ tx.status = "reverted" \/ Dead(tx)
Coming(tx) == Includable(tx) \/ (tx.status = "ok" /\ nonceAt[head] < nonce)

\* Task t needs nobody but the chain for its next step.
Moves(t) ==
    \/ pc[t] \in {"locked", "orphan", "seeding", "proving", "submitting"}
    \/ pc[t] = "waiting" /\ (Decided(invoke[t]) \/ Coming(invoke[t]))
    \/ pc[t] = "including" /\ (Decided(proof[t]) \/ Coming(proof[t]))

\* No task waits in vain: sncast_lock is never left behind by a task that has
\* ended or was dropped, and no wait is for something that cannot come, so that
\* every task can go on or queues behind one that can.
NobodyStuck ==
    \A t \in Tasks :
        Active(t) => Moves(t) \/ (pc[t] = "queued" /\ (lock = NoTask \/ Moves(lock)))

-----------------------------------------------------------------------------
(* Liveness. *)

\* No task waits for ever for the lock, a transaction or the chain: its
\* request is answered or its stream ends, whatever tasks before it met.
EveryTaskEnds == \A t \in Tasks : Active(t) ~> pc[t] \in Ended

\* Another transaction of the owner's has spent the nonce play s proves with.
Overtaken(s) ==
    /\ seedBlock[s] # 0
    /\ \/ \E t \in Tasks \ {s} :
             /\ invoke[t].status \in {"ok", "reverted"}
             /\ invoke[t].nonce = nonceAt[seedBlock[s]]
       \/ \E u \in Sessions \ {s} :
             /\ proof[u].status \in {"ok", "reverted"}
             /\ proof[u].nonce = nonceAt[seedBlock[s]]

\* A play that starts with a covered stake and a locked seed pays the pot out,
\* unless something fails or another of the owner's transactions takes the
\* nonce that its proof or its settlement was made for.
CoveredPlayIsPaid ==
    \A s \in Sessions :
        pc[s] = "proving" /\ stage[s] = "covered" /\ seedBlock[s] # 0 ~>
            \/ stage[s] = "paid"
            \/ faults > 0
            \/ Overtaken(s)
            \/ Dead(invoke[s])

\* The half of it that needs no fairness: such a play never ends, and never
\* reports its result, with the pot still in the bank.
CoveredPlayEndsPaid ==
    \A s \in Sessions :
        [](pc[s] = "proving" /\ stage[s] = "covered" /\ seedBlock[s] # 0 =>
               [](pc[s] \in Ended =>
                      \/ stage[s] = "paid"
                      \/ faults > 0
                      \/ Overtaken(s)
                      \/ Dead(invoke[s])))

-----------------------------------------------------------------------------
(* What a comment of the code says without these conditions. *)

\* routes.rs: match_deposit is confirmed before the seed is locked.
MatchConfirmedBeforeSeed ==
    \A s \in Sessions :
        seedBlock[s] # 0 => \E r \in Confirms(s) : Sealed(invoke[r])
=============================================================================
