-------------------------- MODULE PlaygroundSession --------------------------
(***************************************************************************)
(* One session of the playground server: invoke_increment, deploy_counter, *)
(* submit_proof and prove_block of src/apps/counter/src/routes.rs, and     *)
(* prove_transaction, deploy_account and fund_account of                   *)
(* src/crates/snip36-server.  Requests interleave at every await.  They    *)
(* share the session record, the artifact files named after the session,   *)
(* and the nonce of the master account.  The prover jobs they start behave *)
(* as ProofFiles says, which VirtualOsProver implements.                   *)
(*                                                                         *)
(* The chain is external: a pending transaction of the master account is   *)
(* included when its nonce is the account's, each in a block of its own.   *)
(***************************************************************************)
EXTENDS Naturals, Sequences, FiniteSets

CONSTANTS
    Invokes,      \* invoke_increment requests, and the transactions they send
    Deploys,      \* deploy_counter requests, and the contracts they deploy
    Accounts,     \* deploy_account requests
    Funds,        \* fund_account requests, of any session
    Scripts,      \* prove_transaction requests
    Blocks,       \* prove_block requests
    Submits,      \* submit_proof requests
    Workloads,    \* the sets of requests that may come
    None,         \* nothing, nobody
    First,        \* the contract of a session that starts with one
    Absent,       \* names a file that is not there
    MaxAttempts,  \* submissions of one proof by prove_block (20 in the code)
    MaxFaults     \* bound on failures: see Fault

Sncasts == Deploys \cup Accounts \cup Funds
Jobs == Scripts \cup Blocks
Readers == Blocks \cup Submits
Requests == Invokes \cup Sncasts \cup Jobs \cup Submits

ASSUME SessionAssumption ==
    /\ Workloads \subseteq SUBSET Requests
    /\ {None, First, Absent} \cap Requests = {}
    /\ Invokes \cap (Sncasts \cup Jobs \cup Submits) = {}
    /\ Sncasts \cap (Jobs \cup Submits) = {}
    /\ Jobs \cap Submits = {}
    /\ Scripts \cap Blocks = {}
    /\ MaxAttempts \in Nat \ {0}
    /\ MaxFaults \in Nat

VARIABLES
    coming,    \* the requests of this behaviour
    pc,        \* pc[r]: where request r is
    session,   \* the Session record, with 0 for a block that is not known
    lock,      \* sncast_lock
    tx,        \* tx[r]: the transaction that r sends
    declare,   \* declare[d]: the one that declares the class of d before
    nonceAt,   \* nonceAt[n]: the master account's nonce after block n
    ref,       \* ref[r]: the block that proof r is made against
    picked,    \* picked[p]: the invoke that prove_transaction p proves
    signed,    \* signed[r]: the nonce that r signs with
    attempts,  \* attempts[b]: submissions refused
    txFile,    \* whose transaction is in the session's _tx.json
    proves,    \* proves[b]: whose transaction the job of b has read
    sent,      \* sent[r]: the proof and the facts that r has read
    phase, files,   \* the prover jobs and the session's artifacts: see ProofFiles
    rivals,    \* history: jobs that were under way while r was using the files
    crossed,   \* history: a contract was stored while a prove_block was under way
    faults

chain == <<tx, declare, nonceAt>>
locals == <<ref, picked, signed, attempts, proves, sent>>
artifacts == <<phase, files, txFile>>
history == <<rivals, crossed>>
vars == <<coming, pc, session, lock, chain, locals, artifacts, history, faults>>

Prover == INSTANCE ProofFiles WITH Paths <- {"session"}, Output <- [j \in Jobs |-> "session"]
File == files["session"]
Missing == Prover!Missing

Tip == Len(nonceAt)
nonce == nonceAt[Tip]
NoTx == [status |-> "none", nonce |-> 0, block |-> 0]
NewSession == [account |-> FALSE, contract |-> None, deployBlock |-> 0, reference |-> 0,
               invokeTx |-> None, invokeBlock |-> 0, proveBlock |-> 0, proofFile |-> FALSE]
Deployed == [NewSession EXCEPT !.account = TRUE, !.contract = First,
                               !.deployBlock = 1, !.reference = 1]

Ended == {"done", "unconfirmed", "refused", "failed"}
Children == {"declaring", "locked"}          \* a sncast process is running
Orphans == {"declareOrphan", "orphan"}       \* and has outlived its request
InFlight == {"accepted", "waiting", "queued", "picked", "constructing", "spawning", "proving",
             "reading", "facts", "signing", "submitting", "including"} \cup Children \cup Orphans
UsesFiles(r) ==
    \/ pc[r] \in {"spawning", "proving", "reading", "facts"}
    \/ r \in Jobs /\ phase[r] \notin {"idle", "ok", "failed"}

Init ==
    /\ coming \in Workloads
    /\ pc = [r \in Requests |-> "new"]
    /\ session \in {NewSession, Deployed}
    /\ lock = None
    /\ tx = [r \in Requests |-> NoTx]
    /\ declare = [d \in Deploys |-> NoTx]
    /\ nonceAt = <<0>>
    /\ ref = [r \in Jobs |-> 0]
    /\ picked = [p \in Scripts |-> None]
    /\ signed = [r \in Readers |-> 0]
    /\ attempts = [b \in Blocks |-> 0]
    /\ txFile = None
    /\ proves = [b \in Blocks |-> None]
    /\ sent = [r \in Readers |-> [proof |-> {}, facts |-> {}]]
    /\ Prover!Init
    /\ rivals = [r \in Requests |-> {}]
    /\ crossed = FALSE
    /\ faults = 0

\* A failure: of an RPC call, a process or a file, a timeout, a dropped connection,
\* a revert, a restart.
Fault == faults < MaxFaults /\ faults' = faults + 1

Go(r, to) == pc' = [pc EXCEPT ![r] = to]
Pending(n) == [status |-> "pending", nonce |-> n, block |-> 0]
Included(r) == tx[r].status = "ok"

\* The wait for a transaction ends without it: it was reverted, it can never be
\* included, or (a failure) it is late.
GivesUp(r) ==
    \/ tx[r].status = "reverted" /\ UNCHANGED faults
    \/ tx[r].status = "pending" /\ r \notin Invokes /\ tx[r].nonce < nonce /\ UNCHANGED faults
    \/ tx[r].status = "pending" /\ Fault

\* From now on r uses the files.
Meets(r) ==
    LET others == {j \in Requests \ {r} : UsesFiles(j)}
    IN  rivals' = [q \in Requests |->
                      CASE q = r -> rivals[r] \cup (others \cap Jobs)
                        [] q \in others /\ r \in Jobs -> rivals[q] \cup {r}
                        [] OTHER -> rivals[q]]

-----------------------------------------------------------------------------
(* invoke_increment. *)

\* The node has the transaction, and its answer is on the way; or it refuses it.
InvokeSend(i) ==
    /\ pc[i] = "new" /\ i \in coming
    /\ session.account /\ session.contract # None
    /\ \/ Go(i, "accepted") /\ tx' = [tx EXCEPT ![i] = Pending(0)] /\ UNCHANGED faults
       \/ Go(i, "failed") /\ UNCHANGED tx /\ Fault
    /\ UNCHANGED <<session, lock, declare, nonceAt, locals, artifacts, history>>

InvokeRecord(i) ==
    /\ pc[i] = "accepted"
    /\ session' = [session EXCEPT !.invokeTx = i]
    /\ Go(i, "waiting")
    /\ UNCHANGED <<lock, chain, locals, artifacts, history, faults>>

\* Mutant of InvokeConfirmed: the chain's head is taken for the receipt's block.
InvokeConfirmed_AtHead(i) ==
    /\ pc[i] = "waiting" /\ Included(i)
    /\ session' = [session EXCEPT !.invokeBlock = Tip]
    /\ Go(i, "done")
    /\ UNCHANGED <<lock, chain, locals, artifacts, history, faults>>

\* Only now is the block of the earlier invoke replaced.
InvokeConfirmed(i) ==
    /\ pc[i] = "waiting" /\ Included(i)
    /\ session' = [session EXCEPT !.invokeBlock = tx[i].block]
    /\ Go(i, "done")
    /\ UNCHANGED <<lock, chain, locals, artifacts, history, faults>>

\* The request is answered with a warning, and the session keeps the earlier block.
InvokeUnconfirmed(i) ==
    /\ pc[i] = "waiting"
    /\ GivesUp(i)
    /\ Go(i, "unconfirmed")
    /\ UNCHANGED <<session, lock, chain, locals, artifacts, history>>

-----------------------------------------------------------------------------
(* deploy_counter, deploy_account, fund_account. *)

SncastBegin(r) ==
    /\ pc[r] = "new" /\ r \in coming
    /\ Go(r, "queued")
    /\ UNCHANGED <<session, lock, chain, locals, artifacts, history, faults>>

SncastLock(r) ==
    /\ pc[r] = "queued"
    /\ lock = None
    /\ lock' = r
    /\ Go(r, IF r \in Deploys THEN "declaring" ELSE "locked")
    /\ UNCHANGED <<session, chain, locals, artifacts, history, faults>>

\* The guard of sncast_lock is dropped with the request that holds it.
Release(r) == lock' = IF lock = r THEN None ELSE lock

\* sncast declares the class, unless the node has it from an earlier request.
\* The handler goes on at once, without a wait for the declaration.
Declare(d) ==
    /\ pc[d] \in {"declaring", "declareOrphan"}
    /\ declare' = [declare EXCEPT ![d] = Pending(nonce)] \/ UNCHANGED declare
    /\ Go(d, IF pc[d] = "declaring" THEN "locked" ELSE "failed")
    /\ UNCHANGED <<session, lock, tx, nonceAt, locals, artifacts, history, faults>>

\* sncast sends the transaction; a contract cannot be deployed while the
\* declaration of its class is pending.
SncastSend(r) ==
    /\ pc[r] \in {"locked", "orphan"}
    /\ IF r \in Deploys /\ declare[r].status = "pending"
       THEN Go(r, "failed") /\ Release(r) /\ UNCHANGED tx
       ELSE /\ tx' = [tx EXCEPT ![r] = Pending(nonce)]
            /\ Go(r, IF pc[r] = "locked" THEN "waiting" ELSE "failed")
            /\ UNCHANGED lock
    /\ UNCHANGED <<session, declare, nonceAt, locals, artifacts, history, faults>>

\* sncast fails, though the transaction may have been sent.
SncastFails(r) ==
    /\ pc[r] \in Children \cup Orphans
    /\ Fault
    /\ \/ pc[r] \in {"locked", "orphan"} /\ tx' = [tx EXCEPT ![r] = Pending(nonce)] /\ UNCHANGED declare
       \/ pc[r] \notin {"locked", "orphan"} /\ declare' = [declare EXCEPT ![r] = Pending(nonce)] /\ UNCHANGED tx
       \/ UNCHANGED <<tx, declare>>
    /\ Go(r, "failed")
    /\ Release(r)
    /\ UNCHANGED <<session, nonceAt, locals, artifacts, history>>

\* Mutant of CounterStored: the reference block is left to the first proof.
CounterStored_NoReference(d) ==
    /\ session' = [session EXCEPT !.contract = d, !.deployBlock = tx[d].block]
    /\ crossed' = (crossed \/ \E b \in Blocks : pc[b] \in InFlight)

\* Proofs of the session start over from the block of the new contract.
CounterStored(d) ==
    /\ session' = [session EXCEPT !.contract = d, !.deployBlock = tx[d].block,
                                  !.reference = tx[d].block]
    /\ crossed' = (crossed \/ \E b \in Blocks : pc[b] \in InFlight)

AccountStored == session' = [session EXCEPT !.account = TRUE] /\ UNCHANGED crossed

SncastConfirmed(r) ==
    /\ pc[r] = "waiting" /\ Included(r)
    /\ \/ r \in Deploys /\ CounterStored(r)
       \/ r \in Accounts /\ AccountStored
       \/ r \in Funds /\ UNCHANGED <<session, crossed>>
    /\ Go(r, "done")
    /\ lock' = None
    /\ UNCHANGED <<chain, locals, artifacts, rivals, faults>>

\* Mutant of SncastUnconfirmed: the error return keeps the lock.
SncastUnconfirmed_KeepsLock(r) ==
    /\ pc[r] = "waiting"
    /\ GivesUp(r)
    /\ Go(r, "failed")
    /\ UNCHANGED <<session, lock, chain, locals, artifacts, history>>

SncastUnconfirmed(r) ==
    /\ pc[r] = "waiting"
    /\ GivesUp(r)
    /\ Go(r, "failed")
    /\ lock' = None
    /\ UNCHANGED <<session, chain, locals, artifacts, history>>

-----------------------------------------------------------------------------
(* prove_transaction. *)

ScriptBegin(p) ==
    /\ pc[p] = "new" /\ p \in coming
    /\ session.invokeTx # None
    /\ picked' = [picked EXCEPT ![p] = session.invokeTx]
    /\ Go(p, "picked")
    /\ UNCHANGED <<session, lock, chain, ref, signed, attempts, proves, sent,
                   artifacts, history, faults>>

\* The script is started against the block before the one given.
ScriptProve(p, block) ==
    /\ ref' = [ref EXCEPT ![p] = block - 1]
    /\ session' = [session EXCEPT !.proveBlock = block - 1]
    /\ Prover!Start(p)
    /\ Meets(p)
    /\ Go(p, "proving")
    /\ UNCHANGED <<lock, chain, picked, signed, attempts, proves, sent, txFile,
                   crossed, faults>>

\* The session is read again: it may have the block of another invoke by now,
\* or still have it.
ScriptBlock(p) ==
    /\ pc[p] = "picked"
    /\ \/ session.invokeBlock # 0 /\ ScriptProve(p, session.invokeBlock)
       \/ /\ session.invokeBlock = 0
          /\ Go(p, "waiting")
          /\ UNCHANGED <<session, lock, chain, locals, artifacts, history, faults>>

ScriptWaited(p) ==
    /\ pc[p] = "waiting"
    /\ \/ Included(picked[p]) /\ ScriptProve(p, tx[picked[p]].block)
       \/ /\ GivesUp(picked[p])
          /\ Go(p, "failed")
          /\ UNCHANGED <<session, lock, chain, locals, artifacts, history>>

\* Mutant of ScriptEnds: the file is looked for without waiting for the script.
ScriptEnds_Early(p) ==
    /\ pc[p] = "proving"
    /\ IF File["proof"] # Missing
       THEN session' = [session EXCEPT !.proofFile = TRUE] /\ Go(p, "done")
       ELSE UNCHANGED session /\ Go(p, "failed")
    /\ UNCHANGED <<lock, chain, locals, artifacts, history, faults>>

\* The exit status of the script is not looked at, only that there is a file.
ScriptEnds(p) ==
    /\ pc[p] = "proving"
    /\ phase[p] \in {"ok", "failed"}
    /\ IF File["proof"] # Missing
       THEN session' = [session EXCEPT !.proofFile = TRUE] /\ Go(p, "done")
       ELSE UNCHANGED session /\ Go(p, "failed")
    /\ UNCHANGED <<lock, chain, locals, artifacts, history, faults>>

-----------------------------------------------------------------------------
(* prove_block. *)

BlockBegin(b) ==
    /\ pc[b] = "new" /\ b \in coming
    /\ session.contract # None
    /\ session.reference # 0
    /\ ref' = [ref EXCEPT ![b] = session.reference]
    /\ Go(b, "constructing")
    /\ UNCHANGED <<session, lock, chain, picked, signed, attempts, proves, sent,
                   artifacts, history, faults>>

\* Mutant of BlockConstruct: the nonce is that of the deploy block.
BlockConstruct_DeployNonce(b) ==
    /\ pc[b] = "constructing"
    /\ signed' = [signed EXCEPT ![b] = nonceAt[1]]
    /\ txFile' = b
    /\ Meets(b)
    /\ Go(b, "spawning")
    /\ UNCHANGED <<session, lock, chain, ref, picked, attempts, proves, sent,
                   phase, files, crossed, faults>>

\* The transaction has the nonce of the reference block.
BlockConstruct(b) ==
    /\ pc[b] = "constructing"
    /\ signed' = [signed EXCEPT ![b] = nonceAt[ref[b]]]
    /\ txFile' = b
    /\ Meets(b)
    /\ Go(b, "spawning")
    /\ UNCHANGED <<session, lock, chain, ref, picked, attempts, proves, sent,
                   phase, files, crossed, faults>>

\* The CLI starts, and reads the transaction.
BlockSpawn(b) ==
    /\ pc[b] = "spawning"
    /\ Prover!Start(b)
    /\ proves' = [proves EXCEPT ![b] = txFile]
    /\ Go(b, "proving")
    /\ UNCHANGED <<session, lock, chain, ref, picked, signed, attempts, sent, txFile,
                   history, faults>>

\* Mutant of BlockProved: the exit status is not looked at, as in ScriptEnds.
BlockProved_AnyStatus(b) ==
    /\ pc[b] = "proving"
    /\ phase[b] \in {"ok", "failed"}
    /\ Go(b, IF File["proof"] # Missing THEN "reading" ELSE "failed")
    /\ UNCHANGED <<session, lock, chain, locals, artifacts, history, faults>>

BlockProved(b) ==
    /\ pc[b] = "proving"
    /\ phase[b] \in {"ok", "failed"}
    /\ Go(b, IF phase[b] = "ok" /\ File["proof"] # Missing THEN "reading" ELSE "failed")
    /\ UNCHANGED <<session, lock, chain, locals, artifacts, history, faults>>

Accepted(b) == Go(b, "including") /\ tx' = [tx EXCEPT ![b] = Pending(signed[b])]

\* Mutant of Refused: the attempts are not limited.
Refused_Forever(b) ==
    /\ attempts' = [attempts EXCEPT ![b] = @ + 1]
    /\ Go(b, "submitting")
    /\ UNCHANGED tx

\* The node answers with an error, and there may be another attempt.
Refused(b) ==
    /\ attempts' = [attempts EXCEPT ![b] = @ + 1]
    /\ Go(b, IF attempts[b] + 1 = MaxAttempts THEN "refused" ELSE "submitting")
    /\ UNCHANGED tx

\* The answer is lost: the request fails, the node may have the transaction.
Unanswered(r) ==
    /\ Go(r, "failed")
    /\ \/ UNCHANGED tx
       \/ signed[r] >= nonce /\ tx' = [tx EXCEPT ![r] = Pending(signed[r])]

BlockSubmit(b) ==
    /\ pc[b] = "submitting"
    /\ \/ signed[b] >= nonce /\ Accepted(b) /\ UNCHANGED <<attempts, faults>>
       \/ signed[b] < nonce /\ Refused(b) /\ UNCHANGED faults
       \/ Fault /\ Refused(b)
       \/ Fault /\ Unanswered(b) /\ UNCHANGED attempts
    /\ UNCHANGED <<session, lock, declare, nonceAt, ref, picked, signed, proves, sent,
                   artifacts, history>>

BlockIncluded(b) ==
    /\ pc[b] = "including"
    /\ \/ /\ Included(b)
          /\ session' = [session EXCEPT !.reference = tx[b].block]
          /\ Go(b, "done") /\ UNCHANGED faults
       \/ GivesUp(b) /\ Go(b, "failed") /\ UNCHANGED session
    /\ UNCHANGED <<lock, chain, locals, artifacts, history>>

-----------------------------------------------------------------------------
(* submit_proof, and the files as it and prove_block read them. *)

SubmitBegin(s) ==
    /\ pc[s] = "new" /\ s \in coming
    /\ session.proofFile /\ session.contract # None
    /\ Go(s, "reading")
    /\ Meets(s)
    /\ UNCHANGED <<session, lock, chain, locals, artifacts, crossed, faults>>

ReadProof(r) ==
    /\ pc[r] = "reading"
    /\ sent' = [sent EXCEPT ![r].proof = File["proof"]]
    /\ Go(r, "facts")
    /\ UNCHANGED <<session, lock, chain, ref, picked, signed, attempts, proves,
                   artifacts, history, faults>>

\* Facts that are missing, empty or garbled are an error.
ReadFacts(r) ==
    /\ pc[r] = "facts"
    /\ IF File["facts"] # Missing /\ Cardinality(File["facts"]) = 1
       THEN /\ sent' = [sent EXCEPT ![r].facts = File["facts"]]
            /\ Go(r, IF r \in Blocks THEN "submitting" ELSE "signing")
       ELSE Go(r, "failed") /\ UNCHANGED sent
    /\ UNCHANGED <<session, lock, chain, ref, picked, signed, attempts, proves,
                   artifacts, history, faults>>

SubmitSign(s) ==
    /\ pc[s] = "signing"
    /\ signed' = [signed EXCEPT ![s] = nonce]
    /\ Go(s, "submitting")
    /\ UNCHANGED <<session, lock, chain, ref, picked, attempts, proves, sent,
                   artifacts, history, faults>>

\* One attempt, and no wait for what becomes of it.
SubmitSend(s) ==
    /\ pc[s] = "submitting"
    /\ \/ /\ signed[s] >= nonce
          /\ Go(s, "done") /\ tx' = [tx EXCEPT ![s] = Pending(signed[s])] /\ UNCHANGED faults
       \/ signed[s] < nonce /\ Go(s, "failed") /\ UNCHANGED <<tx, faults>>
       \/ Fault /\ Unanswered(s)
    /\ UNCHANGED <<session, lock, declare, nonceAt, locals, artifacts, history>>

-----------------------------------------------------------------------------
(* The chain and the prover jobs (external), and failures. *)

\* A transaction is executed in a block of its own.
Execute(r) ==
    /\ tx[r].status = "pending"
    /\ r \in Invokes \/ tx[r].nonce = nonce
    /\ \E status \in {"ok", "reverted"} :
           /\ tx' = [tx EXCEPT ![r].status = status, ![r].block = Tip + 1]
           /\ IF status = "ok" THEN UNCHANGED faults ELSE Fault
    /\ nonceAt' = Append(nonceAt, IF r \in Invokes THEN nonce ELSE nonce + 1)
    /\ UNCHANGED <<pc, session, lock, declare, locals, artifacts, history>>

\* A declaration calls nothing that could revert.
ExecuteDeclare(d) ==
    /\ declare[d].status = "pending" /\ declare[d].nonce = nonce
    /\ declare' = [declare EXCEPT ![d].status = "ok", ![d].block = Tip + 1]
    /\ nonceAt' = Append(nonceAt, nonce + 1)
    /\ UNCHANGED <<pc, session, lock, tx, locals, artifacts, history, faults>>

\* Failing before the end is a failure, exiting with one after the last write is not.
JobStep(j) ==
    /\ phase[j] # "idle"
    /\ \/ /\ Prover!Succeed(j) \/ \E f \in {"proof", "facts"} : Prover!Open(j, f) \/ Prover!Fill(j, f)
          /\ UNCHANGED faults
       \/ Prover!Fail(j) /\ Fault
    /\ UNCHANGED <<pc, session, lock, chain, locals, txFile, history>>

\* A call that a request makes fails, and with it the request.  When it is the
\* answer to an invoke, the node has the transaction all the same.
RequestFails(r) ==
    /\ pc[r] \in {"accepted", "picked", "constructing", "spawning", "reading", "facts", "signing"}
    /\ Fault
    /\ Go(r, "failed")
    /\ UNCHANGED <<session, lock, chain, locals, artifacts, history>>

\* What is left of a request that is dropped: a sncast process lives on.
HasChild(r) == r \in Sncasts /\ pc[r] \in Children \cup Orphans
Lost(r) ==
    CASE HasChild(r) -> IF pc[r] \in {"declaring", "declareOrphan"} THEN "declareOrphan" ELSE "orphan"
      [] ~HasChild(r) /\ pc[r] \in InFlight -> "failed"
      [] OTHER -> pc[r]

\* The client closes its connection and the handler is dropped where it waits.
\* prove_transaction and prove_block run in tasks of their own and go on.
Disconnect(r) ==
    /\ pc[r] \in InFlight \ Orphans
    /\ Fault
    /\ Go(r, Lost(r))
    /\ Release(r)
    /\ UNCHANGED <<session, chain, locals, artifacts, history>>

\* The server restarts: sessions and requests are lost, processes and files are not.
Restart ==
    /\ Fault
    /\ session' = NewSession
    /\ pc' = [r \in Requests |-> Lost(r)]
    /\ lock' = None
    /\ UNCHANGED <<chain, locals, artifacts, history>>

-----------------------------------------------------------------------------
Work ==
    \/ \E i \in Invokes : InvokeRecord(i) \/ InvokeConfirmed(i) \/ InvokeUnconfirmed(i)
    \/ \E r \in Sncasts : \/ SncastLock(r) \/ SncastSend(r)
                          \/ SncastConfirmed(r) \/ SncastUnconfirmed(r)
    \/ \E d \in Deploys : Declare(d) \/ ExecuteDeclare(d)
    \/ \E p \in Scripts : ScriptBlock(p) \/ ScriptWaited(p) \/ ScriptEnds(p)
    \/ \E b \in Blocks : \/ BlockConstruct(b) \/ BlockSpawn(b) \/ BlockProved(b)
                         \/ BlockSubmit(b) \/ BlockIncluded(b)
    \/ \E r \in Readers : ReadProof(r) \/ ReadFacts(r)
    \/ \E s \in Submits : SubmitSign(s) \/ SubmitSend(s)
    \/ \E r \in Requests : Execute(r)
    \/ \E j \in Jobs : JobStep(j)

Arrive ==
    \/ \E i \in Invokes : InvokeSend(i)
    \/ \E r \in Sncasts : SncastBegin(r)
    \/ \E p \in Scripts : ScriptBegin(p)
    \/ \E b \in Blocks : BlockBegin(b)
    \/ \E s \in Submits : SubmitBegin(s)

Failures ==
    \/ \E r \in Requests : RequestFails(r)
    \/ \E r \in Sncasts : SncastFails(r)
    \/ \E r \in Requests \ Jobs : Disconnect(r)

Next ==
    /\ Arrive \/ Work \/ Failures \/ Restart
    /\ UNCHANGED coming

Spec == Init /\ [][Next]_vars

\* Requests are scheduled, jobs end, and the chain executes what it can or the
\* wait times out.  Every step of Work is progress.
FairSpec == Spec /\ WF_vars(Work /\ UNCHANGED coming)

-----------------------------------------------------------------------------
TypeOK ==
    /\ coming \in Workloads
    /\ pc \in [Requests -> {"new"} \cup InFlight \cup Ended]
    /\ session \in [account : BOOLEAN, contract : Deploys \cup {None, First},
                    deployBlock : 0 .. Tip, reference : 0 .. Tip,
                    invokeTx : Invokes \cup {None}, invokeBlock : 0 .. Tip,
                    proveBlock : 0 .. Tip, proofFile : BOOLEAN]
    /\ lock \in Sncasts \cup {None}
    /\ tx \in [Requests -> [status : {"none", "pending", "ok", "reverted"},
                            nonce : 0 .. nonce, block : 0 .. Tip]]
    /\ declare \in [Deploys -> [status : {"none", "pending", "ok", "reverted"},
                                nonce : 0 .. nonce, block : 0 .. Tip]]
    /\ nonceAt \in Seq(Nat)
    /\ ref \in [Jobs -> 0 .. Tip]
    /\ picked \in [Scripts -> Invokes \cup {None}]
    /\ signed \in [Readers -> 0 .. nonce]
    /\ attempts \in [Blocks -> 0 .. MaxAttempts]
    /\ txFile \in Blocks \cup {None}
    /\ proves \in [Blocks -> Blocks \cup {None}]
    /\ sent \in [Readers -> [proof : (SUBSET Jobs) \cup {Missing}, facts : SUBSET Jobs]]
    /\ phase \in [Jobs -> Prover!Phases]
    /\ files \in [{"session"} -> [Prover!Artifacts -> Prover!Content]]
    /\ rivals \in [Requests -> SUBSET Jobs]
    /\ crossed \in BOOLEAN
    /\ faults \in 0 .. MaxFaults

\* routes.rs: an invoke is confirmed "so the prover can reference the correct
\* block", the one before the block that has the proved transaction.
ProvesAgainstOwnBlock ==
    \A p \in Scripts : ref[p] # 0 => ref[p] + 1 = tx[picked[p]].block

\* When a proof is made against the wrong block, it is that of another invoke of
\* the session, and the request of that one has been answered with it.
WrongBlockIsAnotherInvokes ==
    \A p \in Scripts :
        ref[p] # 0 /\ ref[p] + 1 # tx[picked[p]].block =>
            \E i \in Invokes \ {picked[p]} : pc[i] = "done" /\ tx[i].block = ref[p] + 1

\* prove_block sends the proof that its own job made, of the transaction that it
\* signed, unless another job of the session was under way at the same time.
SendsItsOwnProof ==
    \A b \in Blocks :
        pc[b] \in {"submitting", "including", "done", "refused"} =>
            (sent[b].proof \subseteq {b} /\ proves[b] = b) \/ rivals[b] # {}

\* prove_transaction reports as its own the proof of an earlier job only if its
\* own job failed; another job under way may have replaced or emptied it.
ReportsItsOwnProof ==
    [][\A p \in Scripts :
           pc[p] = "proving" /\ pc'[p] = "done" =>
               File["proof"] \subseteq {p} \/ phase[p] = "failed" \/ rivals[p] # {}]_vars

\* The block that the next proof is made against has the session's contract,
\* unless the contract was replaced while a prove_block was under way.
ReferenceHasContract == session.reference >= session.deployBlock \/ crossed

\* A proof is refused at every attempt only if the master account has transacted
\* since the reference block, whether for this session or another.
RefusedOnlyWhenSpent ==
    \A b \in Blocks :
        pc[b] = "refused" => nonce > nonceAt[ref[b]] \/ faults >= MaxAttempts

\* Whether the awaited transaction is known never to be included, or can be now.
Decided(q) ==
    \/ tx[q].status \in {"ok", "reverted"}
    \/ tx[q].status = "pending" /\ q \notin Invokes /\ tx[q].nonce < nonce
CanExecute(q) == tx[q].status = "pending" /\ (q \in Invokes \/ tx[q].nonce = nonce)

Awaited(r) == IF r \in Scripts THEN picked[r] ELSE r
FilesMove == {"running", "proofOpen", "proof", "factsOpen", "facts", "ok", "failed"}

\* What request r is about to do, its job or the chain can do for it.
CanGoOn(r) ==
    \/ pc[r] \in {"accepted", "constructing", "reading", "facts", "signing", "submitting"}
    \/ pc[r] \in Children \cup Orphans
    \/ pc[r] = "queued" /\ lock = None
    \/ pc[r] \in {"picked", "spawning"} /\ phase[r] = "idle"
    \/ pc[r] = "proving" /\ phase[r] \in FilesMove
    \/ /\ pc[r] \in {"waiting", "including"}
       /\ r \in Scripts => phase[r] = "idle"
       /\ Decided(Awaited(r)) \/ CanExecute(Awaited(r))

\* No request waits in vain: each can go on without a failure or a timeout, or
\* queues for sncast_lock behind one that can.
NobodyStuck ==
    \A r \in Requests :
        pc[r] \in InFlight =>
            CanGoOn(r) \/ (pc[r] = "queued" /\ lock # None /\ CanGoOn(lock))

\* Every request is answered: once the last has come, none stays in flight.
EveryRequestEnds == <>[](\A r \in Requests : pc[r] \notin InFlight)
=============================================================================
