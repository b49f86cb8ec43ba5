----------------------- MODULE CoinFlipServerProgress -----------------------
(***************************************************************************)
(* More proofs about CoinFlipServer for any numbers of requests, sessions  *)
(* and failures: that it uses the bank as Escrow promises, that no task    *)
(* waits in vain, that no play is proved before a confirm-deposit, and     *)
(* that a play with a covered stake ends with the pot paid out.            *)
(***************************************************************************)
EXTENDS CoinFlipServerProofs

(* The bank. *)

\* CoinFlipServer with Escrow: the match, the deposits and the settlements that
\* routes.rs makes, with whatever is lost or retried between them, are steps
\* that Escrow allows, so that what is promised of it holds of the server's
\* sessions.
THEOREM ServerUsesEscrow == Spec => Bank!Spec
<1>1. Init => Bank!Init
  BY ServerAssumption DEF Init, Bank!Init, Users
<1>2. TypeOK /\ [Next]_vars => [Bank!Next]_(Bank!vars)
  <2> SUFFICES ASSUME TypeOK, [Next]_vars PROVE Bank!Next \/ UNCHANGED pots
    BY DEF pots, Bank!vars
  <2>1. ASSUME NEW r \in Requests, IncludeMatch(r) PROVE Bank!Next \/ UNCHANGED pots
    BY <2>1 DEF IncludeMatch, Bank!Next, TypeOK
  <2>2. ASSUME NEW s \in Sessions, IncludeSettle(s) PROVE Bank!Next \/ UNCHANGED pots
    BY <2>2 DEF IncludeSettle, Bank!Next
  <2>3. ASSUME NEW s \in Sessions, PlayerDeposit(s) PROVE Bank!Next
    BY <2>3 DEF PlayerDeposit, Bank!Next, Users
  <2>4. ASSUME NEW s \in Sessions,
               IncludeProof(s) \/ Commit(s) \/ Reveal(s) \/ Prove(s) \/ Submit(s) \/ AwaitInclusion(s)
        PROVE  UNCHANGED pots
    BY <2>4 DEF IncludeProof, Commit, Reveal, Prove, Submit, AwaitInclusion
  <2>5. ASSUME NEW r \in Requests, ConfirmDeposit(r) \/ Disconnect(r) \/ LockSeed(r)
        PROVE  UNCHANGED pots
    BY <2>5 DEF ConfirmDeposit, Disconnect, LockSeed
  <2>6. ASSUME NEW t \in Tasks,
               Acquire(t) \/ Send(t) \/ SendFails(t) \/ Confirmed(t) \/ GiveUp(t)
        PROVE  UNCHANGED pots
    BY <2>6 DEF Acquire, Send, SendFails, Confirmed, GiveUp
  <2>7. CASE Seal \/ Restart
    BY <2>7 DEF Seal, Restart
  <2>8. CASE UNCHANGED vars
    BY <2>8 DEF vars
  <2> QED
    BY <2>1, <2>2, <2>3, <2>4, <2>5, <2>6, <2>7, <2>8, NextIsSteps DEF Steps
<1> QED
  BY <1>1, <1>2, ServerTypeCorrect, PTL DEF Spec, Bank!Spec

-----------------------------------------------------------------------------
(* What a step does to the transactions and the chain. *)

Done(tx) == tx.status \in {"ok", "reverted"}
Extends == /\ head' = head + 1 /\ nonce' = nonce /\ nonceAt[head] < nonce
           /\ nonceAt'[head + 1] = nonce
           /\ \A b \in 1 .. head : nonceAt'[b] = nonceAt[b]

\* How transaction old can become new in a step in which the chain spends a nonce.
Executes(old, new) ==
    Includable(old) /\ \E status \in {"ok", "reverted"} : new = Executed(old, status)

\* One transaction is executed, and nothing else happens but its effect.
Runs ==
    /\ SpendNonce
    /\ UNCHANGED <<server, commitHead, abandoned>>
    /\ \/ /\ proof' = proof
          /\ \E t \in Tasks : /\ Executes(invoke[t], invoke'[t])
                              /\ \A u \in Tasks \ {t} : invoke'[u] = invoke[u]
       \/ /\ invoke' = invoke
          /\ \E s \in Sessions : /\ Executes(proof[s], proof'[s])
                                 /\ \A u \in Sessions \ {s} : proof'[u] = proof[u]

\* A task or the server takes a step, or the player does.
Serves ==
    /\ UNCHANGED chain
    /\ \A t \in Tasks :
          \/ invoke'[t] = invoke[t]
          \/ pc[t] \in {"locked", "orphan"} /\ invoke'[t] = Pending
    /\ \A s \in Sessions :
          \/ proof'[s] = proof[s]
          \/ /\ pc[s] = "proving" /\ pc'[s] = "submitting" /\ seedBlock[s] # 0
             /\ proof'[s] = [proof[s] EXCEPT !.nonce = nonceAt[seedBlock[s]]]
          \/ /\ pc[s] = "submitting" /\ pc'[s] \in {"including", "failed"}
             /\ proof[s].nonce >= nonce
             /\ proof'[s] = [proof[s] EXCEPT !.status = "pending"]

Closes == Extends /\ UNCHANGED <<pots, server, invoke, proof, commitHead, abandoned, faults>>

LEMMA Footprint ==
    ASSUME TypeOK, Steps
    PROVE  Runs \/ Serves \/ Closes
<1> USE ServerAssumption DEF Tasks, Go
<1>1. ASSUME NEW t \in Tasks, NEW status \in {"ok", "reverted"}, IncludeInvoke(t, status)
      PROVE  Runs
  BY <1>1 DEF IncludeInvoke, Runs, Executes, TypeOK
<1>2. ASSUME NEW r \in Requests, IncludeMatch(r) PROVE Runs
  BY <1>1, <1>2 DEF IncludeMatch
<1>3. ASSUME NEW s \in Sessions, IncludeSettle(s) PROVE Runs
  BY <1>1, <1>3 DEF IncludeSettle
<1>4. ASSUME NEW s \in Sessions, IncludeProof(s) PROVE Runs
  BY <1>4 DEF IncludeProof, Runs, Executes, TypeOK
<1>5. ASSUME NEW s \in Sessions, PlayerDeposit(s) \/ Commit(s) \/ Reveal(s) \/ AwaitInclusion(s)
      PROVE  Serves
  BY <1>5 DEF PlayerDeposit, Commit, Reveal, AwaitInclusion, Serves
<1>6. ASSUME NEW s \in Sessions, Prove(s) PROVE Serves
  <2>1. UNCHANGED <<chain, invoke>>
    BY <1>6 DEF Prove
  <2>2. \A u \in Sessions \ {s} : proof'[u] = proof[u]
    BY <1>6 DEF Prove, TypeOK
  <2>3. CASE proof' = proof
    BY <2>1, <2>3 DEF Serves
  <2>4. CASE proof' # proof
    <3>1. /\ pc[s] = "proving" /\ seedBlock[s] # 0 /\ Go(s, "submitting")
          /\ proof' = [proof EXCEPT ![s].nonce = nonceAt[seedBlock[s]]]
      BY <1>6, <2>4 DEF Prove
    <3>2. /\ pc'[s] = "submitting"
          /\ proof'[s] = [proof[s] EXCEPT !.nonce = nonceAt[seedBlock[s]]]
      BY <3>1 DEF TypeOK
    <3> QED
      BY <2>1, <2>2, <3>1, <3>2 DEF Serves
  <2> QED
    BY <2>3, <2>4
<1>7. ASSUME NEW s \in Sessions, Submit(s) PROVE Serves
  <2>1. UNCHANGED <<chain, invoke>>
    BY <1>7 DEF Submit
  <2>2. \A u \in Sessions \ {s} : proof'[u] = proof[u]
    BY <1>7 DEF Submit, TypeOK
  <2>3. \/ proof' = proof
        \/ /\ pc[s] = "submitting" /\ pc'[s] \in {"including", "failed"}
           /\ proof[s].nonce >= nonce
           /\ proof'[s] = [proof[s] EXCEPT !.status = "pending"]
    BY <1>7 DEF Submit, TypeOK
  <2> QED
    BY <2>1, <2>2, <2>3 DEF Serves
<1>8. ASSUME NEW r \in Requests, ConfirmDeposit(r) \/ Disconnect(r) \/ LockSeed(r) PROVE Serves
  BY <1>8 DEF ConfirmDeposit, Disconnect, LockSeed, Serves
<1>9. ASSUME NEW t \in Tasks, Send(t) \/ SendFails(t) PROVE Serves
  BY <1>9 DEF Send, SendFails, Serves, TypeOK
<1>10. ASSUME NEW t \in Tasks, Acquire(t) \/ Confirmed(t) \/ GiveUp(t) PROVE Serves
  BY <1>10 DEF Acquire, Confirmed, GiveUp, Serves
<1>11. CASE Restart
  BY <1>11 DEF Restart, Serves
<1>12. CASE Seal
  BY <1>12 DEF Seal, Closes, Extends, TypeOK
<1> QED
  BY <1>2, <1>3, <1>4, <1>5, <1>6, <1>7, <1>8, <1>9, <1>10, <1>11, <1>12 DEF Steps

\* The numbers in TypeOK.
LEMMA Numbers ==
    ASSUME TypeOK
    PROVE  /\ head \in Nat \ {0} /\ nonce \in Nat
           /\ \A b \in 1 .. head : nonceAt[b] \in 0 .. nonce
           /\ \A t \in Tasks : /\ invoke[t].nonce \in 0 .. nonce
                               /\ invoke[t].block \in 0 .. head + 1
                               /\ invoke[t].status \in TxStatus
           /\ \A s \in Sessions : /\ proof[s].nonce \in 0 .. nonce
                                  /\ proof[s].block \in 0 .. head + 1
                                  /\ proof[s].status \in TxStatus
                                  /\ seedBlock[s] \in 0 .. head
<1>1. head \in Nat \ {0} /\ nonce \in Nat /\ nonceAt \in [1 .. head -> 0 .. nonce]
  BY DEF TypeOK
<1>2. ASSUME NEW t \in Tasks PROVE invoke[t] \in TxRec
  BY DEF TypeOK
<1>3. ASSUME NEW s \in Sessions PROVE proof[s] \in TxRec /\ seedBlock[s] \in 0 .. head
  BY DEF TypeOK
<1> QED
  BY <1>1, <1>2, <1>3 DEF TxRec

\* What Prove and Submit do to the record of a play's transaction.
LEMMA ServedProof ==
    ASSUME TypeOK, Serves, NEW s \in Sessions
    PROVE  \/ proof'[s] = proof[s]
           \/ /\ pc[s] = "proving" /\ pc'[s] = "submitting" /\ seedBlock[s] # 0
              /\ proof'[s].status = proof[s].status /\ proof'[s].block = proof[s].block
              /\ proof'[s].nonce = nonceAt[seedBlock[s]]
           \/ /\ pc[s] = "submitting" /\ pc'[s] \in {"including", "failed"}
              /\ proof[s].nonce >= nonce
              /\ proof'[s].status = "pending" /\ proof'[s].block = proof[s].block
              /\ proof'[s].nonce = proof[s].nonce
<1>1. proof[s] \in TxRec
  BY DEF TypeOK
<1>2. proof'[s] = [proof[s] EXCEPT !.nonce = nonceAt[seedBlock[s]]]
      => /\ proof'[s].status = proof[s].status /\ proof'[s].block = proof[s].block
         /\ proof'[s].nonce = nonceAt[seedBlock[s]]
  BY <1>1 DEF TxRec
<1>3. proof'[s] = [proof[s] EXCEPT !.status = "pending"]
      => /\ proof'[s].status = "pending" /\ proof'[s].block = proof[s].block
         /\ proof'[s].nonce = proof[s].nonce
  BY <1>1 DEF TxRec
<1> QED
  BY <1>2, <1>3 DEF Serves

\* A transaction that was sent stays sent.
LEMMA TxKept ==
    ASSUME TypeOK, Runs \/ Serves \/ Closes
    PROVE  /\ \A t \in Tasks : invoke[t].status # "none" => invoke'[t].status # "none"
           /\ \A s \in Sessions : proof[s].status # "none" => proof'[s].status # "none"
<1>2. CASE Serves
  <2>1. ASSUME NEW s \in Sessions, proof[s].status # "none" PROVE proof'[s].status # "none"
    BY <1>2, <2>1, ServedProof
  <2> QED
    BY <1>2, <2>1 DEF Serves, Pending
<1>3. CASE Runs
  <2>1. \A old, new : Executes(old, new) => new.status # "none"
    BY DEF Executes, Executed
  <2> QED
    BY <1>3, <2>1 DEF Runs
<1>4. CASE Closes
  BY <1>4 DEF Closes
<1> QED
  BY <1>2, <1>3, <1>4

-----------------------------------------------------------------------------
(* Nobody waits in vain. *)

\* A task waits for a transaction that was sent, and the block in which a
\* transaction was executed is closed or can be.
WaitInv ==
    /\ \A t \in Tasks : pc[t] = "waiting" => invoke[t].status # "none"
    /\ \A s \in Sessions : pc[s] = "including" => proof[s].status # "none"
    /\ \A t \in Tasks : invoke[t].status = "ok" /\ invoke[t].block > head => nonceAt[head] < nonce
    /\ \A s \in Sessions : proof[s].status = "ok" /\ proof[s].block > head => nonceAt[head] < nonce

\* A wait begins when the transaction has been sent.
LEMMA WaitBegins ==
    ASSUME TypeOK, Steps
    PROVE  /\ \A t \in Tasks :
                 pc'[t] = "waiting" => pc[t] = "waiting" \/ invoke'[t].status = "pending"
           /\ \A s \in Sessions :
                 pc'[s] = "including" => pc[s] = "including" \/ proof'[s].status = "pending"
<1> USE ServerAssumption DEF Tasks, Go
<1> DEFINE Begin ==
      /\ \A t \in Tasks :
            pc'[t] = "waiting" => pc[t] = "waiting" \/ invoke'[t].status = "pending"
      /\ \A s \in Sessions :
            pc'[s] = "including" => pc[s] = "including" \/ proof'[s].status = "pending"
<1>1. ASSUME pc' = pc PROVE Begin
  BY <1>1
<1>2. ASSUME NEW r \in Requests, IncludeMatch(r) PROVE Begin
  BY <1>1, <1>2 DEF IncludeMatch, IncludeInvoke, server
<1>3. ASSUME NEW s \in Sessions, IncludeSettle(s) \/ IncludeProof(s) \/ PlayerDeposit(s)
      PROVE  Begin
  BY <1>1, <1>3 DEF IncludeSettle, IncludeInvoke, IncludeProof, PlayerDeposit, server
<1>4. ASSUME NEW r \in Requests, ConfirmDeposit(r) \/ Disconnect(r) \/ LockSeed(r) PROVE Begin
  BY <1>4 DEF ConfirmDeposit, Disconnect, Lost, LockSeed, TypeOK
<1>5. ASSUME NEW s \in Sessions, Commit(s) \/ Reveal(s) \/ Prove(s) \/ AwaitInclusion(s)
      PROVE  Begin
  BY <1>5 DEF Commit, Reveal, Prove, AwaitInclusion, TypeOK
<1>6. ASSUME NEW s \in Sessions, Submit(s) PROVE Begin
  <2>1. pc'[s] = "including" => proof' = [proof EXCEPT ![s].status = "pending"]
    BY <1>6 DEF Submit, TypeOK
  <2>2. pc'[s] = "including" => proof'[s].status = "pending"
    BY <2>1 DEF TypeOK, TxRec
  <2> QED
    BY <1>6, <2>2 DEF Submit, TypeOK
<1>7. ASSUME NEW t \in Tasks, Send(t) PROVE Begin
  BY <1>7 DEF Send, Pending, TypeOK
<1>8. ASSUME NEW t \in Tasks, Acquire(t) \/ SendFails(t) \/ Confirmed(t) \/ GiveUp(t)
      PROVE  Begin
  BY <1>8 DEF Acquire, SendFails, Confirmed, GiveUp, AfterInvoke, TypeOK
<1>9. CASE Seal
  BY <1>1, <1>9 DEF Seal, server
<1>10. CASE Restart
  BY <1>10 DEF Restart, Lost, TypeOK
<1> QED
  BY <1>2, <1>3, <1>4, <1>5, <1>6, <1>7, <1>8, <1>9, <1>10 DEF Steps

LEMMA StepsWait == TypeOK /\ WaitInv /\ Steps => WaitInv'
<1> SUFFICES ASSUME TypeOK, WaitInv, Steps PROVE WaitInv'
  OBVIOUS
<1>1. Runs \/ Serves \/ Closes
  BY Footprint
<1>2. /\ \A t \in Tasks : pc'[t] = "waiting" => invoke'[t].status # "none"
      /\ \A s \in Sessions : pc'[s] = "including" => proof'[s].status # "none"
  BY <1>1, TxKept, WaitBegins DEF WaitInv
<1>3. CASE Runs
  <2>1. nonceAt'[head'] < nonce'
    BY <1>3, Numbers DEF Runs, SpendNonce
  <2> QED
    BY <1>2, <2>1 DEF WaitInv
<1>4. CASE Closes
  <2>1. /\ \A t \in Tasks : ~(invoke'[t].block > head')
        /\ \A s \in Sessions : ~(proof'[s].block > head')
    BY <1>4, Numbers DEF Closes, Extends
  <2> QED
    BY <1>2, <2>1 DEF WaitInv
<1>5. CASE Serves
  <2>1. \A t \in Tasks : invoke'[t].status = "ok" => invoke'[t] = invoke[t]
    BY <1>5 DEF Serves, Pending
  <2>2. ASSUME NEW s \in Sessions, proof'[s].status = "ok"
        PROVE  proof[s].status = "ok" /\ proof'[s].block = proof[s].block
    BY <1>5, <2>2, ServedProof
  <2>3. UNCHANGED chain
    BY <1>5 DEF Serves
  <2> QED
    BY <1>2, <2>1, <2>2, <2>3 DEF WaitInv, chain
<1> QED
  BY <1>1, <1>3, <1>4, <1>5

LEMMA WaitInvariant == Spec => []WaitInv
<1>1. Init => WaitInv
  BY ServerAssumption DEF Init, WaitInv, NoTx, Tasks
<1>2. TypeOK /\ WaitInv /\ [Next]_vars => WaitInv'
  <2> SUFFICES ASSUME TypeOK, WaitInv, [Next]_vars PROVE WaitInv'
    OBVIOUS
  <2>1. CASE Next
    BY <2>1, NextIsSteps, StepsWait
  <2>2. CASE UNCHANGED vars
    BY <2>2 DEF vars, chain, server, WaitInv
  <2> QED
    BY <2>1, <2>2
<1> QED
  BY <1>1, <1>2, ServerTypeCorrect, PTL DEF Spec

\* A wait for a transaction that was sent ends or is for a step of the chain.
LEMMA WaitEnds ==
    ASSUME head \in Nat, nonce \in Nat, NEW tx \in TxRec, tx.status # "none",
           tx.status = "ok" /\ tx.block > head => nonceAt[head] < nonce
    PROVE  Decided(tx) \/ Coming(tx)
BY DEF TxRec, TxStatus, Decided, Coming, Sealed, Dead, Includable

\* NobodyStuck for any numbers of requests, sessions and failures: whatever
\* times out, is dropped or restarted, sncast_lock is free or with a task that
\* can go on, and every wait_for_tx is for something that comes or ends it.
THEOREM ServerNeverStuck == Spec => []NobodyStuck
<1>1. TypeOK /\ LockInv /\ WaitInv => NobodyStuck
  <2> SUFFICES ASSUME TypeOK, LockInv, WaitInv, NEW t \in Tasks, Active(t)
               PROVE  Moves(t) \/ (pc[t] = "queued" /\ (lock = NoTask \/ Moves(lock)))
    BY DEF NobodyStuck
  <2>1. head \in Nat /\ nonce \in Nat
    BY DEF TypeOK
  <2>2. ASSUME NEW u \in Tasks, pc[u] = "waiting" PROVE Moves(u)
    <3>1. invoke[u] \in TxRec
      BY DEF TypeOK
    <3> QED
      BY <2>1, <2>2, <3>1, WaitEnds DEF WaitInv, Moves
  <2>3. CASE pc[t] = "including"
    <3>1. t \in Sessions
      BY <2>3 DEF TypeOK, Tasks, RequestPC
    <3>2. proof[t] \in TxRec
      BY <3>1 DEF TypeOK
    <3> QED
      BY <2>1, <2>3, <3>1, <3>2, WaitEnds DEF WaitInv, Moves
  <2>4. CASE pc[t] = "queued"
    <3>1. lock # NoTask => lock \in Tasks /\ pc[lock] \in {"locked", "waiting"}
      BY DEF TypeOK, LockInv
    <3>2. lock # NoTask => Moves(lock)
      BY <2>2, <3>1 DEF Moves
    <3> QED
      BY <2>4, <3>2
  <2>5. pc[t] \in {"queued", "locked", "orphan", "waiting", "seeding",
                   "proving", "submitting", "including"}
    BY DEF TypeOK, RequestPC, SessionPC, Active, Ended
  <2> QED
    BY <2>2, <2>3, <2>4, <2>5 DEF Moves
<1> QED
  BY <1>1, ServerTypeCorrect, LockInvariant, WaitInvariant, PTL

-----------------------------------------------------------------------------
(* A play's proof comes after a confirm-deposit. *)

Early == {"new", "committed", "proving", "submitting"}

\* A play that goes on has a seed, and nothing is sent before it was proved.
OfferInv ==
    \A s \in Sessions :
        /\ pc[s] \in Early => proof[s].status = "none"
        /\ pc[s] = "submitting" => proof[s].nonce = nonceAt[seedBlock[s]]
        /\ pc[s] = "submitting" \/ proof[s].status # "none" => seedBlock[s] # 0

\* No play goes back, and it goes on to its submission by Prove alone.
LEMMA EarlyMoves ==
    ASSUME TypeOK, Steps, NEW s \in Sessions
    PROVE  /\ pc'[s] \in Early => pc[s] \in Early
           /\ pc'[s] = "submitting" =>
                  \/ pc[s] = "submitting"
                  \/ /\ pc[s] = "proving" /\ seedBlock[s] # 0
                     /\ proof'[s].nonce = nonceAt[seedBlock[s]]
<1> USE ServerAssumption DEF Tasks, Go, Early
<1> DEFINE Kept ==
      /\ pc'[s] \in Early => pc[s] \in Early
      /\ pc'[s] = "submitting" =>
             \/ pc[s] = "submitting"
             \/ /\ pc[s] = "proving" /\ seedBlock[s] # 0
                /\ proof'[s].nonce = nonceAt[seedBlock[s]]
<1>1. ASSUME pc'[s] = pc[s] PROVE Kept
  BY <1>1
<1>2. ASSUME NEW r \in Requests,
             IncludeMatch(r) \/ ConfirmDeposit(r) \/ Disconnect(r) \/ LockSeed(r)
      PROVE  Kept
  BY <1>1, <1>2 DEF IncludeMatch, IncludeInvoke, ConfirmDeposit, Disconnect, LockSeed, server,
                    TypeOK
<1>3. ASSUME NEW u \in Sessions, IncludeSettle(u) \/ IncludeProof(u) \/ PlayerDeposit(u)
      PROVE  Kept
  BY <1>1, <1>3 DEF IncludeSettle, IncludeInvoke, IncludeProof, PlayerDeposit, server
<1>4. ASSUME NEW u \in Sessions, Commit(u) \/ Reveal(u) \/ Submit(u) \/ AwaitInclusion(u)
      PROVE  Kept
  BY <1>4 DEF Commit, Reveal, Submit, AwaitInclusion, TypeOK
<1>5. ASSUME NEW u \in Sessions, Prove(u) PROVE Kept
  <2>1. CASE u # s
    BY <1>1, <1>5, <2>1 DEF Prove, TypeOK
  <2>2. CASE u = s /\ pc'[s] = "submitting"
    <3>1. /\ pc[s] = "proving" /\ seedBlock[s] # 0
          /\ proof' = [proof EXCEPT ![s].nonce = nonceAt[seedBlock[s]]]
      BY <1>5, <2>2 DEF Prove, TypeOK
    <3>2. proof'[s].nonce = nonceAt[seedBlock[s]]
      BY <3>1 DEF TypeOK, TxRec
    <3> QED
      BY <3>1, <3>2
  <2>3. CASE u = s /\ pc'[s] # "submitting"
    BY <1>5, <2>3 DEF Prove, TypeOK
  <2> QED
    BY <2>1, <2>2, <2>3
<1>6. ASSUME NEW t \in Tasks, Acquire(t) \/ Send(t) \/ SendFails(t) PROVE Kept
  BY <1>6 DEF Acquire, Send, SendFails, TypeOK
<1>7. ASSUME NEW t \in Tasks, Confirmed(t) \/ GiveUp(t) PROVE Kept
  BY <1>7 DEF Confirmed, GiveUp, AfterInvoke, TypeOK
<1>8. CASE Seal
  BY <1>1, <1>8 DEF Seal, server
<1>9. CASE Restart
  BY <1>9 DEF Restart, Lost, TypeOK
<1> QED
  BY <1>2, <1>3, <1>4, <1>5, <1>6, <1>7, <1>8, <1>9 DEF Steps

\* A seed is fixed when the play has begun.
LEMMA SeedKept ==
    ASSUME TypeOK, Steps, NEW s \in Sessions
    PROVE  /\ pc[s] \notin {"new", "committed"} =>
                  seedBlock'[s] = seedBlock[s] /\ pc'[s] \notin {"new", "committed"}
           /\ \A b \in 1 .. head : nonceAt'[b] = nonceAt[b]
<1>1. pc[s] \notin {"new", "committed"} =>
          seedBlock'[s] = seedBlock[s] /\ pc'[s] \notin {"new", "committed"}
  BY StepsFixSeed, NeverNew
<1>2. \A b \in 1 .. head : nonceAt'[b] = nonceAt[b]
  BY Footprint DEF Runs, Serves, Closes, SpendNonce, Extends, chain
<1> QED
  BY <1>1, <1>2

LEMMA StepsOffer == TypeOK /\ OfferInv /\ Steps => OfferInv'
<1> SUFFICES ASSUME TypeOK, OfferInv, Steps, NEW s \in Sessions
             PROVE  /\ pc'[s] \in Early => proof'[s].status = "none"
                    /\ pc'[s] = "submitting" => proof'[s].nonce = nonceAt'[seedBlock'[s]]
                    /\ pc'[s] = "submitting" \/ proof'[s].status # "none" => seedBlock'[s] # 0
  BY DEF OfferInv
<1>1. Runs \/ Serves \/ Closes
  BY Footprint
<1>2. \/ proof'[s] = proof[s]
      \/ pc' = pc /\ proof[s].status = "pending"
      \/ /\ pc[s] = "proving" /\ seedBlock[s] # 0 /\ proof'[s].status = proof[s].status
         /\ proof'[s].nonce = nonceAt[seedBlock[s]]
      \/ pc[s] = "submitting" /\ pc'[s] \in {"including", "failed"}
  BY <1>1, ServedProof DEF Runs, Closes, Executes, Includable, server
<1>3. /\ pc'[s] \in Early => pc[s] \in Early
      /\ pc'[s] = "submitting" =>
             \/ pc[s] = "submitting"
             \/ pc[s] = "proving" /\ seedBlock[s] # 0 /\ proof'[s].nonce = nonceAt[seedBlock[s]]
  BY EarlyMoves
<1>4. pc[s] \notin {"new", "committed"} =>
          seedBlock'[s] = seedBlock[s]
  BY SeedKept
<1>5. seedBlock[s] # 0 => nonceAt'[seedBlock[s]] = nonceAt[seedBlock[s]]
  BY SeedKept, Numbers
<1>6. pc'[s] \in Early => proof'[s].status = "none"
  BY <1>2, <1>3 DEF OfferInv, Early
<1>7. pc'[s] = "submitting" => proof'[s].nonce = nonceAt'[seedBlock'[s]] /\ seedBlock'[s] # 0
  BY <1>2, <1>3, <1>4, <1>5 DEF OfferInv, Early
<1>8. proof'[s].status # "none" => seedBlock'[s] # 0
  BY <1>2, <1>4 DEF OfferInv, Early
<1> QED
  BY <1>6, <1>7, <1>8

LEMMA OfferInvariant == Spec => []OfferInv
<1>1. Init => OfferInv
  BY ServerAssumption DEF Init, OfferInv, NoTx, Tasks
<1>2. TypeOK /\ OfferInv /\ [Next]_vars => OfferInv'
  <2> SUFFICES ASSUME TypeOK, OfferInv, [Next]_vars PROVE OfferInv'
    OBVIOUS
  <2>1. CASE Next
    BY <2>1, NextIsSteps, StepsOffer
  <2>2. CASE UNCHANGED vars
    BY <2>2 DEF vars, chain, server, OfferInv
  <2> QED
    BY <2>1, <2>2
<1> QED
  BY <1>1, <1>2, ServerTypeCorrect, PTL DEF Spec

\* ProvedOnlyAfterConfirm for any numbers of requests, sessions and failures:
\* play_coinflip never submits a proof made for the placeholder seed that
\* commit_bet stores; some confirm-deposit of the session has answered before.
THEOREM ServerProvesAfterConfirm == Spec => []ProvedOnlyAfterConfirm
<1>1. OfferInv /\ SeedInv => ProvedOnlyAfterConfirm
  BY DEF OfferInv, SeedInv, SeedFrom, ProvedOnlyAfterConfirm, Confirms
<1> QED
  BY <1>1, OfferInvariant, SeedInvariant, PTL

-----------------------------------------------------------------------------
(* Who has spent a nonce.  Before the model begins the owner had spent nonce  *)
(* 0, at the latest in block 2, so that a seed of block 1 tells nothing.      *)

SpentBy(k, t, s) ==
    \/ t \in Tasks /\ Done(invoke[t]) /\ invoke[t].nonce = k
    \/ s \in Sessions /\ Done(proof[s]) /\ proof[s].nonce = k

SpentInv == \A k \in 1 .. nonce - 1 : \E t \in Tasks, s \in Sessions \cup {NoTask} : SpentBy(k, t, s)

\* The blocks with a nonce that is known, and the seeds among them.
LateInv ==
    /\ head > 1 /\ nonce > 0
    /\ \A b \in 2 .. head : nonceAt[b] > 0
    /\ \A t \in Tasks : Done(invoke[t]) => invoke[t].block > 1
    /\ faults = 0 => \A s \in Sessions : seedBlock[s] # 1

\* A transaction that was executed stays as it is.
LEMMA DoneKept ==
    ASSUME TypeOK, ProofComesFirst, MatchIsReal, OfferInv, Runs \/ Serves \/ Closes
    PROVE  /\ \A t \in Tasks : Done(invoke[t]) => invoke'[t] = invoke[t]
           /\ \A s \in Sessions : Done(proof[s]) => proof'[s] = proof[s]
<1> USE DEF Done
<1>1. CASE Serves
  <2>1. ASSUME NEW t \in Tasks, pc[t] \in {"locked", "orphan"} PROVE invoke[t].status = "none"
    BY <2>1 DEF ProofComesFirst, MatchIsReal, Unsent, Tasks
  <2>2. ASSUME NEW s \in Sessions, pc[s] \in {"proving", "submitting"}
        PROVE  proof[s].status = "none"
    BY <2>2 DEF OfferInv, Early
  <2> QED
    BY <1>1, <2>1, <2>2 DEF Serves
<1>2. CASE Runs
  BY <1>2 DEF Runs, Executes, Includable
<1>3. CASE Closes
  BY <1>3 DEF Closes
<1> QED
  BY <1>1, <1>2, <1>3

LEMMA StepsSpent ==
    TypeOK /\ ProofComesFirst /\ MatchIsReal /\ OfferInv /\ SpentInv /\ Steps => SpentInv'
<1> SUFFICES ASSUME TypeOK, ProofComesFirst, MatchIsReal, OfferInv, SpentInv, Steps,
                    NEW k \in 1 .. nonce' - 1
             PROVE  \E t \in Tasks, s \in Sessions \cup {NoTask} : SpentBy(k, t, s)'
  BY DEF SpentInv
<1>1. Runs \/ Serves \/ Closes
  BY Footprint
<1>2. ASSUME k \in 1 .. nonce - 1
      PROVE  \E t \in Tasks, s \in Sessions \cup {NoTask} : SpentBy(k, t, s)'
  BY <1>1, <1>2, DoneKept DEF SpentInv, SpentBy
<1>3. CASE Runs /\ k \notin 1 .. nonce - 1
  <2>1. k = nonce
    BY <1>3, Numbers DEF Runs, SpendNonce
  <2>2. \A old, new : Executes(old, new) => Done(new) /\ new.nonce = nonce
    BY DEF Executes, Executed, Includable, Done
  <2>3. CASE \E t \in Tasks : Executes(invoke[t], invoke'[t])
    BY <2>1, <2>2, <2>3 DEF SpentBy, Done
  <2>4. CASE \E s \in Sessions : Executes(proof[s], proof'[s])
    BY <2>1, <2>2, <2>4 DEF SpentBy, Done, Tasks
  <2> QED
    BY <1>3, <2>3, <2>4 DEF Runs
<1>4. CASE (Serves \/ Closes) /\ k \notin 1 .. nonce - 1
  BY <1>4 DEF Serves, Closes, Extends, chain
<1> QED
  BY <1>1, <1>2, <1>3, <1>4

\* Failures are counted.
LEMMA FaultsGrow ==
    ASSUME Steps
    PROVE  UNCHANGED faults \/ Fault
<1>1. ASSUME NEW r \in Requests,
             IncludeMatch(r) \/ ConfirmDeposit(r) \/ Disconnect(r) \/ LockSeed(r)
      PROVE  UNCHANGED faults \/ Fault
  BY <1>1 DEF IncludeMatch, IncludeInvoke, ConfirmDeposit, Disconnect, LockSeed
<1>2. ASSUME NEW s \in Sessions, IncludeSettle(s) \/ IncludeProof(s) \/ PlayerDeposit(s)
      PROVE  UNCHANGED faults \/ Fault
  BY <1>2 DEF IncludeSettle, IncludeInvoke, IncludeProof, PlayerDeposit
<1>3. ASSUME NEW s \in Sessions,
             Commit(s) \/ Reveal(s) \/ Prove(s) \/ Submit(s) \/ AwaitInclusion(s)
      PROVE  UNCHANGED faults \/ Fault
  BY <1>3 DEF Commit, Reveal, Prove, Submit, AwaitInclusion, WaitFails
<1>4. ASSUME NEW t \in Tasks,
             Acquire(t) \/ Send(t) \/ SendFails(t) \/ Confirmed(t) \/ GiveUp(t)
      PROVE  UNCHANGED faults \/ Fault
  BY <1>4 DEF Acquire, Send, SendFails, Confirmed, GiveUp, WaitFails
<1>5. CASE Seal \/ Restart
  BY <1>5 DEF Seal, Restart
<1> QED
  BY <1>1, <1>2, <1>3, <1>4, <1>5 DEF Steps

\* The seeds of a step without a failure.
LEMMA LateSeeds ==
    ASSUME TypeOK, MatchIsReal, SeedInv, LateInv, Steps, faults' = 0, NEW s \in Sessions
    PROVE  seedBlock'[s] # 1
<1>1. faults = 0
  BY FaultsGrow DEF Fault, TypeOK
<1>2. seedBlock'[s] = seedBlock[s] \/ \E r \in Requests : LockSeed(r)
  BY DEF Steps, IncludeMatch, IncludeSettle, IncludeInvoke, IncludeProof, PlayerDeposit, server,
         ConfirmDeposit, Disconnect, Commit, Reveal, Prove, Submit, AwaitInclusion,
         Acquire, Send, SendFails, Confirmed, GiveUp, Seal, Restart
<1>3. ASSUME NEW r \in Requests, LockSeed(r) PROVE seedBlock'[s] # 1
  <2>1. PICK b \in {found[r], head, 0} :
            /\ \/ found[r] # 0 /\ b = found[r] /\ UNCHANGED faults
               \/ found[r] = 0 /\ b = head /\ UNCHANGED faults
               \/ found[r] = 0 /\ b = 0 /\ Fault
            /\ \E d \in DeployBlocks : seedBlock' = SeedWritten(reqSession[r], Larger(b, d))
    BY <1>3 DEF LockSeed
  <2>2. b = head \/ (b = found[r] /\ b # 0)
    BY <2>1, <1>1 DEF Fault
  <2>3. b > 1 /\ b \in Nat
    <3>1. found[r] # 0 => invoke[r].status = "ok" /\ invoke[r].block = found[r]
      BY DEF MatchIsReal, SeedInv, FoundIsBlock
    <3>2. found[r] # 0 => found[r] > 1
      BY <3>1 DEF LateInv, Done, Tasks
    <3> QED
      BY <2>2, <3>2 DEF LateInv, TypeOK
  <2>4. \A d \in DeployBlocks : Larger(b, d) # 1
    BY <2>3 DEF Larger, DeployBlocks, DeployBlock
  <2>5. seedBlock'[s] = seedBlock[s] \/ \E d \in DeployBlocks : seedBlock'[s] = Larger(b, d)
    BY <2>1 DEF SeedWritten, TypeOK
  <2> QED
    BY <1>1, <2>4, <2>5 DEF LateInv
<1> QED
  BY <1>1, <1>2, <1>3 DEF LateInv

LEMMA StepsLate ==
    TypeOK /\ ProofComesFirst /\ MatchIsReal /\ SeedInv /\ OfferInv /\ LateInv /\ Steps => LateInv'
<1> SUFFICES ASSUME TypeOK, ProofComesFirst, MatchIsReal, SeedInv, OfferInv, LateInv, Steps
             PROVE  LateInv'
  OBVIOUS
<1>1. Runs \/ Serves \/ Closes
  BY Footprint
<1>2. faults' = 0 => \A s \in Sessions : seedBlock'[s] # 1
  BY LateSeeds
<1>3. /\ head' > 1 /\ nonce' > 0
      /\ \A b \in 2 .. head' : nonceAt'[b] > 0
  <2>1. CASE Runs
    BY <2>1, Numbers DEF Runs, SpendNonce, LateInv
  <2>2. CASE Serves
    BY <2>2 DEF Serves, chain, LateInv
  <2>3. CASE Closes
    BY <2>3, Numbers DEF Closes, Extends, LateInv
  <2> QED
    BY <1>1, <2>1, <2>2, <2>3
<1>4. ASSUME NEW t \in Tasks, Done(invoke'[t]) PROVE invoke'[t].block > 1
  <2>1. CASE Runs
    <3>1. \A old, new : Executes(old, new) => new.block = head + 1
      BY DEF Executes, Executed
    <3> QED
      BY <1>4, <2>1, <3>1, Numbers DEF Runs, LateInv, Done
  <2>2. CASE Serves
    BY <1>4, <2>2 DEF Serves, Pending, Done, LateInv
  <2>3. CASE Closes
    BY <1>4, <2>3 DEF Closes, Done, LateInv
  <2> QED
    BY <1>1, <2>1, <2>2, <2>3
<1> QED
  BY <1>2, <1>3, <1>4 DEF LateInv, Done

HistoryInv == SpentInv /\ LateInv

LEMMA HistoryInvariant == Spec => []HistoryInv
<1>1. Init => HistoryInv
  BY ServerAssumption
  DEF Init, HistoryInv, SpentInv, LateInv, NoTx, Tasks, DeployBlock, Done
<1>2. TypeOK /\ ProofComesFirst /\ MatchIsReal /\ SeedInv /\ OfferInv /\ HistoryInv /\ [Next]_vars
      => HistoryInv'
  <2> SUFFICES ASSUME TypeOK, ProofComesFirst, MatchIsReal, SeedInv, OfferInv, HistoryInv,
                      [Next]_vars
               PROVE  HistoryInv'
    OBVIOUS
  <2>1. CASE Next
    BY <2>1, NextIsSteps, StepsSpent, StepsLate DEF HistoryInv
  <2>2. CASE UNCHANGED vars
    BY <2>2 DEF vars, chain, server, HistoryInv, SpentInv, SpentBy, LateInv, Done
  <2> QED
    BY <2>1, <2>2
<1> QED
  BY <1>1, <1>2, ServerTypeCorrect, ProofFirstInvariant, SeedInvariant, OfferInvariant, PTL
     DEF Spec

-----------------------------------------------------------------------------
(* A play with a covered stake. *)

Excuse(s) == faults > 0 \/ Overtaken(s) \/ Dead(invoke[s])
Begun(s) == pc[s] \notin {"new", "committed"}

\* Where such a play is while nothing has failed and nobody has overtaken it.
OnCourse(s) ==
    \/ stage[s] = "paid"
    \/ /\ stage[s] = "covered" /\ seedBlock[s] # 0
       /\ \/ pc[s] \in {"proving", "queued", "locked"}
          \/ pc[s] = "submitting" /\ proof[s].nonce = nonceAt[seedBlock[s]]
          \/ /\ pc[s] = "including" /\ proof[s].nonce = nonceAt[seedBlock[s]]
             /\ proof[s].status \in {"pending", "ok"}
          \/ pc[s] = "waiting" /\ invoke[s].status = "pending"

Facts == TypeOK /\ ProofComesFirst /\ MatchIsReal /\ SeedInv /\ OfferInv /\ HistoryInv

LEMMA ExcuseKept ==
    ASSUME Facts, Steps, NEW s \in Sessions, Begun(s), Excuse(s)
    PROVE  Excuse(s)'
<1> USE DEF Facts
<1>1. Runs \/ Serves \/ Closes
  BY Footprint
<1>2. CASE faults > 0
  BY <1>2, FaultsGrow DEF Fault, Excuse, TypeOK
<1>3. CASE Overtaken(s)
  <2>1. seedBlock'[s] = seedBlock[s] /\ nonceAt'[seedBlock[s]] = nonceAt[seedBlock[s]]
    BY <1>3, SeedKept, Numbers DEF Begun, Overtaken
  <2>2. /\ \A t \in Tasks : invoke[t].status \in {"ok", "reverted"} => invoke'[t] = invoke[t]
        /\ \A u \in Sessions : proof[u].status \in {"ok", "reverted"} => proof'[u] = proof[u]
    BY <1>1, DoneKept DEF Done
  <2>3. Overtaken(s)'
    BY <1>3, <2>1, <2>2 DEF Overtaken
  <2> QED
    BY <2>3 DEF Excuse
<1>4. CASE Dead(invoke[s])
  <2>1. s \in Tasks /\ invoke[s].nonce \in Nat /\ nonce \in Nat
    BY Numbers DEF Tasks
  <2>2. pc[s] \notin {"locked", "orphan"}
    BY <1>4 DEF Dead, ProofComesFirst, Unsent
  <2>3. ~Includable(invoke[s])
    BY <1>4, <2>1 DEF Dead, Includable
  <2>4. invoke'[s] = invoke[s]
    BY <1>1, <2>1, <2>2, <2>3 DEF Runs, Serves, Closes, Executes
  <2>5. nonce' = nonce \/ nonce' = nonce + 1
    BY <1>1 DEF Runs, Serves, Closes, SpendNonce, Extends, chain
  <2>6. Dead(invoke[s])'
    BY <1>4, <2>1, <2>4, <2>5 DEF Dead
  <2> QED
    BY <2>6 DEF Excuse
<1> QED
  BY <1>2, <1>3, <1>4 DEF Excuse

\* If the nonce of a proof on its way is spent, then by another transaction.
LEMMA ProofOvertaken ==
    ASSUME Facts, faults = 0, NEW s \in Sessions, pc[s] \in {"submitting", "including"},
           seedBlock[s] # 0, proof[s].nonce = nonceAt[seedBlock[s]],
           proof[s].status \in {"none", "pending"}, proof[s].nonce < nonce
    PROVE  Overtaken(s)
<1> USE DEF Facts
<1>1. proof[s].nonce \in 1 .. nonce - 1
  BY Numbers DEF HistoryInv, LateInv
<1>2. PICK t \in Tasks, u \in Sessions \cup {NoTask} : SpentBy(proof[s].nonce, t, u)
  BY <1>1 DEF HistoryInv, SpentInv
<1>3. invoke[s].status = "none"
  BY DEF ProofComesFirst, Unproved
<1> QED
  BY <1>2, <1>3 DEF SpentBy, Done, Overtaken

\* Pots are covered once and paid once.
LEMMA StageKept ==
    ASSUME TypeOK, Steps, NEW s \in Sessions
    PROVE  /\ stage[s] = "paid" => stage'[s] = "paid"
           /\ stage[s] = "covered" =>
                  \/ stage'[s] = "paid"
                  \/ /\ stage'[s] = "covered"
                     /\ invoke'[s] = invoke[s] \/ invoke'[s].status = "pending"
<1> USE ServerAssumption DEF Tasks
<1> DEFINE Kept ==
      /\ stage[s] = "paid" => stage'[s] = "paid"
      /\ stage[s] = "covered" =>
             \/ stage'[s] = "paid"
             \/ /\ stage'[s] = "covered"
                /\ invoke'[s] = invoke[s] \/ invoke'[s].status = "pending"
<1>1. ASSUME NEW r \in Requests, IncludeMatch(r) PROVE Kept
  <2>1. invoke'[s] = invoke[s]
    BY <1>1 DEF IncludeMatch, IncludeInvoke, TypeOK
  <2> QED
    BY <1>1, <2>1 DEF IncludeMatch, Bank!Cover, pots, TypeOK, Bank!TypeOK
<1>2. ASSUME NEW u \in Sessions, IncludeSettle(u) PROVE Kept
  <2>1. CASE u # s
    <3>1. invoke'[s] = invoke[s]
      BY <1>2, <2>1 DEF IncludeSettle, IncludeInvoke, TypeOK
    <3>2. stage'[s] = stage[s]
      BY <1>2, <2>1 DEF IncludeSettle, Bank!Pay, pots, TypeOK, Bank!TypeOK
    <3> QED
      BY <3>1, <3>2
  <2>2. CASE u = s
    BY <1>2, <2>2 DEF IncludeSettle, Bank!Pay, pots, TypeOK, Bank!TypeOK
  <2> QED
    BY <2>1, <2>2
<1>3. ASSUME NEW u \in Sessions, PlayerDeposit(u) PROVE Kept
  BY <1>3 DEF PlayerDeposit, Bank!Stake, TypeOK, Bank!TypeOK
<1>4. ASSUME NEW u \in Sessions,
             IncludeProof(u) \/ Commit(u) \/ Reveal(u) \/ Prove(u) \/ Submit(u) \/ AwaitInclusion(u)
      PROVE  Kept
  BY <1>4 DEF IncludeProof, Commit, Reveal, Prove, Submit, AwaitInclusion, pots
<1>5. ASSUME NEW r \in Requests, ConfirmDeposit(r) \/ Disconnect(r) \/ LockSeed(r) PROVE Kept
  BY <1>5 DEF ConfirmDeposit, Disconnect, LockSeed, pots
<1>6. ASSUME NEW t \in Tasks, Send(t) \/ SendFails(t) PROVE Kept
  BY <1>6 DEF Send, SendFails, Pending, pots, TypeOK
<1>7. ASSUME NEW t \in Tasks, Acquire(t) \/ Confirmed(t) \/ GiveUp(t) PROVE Kept
  BY <1>7 DEF Acquire, Confirmed, GiveUp, pots
<1>8. CASE Seal \/ Restart
  BY <1>8 DEF Seal, Restart, pots
<1> QED
  BY <1>1, <1>2, <1>3, <1>4, <1>5, <1>6, <1>7, <1>8 DEF Steps

\* Where the play of session s is after a step: its place, its proof's record
\* and its settlement's, as OnCourse has them.
Ahead(s) ==
    \/ pc'[s] \in {"proving", "queued", "locked"}
    \/ pc'[s] = "submitting" /\ proof'[s].nonce = nonceAt[seedBlock[s]]
    \/ /\ pc'[s] = "including" /\ proof'[s].nonce = nonceAt[seedBlock[s]]
       /\ proof'[s].status \in {"pending", "ok"}
    \/ pc'[s] = "waiting" /\ invoke'[s].status = "pending"

\* Each step that does not fail takes a play on, or it is overtaken.
LEMMA StepsAhead ==
    ASSUME Facts, Steps, faults' = 0, NEW s \in Sessions, OnCourse(s), stage[s] = "covered",
           invoke'[s] = invoke[s] \/ invoke'[s].status = "pending"
    PROVE  Ahead(s) \/ Overtaken(s) \/ Dead(invoke[s])
<1> USE ServerAssumption DEF Facts, Tasks, Go
<1>1. TypeOK /\ faults = 0 /\ ~Fault
  BY FaultsGrow DEF Fault, TypeOK
<1>2. /\ seedBlock[s] # 0
      /\ \/ pc[s] \in {"proving", "queued", "locked"}
         \/ pc[s] = "submitting" /\ proof[s].nonce = nonceAt[seedBlock[s]]
         \/ /\ pc[s] = "including" /\ proof[s].nonce = nonceAt[seedBlock[s]]
            /\ proof[s].status \in {"pending", "ok"}
         \/ pc[s] = "waiting" /\ invoke[s].status = "pending"
  BY DEF OnCourse
<1>3. /\ proof[s].nonce \in Nat /\ nonce \in Nat /\ proof[s] \in TxRec
      /\ pc[s] = "submitting" => proof[s].status = "none"
  BY Numbers DEF OfferInv, Early, TypeOK
<1>4. ASSUME pc'[s] = pc[s], proof'[s] = proof[s] PROVE Ahead(s)
  BY <1>2, <1>4 DEF Ahead
<1>5. ASSUME NEW r \in Requests,
             IncludeMatch(r) \/ ConfirmDeposit(r) \/ Disconnect(r) \/ LockSeed(r)
      PROVE  Ahead(s)
  BY <1>1, <1>4, <1>5
  DEF IncludeMatch, IncludeInvoke, ConfirmDeposit, Disconnect, LockSeed, server, TypeOK
<1>6. ASSUME NEW u \in Sessions, IncludeSettle(u) \/ PlayerDeposit(u) PROVE Ahead(s)
  BY <1>4, <1>6 DEF IncludeSettle, IncludeInvoke, PlayerDeposit, server
<1>7. ASSUME NEW u \in Sessions, IncludeProof(u) PROVE Ahead(s)
  <2>1. CASE u # s
    BY <1>4, <1>7, <2>1 DEF IncludeProof, server, TypeOK
  <2>2. CASE u = s
    <3>1. pc'[s] = pc[s] /\ Includable(proof[s])
      BY <1>7, <2>2 DEF IncludeProof, server
    <3>2. proof' = [proof EXCEPT ![s] = Executed(@, "ok")]
      BY <1>1, <1>7, <2>2 DEF IncludeProof
    <3>3. proof'[s].status = "ok" /\ proof'[s].nonce = proof[s].nonce
      BY <3>2 DEF Executed, TypeOK
    <3> QED
      BY <1>2, <1>3, <3>1, <3>3 DEF Ahead, Includable
  <2> QED
    BY <2>1, <2>2
<1>8. ASSUME NEW u \in Sessions, Commit(u) \/ Reveal(u) PROVE Ahead(s)
  BY <1>1, <1>2, <1>4, <1>8 DEF Commit, Reveal, TypeOK
<1>9. ASSUME NEW u \in Sessions, Prove(u) PROVE Ahead(s)
  <2>1. CASE u # s
    BY <1>4, <1>9, <2>1 DEF Prove, TypeOK
  <2>2. CASE u = s
    <3>1. Go(s, "submitting") /\ proof' = [proof EXCEPT ![s].nonce = nonceAt[seedBlock[s]]]
      BY <1>1, <1>2, <1>9, <2>2 DEF Prove
    <3>2. pc'[s] = "submitting" /\ proof'[s].nonce = nonceAt[seedBlock[s]]
      BY <3>1 DEF TypeOK, TxRec
    <3> QED
      BY <3>2 DEF Ahead
  <2> QED
    BY <2>1, <2>2
<1>10. ASSUME NEW u \in Sessions, Submit(u) PROVE Ahead(s) \/ Overtaken(s)
  <2>1. CASE u # s
    BY <1>4, <1>10, <2>1 DEF Submit, TypeOK
  <2>2. CASE u = s /\ proof[s].nonce < nonce
    BY <1>1, <1>2, <1>3, <1>10, <2>2, ProofOvertaken DEF Submit
  <2>3. CASE u = s /\ ~(proof[s].nonce < nonce)
    <3>1. Go(s, "including") /\ proof' = [proof EXCEPT ![s].status = "pending"]
      BY <1>1, <1>10, <2>3 DEF Submit
    <3>2. /\ pc'[s] = "including" /\ proof'[s].status = "pending"
          /\ proof'[s].nonce = proof[s].nonce
      BY <1>3, <3>1 DEF TypeOK, TxRec
    <3> QED
      BY <1>2, <1>10, <2>3, <3>2 DEF Ahead, Submit
  <2> QED
    BY <2>1, <2>2, <2>3
<1>11. ASSUME NEW u \in Sessions, AwaitInclusion(u) PROVE Ahead(s) \/ Overtaken(s)
  <2>1. CASE u # s
    BY <1>4, <1>11, <2>1 DEF AwaitInclusion, TypeOK
  <2>2. CASE u = s /\ Sealed(proof[s]) /\ Go(s, "queued")
    BY <1>1, <2>2 DEF Ahead, TypeOK
  <2>3. CASE u = s /\ WaitFails(proof[s])
    <3>1. pc[s] = "including" /\ Dead(proof[s])
      BY <1>1, <1>2, <1>11, <2>3 DEF AwaitInclusion, WaitFails
    <3> QED
      BY <1>1, <1>2, <1>3, <3>1, ProofOvertaken DEF Dead
  <2> QED
    BY <1>11, <2>1, <2>2, <2>3 DEF AwaitInclusion
<1>12. ASSUME NEW t \in Tasks, t # s,
              Acquire(t) \/ Send(t) \/ SendFails(t) \/ Confirmed(t) \/ GiveUp(t)
       PROVE  Ahead(s)
  BY <1>1, <1>4, <1>12 DEF Acquire, Send, SendFails, Confirmed, GiveUp, TypeOK
<1>13. CASE Acquire(s)
  BY <1>1, <1>13 DEF Acquire, Ahead, TypeOK
<1>14. CASE Send(s)
  BY <1>1, <1>2, <1>14 DEF Send, Pending, Ahead, TypeOK
<1>15. CASE SendFails(s) \/ Restart
  BY <1>1, <1>15 DEF SendFails, Restart
<1>16. CASE Confirmed(s)
  BY <1>2, <1>16 DEF Confirmed, Sealed
<1>17. CASE GiveUp(s)
  BY <1>1, <1>2, <1>17 DEF GiveUp, WaitFails
<1>18. CASE Seal
  BY <1>4, <1>18 DEF Seal, server
<1> QED
  BY <1>5, <1>6, <1>7, <1>8, <1>9, <1>10, <1>11, <1>12, <1>13, <1>14, <1>15, <1>16, <1>17,
     <1>18 DEF Steps

\* A play that has started with a covered stake: on its course, or excused.
Past(s) == Begun(s) /\ (OnCourse(s) \/ Excuse(s))

LEMMA StepsPast ==
    ASSUME Facts, Steps, NEW s \in Sessions, Past(s)
    PROVE  Past(s)'
<1> USE DEF Facts
<1>1. Begun(s)' /\ seedBlock'[s] = seedBlock[s]
  BY SeedKept DEF Past, Begun
<1>2. CASE Excuse(s)
  BY <1>1, <1>2, ExcuseKept DEF Past
<1>3. CASE faults' # 0
  <2>1. faults' > 0
    BY <1>3, FaultsGrow DEF Fault, TypeOK
  <2> QED
    BY <1>1, <2>1 DEF Past, Excuse
<1>4. CASE OnCourse(s) /\ ~Excuse(s) /\ faults' = 0
  <2>1. CASE stage'[s] = "paid"
    BY <1>1, <2>1 DEF Past, OnCourse
  <2>2. CASE stage'[s] # "paid"
    <3>1. /\ stage[s] = "covered" /\ stage'[s] = "covered"
          /\ invoke'[s] = invoke[s] \/ invoke'[s].status = "pending"
      BY <1>4, <2>2, StageKept DEF OnCourse
    <3>2. seedBlock[s] # 0 /\ nonceAt'[seedBlock[s]] = nonceAt[seedBlock[s]]
      BY <1>4, <3>1, SeedKept, Numbers DEF OnCourse
    <3>3. Ahead(s)
      BY <1>4, <3>1, StepsAhead DEF Excuse
    <3>4. OnCourse(s)'
      BY <1>1, <3>1, <3>2, <3>3 DEF Ahead, OnCourse
    <3> QED
      BY <1>1, <3>4 DEF Past
  <2> QED
    BY <2>1, <2>2
<1> QED
  BY <1>2, <1>3, <1>4 DEF Past

\* CoveredPlayEndsPaid for any numbers of requests, sessions and failures: a
\* play_coinflip that starts when the bank has covered the stake and the seed is
\* locked never ends with the pot still in the bank, unless something failed or
\* another of the owner's transactions took the nonce it proves or settles with.
THEOREM ServerPaysCoveredPlays == Spec => CoveredPlayEndsPaid
<1> SUFFICES ASSUME NEW s \in Sessions
             PROVE  Spec => [](pc[s] = "proving" /\ stage[s] = "covered" /\ seedBlock[s] # 0 =>
                                  [](pc[s] \in Ended =>
                                         \/ stage[s] = "paid"
                                         \/ faults > 0
                                         \/ Overtaken(s)
                                         \/ Dead(invoke[s])))
  BY DEF CoveredPlayEndsPaid
<1>1. Spec => []Facts
  BY ServerTypeCorrect, ProofFirstInvariant, SeedInvariant, OfferInvariant, HistoryInvariant, PTL
     DEF Facts
<1>2. pc[s] = "proving" /\ stage[s] = "covered" /\ seedBlock[s] # 0 => Past(s)
  BY DEF Past, Begun, OnCourse
<1>3. Facts /\ Past(s) /\ [Next]_vars => Past(s)'
  <2> SUFFICES ASSUME Facts, Past(s), [Next]_vars PROVE Past(s)'
    OBVIOUS
  <2>1. CASE Next
    BY <2>1, NextIsSteps, StepsPast
  <2>2. CASE UNCHANGED vars
    BY <2>2 DEF vars, chain, pots, server, Past, Begun, OnCourse, Excuse, Overtaken, Dead
  <2> QED
    BY <2>1, <2>2
<1>4. Past(s) => (pc[s] \in Ended =>
                      \/ stage[s] = "paid"
                      \/ faults > 0
                      \/ Overtaken(s)
                      \/ Dead(invoke[s]))
  BY DEF Past, OnCourse, Excuse, Ended
<1> QED
  BY <1>1, <1>2, <1>3, <1>4, PTL DEF Spec

-----------------------------------------------------------------------------
(* Every step is progress. *)

\* How far a task and a transaction have come.
Rank(place) ==
    CASE place = "new" -> 0
      [] place = "committed" -> 1
      [] place = "proving" -> 2
      [] place = "submitting" -> 3
      [] place = "including" -> 4
      [] place = "queued" -> 5
      [] place = "locked" -> 6
      [] place = "orphan" -> 7
      [] place = "waiting" -> 8
      [] place = "seeding" -> 9
      [] place \in Ended -> 10

NothingGoesBack ==
    /\ \A t \in Tasks : Rank(pc[t]) <= Rank(pc'[t])
    /\ \A t \in Tasks : Done(invoke[t]) => invoke'[t] = invoke[t]
    /\ \A s \in Sessions : Done(proof[s]) => proof'[s] = proof[s]
    /\ nonce <= nonce' /\ head <= head'

Gains ==
    \/ \E t \in Tasks : Rank(pc[t]) < Rank(pc'[t])
    \/ nonce < nonce'
    \/ head < head'

\* What CoinFlipServer's Fairness is about.
FairStep == Include \/ Seal \/ \E t \in Tasks : Acquire(t) \/ Step(t)

\* A closed block has a nonce of its own.
PaceInv == \A b \in 2 .. head : nonceAt[b] >= b - 1

LEMMA PaceInvariant == Spec => []PaceInv
<1>1. Init => PaceInv
  BY DEF Init, PaceInv, DeployBlock
<1>2. TypeOK /\ HistoryInv /\ PaceInv /\ [Next]_vars => PaceInv'
  <2> SUFFICES ASSUME TypeOK, HistoryInv, PaceInv, [Next]_vars, NEW b \in 2 .. head'
               PROVE  nonceAt'[b] >= b - 1
    BY DEF PaceInv
  <2>1. CASE Runs \/ Serves
    BY <2>1 DEF Runs, Serves, SpendNonce, chain, PaceInv
  <2>2. CASE Closes /\ b # head + 1
    BY <2>2, Numbers DEF Closes, Extends, PaceInv
  <2>3. CASE Closes /\ b = head + 1
    <3>1. nonceAt[head] >= head - 1 /\ nonceAt'[b] > nonceAt[head]
      BY <2>3, Numbers DEF Closes, Extends, PaceInv, HistoryInv, LateInv
    <3>2. nonceAt'[b] \in Nat /\ nonceAt[head] \in Nat /\ head \in Nat
      BY <2>3, Numbers DEF Closes, Extends
    <3> QED
      BY <2>3, <3>1, <3>2
  <2>4. CASE UNCHANGED vars
    BY <2>4 DEF vars, chain, PaceInv
  <2> QED
    BY <2>1, <2>2, <2>3, <2>4, NextIsSteps, Footprint
<1> QED
  BY <1>1, <1>2, ServerTypeCorrect, HistoryInvariant, PTL DEF Spec

LEMMA Ranks ==
    /\ Rank("new") = 0 /\ Rank("committed") = 1 /\ Rank("proving") = 2
    /\ Rank("submitting") = 3 /\ Rank("including") = 4 /\ Rank("queued") = 5
    /\ Rank("locked") = 6 /\ Rank("orphan") = 7 /\ Rank("waiting") = 8
    /\ Rank("seeding") = 9
    /\ Rank("matched") = 10 /\ Rank("result") = 10 /\ Rank("failed") = 10
BY DEF Rank, Ended

LEMMA StepsGoOn ==
    ASSUME TypeOK, Steps, NEW t \in Tasks
    PROVE  Rank(pc[t]) <= Rank(pc'[t])
<1> USE ServerAssumption, Ranks DEF Tasks, Go
<1>1. pc[t] \in RequestPC \cup SessionPC
  BY DEF TypeOK
<1>2. Rank(pc[t]) \in 0 .. 10
  BY <1>1 DEF RequestPC, SessionPC
<1>3. ASSUME pc'[t] = pc[t] PROVE Rank(pc[t]) <= Rank(pc'[t])
  BY <1>2, <1>3
<1>4. ASSUME NEW r \in Requests, IncludeMatch(r) PROVE pc' = pc
  BY <1>4 DEF IncludeMatch, IncludeInvoke, server
<1>5. ASSUME NEW s \in Sessions, IncludeSettle(s) \/ IncludeProof(s) \/ PlayerDeposit(s)
      PROVE  pc' = pc
  BY <1>5 DEF IncludeSettle, IncludeInvoke, IncludeProof, PlayerDeposit, server
<1>12. ASSUME NEW u \in Tasks, NEW to, Go(u, to), Rank(pc[u]) <= Rank(to)
       PROVE  Rank(pc[t]) <= Rank(pc'[t])
  <2>1. pc'[t] = IF t = u THEN to ELSE pc[t]
    BY <1>12 DEF TypeOK
  <2> QED
    BY <1>3, <1>12, <2>1
<1> HIDE DEF Go
<1>6. ASSUME NEW r \in Requests, ConfirmDeposit(r) \/ LockSeed(r)
      PROVE  Rank(pc[t]) <= Rank(pc'[t])
  BY <1>6, <1>12 DEF ConfirmDeposit, LockSeed
<1>7. ASSUME NEW r \in Requests, Disconnect(r) PROVE Rank(pc[t]) <= Rank(pc'[t])
  <2>1. Go(r, Lost(r)) /\ pc[r] \in RequestPC
    BY <1>7 DEF Disconnect, TypeOK
  <2>2. Rank(pc[r]) <= Rank(Lost(r))
    <3>1. pc[r] \in {"locked", "orphan"} => Rank(pc[r]) <= Rank("orphan")
      OBVIOUS
    <3>2. Rank(pc[r]) <= Rank("failed")
      BY <2>1 DEF RequestPC
    <3> QED
      BY <3>1, <3>2 DEF Lost
  <2> QED
    BY <1>12, <2>1, <2>2
<1>8. ASSUME NEW s \in Sessions, Commit(s) \/ Reveal(s) \/ Prove(s) \/ Submit(s) \/ AwaitInclusion(s)
      PROVE  Rank(pc[t]) <= Rank(pc'[t])
  BY <1>8, <1>12 DEF Commit, Reveal, Prove, Submit, AwaitInclusion
<1>9. ASSUME NEW u \in Tasks,
             Acquire(u) \/ Send(u) \/ SendFails(u) \/ Confirmed(u) \/ GiveUp(u)
      PROVE  Rank(pc[t]) <= Rank(pc'[t])
  <2>1. pc \in [Tasks -> RequestPC \cup SessionPC]
    BY DEF TypeOK
  <2>2. CASE u # t
    BY <1>3, <1>9, <2>1, <2>2 DEF Acquire, Send, SendFails, Confirmed, GiveUp, Go
  <2>3. CASE u = t /\ (Acquire(t) \/ Send(t) \/ SendFails(t))
    BY <2>1, <2>3 DEF Acquire, Send, SendFails, Go
  <2>4. CASE u = t /\ (Confirmed(t) \/ GiveUp(t))
    BY <2>1, <2>4 DEF Confirmed, GiveUp, AfterInvoke, Go
  <2> QED
    BY <1>9, <2>2, <2>3, <2>4
<1>10. CASE Restart
  <2>1. pc'[t] = pc[t] \/ pc'[t] = Lost(t)
    BY <1>10 DEF Restart
  <2>2. pc'[t] = Lost(t) => Rank(pc[t]) <= Rank(pc'[t])
    BY <1>1, <1>2 DEF Lost, RequestPC, SessionPC
  <2> QED
    BY <1>3, <2>1, <2>2
<1>11. CASE Seal
  BY <1>3, <1>11 DEF Seal, server
<1> QED
  BY <1>3, <1>4, <1>5, <1>6, <1>7, <1>8, <1>9, <1>10, <1>11 DEF Steps

\* What the runtime and the chain do by themselves brings them on.
LEMMA FairStepsGain ==
    ASSUME TypeOK, FairStep
    PROVE  Gains
<1> USE ServerAssumption, Ranks DEF Tasks, Go, Gains
<1>1. nonce \in Nat /\ head \in Nat
  BY DEF TypeOK
<1>2. ASSUME NEW r \in Requests, IncludeMatch(r) PROVE nonce < nonce'
  BY <1>1, <1>2 DEF IncludeMatch, IncludeInvoke, SpendNonce
<1>3. ASSUME NEW s \in Sessions, IncludeSettle(s) \/ IncludeProof(s) PROVE nonce < nonce'
  BY <1>1, <1>3 DEF IncludeSettle, IncludeInvoke, IncludeProof, SpendNonce
<1>4. CASE Seal
  BY <1>1, <1>4 DEF Seal
<1>5. ASSUME NEW t \in Tasks, Acquire(t) \/ Send(t) \/ SendFails(t) PROVE Gains
  <2>1. Rank(pc[t]) < Rank(pc'[t])
    BY <1>5 DEF Acquire, Send, SendFails, TypeOK
  <2> QED
    BY <2>1
<1>6. ASSUME NEW t \in Tasks, Confirmed(t) \/ GiveUp(t) PROVE Gains
  <2>1. Rank(pc[t]) < Rank(pc'[t])
    BY <1>6 DEF Confirmed, GiveUp, AfterInvoke, TypeOK
  <2> QED
    BY <2>1
<1>7. ASSUME NEW r \in Requests, LockSeed(r) PROVE Gains
  <2>1. Rank(pc[r]) < Rank(pc'[r])
    BY <1>7 DEF LockSeed, TypeOK
  <2> QED
    BY <2>1
<1>8. ASSUME NEW s \in Sessions, Prove(s) \/ Submit(s) \/ AwaitInclusion(s) PROVE Gains
  <2>1. Rank(pc[s]) < Rank(pc'[s])
    BY <1>8 DEF Prove, Submit, AwaitInclusion, TypeOK
  <2> QED
    BY <2>1
<1> QED
  BY <1>2, <1>3, <1>4, <1>5, <1>6, <1>7, <1>8 DEF FairStep, Include, Step

\* Fairness's premise, that every step is progress: no task goes back to an
\* await it has passed, no executed transaction changes, and each step of the
\* runtime or the chain brings a task, the nonce or the head on.  There are no
\* more of these steps than the tasks and their transactions have in them: each
\* nonce was spent by one of them, and each closed block has a nonce of its own.
\* With ServerNeverStuck it is why every request handled by routes.rs ends.
THEOREM ServerAlwaysGoesOn ==
    Spec => /\ [][NothingGoesBack /\ (FairStep => Gains)]_vars
            /\ [](SpentInv /\ head <= nonce + 1)
<1>1. Spec => []Facts
  BY ServerTypeCorrect, ProofFirstInvariant, SeedInvariant, OfferInvariant, HistoryInvariant, PTL
     DEF Facts
<1>2. Facts /\ [Next]_vars => [NothingGoesBack /\ (FairStep => Gains)]_vars
  <2> SUFFICES ASSUME Facts, Next PROVE NothingGoesBack /\ (FairStep => Gains)
    OBVIOUS
  <2>1. Steps /\ (Runs \/ Serves \/ Closes)
    BY NextIsSteps, Footprint DEF Facts
  <2>2. nonce <= nonce' /\ head <= head'
    BY <2>1, Numbers DEF Facts, Runs, Serves, Closes, SpendNonce, Extends, chain
  <2>3. \A t \in Tasks : Rank(pc[t]) <= Rank(pc'[t])
    BY <2>1, StepsGoOn DEF Facts
  <2>4. FairStep => Gains
    BY FairStepsGain DEF Facts
  <2>5. /\ \A t \in Tasks : Done(invoke[t]) => invoke'[t] = invoke[t]
        /\ \A s \in Sessions : Done(proof[s]) => proof'[s] = proof[s]
    BY <2>1, DoneKept DEF Facts
  <2> QED
    BY <2>2, <2>3, <2>4, <2>5 DEF NothingGoesBack
<1>3. Facts /\ PaceInv => SpentInv /\ head <= nonce + 1
  <2> SUFFICES ASSUME Facts, PaceInv PROVE head <= nonce + 1
    BY DEF Facts, HistoryInv
  <2>1. nonceAt[head] >= head - 1 /\ nonceAt[head] \in 0 .. nonce
    BY Numbers DEF Facts, PaceInv, HistoryInv, LateInv
  <2> QED
    BY <2>1, Numbers DEF Facts
<1> QED
  BY <1>1, <1>2, <1>3, PaceInvariant, PTL DEF Spec
=============================================================================
