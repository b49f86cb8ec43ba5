------------------------ MODULE CoinFlipServerProofs ------------------------
(***************************************************************************)
(* Proofs about CoinFlipServer for any numbers of requests, sessions and   *)
(* failures: type correctness, payment only after proof, nonce races only  *)
(* after an abandoned wait, seeds from after the commitment and fixed once *)
(* revealed, and matched replies that are true.                            *)
(***************************************************************************)
EXTENDS CoinFlipServer, TLAPS

\* Every step, action by action.
Steps ==
    \/ \E r \in Requests : IncludeMatch(r) \/ ConfirmDeposit(r) \/ Disconnect(r) \/ LockSeed(r)
    \/ \E s \in Sessions : IncludeSettle(s) \/ IncludeProof(s) \/ PlayerDeposit(s)
    \/ \E s \in Sessions : Commit(s) \/ Reveal(s) \/ Prove(s) \/ Submit(s) \/ AwaitInclusion(s)
    \/ \E t \in Tasks : Acquire(t) \/ Send(t) \/ SendFails(t) \/ Confirmed(t) \/ GiveUp(t)
    \/ Seal \/ Restart

LEMMA NextIsSteps == Next => Steps
BY DEF Next, Steps, Include, Step

-----------------------------------------------------------------------------
(* Types. *)

\* Every variable keeps its type; in particular no seed is a future block.
LEMMA InitTypeOK == Init => TypeOK
<1> SUFFICES ASSUME Init PROVE TypeOK
  OBVIOUS
<1> USE ServerAssumption DEF Init
<1>1. Bank!TypeOK
  BY DEF Bank!TypeOK, Bank!Stage
<1>2. /\ head \in Nat \ {0} /\ nonce \in Nat
      /\ nonceAt \in [1 .. head -> 0 .. nonce]
  BY DEF DeployBlock
<1>3. /\ invoke \in [Tasks -> TxRec]
      /\ proof \in [Sessions -> TxRec]
  BY DEF NoTx, TxRec, TxStatus
<1>4. /\ pc \in [Tasks -> RequestPC \cup SessionPC]
      /\ \A r \in Requests : pc[r] \in RequestPC
      /\ \A s \in Sessions : pc[s] \in SessionPC
  BY DEF RequestPC, SessionPC, Tasks
<1> QED
  BY <1>1, <1>2, <1>3, <1>4 DEF TypeOK

\* What the bank's steps keep: they are Escrow's own steps.
LEMMA BankTypes ==
    ASSUME Bank!TypeOK,
           \/ UNCHANGED pots
           \/ \E s \in Sessions :
                 Bank!Cover(s) \/ Bank!Stake(Player, s, 1) \/ \E w \in Users : Bank!Pay(s, w)
    PROVE  Bank!TypeOK'
<1>1. CASE UNCHANGED pots
  BY <1>1 DEF pots, Bank!TypeOK
<1>2. ASSUME NEW s \in Sessions, Bank!Cover(s) PROVE Bank!TypeOK'
  <2>1. House \in Users
    BY DEF Users
  <2> QED
    BY <1>2, <2>1 DEF Bank!TypeOK, Bank!Cover, Bank!Stage
<1>3. ASSUME NEW s \in Sessions, Bank!Stake(Player, s, 1) PROVE Bank!TypeOK'
  <2>1. Player \in Users
    BY DEF Users
  <2> QED
    BY <1>3, <2>1 DEF Bank!TypeOK, Bank!Stake, Bank!Stage
<1>4. ASSUME NEW s \in Sessions, NEW w \in Users, Bank!Pay(s, w) PROVE Bank!TypeOK'
  BY <1>4 DEF Bank!TypeOK, Bank!Pay, Bank!Stage
<1> QED
  BY <1>1, <1>2, <1>3, <1>4

\* A transaction record stays one when the chain grows.
LEMMA TxRecGrows ==
    ASSUME head \in Nat, nonce \in Nat, head' \in {head, head + 1}, nonce' \in {nonce, nonce + 1}
    PROVE  TxRec \subseteq TxRec'
BY DEF TxRec

\* The part of TypeOK that moves with pc alone.
Go_Typed(t, to) == (t \in Requests => to \in RequestPC) /\ (t \in Sessions => to \in SessionPC)

LEMMA GoTyped ==
    ASSUME TypeOK, NEW t \in Tasks, NEW to, Go_Typed(t, to), Go(t, to)
    PROVE  /\ pc' \in [Tasks -> RequestPC \cup SessionPC]
           /\ \A r \in Requests : pc'[r] \in RequestPC
           /\ \A s \in Sessions : pc'[s] \in SessionPC
BY DEF TypeOK, Go_Typed, Go, Tasks

LEMMA FaultTyped ==
    ASSUME faults \in 0 .. MaxFaults, UNCHANGED faults \/ Fault
    PROVE  faults' \in 0 .. MaxFaults
BY ServerAssumption DEF Fault

\* A step of the chain: one transaction included, its record updated.
LEMMA IncludedTyped ==
    ASSUME TypeOK, SpendNonce, UNCHANGED <<server, commitHead, abandoned>>,
           Bank!TypeOK', faults' \in 0 .. MaxFaults,
           invoke' \in [Tasks -> TxRec'], proof' \in [Sessions -> TxRec']
    PROVE  TypeOK'
BY DEF TypeOK, SpendNonce, server

\* The record of a transaction that has just been executed.
LEMMA ExecutedTyped ==
    ASSUME TypeOK, SpendNonce, NEW tx \in TxRec, NEW status \in TxStatus
    PROVE  /\ Executed(tx, status) \in TxRec'
           /\ TxRec \subseteq TxRec'
<1>1. TxRec \subseteq TxRec'
  BY TxRecGrows DEF TypeOK, SpendNonce
<1>2. tx.nonce \in 0 .. nonce' /\ head' = head /\ head \in Nat
  BY DEF TypeOK, SpendNonce, TxRec
<1> QED
  BY <1>1, <1>2 DEF Executed, TxRec

LEMMA IncludeInvokeTyped ==
    ASSUME TypeOK, NEW t \in Tasks, NEW status \in TxStatus,
           IncludeInvoke(t, status), Bank!TypeOK'
    PROVE  TypeOK'
<1>1. SpendNonce /\ UNCHANGED <<server, proof, commitHead, abandoned, faults>>
  BY DEF IncludeInvoke
<1>2. Executed(invoke[t], status) \in TxRec' /\ TxRec \subseteq TxRec'
  BY <1>1, ExecutedTyped DEF TypeOK
<1>3. invoke' \in [Tasks -> TxRec']
  BY <1>2 DEF IncludeInvoke, TypeOK
<1>4. proof' \in [Sessions -> TxRec']
  BY <1>1, <1>2 DEF TypeOK
<1> QED
  BY <1>1, <1>3, <1>4, IncludedTyped DEF TypeOK

\* Every step keeps every type.
LEMMA StepsTyped == TypeOK /\ Steps => TypeOK'
<1> SUFFICES ASSUME TypeOK, Steps PROVE TypeOK'
  OBVIOUS
<1> USE DEF Tasks
<1>1. ASSUME NEW r \in Requests, IncludeMatch(r) PROVE TypeOK'
  <2> DEFINE s == reqSession[r]
  <2>1. s \in Sessions
    BY DEF TypeOK
  <2>2. Bank!TypeOK'
    BY <1>1, <2>1, BankTypes DEF IncludeMatch, TypeOK
  <2>3. \E status \in TxStatus : IncludeInvoke(r, status)
    BY <1>1 DEF IncludeMatch, TxStatus
  <2> QED
    BY <2>2, <2>3, IncludeInvokeTyped
<1>2. ASSUME NEW s \in Sessions, IncludeSettle(s) PROVE TypeOK'
  <2>1. Bank!TypeOK'
    BY <1>2, BankTypes DEF IncludeSettle, TypeOK
  <2>2. \E status \in TxStatus : IncludeInvoke(s, status)
    BY <1>2 DEF IncludeSettle, TxStatus
  <2> QED
    BY <2>1, <2>2, IncludeInvokeTyped
<1>3. ASSUME NEW s \in Sessions, IncludeProof(s) PROVE TypeOK'
  <2>1. SpendNonce /\ UNCHANGED <<pots, server, invoke, commitHead, abandoned>>
    BY <1>3 DEF IncludeProof
  <2>2. Bank!TypeOK' /\ faults' \in 0 .. MaxFaults
    BY <1>3, <2>1, BankTypes, FaultTyped DEF TypeOK, IncludeProof
  <2>3. \A status \in TxStatus : Executed(proof[s], status) \in TxRec'
    BY <2>1, ExecutedTyped DEF TypeOK
  <2>4. TxRec \subseteq TxRec'
    BY <2>1, TxRecGrows DEF TypeOK, SpendNonce
  <2>5. proof' \in [Sessions -> TxRec']
    <3>1. \E status \in TxStatus :
             proof' = [proof EXCEPT ![s] = Executed(proof[s], status)]
      BY <1>3 DEF IncludeProof, TxStatus
    <3> QED
      BY <3>1, <2>3, <2>4 DEF TypeOK
  <2>6. invoke' \in [Tasks -> TxRec']
    BY <2>1, <2>4 DEF TypeOK
  <2> QED
    BY <2>1, <2>2, <2>5, <2>6, IncludedTyped
<1>4. CASE Seal
  <2>1. TxRec \subseteq TxRec'
    BY <1>4, TxRecGrows DEF Seal, TypeOK
  <2>2. nonceAt' \in [1 .. head' -> 0 .. nonce']
    BY <1>4 DEF Seal, TypeOK
  <2>3. Bank!TypeOK'
    BY <1>4, BankTypes DEF Seal, TypeOK
  <2> QED
    BY <1>4, <2>1, <2>2, <2>3 DEF Seal, TypeOK, server
<1>5. ASSUME NEW s \in Sessions, PlayerDeposit(s) PROVE TypeOK'
  <2>1. Bank!TypeOK'
    BY <1>5, BankTypes DEF PlayerDeposit, TypeOK
  <2> QED
    BY <1>5, <2>1 DEF PlayerDeposit, TypeOK, chain, server, TxRec
<1>6. ASSUME UNCHANGED <<chain, pots, reqSession>>
      PROVE  Bank!TypeOK' /\ TxRec' = TxRec
  BY <1>6, BankTypes DEF TypeOK, chain, TxRec
<1> USE DEF RequestPC, SessionPC, Go_Typed
<1>7. ASSUME NEW r \in Requests, ConfirmDeposit(r) PROVE TypeOK'
  BY <1>6, <1>7, GoTyped, ServerAssumption DEF ConfirmDeposit, TypeOK, chain
<1>8. ASSUME NEW r \in Requests, LockSeed(r) PROVE TypeOK'
  <2>1. faults' \in 0 .. MaxFaults
    BY <1>8, FaultTyped DEF LockSeed, TypeOK
  <2>2. \A b \in 0 .. head, d \in DeployBlocks : Larger(b, d) \in 0 .. head
    BY DEF Larger, DeployBlocks, DeployBlock, TypeOK
  <2>3. PICK b \in 0 .. head, d \in DeployBlocks :
            seedBlock' = SeedWritten(reqSession[r], Larger(b, d))
    BY <1>8 DEF LockSeed, TypeOK
  <2>4. seedBlock' \in [Sessions -> 0 .. head]
    BY <2>2, <2>3 DEF SeedWritten, TypeOK
  <2> QED
    BY <1>6, <1>8, <2>1, <2>4, GoTyped, ServerAssumption DEF LockSeed, TypeOK, chain
<1>9. ASSUME NEW r \in Requests, Disconnect(r) PROVE TypeOK'
  <2>1. abandoned' \subseteq Tasks
    BY <1>9 DEF Disconnect, Unconfirmed, TypeOK
  <2>2. Go_Typed(r, Lost(r))
    BY ServerAssumption DEF Lost
  <2> QED
    BY <1>6, <1>9, <2>1, <2>2, GoTyped, FaultTyped DEF Disconnect, TypeOK, chain
<1>10. ASSUME NEW s \in Sessions, Commit(s) PROVE TypeOK'
  <2>1. commitHead' \in [Sessions -> 0 .. head]
    BY <1>10 DEF Commit, TypeOK
  <2>2. Go_Typed(s, "committed") /\ Go(s, "committed")
    BY <1>10, ServerAssumption DEF Commit
  <2> QED
    BY <1>6, <1>10, <2>1, <2>2, GoTyped DEF Commit, TypeOK, chain
<1>11. ASSUME NEW s \in Sessions, Reveal(s) PROVE TypeOK'
  BY <1>6, <1>11, GoTyped, ServerAssumption DEF Reveal, TypeOK, chain
<1>12. ASSUME NEW s \in Sessions, Prove(s) PROVE TypeOK'
  <2>1. faults' \in 0 .. MaxFaults
    BY <1>12, FaultTyped DEF Prove, TypeOK
  <2>2. proof' \in [Sessions -> TxRec]
    <3>1. CASE UNCHANGED proof
      BY <3>1 DEF TypeOK
    <3>2. CASE seedBlock[s] # 0 /\ ~UNCHANGED proof
      <4>1. nonceAt[seedBlock[s]] \in 0 .. nonce
        BY <3>2 DEF TypeOK
      <4>2. [proof[s] EXCEPT !.nonce = nonceAt[seedBlock[s]]] \in TxRec
        <5>1. proof[s] \in TxRec
          BY DEF TypeOK
        <5> QED
          BY <4>1, <5>1 DEF TxRec
      <4>3. proof' = [proof EXCEPT ![s] = [proof[s] EXCEPT !.nonce = nonceAt[seedBlock[s]]]]
        BY <1>12, <3>2 DEF Prove
      <4> QED
        BY <4>2, <4>3 DEF TypeOK
    <3> QED
      BY <1>12, <3>1, <3>2 DEF Prove
  <2>3. \E to \in {"submitting", "failed"} : Go(s, to)
    BY <1>12 DEF Prove
  <2> QED
    BY <1>6, <1>12, <2>1, <2>2, <2>3, GoTyped, ServerAssumption DEF Prove, TypeOK, chain
<1>13. ASSUME NEW s \in Sessions, Submit(s) PROVE TypeOK'
  <2>1. faults' \in 0 .. MaxFaults
    BY <1>13, FaultTyped DEF Submit, TypeOK
  <2>2. proof' \in [Sessions -> TxRec]
    <3>1. [proof[s] EXCEPT !.status = "pending"] \in TxRec
      <4>1. proof[s] \in TxRec
        BY DEF TypeOK
      <4> QED
        BY <4>1 DEF TxRec, TxStatus
    <3>2. proof' = proof \/ proof' = [proof EXCEPT ![s] = [proof[s] EXCEPT !.status = "pending"]]
      BY <1>13 DEF Submit
    <3> QED
      BY <3>1, <3>2 DEF TypeOK
  <2>3. \E to \in {"including", "failed"} : Go(s, to)
    BY <1>13 DEF Submit
  <2> QED
    BY <1>6, <1>13, <2>1, <2>2, <2>3, GoTyped, ServerAssumption DEF Submit, TypeOK, chain
<1>14. ASSUME NEW s \in Sessions, AwaitInclusion(s) PROVE TypeOK'
  <2>1. faults' \in 0 .. MaxFaults
    BY <1>14, FaultTyped DEF AwaitInclusion, WaitFails, TypeOK
  <2>2. \E to \in {"queued", "failed"} : Go(s, to)
    BY <1>14 DEF AwaitInclusion
  <2> QED
    BY <1>6, <1>14, <2>1, <2>2, GoTyped, ServerAssumption DEF AwaitInclusion, TypeOK, chain
<1>15. ASSUME NEW t \in Tasks, Acquire(t) PROVE TypeOK'
  BY <1>6, <1>15, GoTyped DEF Acquire, TypeOK, chain
<1>16. ASSUME NEW t \in Tasks, Send(t) PROVE TypeOK'
  <2>1. Pending \in TxRec
    BY DEF Pending, TxRec, TxStatus, TypeOK
  <2>2. Go_Typed(t, IF pc[t] = "locked" THEN "waiting" ELSE "failed")
    OBVIOUS
  <2> QED
    BY <1>6, <1>16, <2>1, <2>2, GoTyped DEF Send, TypeOK, chain
<1>17. ASSUME NEW t \in Tasks, SendFails(t) PROVE TypeOK'
  <2>1. Go_Typed(t, IF pc[t] = "locked" /\ t \in Sessions THEN "result" ELSE "failed")
    BY ServerAssumption
  <2>2. Pending \in TxRec
    BY DEF Pending, TxRec, TxStatus, TypeOK
  <2>3. invoke' \in [Tasks -> TxRec] /\ abandoned' \subseteq Tasks
    <3>1. /\ invoke' = invoke \/ invoke' = [invoke EXCEPT ![t] = Pending]
          /\ abandoned' = abandoned \/ abandoned' = abandoned \cup {t}
      BY <1>17 DEF SendFails
    <3>2. invoke' \in [Tasks -> TxRec]
      BY <2>2, <3>1 DEF TypeOK
    <3> QED
      BY <3>1, <3>2 DEF TypeOK
  <2>4. lock' \in Tasks \cup {NoTask} /\ faults' \in 0 .. MaxFaults
    BY <1>17, FaultTyped DEF SendFails, TypeOK
  <2>5. /\ Go(t, IF pc[t] = "locked" /\ t \in Sessions THEN "result" ELSE "failed")
        /\ UNCHANGED <<chain, pots, reqSession, seedBlock, found, proof, commitHead>>
    BY <1>17 DEF SendFails
  <2> QED
    BY <1>6, <2>1, <2>3, <2>4, <2>5, GoTyped DEF TypeOK, chain
<1>18. ASSUME NEW t \in Tasks, Confirmed(t) PROVE TypeOK'
  <2>1. invoke[t].block \in 0 .. head
    BY <1>18 DEF Confirmed, Sealed, TypeOK, TxRec
  <2>2. found' \in [Requests -> 0 .. head]
    BY <1>18, <2>1 DEF Confirmed, NoteBlock, TypeOK
  <2>3. Go_Typed(t, AfterInvoke(t))
    BY ServerAssumption DEF AfterInvoke
  <2> QED
    BY <1>6, <1>18, <2>2, <2>3, GoTyped DEF Confirmed, TypeOK, chain
<1>19. ASSUME NEW t \in Tasks, GiveUp(t) PROVE TypeOK'
  <2>1. found' \in [Requests -> 0 .. head]
    BY <1>19 DEF GiveUp, NoteBlock, TypeOK
  <2>2. Go_Typed(t, AfterInvoke(t))
    BY ServerAssumption DEF AfterInvoke
  <2>3. abandoned' \subseteq Tasks
    BY <1>19 DEF GiveUp, Unconfirmed, TypeOK
  <2>4. faults' \in 0 .. MaxFaults
    BY <1>19, FaultTyped DEF GiveUp, WaitFails, TypeOK
  <2> QED
    BY <1>6, <1>19, <2>1, <2>2, <2>3, <2>4, GoTyped DEF GiveUp, TypeOK, chain
<1>20. CASE Restart
  <2>1. /\ pc' \in [Tasks -> RequestPC \cup SessionPC]
        /\ \A r \in Requests : pc'[r] \in RequestPC
        /\ \A s \in Sessions : pc'[s] \in SessionPC
    BY <1>20 DEF Restart, Lost, TypeOK
  <2>2. abandoned' \subseteq Tasks
    BY <1>20 DEF Restart, Unconfirmed, TypeOK
  <2> QED
    BY <1>6, <1>20, <2>1, <2>2, FaultTyped DEF Restart, TypeOK, chain
<1> QED
  BY <1>1, <1>2, <1>3, <1>4, <1>5, <1>7, <1>8, <1>9, <1>10, <1>11, <1>12,
     <1>13, <1>14, <1>15, <1>16, <1>17, <1>18, <1>19, <1>20 DEF Steps

\* TypeOK, for any constants: in every reachable state the server's variables have their
\* types; a seed, a found block and a transaction's block are never ahead of
\* the chain, and no transaction carries a nonce the account has not reached.
THEOREM ServerTypeCorrect == Spec => []TypeOK
<1>1. Init => TypeOK
  BY InitTypeOK
<1>2. TypeOK /\ [Next]_vars => TypeOK'
  <2> SUFFICES ASSUME TypeOK, [Next]_vars PROVE TypeOK'
    OBVIOUS
  <2>1. CASE Next
    BY <2>1, NextIsSteps, StepsTyped
  <2>2. CASE UNCHANGED vars
    <3>1. Bank!TypeOK'
      BY <2>2, BankTypes DEF vars, TypeOK
    <3> QED
      BY <2>2, <3>1 DEF vars, chain, server, TypeOK, TxRec
  <2> QED
    BY <2>1, <2>2
<1> QED
  BY <1>1, <1>2, PTL DEF Spec

-----------------------------------------------------------------------------
(* A pot is paid only after the session's proof. *)

Unproved == {"new", "committed", "proving", "submitting", "including"}
Unsent == {"queued", "locked", "orphan"}
Settling == Unsent \cup {"waiting", "result"}

\* A play reaches the settlement only past its included proof, and a
\* settlement that was ever sent, or has paid, implies it got there.
ProofComesFirst ==
    \A s \in Sessions :
        /\ pc[s] \in Unproved \cup Unsent => invoke[s].status = "none"
        /\ pc[s] \in Settling \/ invoke[s].status # "none" => proof[s].status = "ok"
        /\ stage[s] = "paid" => invoke[s].status = "ok"

LEMMA InitProofFirst == Init => ProofComesFirst
BY ServerAssumption DEF Init, ProofComesFirst, NoTx, Unproved, Unsent, Settling, Tasks

\* Steps that leave the transactions and the pots alone only move pc.
LEMMA OnlyMoves ==
    ASSUME TypeOK, ProofComesFirst, UNCHANGED <<pots, invoke, proof>>,
           \A s \in Sessions :
              \/ pc'[s] = pc[s]
              \/ pc'[s] \in Unproved /\ pc[s] \in Unproved
              \/ /\ pc'[s] \in Settling
                 /\ pc[s] \in Settling \/ proof[s].status = "ok"
                 /\ pc'[s] \in Unsent => pc[s] \in Unproved \cup Unsent
              \/ pc'[s] = "failed"
    PROVE  ProofComesFirst'
BY DEF ProofComesFirst, pots, Unproved, Unsent, Settling

LEMMA StepsProofFirst == TypeOK /\ ProofComesFirst /\ Steps => ProofComesFirst'
<1> SUFFICES ASSUME TypeOK, ProofComesFirst, Steps PROVE ProofComesFirst'
  OBVIOUS
<1> USE ServerAssumption DEF Tasks, Go
<1>1. ASSUME NEW r \in Requests, IncludeMatch(r) PROVE ProofComesFirst'
  <2>1. \A s \in Sessions : invoke'[s] = invoke[s]
    BY <1>1 DEF IncludeMatch, IncludeInvoke, TypeOK
  <2>2. \A s \in Sessions : stage'[s] = "paid" => stage[s] = "paid"
    BY <1>1 DEF IncludeMatch, Bank!Cover, pots, TypeOK, Bank!TypeOK
  <2>3. UNCHANGED <<pc, proof>>
    BY <1>1 DEF IncludeMatch, IncludeInvoke, server
  <2> QED
    BY <2>1, <2>2, <2>3 DEF ProofComesFirst
<1>2. ASSUME NEW s \in Sessions, IncludeSettle(s) PROVE ProofComesFirst'
  <2>1. invoke[s].status = "pending" /\ UNCHANGED <<pc, proof>>
    BY <1>2 DEF IncludeSettle, IncludeInvoke, Includable, server
  <2>2. \A u \in Sessions \ {s} : invoke'[u] = invoke[u] /\ stage'[u] = stage[u]
    BY <1>2 DEF IncludeSettle, IncludeInvoke, Bank!Pay, pots, TypeOK, Bank!TypeOK
  <2>3. /\ invoke'[s].status \in {"ok", "reverted"}
        /\ stage'[s] = "paid" => invoke'[s].status = "ok"
    <3>1. CASE \E w \in Users : Bank!Pay(s, w) /\ IncludeInvoke(s, "ok")
      BY <3>1 DEF IncludeInvoke, Executed, TypeOK
    <3>2. CASE stage[s] # "covered" /\ IncludeInvoke(s, "reverted") /\ UNCHANGED pots
      <4>1. stage'[s] # "paid"
        BY <2>1, <3>2 DEF ProofComesFirst, pots
      <4> QED
        BY <3>2, <4>1 DEF IncludeInvoke, Executed, TypeOK
    <3> QED
      BY <1>2, <3>1, <3>2 DEF IncludeSettle
  <2> QED
    BY <2>1, <2>2, <2>3 DEF ProofComesFirst
<1>3. ASSUME NEW s \in Sessions, IncludeProof(s) PROVE ProofComesFirst'
  <2>1. proof[s].status = "pending" /\ UNCHANGED <<pots, pc, invoke>>
    BY <1>3 DEF IncludeProof, Includable, server
  <2>2. \A u \in Sessions \ {s} : proof'[u] = proof[u]
    BY <1>3 DEF IncludeProof, TypeOK
  <2> QED
    BY <2>1, <2>2 DEF ProofComesFirst, pots
<1>4. ASSUME NEW s \in Sessions, PlayerDeposit(s) PROVE ProofComesFirst'
  <2>1. \A u \in Sessions : stage'[u] = "paid" => stage[u] = "paid"
    BY <1>4 DEF PlayerDeposit, Bank!Stake, TypeOK, Bank!TypeOK
  <2> QED
    BY <1>4, <2>1 DEF PlayerDeposit, ProofComesFirst, server
<1>5. ASSUME NEW s \in Sessions, Prove(s) PROVE ProofComesFirst'
  <2>1. /\ pc[s] \in Unproved
        /\ pc'[s] \in Unproved \cup {"failed"}
        /\ UNCHANGED <<pots, invoke>>
        /\ \A u \in Sessions \ {s} : pc'[u] = pc[u] /\ proof'[u] = proof[u]
    BY <1>5 DEF Prove, Unproved, TypeOK
  <2> QED
    BY <2>1 DEF ProofComesFirst, pots, Unproved, Unsent, Settling
<1>6. ASSUME NEW s \in Sessions, Submit(s) PROVE ProofComesFirst'
  <2>1. /\ pc[s] \in Unproved
        /\ pc'[s] \in Unproved \cup {"failed"}
        /\ UNCHANGED <<pots, invoke>>
        /\ \A u \in Sessions \ {s} : pc'[u] = pc[u] /\ proof'[u] = proof[u]
    BY <1>6 DEF Submit, Unproved, TypeOK
  <2> QED
    BY <2>1 DEF ProofComesFirst, pots, Unproved, Unsent, Settling
<1>7. ASSUME NEW t \in Tasks, Send(t) \/ SendFails(t) PROVE ProofComesFirst'
  <2>1. \A s \in Sessions \ {t} : pc'[s] = pc[s] /\ invoke'[s] = invoke[s]
    BY <1>7 DEF Send, SendFails, TypeOK
  <2>2. UNCHANGED <<pots, proof>>
    BY <1>7 DEF Send, SendFails
  <2>3. t \in Sessions => /\ pc[t] \in Settling
                          /\ pc'[t] \in {"waiting", "result", "failed"}
                          /\ stage[t] # "paid"
    BY <1>7 DEF Send, SendFails, TypeOK, Unsent, Settling, ProofComesFirst
  <2> QED
    BY <2>1, <2>2, <2>3 DEF ProofComesFirst, pots, Unproved, Unsent, Settling
<1>8. ASSUME NEW s \in Sessions, AwaitInclusion(s) PROVE ProofComesFirst'
  BY <1>8, OnlyMoves DEF AwaitInclusion, Sealed, TypeOK, Unproved, Unsent, Settling
<1>9. ASSUME NEW t \in Tasks, Acquire(t) \/ Confirmed(t) \/ GiveUp(t)
      PROVE  ProofComesFirst'
  <2>1. UNCHANGED <<pots, invoke, proof>>
    BY <1>9 DEF Acquire, Confirmed, GiveUp
  <2>2. ASSUME NEW s \in Sessions
        PROVE  \/ pc'[s] = pc[s]
               \/ pc[s] = "queued" /\ pc'[s] = "locked"
               \/ pc[s] = "waiting" /\ pc'[s] = "result"
    <3>1. \/ pc[t] = "queued" /\ Go(t, "locked")
          \/ pc[t] = "waiting" /\ Go(t, AfterInvoke(t))
      BY <1>9 DEF Acquire, Confirmed, GiveUp
    <3>2. CASE s = t
      <4>1. AfterInvoke(s) = "result"
        BY ServerAssumption DEF AfterInvoke
      <4> QED
        BY <3>1, <3>2, <4>1 DEF TypeOK, Go
    <3>3. CASE s # t
      BY <3>1, <3>3 DEF TypeOK, Go
    <3> QED
      BY <3>2, <3>3
  <2> QED
    BY <2>1, <2>2, OnlyMoves DEF Unproved, Unsent, Settling
<1>10. ASSUME NEW s \in Sessions, Commit(s) \/ Reveal(s) PROVE ProofComesFirst'
  BY <1>10, OnlyMoves DEF Commit, Reveal, TypeOK, Unproved
<1>11. ASSUME NEW r \in Requests, ConfirmDeposit(r) \/ Disconnect(r) \/ LockSeed(r)
       PROVE  ProofComesFirst'
  BY <1>11, OnlyMoves DEF ConfirmDeposit, Disconnect, LockSeed, TypeOK
<1>12. CASE Restart
  BY <1>12, OnlyMoves DEF Restart, Lost, TypeOK, Unproved, Unsent, Settling
<1>13. CASE Seal
  BY <1>13 DEF Seal, ProofComesFirst, pots, server
<1> QED
  BY <1>1, <1>2, <1>3, <1>4, <1>5, <1>6, <1>7, <1>8, <1>9, <1>10, <1>11, <1>12, <1>13
     DEF Steps

LEMMA ProofFirstInvariant == Spec => []ProofComesFirst
<1>1. Init => ProofComesFirst
  BY InitProofFirst
<1>2. TypeOK /\ ProofComesFirst /\ [Next]_vars => ProofComesFirst'
  <2> SUFFICES ASSUME TypeOK, ProofComesFirst, [Next]_vars PROVE ProofComesFirst'
    OBVIOUS
  <2>1. CASE Next
    BY <2>1, NextIsSteps, StepsProofFirst
  <2>2. CASE UNCHANGED vars
    BY <2>2 DEF vars, server, pots, ProofComesFirst
  <2> QED
    BY <2>1, <2>2
<1> QED
  BY <1>1, <1>2, ServerTypeCorrect, PTL DEF Spec

\* PaidOnlyAfterProof for any numbers of requests, sessions and failures: the
\* bank pays a session out only when the proof of its play is on chain.
THEOREM ServerPaysAfterProof == Spec => []PaidOnlyAfterProof
<1>1. ProofComesFirst => PaidOnlyAfterProof
  BY DEF ProofComesFirst, PaidOnlyAfterProof
<1> QED
  BY <1>1, ProofFirstInvariant, PTL

-----------------------------------------------------------------------------
(* The lock and the owner's nonce. *)

\* The lock belongs to the one task in sncast_invoke; an orphaned child's task
\* has been abandoned; a transaction is in flight under the lock or abandoned.
LockInv ==
    \A t \in Tasks :
        /\ pc[t] \in {"locked", "waiting"} <=> lock = t
        /\ pc[t] = "orphan" => t \in abandoned
        /\ invoke[t].status = "pending" => pc[t] = "waiting" \/ t \in abandoned

LEMMA InitLock == Init => LockInv
BY ServerAssumption DEF Init, LockInv, NoTx

\* A step of a task that is not in sncast_invoke, to a place that is not either.
LEMMA OutsideLock ==
    ASSUME TypeOK, LockInv, UNCHANGED <<lock, invoke, abandoned>>,
           \A t \in Tasks :
              \/ pc'[t] = pc[t]
              \/ /\ pc[t] \notin {"locked", "waiting"}
                 /\ pc'[t] \notin {"locked", "waiting", "orphan"}
    PROVE  LockInv'
BY DEF LockInv

LEMMA StepsLock == TypeOK /\ LockInv /\ Steps => LockInv'
<1> SUFFICES ASSUME TypeOK, LockInv, Steps PROVE LockInv'
  OBVIOUS
<1> USE ServerAssumption DEF Tasks, Go
<1>1. ASSUME NEW t \in Tasks, NEW status \in {"ok", "reverted"}, IncludeInvoke(t, status)
      PROVE  LockInv'
  <2>1. UNCHANGED <<pc, lock, abandoned>>
    BY <1>1 DEF IncludeInvoke, server
  <2>2. \A u \in Tasks : invoke'[u].status = "pending" => invoke[u].status = "pending"
    BY <1>1 DEF IncludeInvoke, Executed, TypeOK
  <2> QED
    BY <2>1, <2>2 DEF LockInv
<1>2. ASSUME NEW r \in Requests, IncludeMatch(r) PROVE LockInv'
  BY <1>1, <1>2 DEF IncludeMatch
<1>3. ASSUME NEW s \in Sessions, IncludeSettle(s) PROVE LockInv'
  BY <1>1, <1>3 DEF IncludeSettle
<1>4. ASSUME NEW s \in Sessions, IncludeProof(s) \/ PlayerDeposit(s) PROVE LockInv'
  BY <1>4 DEF IncludeProof, PlayerDeposit, LockInv, server
<1>5. ASSUME NEW s \in Sessions,
             Commit(s) \/ Reveal(s) \/ Prove(s) \/ Submit(s) \/ AwaitInclusion(s)
      PROVE  LockInv'
  BY <1>5, OutsideLock DEF Commit, Reveal, Prove, Submit, AwaitInclusion, TypeOK
<1>6. ASSUME NEW r \in Requests, ConfirmDeposit(r) \/ LockSeed(r) PROVE LockInv'
  BY <1>6, OutsideLock DEF ConfirmDeposit, LockSeed, TypeOK
<1>7. ASSUME NEW r \in Requests, Disconnect(r) PROVE LockInv'
  <2>1. \A t \in Tasks \ {r} : pc'[t] = pc[t]
    BY <1>7 DEF Disconnect, TypeOK
  <2>2. pc'[r] \in {"orphan", "failed"} /\ (pc'[r] = "orphan" => pc[r] = "locked")
    BY <1>7 DEF Disconnect, Lost, TypeOK
  <2>3. /\ lock' = IF lock = r THEN NoTask ELSE lock
        /\ UNCHANGED invoke
        /\ abandoned \subseteq abandoned'
        /\ pc[r] = "locked" \/ invoke[r].status = "pending" => r \in abandoned'
    BY <1>7 DEF Disconnect, Unconfirmed
  <2> QED
    BY <2>1, <2>2, <2>3 DEF LockInv
<1>8. ASSUME NEW t \in Tasks, Acquire(t) PROVE LockInv'
  BY <1>8 DEF Acquire, LockInv, TypeOK
<1>9. ASSUME NEW t \in Tasks, Send(t) PROVE LockInv'
  BY <1>9 DEF Send, Pending, LockInv, TypeOK
<1>10. ASSUME NEW t \in Tasks, SendFails(t) PROVE LockInv'
  BY <1>10 DEF SendFails, Pending, LockInv, TypeOK
<1>11. ASSUME NEW t \in Tasks, Confirmed(t) PROVE LockInv'
  BY <1>11 DEF Confirmed, Sealed, AfterInvoke, LockInv, TypeOK
<1>12. ASSUME NEW t \in Tasks, GiveUp(t) PROVE LockInv'
  <2>1. \A u \in Tasks \ {t} : pc'[u] = pc[u]
    BY <1>12 DEF GiveUp, TypeOK
  <2>2. pc'[t] \in {"seeding", "result"} /\ pc[t] = "waiting" /\ lock' = NoTask
    BY <1>12 DEF GiveUp, AfterInvoke, TypeOK
  <2>3. /\ UNCHANGED invoke
        /\ abandoned \subseteq abandoned'
        /\ invoke[t].status = "pending" => t \in abandoned'
    BY <1>12 DEF GiveUp, Unconfirmed
  <2> QED
    BY <2>1, <2>2, <2>3 DEF LockInv
<1>13. CASE Restart
  <2>1. \A t \in Tasks :
           /\ pc'[t] \notin {"locked", "waiting"}
           /\ pc'[t] = "orphan" => pc[t] \in {"locked", "orphan"}
    BY <1>13 DEF Restart, Active, Lost, Ended
  <2>2. /\ lock' = NoTask
        /\ UNCHANGED invoke
        /\ abandoned \subseteq abandoned'
    BY <1>13 DEF Restart
  <2>3. \A t \in Tasks :
           /\ pc[t] = "locked" => t \in abandoned'
           /\ pc[t] = "waiting" /\ invoke[t].status = "pending" => t \in abandoned'
    BY <1>13 DEF Restart, Active, Ended, Unconfirmed
  <2> QED
    BY <2>1, <2>2, <2>3 DEF LockInv
<1>14. CASE Seal
  BY <1>14 DEF Seal, LockInv, server
<1> QED
  BY <1>2, <1>3, <1>4, <1>5, <1>6, <1>7, <1>8, <1>9, <1>10, <1>11, <1>12, <1>13, <1>14
     DEF Steps

LEMMA LockInvariant == Spec => []LockInv
<1>1. Init => LockInv
  BY InitLock
<1>2. TypeOK /\ LockInv /\ [Next]_vars => LockInv'
  <2> SUFFICES ASSUME TypeOK, LockInv, [Next]_vars PROVE LockInv'
    OBVIOUS
  <2>1. CASE Next
    BY <2>1, NextIsSteps, StepsLock
  <2>2. CASE UNCHANGED vars
    BY <2>2 DEF vars, server, LockInv
  <2> QED
    BY <2>1, <2>2
<1> QED
  BY <1>1, <1>2, ServerTypeCorrect, PTL DEF Spec

\* NonceRacesAreAbandoned for any numbers of requests, sessions and failures:
\* sncast_lock serialises the owner's invocations except across an abandoned
\* wait, so two of them compete for a nonce only after one.
THEOREM ServerNonceRaces == Spec => []NonceRacesAreAbandoned
<1>1. LockInv => NonceRacesAreAbandoned
  BY DEF LockInv, NonceRacesAreAbandoned
<1> QED
  BY <1>1, LockInvariant, PTL

-----------------------------------------------------------------------------
(* The seed of a revealed bet. *)

LEMMA StepsFixSeed ==
    ASSUME TypeOK, Steps, NEW s \in Sessions, pc[s] \notin {"new", "committed"}
    PROVE  seedBlock'[s] = seedBlock[s] /\ pc'[s] # "committed"
<1> USE ServerAssumption DEF Tasks, Go
<1>1. ASSUME NEW r \in Requests, IncludeMatch(r) \/ ConfirmDeposit(r) \/ Disconnect(r)
      PROVE  seedBlock'[s] = seedBlock[s] /\ pc'[s] # "committed"
  BY <1>1 DEF IncludeMatch, IncludeInvoke, ConfirmDeposit, Disconnect, Lost, server, TypeOK
<1>2. ASSUME NEW r \in Requests, LockSeed(r)
      PROVE  seedBlock'[s] = seedBlock[s] /\ pc'[s] # "committed"
  <2>1. seedBlock'[s] = seedBlock[s]
    BY <1>2 DEF LockSeed, SeedWritten, TypeOK
  <2> QED
    BY <1>2, <2>1 DEF LockSeed, TypeOK
<1>3. ASSUME NEW u \in Sessions, IncludeSettle(u) \/ IncludeProof(u) \/ PlayerDeposit(u)
      PROVE  seedBlock'[s] = seedBlock[s] /\ pc'[s] # "committed"
  BY <1>3 DEF IncludeSettle, IncludeInvoke, IncludeProof, PlayerDeposit, server
<1>4. ASSUME NEW u \in Sessions,
             Commit(u) \/ Reveal(u) \/ Prove(u) \/ Submit(u) \/ AwaitInclusion(u)
      PROVE  seedBlock'[s] = seedBlock[s] /\ pc'[s] # "committed"
  BY <1>4 DEF Commit, Reveal, Prove, Submit, AwaitInclusion, TypeOK
<1>5. ASSUME NEW t \in Tasks,
             Acquire(t) \/ Send(t) \/ SendFails(t) \/ Confirmed(t) \/ GiveUp(t)
      PROVE  seedBlock'[s] = seedBlock[s] /\ pc'[s] # "committed"
  BY <1>5 DEF Acquire, Send, SendFails, Confirmed, GiveUp, AfterInvoke, TypeOK
<1>6. CASE Seal \/ Restart
  BY <1>6 DEF Seal, Restart, Lost, server, TypeOK
<1> QED
  BY <1>1, <1>2, <1>3, <1>4, <1>5, <1>6 DEF Steps

\* SeedFixedOnceRevealed for any numbers of requests, sessions and failures:
\* a late or repeated confirm-deposit never moves the seed of a bet once it is
\* revealed, and a consumed commitment never comes back.
THEOREM ServerFixesSeed == Spec => SeedFixedOnceRevealed
<1>1. TypeOK /\ [Next]_vars =>
         [\A s \in Sessions :
             pc[s] \notin {"new", "committed"} =>
                 seedBlock'[s] = seedBlock[s] /\ pc'[s] # "committed"]_vars
  BY NextIsSteps, StepsFixSeed
<1> QED
  BY <1>1, ServerTypeCorrect, PTL DEF Spec, SeedFixedOnceRevealed

-----------------------------------------------------------------------------
(* What a confirm-deposit answers. *)

\* A block is found only for a match that succeeded, and a match that
\* succeeded covered the session's stake, which no step undoes.
MatchIsReal ==
    \A r \in Requests :
        /\ pc[r] \in {"new"} \cup Unsent => invoke[r].status = "none"
        /\ found[r] # 0 => invoke[r].status = "ok"
        /\ invoke[r].status = "ok" => stage[reqSession[r]] \in {"covered", "paid"}

LEMMA InitMatch == Init => MatchIsReal
BY ServerAssumption DEF Init, MatchIsReal, NoTx, Tasks

\* Covered and paid sessions stay so.
LEMMA StageGrows ==
    ASSUME TypeOK, NEW s \in Sessions, stage[s] \in {"covered", "paid"},
           \/ UNCHANGED pots
           \/ \E u \in Sessions :
                 Bank!Cover(u) \/ Bank!Stake(Player, u, 1) \/ \E w \in Users : Bank!Pay(u, w)
    PROVE  stage'[s] \in {"covered", "paid"}
BY DEF TypeOK, Bank!TypeOK, Bank!Cover, Bank!Stake, Bank!Pay, pots

LEMMA StepsMatch == TypeOK /\ MatchIsReal /\ Steps => MatchIsReal'
<1> SUFFICES ASSUME TypeOK, MatchIsReal, Steps PROVE MatchIsReal'
  OBVIOUS
<1> USE ServerAssumption DEF Tasks, Go
<1>0. \A r \in Requests : reqSession[r] \in Sessions
  BY DEF TypeOK
<1>1. ASSUME NEW r \in Requests, IncludeMatch(r) PROVE MatchIsReal'
  <2>1. invoke[r].status = "pending" /\ UNCHANGED server
    BY <1>1 DEF IncludeMatch, IncludeInvoke, Includable
  <2>2. \A q \in Requests \ {r} : invoke'[q] = invoke[q]
    BY <1>1 DEF IncludeMatch, IncludeInvoke, TypeOK
  <2>3. \A q \in Requests : stage[reqSession[q]] \in {"covered", "paid"}
                            => stage'[reqSession[q]] \in {"covered", "paid"}
    BY <1>0, <1>1, StageGrows DEF IncludeMatch
  <2>4. invoke'[r].status = "ok" => stage'[reqSession[r]] = "covered"
    <3>1. CASE Bank!Cover(reqSession[r])
      BY <1>0, <3>1 DEF Bank!Cover, TypeOK, Bank!TypeOK
    <3>2. CASE IncludeInvoke(r, "reverted")
      BY <3>2 DEF IncludeInvoke, Executed, TypeOK
    <3> QED
      BY <1>1, <3>1, <3>2 DEF IncludeMatch
  <2> QED
    BY <2>1, <2>2, <2>3, <2>4 DEF MatchIsReal, server
<1>2. ASSUME NEW s \in Sessions, IncludeSettle(s) PROVE MatchIsReal'
  <2>1. \A r \in Requests : invoke'[r] = invoke[r]
    BY <1>2 DEF IncludeSettle, IncludeInvoke, TypeOK
  <2>2. \A r \in Requests : stage[reqSession[r]] \in {"covered", "paid"}
                            => stage'[reqSession[r]] \in {"covered", "paid"}
    BY <1>0, <1>2, StageGrows DEF IncludeSettle
  <2>3. UNCHANGED server
    BY <1>2 DEF IncludeSettle, IncludeInvoke
  <2> QED
    BY <2>1, <2>2, <2>3 DEF MatchIsReal, server
<1>3. ASSUME NEW s \in Sessions, PlayerDeposit(s) PROVE MatchIsReal'
  <2>1. \A r \in Requests : stage[reqSession[r]] \in {"covered", "paid"}
                            => stage'[reqSession[r]] \in {"covered", "paid"}
    BY <1>0, <1>3, StageGrows DEF PlayerDeposit
  <2> QED
    BY <1>3, <2>1 DEF PlayerDeposit, MatchIsReal, server
<1>4. ASSUME NEW s \in Sessions, IncludeProof(s) PROVE MatchIsReal'
  BY <1>4 DEF IncludeProof, MatchIsReal, pots, server
<1>5. ASSUME UNCHANGED <<pots, reqSession, invoke, found>>,
             \A r \in Requests : pc'[r] \in {"new"} \cup Unsent => pc[r] \in {"new"} \cup Unsent
      PROVE  MatchIsReal'
  BY <1>5 DEF MatchIsReal, pots
<1>6. ASSUME NEW s \in Sessions,
             Commit(s) \/ Reveal(s) \/ Prove(s) \/ Submit(s) \/ AwaitInclusion(s)
      PROVE  MatchIsReal'
  <2>1. \A r \in Requests : pc'[r] = pc[r]
    BY <1>6 DEF Commit, Reveal, Prove, Submit, AwaitInclusion, TypeOK
  <2>2. UNCHANGED <<pots, reqSession, invoke, found>>
    BY <1>6 DEF Commit, Reveal, Prove, Submit, AwaitInclusion
  <2> QED
    BY <1>5, <2>1, <2>2
<1>7. ASSUME NEW r \in Requests, ConfirmDeposit(r) \/ Disconnect(r) \/ LockSeed(r)
      PROVE  MatchIsReal'
  BY <1>5, <1>7 DEF ConfirmDeposit, Disconnect, Lost, LockSeed, Unsent, TypeOK
<1>8. ASSUME NEW t \in Tasks, Acquire(t) PROVE MatchIsReal'
  BY <1>5, <1>8 DEF Acquire, Unsent, TypeOK
<1>9. ASSUME NEW t \in Tasks, Send(t) \/ SendFails(t) PROVE MatchIsReal'
  <2>1. \A r \in Requests \ {t} : pc'[r] = pc[r] /\ invoke'[r] = invoke[r]
    BY <1>9 DEF Send, SendFails, TypeOK
  <2>2. t \in Requests => /\ invoke[t].status = "none"
                          /\ invoke'[t].status \in {"none", "pending"}
                          /\ pc'[t] \in {"waiting", "failed"}
    BY <1>9 DEF Send, SendFails, Pending, MatchIsReal, Unsent, TypeOK
  <2>3. UNCHANGED <<pots, reqSession, found>>
    BY <1>9 DEF Send, SendFails
  <2> QED
    BY <2>1, <2>2, <2>3 DEF MatchIsReal, pots, Unsent
<1>10. ASSUME NEW t \in Tasks, Confirmed(t) \/ GiveUp(t) PROVE MatchIsReal'
  <2>1. \A r \in Requests \ {t} : pc'[r] = pc[r] /\ found'[r] = found[r]
    BY <1>10 DEF Confirmed, GiveUp, NoteBlock, TypeOK
  <2>2. pc'[t] \in {"seeding", "result"}
    BY <1>10 DEF Confirmed, GiveUp, AfterInvoke, TypeOK
  <2>3. t \in Requests /\ found'[t] # 0 => invoke[t].status = "ok"
    BY <1>10 DEF Confirmed, GiveUp, NoteBlock, Sealed, TypeOK
  <2>4. UNCHANGED <<pots, reqSession, invoke>>
    BY <1>10 DEF Confirmed, GiveUp
  <2> QED
    BY <2>1, <2>2, <2>3, <2>4 DEF MatchIsReal, pots, Unsent
<1>11. CASE Seal \/ Restart
  BY <1>5, <1>11 DEF Seal, Restart, Lost, Unsent, server, TypeOK
<1> QED
  BY <1>1, <1>2, <1>3, <1>4, <1>6, <1>7, <1>8, <1>9, <1>10, <1>11 DEF Steps

\* MatchedReplyTrue for any numbers of requests, sessions and failures: when
\* confirm-deposit locks the seed at the block of a receipt and answers
\* matched, the house has covered the session's stake.
THEOREM ServerMatchedReplies == Spec => []MatchedReplyTrue
<1>1. Init => MatchIsReal
  BY InitMatch
<1>2. TypeOK /\ MatchIsReal /\ [Next]_vars => MatchIsReal'
  <2> SUFFICES ASSUME TypeOK, MatchIsReal, [Next]_vars PROVE MatchIsReal'
    OBVIOUS
  <2>1. CASE Next
    BY <2>1, NextIsSteps, StepsMatch
  <2>2. CASE UNCHANGED vars
    BY <2>2 DEF vars, server, pots, MatchIsReal
  <2> QED
    BY <2>1, <2>2
<1>3. MatchIsReal => MatchedReplyTrue
  BY DEF MatchIsReal, MatchedReplyTrue
<1> QED
  BY <1>1, <1>2, <1>3, ServerTypeCorrect, PTL DEF Spec

-----------------------------------------------------------------------------
(* The seed. *)

\* A match that succeeded spent its nonce in a block after the commitment, and
\* every block sealed since then counts it.
MatchCounted ==
    \A r \in Requests : invoke[r].status = "ok" =>
        /\ invoke[r].nonce < nonce
        /\ invoke[r].block > commitHead[reqSession[r]]
        /\ \A b \in invoke[r].block .. head : nonceAt[b] > invoke[r].nonce

\* What a request found is the block of its match, and its session was
\* committed before the request began.
FoundIsBlock == \A r \in Requests : found[r] # 0 => invoke[r].block = found[r]
CommittedFirst == \A r \in Requests : pc[r] # "new" => pc[reqSession[r]] # "new"

\* The seed was locked by a request that has answered: at the block it found,
\* if it found one.
SeedFrom ==
    \A s \in Sessions : seedBlock[s] # 0 =>
        \E r \in Requests : /\ reqSession[r] = s /\ pc[r] = "matched"
                            /\ found[r] # 0 => seedBlock[s] = found[r]

SeedInv == MatchCounted /\ FoundIsBlock /\ CommittedFirst /\ SeedFrom

LEMMA InitSeed == Init => SeedInv
BY ServerAssumption
DEF Init, SeedInv, MatchCounted, FoundIsBlock, CommittedFirst, SeedFrom, NoTx, Tasks

\* A task that has answered stays so, and a session stays committed.
LEMMA NeverNew ==
    ASSUME TypeOK, Steps
    PROVE  /\ reqSession' = reqSession
           /\ \A r \in Requests : pc[r] = "matched" => pc'[r] = "matched"
           /\ \A s \in Sessions : pc[s] # "new" => pc'[s] # "new"
           /\ \A r \in Requests : pc'[r] # "new" =>
                  pc[r] # "new" \/ pc[reqSession[r]] = "committed"
<1> USE ServerAssumption DEF Tasks, Go
<1> DEFINE Kept == /\ reqSession' = reqSession
                   /\ \A r \in Requests : pc[r] = "matched" => pc'[r] = "matched"
                   /\ \A s \in Sessions : pc[s] # "new" => pc'[s] # "new"
                   /\ \A r \in Requests : pc'[r] # "new" =>
                          pc[r] # "new" \/ pc[reqSession[r]] = "committed"
<1>1. ASSUME UNCHANGED server PROVE Kept
  BY <1>1 DEF server
<1>2. ASSUME NEW r \in Requests, IncludeMatch(r) PROVE Kept
  BY <1>1, <1>2 DEF IncludeMatch, IncludeInvoke
<1>3. ASSUME NEW s \in Sessions, IncludeSettle(s) \/ IncludeProof(s) \/ PlayerDeposit(s)
      PROVE  Kept
  BY <1>1, <1>3 DEF IncludeSettle, IncludeInvoke, IncludeProof, PlayerDeposit
<1>4. ASSUME NEW r \in Requests, ConfirmDeposit(r) \/ Disconnect(r) \/ LockSeed(r) PROVE Kept
  BY <1>4 DEF ConfirmDeposit, Disconnect, Active, Ended, Lost, LockSeed, TypeOK
<1>5. ASSUME NEW s \in Sessions,
             Commit(s) \/ Reveal(s) \/ Prove(s) \/ Submit(s) \/ AwaitInclusion(s)
      PROVE  Kept
  BY <1>5 DEF Commit, Reveal, Prove, Submit, AwaitInclusion, TypeOK
<1>6. ASSUME NEW t \in Tasks, Acquire(t) \/ Send(t) \/ SendFails(t) PROVE Kept
  BY <1>6 DEF Acquire, Send, SendFails, TypeOK
<1>7. ASSUME NEW t \in Tasks, Confirmed(t) \/ GiveUp(t) PROVE Kept
  BY <1>7 DEF Confirmed, GiveUp, AfterInvoke, TypeOK
<1>8. CASE Seal
  BY <1>1, <1>8 DEF Seal
<1>9. CASE Restart
  <2>1. \A t \in Tasks : pc[t] \in {"new", "matched"} => ~Active(t)
    BY DEF Active, Ended
  <2> QED
    BY <1>9, <2>1 DEF Restart, Lost, TypeOK
<1> QED
  BY <1>2, <1>3, <1>4, <1>5, <1>6, <1>7, <1>8, <1>9 DEF Steps

\* The numbers in it.
LEMMA SeedTypes ==
    ASSUME TypeOK
    PROVE  /\ head \in Nat \ {0} /\ nonce \in Nat
           /\ \A b \in 1 .. head : nonceAt[b] \in Nat
           /\ \A r \in Requests : /\ invoke[r].nonce \in Nat /\ invoke[r].block \in Nat
                                  /\ reqSession[r] \in Sessions
                                  /\ commitHead[reqSession[r]] \in 0 .. head
<1>1. /\ head \in Nat \ {0} /\ nonce \in Nat
      /\ \A b \in 1 .. head : nonceAt[b] \in Nat
  BY DEF TypeOK
<1>2. ASSUME NEW r \in Requests PROVE invoke[r].nonce \in Nat /\ invoke[r].block \in Nat
  <2>1. invoke[r] \in [status : TxStatus, nonce : 0 .. nonce, block : 0 .. head + 1]
    BY DEF TypeOK, TxRec, Tasks
  <2> QED
    BY <1>1, <2>1
<1>3. \A r \in Requests :
         reqSession[r] \in Sessions /\ commitHead[reqSession[r]] \in 0 .. head
  BY DEF TypeOK
<1> QED
  BY <1>1, <1>2, <1>3

LEMMA StepsSeed == TypeOK /\ MatchIsReal /\ SeedInv /\ Steps => SeedInv'
<1> SUFFICES ASSUME TypeOK, MatchIsReal, SeedInv, Steps PROVE SeedInv'
  OBVIOUS
<1> USE ServerAssumption DEF Tasks, Go
<1>1. CommittedFirst'
  BY SeedTypes, NeverNew DEF SeedInv, CommittedFirst
<1>2. ASSUME UNCHANGED <<head, nonceAt, found, commitHead, seedBlock>>, nonce' \in Nat,
             nonce' >= nonce, \A r \in Requests : invoke'[r] = invoke[r]
      PROVE  SeedInv'
  <2>1. MatchCounted'
    <3> SUFFICES ASSUME NEW r \in Requests, invoke[r].status = "ok"
                 PROVE  /\ invoke[r].nonce < nonce'
                        /\ invoke[r].block > commitHead[reqSession[r]]
                        /\ \A b \in invoke[r].block .. head : nonceAt[b] > invoke[r].nonce
      BY <1>2, NeverNew DEF MatchCounted
    <3> QED
      BY <1>2, SeedTypes DEF SeedInv, MatchCounted
  <2>2. FoundIsBlock' /\ SeedFrom'
    BY <1>2, NeverNew DEF SeedInv, FoundIsBlock, SeedFrom
  <2> QED
    BY <1>1, <2>1, <2>2 DEF SeedInv
<1>3. ASSUME NEW r \in Requests, IncludeMatch(r) PROVE SeedInv'
  <2>1. /\ UNCHANGED <<head, nonceAt, found, commitHead, seedBlock>> /\ nonce' = nonce + 1
        /\ \A q \in Requests \ {r} : invoke'[q] = invoke[q]
        /\ invoke[r].status = "pending" /\ invoke[r].nonce = nonce
        /\ invoke'[r].nonce = nonce /\ invoke'[r].block = head + 1
    BY <1>3 DEF IncludeMatch, IncludeInvoke, Includable, SpendNonce, Executed, server, TypeOK
  <2>2. found[r] = 0
    BY <2>1 DEF MatchIsReal
  <2>3. MatchCounted'
    <3>1. ASSUME NEW q \in Requests \ {r}, invoke[q].status = "ok"
          PROVE  /\ invoke[q].nonce < nonce'
                 /\ invoke[q].block > commitHead[reqSession[q]]
                 /\ \A b \in invoke[q].block .. head : nonceAt[b] > invoke[q].nonce
      BY <2>1, <3>1, SeedTypes DEF SeedInv, MatchCounted
    <3>2. /\ invoke'[r].nonce < nonce'
          /\ invoke'[r].block > commitHead[reqSession[r]]
          /\ invoke'[r].block .. head = {}
      BY <2>1, SeedTypes
    <3> QED
      BY <2>1, <3>1, <3>2, NeverNew DEF MatchCounted
  <2>4. FoundIsBlock' /\ SeedFrom'
    BY <2>1, <2>2, NeverNew DEF SeedInv, FoundIsBlock, SeedFrom
  <2> QED
    BY <1>1, <2>3, <2>4 DEF SeedInv
<1>4. ASSUME NEW s \in Sessions, IncludeSettle(s) \/ IncludeProof(s) PROVE SeedInv'
  <2>1. /\ UNCHANGED <<head, nonceAt, found, commitHead, seedBlock>> /\ nonce' = nonce + 1
        /\ \A q \in Requests : invoke'[q] = invoke[q]
    BY <1>4 DEF IncludeSettle, IncludeInvoke, IncludeProof, SpendNonce, server, TypeOK
  <2> QED
    BY <1>2, <2>1 DEF TypeOK
<1>5. ASSUME NEW s \in Sessions,
             PlayerDeposit(s) \/ Reveal(s) \/ Prove(s) \/ Submit(s) \/ AwaitInclusion(s)
      PROVE  SeedInv'
  <2>1. UNCHANGED <<head, nonce, nonceAt, found, commitHead, seedBlock, invoke>>
    BY <1>5 DEF PlayerDeposit, Reveal, Prove, Submit, AwaitInclusion, chain, server
  <2> QED
    BY <1>2, <2>1 DEF TypeOK
<1>6. ASSUME NEW s \in Sessions, Commit(s) PROVE SeedInv'
  <2>1. /\ UNCHANGED <<head, nonce, nonceAt, found, seedBlock, invoke>>
        /\ \A u \in Sessions \ {s} : commitHead'[u] = commitHead[u]
    BY <1>6 DEF Commit, chain, TypeOK
  <2>2. \A r \in Requests : invoke[r].status = "ok" => reqSession[r] # s
    BY <1>6 DEF Commit, MatchIsReal, SeedInv, CommittedFirst
  <2>3. MatchCounted'
    BY SeedTypes, <2>1, <2>2, NeverNew DEF SeedInv, MatchCounted
  <2>4. FoundIsBlock' /\ SeedFrom'
    BY <2>1, NeverNew DEF SeedInv, FoundIsBlock, SeedFrom
  <2> QED
    BY <1>1, <2>3, <2>4 DEF SeedInv
<1>7. ASSUME NEW r \in Requests, ConfirmDeposit(r) \/ Disconnect(r) PROVE SeedInv'
  <2>1. UNCHANGED <<head, nonce, nonceAt, found, commitHead, seedBlock, invoke>>
    BY <1>7 DEF ConfirmDeposit, Disconnect, chain
  <2> QED
    BY <1>2, <2>1 DEF TypeOK
<1>8. ASSUME NEW r \in Requests, LockSeed(r) PROVE SeedInv'
  <2>1. UNCHANGED <<head, nonce, nonceAt, found, commitHead, invoke>>
    BY <1>8 DEF LockSeed, chain
  <2>2. MatchCounted' /\ FoundIsBlock'
    BY <2>1, NeverNew DEF SeedInv, MatchCounted, FoundIsBlock
  <2>3. pc'[r] = "matched"
    BY <1>8 DEF LockSeed, TypeOK
  <2>4. PICK b \in Nat, d \in DeployBlocks :
            /\ found[r] # 0 => b = found[r]
            /\ seedBlock' = SeedWritten(reqSession[r], Larger(b, d))
    BY <1>8 DEF LockSeed, TypeOK
  <2>5. found[r] # 0 => Larger(b, d) = found[r]
    BY <2>4 DEF Larger, DeployBlocks, DeployBlock
  <2>6. ASSUME NEW s \in Sessions
        PROVE  seedBlock'[s] = seedBlock[s]
               \/ (s = reqSession[r] /\ (found[r] # 0 => seedBlock'[s] = found[r]))
    BY <2>4, <2>5 DEF SeedWritten, TypeOK
  <2>7. SeedFrom'
    BY <2>1, <2>3, <2>6, NeverNew DEF SeedInv, SeedFrom
  <2> QED
    BY <1>1, <2>2, <2>7 DEF SeedInv
<1>9. ASSUME NEW t \in Tasks, Acquire(t) PROVE SeedInv'
  <2>1. UNCHANGED <<head, nonce, nonceAt, found, commitHead, seedBlock, invoke>>
    BY <1>9 DEF Acquire, chain
  <2> QED
    BY <1>2, <2>1 DEF TypeOK
<1>10. ASSUME NEW t \in Tasks, Send(t) \/ SendFails(t) PROVE SeedInv'
  <2>1. /\ UNCHANGED <<head, nonce, nonceAt, found, commitHead, seedBlock>>
        /\ \A r \in Requests \ {t} : invoke'[r] = invoke[r]
    BY <1>10 DEF Send, SendFails, chain, TypeOK
  <2>2. t \in Requests => found[t] = 0 /\ invoke[t].status = "none"
    BY <1>10 DEF Send, SendFails, MatchIsReal, Unsent
  <2>3. invoke' = invoke \/ invoke' = [invoke EXCEPT ![t] = Pending]
    BY <1>10 DEF Send, SendFails
  <2>4. t \in Requests => invoke'[t].status \in {"none", "pending"}
    BY <2>2, <2>3 DEF Pending, TypeOK
  <2>5. MatchCounted'
    BY <2>1, <2>4, NeverNew DEF SeedInv, MatchCounted
  <2>6. FoundIsBlock' /\ SeedFrom'
    BY <2>1, <2>2, NeverNew DEF SeedInv, FoundIsBlock, SeedFrom
  <2> QED
    BY <1>1, <2>5, <2>6 DEF SeedInv
<1>11. ASSUME NEW t \in Tasks, Confirmed(t) \/ GiveUp(t) PROVE SeedInv'
  <2>1. /\ UNCHANGED <<head, nonce, nonceAt, commitHead, seedBlock, invoke>>
        /\ \A r \in Requests \ {t} : found'[r] = found[r]
        /\ pc[t] = "waiting"
    BY <1>11 DEF Confirmed, GiveUp, NoteBlock, chain, TypeOK
  <2>2. t \in Requests => found'[t] \in {0, invoke[t].block}
    BY <1>11 DEF Confirmed, GiveUp, NoteBlock, TypeOK
  <2>3. MatchCounted'
    BY <2>1, NeverNew DEF SeedInv, MatchCounted
  <2>4. FoundIsBlock' /\ SeedFrom'
    BY <2>1, <2>2, NeverNew DEF SeedInv, FoundIsBlock, SeedFrom
  <2> QED
    BY <1>1, <2>3, <2>4 DEF SeedInv
<1>12. CASE Seal
  <2>1. /\ UNCHANGED <<nonce, found, commitHead, seedBlock, invoke>> /\ head' = head + 1
        /\ nonceAt'[head + 1] = nonce
        /\ \A b \in 1 .. head : nonceAt'[b] = nonceAt[b]
    BY <1>12 DEF Seal, server, TypeOK
  <2>2. MatchCounted'
    <3>1. ASSUME NEW r \in Requests, invoke[r].status = "ok",
                 NEW b \in invoke[r].block .. head + 1
          PROVE  nonceAt'[b] > invoke[r].nonce
      <4>1. (b \in invoke[r].block .. head /\ b \in 1 .. head) \/ b = head + 1
        BY <3>1, SeedTypes DEF SeedInv, MatchCounted
      <4> QED
        BY <2>1, <3>1, <4>1, SeedTypes DEF SeedInv, MatchCounted
    <3> QED
      BY <2>1, <3>1, NeverNew DEF SeedInv, MatchCounted
  <2>3. FoundIsBlock' /\ SeedFrom'
    BY <2>1, NeverNew DEF SeedInv, FoundIsBlock, SeedFrom
  <2> QED
    BY <1>1, <2>2, <2>3 DEF SeedInv
<1>13. CASE Restart
  <2>1. UNCHANGED <<head, nonce, nonceAt, found, commitHead, seedBlock, invoke>>
    BY <1>13 DEF Restart, chain
  <2> QED
    BY <1>2, <2>1 DEF TypeOK
<1> QED
  BY <1>3, <1>4, <1>5, <1>6, <1>7, <1>8, <1>9, <1>10, <1>11, <1>12, <1>13 DEF Steps

LEMMA SeedInvariant == Spec => [](MatchIsReal /\ SeedInv)
<1>1. Init => MatchIsReal /\ SeedInv
  BY InitMatch, InitSeed
<1>2. TypeOK /\ MatchIsReal /\ SeedInv /\ [Next]_vars => MatchIsReal' /\ SeedInv'
  <2> SUFFICES ASSUME TypeOK, MatchIsReal, SeedInv, [Next]_vars PROVE MatchIsReal' /\ SeedInv'
    OBVIOUS
  <2>1. CASE Next
    BY <2>1, NextIsSteps, StepsMatch, StepsSeed
  <2>2. CASE UNCHANGED vars
    BY <2>2 DEF vars, chain, server, pots, MatchIsReal,
                SeedInv, MatchCounted, FoundIsBlock, CommittedFirst, SeedFrom
  <2> QED
    BY <2>1, <2>2
<1> QED
  BY <1>1, <1>2, ServerTypeCorrect, PTL DEF Spec

\* ReceiptSeedIsSound for any numbers of requests, sessions and failures: a
\* seed that LockSeed takes from receipts alone is the block of a match that
\* succeeded, sealed after commit_bet, and counts that match's nonce.
THEOREM ServerSeedsAreSound == Spec => []ReceiptSeedIsSound
<1>1. TypeOK /\ MatchIsReal /\ SeedInv => ReceiptSeedIsSound
  <2> SUFFICES ASSUME TypeOK, MatchIsReal, SeedInv, NEW s \in Sessions, seedBlock[s] # 0,
                      \A r \in Confirms(s) : pc[r] = "matched" => found[r] # 0
               PROVE  /\ seedBlock[s] > commitHead[s]
                      /\ \E r \in Confirms(s) : /\ nonceAt[seedBlock[s]] > invoke[r].nonce
                                                /\ invoke[r].status = "ok"
    BY DEF ReceiptSeedIsSound
  <2>1. PICK r \in Requests : /\ reqSession[r] = s /\ pc[r] = "matched"
                              /\ found[r] # 0 => seedBlock[s] = found[r]
    BY DEF SeedInv, SeedFrom
  <2>2. r \in Confirms(s)
    BY <2>1 DEF Confirms
  <2>3. invoke[r].status = "ok" /\ invoke[r].block = seedBlock[s]
    BY <2>1, <2>2 DEF MatchIsReal, SeedInv, FoundIsBlock
  <2>4. seedBlock[s] \in 0 .. head /\ head \in Nat
    BY DEF TypeOK
  <2>5. seedBlock[s] > commitHead[s] /\ nonceAt[seedBlock[s]] > invoke[r].nonce
    BY <2>1, <2>3, <2>4 DEF SeedInv, MatchCounted
  <2> QED
    BY <2>2, <2>3, <2>5
<1> QED
  BY <1>1, SeedInvariant, ServerTypeCorrect, PTL
=============================================================================
