------------------------- MODULE DeploymentsProofs -------------------------
(***************************************************************************)
(* Proofs about Deployments for any numbers of requests, sessions and      *)
(* failures: types, what a restart finds, and when a deployment in use is  *)
(* replaced or a stake stranded.                                           *)
(***************************************************************************)
EXTENDS Deployments, TLAPS

\* Every step, action by action.
Steps ==
    \/ \E t \in Tasks : Check(t) \/ Acquire(t) \/ Deploy(t) \/ Store(t) \/ Disconnect(t)
    \/ \E t \in Tasks : ReadCoinflip(t) \/ ReadBank(t) \/ Truncate(t) \/ Write(t)
    \/ \E b \in Banks : ApproveBank(b) \/ FundBank(b)
    \/ \E s \in Sessions : DepositInfo(s) \/ ConfirmDeposit(s) \/ Settle(s)
    \/ Restart

LEMMA NextIsSteps == Next => Steps
BY DEF Next, Steps, Work

Stages == {"new"} \cup PastCheck \cup Saving \cup Ended

-----------------------------------------------------------------------------
(* Types. *)

LEMMA InitTypeOK == Init => TypeOK
<1> SUFFICES ASSUME Init PROVE TypeOK
  OBVIOUS
<1>1. NoDeployments \in Registry
  BY DEF NoDeployments, Registry
<1>2. pc \in [Tasks -> Stages] /\ faults \in 0 .. MaxFaults
  BY DeploymentsAssumption DEF Init, Stages
<1>4. dirty \in BOOLEAN
  BY DEF Init
<1>3. /\ play \in [Sessions -> {"new", "staked", "matched", "paid", "stranded", "lost"}]
      /\ staked \in [Sessions -> Banks \cup {None}]
      /\ overlapped \in [Tasks -> SUBSET Tasks]
  BY DEF Init
<1> QED
  BY <1>1, <1>2, <1>3, <1>4 DEF Init, TypeOK, Stages

LEMMA FaultTyped ==
    ASSUME faults \in 0 .. MaxFaults, UNCHANGED faults \/ Fault
    PROVE  faults' \in 0 .. MaxFaults
BY DeploymentsAssumption DEF Fault

\* A request's own step: it moves pc[t] and keeps what the rest of TypeOK needs.
LEMMA GoTyped ==
    ASSUME TypeOK, NEW t \in Tasks, NEW to \in Stages, Go(t, to)
    PROVE  pc' \in [Tasks -> Stages]
BY DEF TypeOK, Go, Stages

\* Every step keeps every type.
LEMMA StepsTyped == TypeOK /\ Steps => TypeOK'
<1> SUFFICES ASSUME TypeOK, Steps PROVE TypeOK'
  OBVIOUS
<1> USE DEF Stages
<1>0. NoDeployments \in Registry
  BY DEF NoDeployments, Registry
<1>1. ASSUME NEW t \in Tasks, Check(t) PROVE TypeOK'
  <2>1. pc' \in [Tasks -> Stages]
    BY <1>1, GoTyped DEF Check, PastCheck, NeedsLock, Ended
  <2> QED
    BY <1>1, <2>1 DEF TypeOK, Check, sessions
<1>2. ASSUME NEW t \in Tasks, Acquire(t) PROVE TypeOK'
  BY <1>2 DEF TypeOK, Acquire, sessions
<1>3. ASSUME NEW t \in Tasks, Deploy(t) PROVE TypeOK'
  <2>1. pc' \in [Tasks -> Stages]
    BY <1>3, GoTyped DEF Deploy, PastCheck, NeedsLock, Ended
  <2>2. faults' \in 0 .. MaxFaults
    BY <1>3, FaultTyped DEF Deploy, TypeOK
  <2> QED
    BY <1>3, <2>1, <2>2 DEF TypeOK, Deploy, Release, sessions
<1>4. ASSUME NEW t \in Tasks, Store(t) PROVE TypeOK'
  <2>1. pc' \in [Tasks -> Stages]
    BY <1>4, GoTyped DEF Store, Saving
  <2>2. memory' \in Registry
    BY <1>4 DEF TypeOK, Store, Registry, Tasks
  <2>3. overlapped' \in [Tasks -> SUBSET Tasks]
    BY <1>4 DEF TypeOK, Store, Kind, Tasks
  <2> QED
    BY <1>4, <2>1, <2>2, <2>3 DEF TypeOK, Store, sessions
<1>5. ASSUME NEW t \in Tasks, Disconnect(t) PROVE TypeOK'
  <2>1. pc' \in [Tasks -> Stages]
    BY <1>5, GoTyped DEF Disconnect, Ended
  <2>2. faults' \in 0 .. MaxFaults
    BY <1>5, FaultTyped DEF Disconnect, TypeOK
  <2> QED
    BY <1>5, <2>1, <2>2 DEF TypeOK, Disconnect, sessions
<1>6. ASSUME NEW t \in Tasks, ReadCoinflip(t) \/ ReadBank(t) PROVE TypeOK'
  <2>1. pc' \in [Tasks -> Stages]
    BY <1>6, GoTyped DEF ReadCoinflip, ReadBank, Saving
  <2>2. snap' \in [Tasks -> Registry]
    <3>1. snap[t] \in Registry /\ memory \in Registry
      BY DEF TypeOK
    <3>2. /\ [snap[t] EXCEPT !.coinflip = memory.coinflip] \in Registry
          /\ [snap[t] EXCEPT !.bank = memory.bank] \in Registry
      BY <3>1 DEF Registry
    <3> QED
      BY <1>6, <3>2 DEF TypeOK, ReadCoinflip, ReadBank
  <2> QED
    BY <1>6, <2>1, <2>2 DEF TypeOK, ReadCoinflip, ReadBank, sessions
<1>7. ASSUME NEW t \in Tasks, Truncate(t) PROVE TypeOK'
  <2>1. pc' \in [Tasks -> Stages]
    BY <1>7, GoTyped DEF Truncate, Saving, Ended
  <2>2. faults' \in 0 .. MaxFaults
    BY <1>7, FaultTyped DEF Truncate, TypeOK
  <2> QED
    BY <1>0, <1>7, <2>1, <2>2 DEF TypeOK, Truncate, sessions
<1>8. ASSUME NEW t \in Tasks, Write(t) PROVE TypeOK'
  <2>1. pc' \in [Tasks -> Stages]
    BY <1>8, GoTyped DEF Write, Ended
  <2>2. faults' \in 0 .. MaxFaults
    BY <1>8, FaultTyped DEF Write, TypeOK
  <2> QED
    BY <1>0, <1>8, <2>1, <2>2 DEF TypeOK, Write, sessions
<1>9. ASSUME NEW b \in Banks, ApproveBank(b) \/ FundBank(b) PROVE TypeOK'
  <2>1. b \in Tasks
    BY DEF Tasks
  <2>2. pc' \in [Tasks -> Stages]
    BY <1>9, <2>1, GoTyped DEF ApproveBank, FundBank, PastCheck, NeedsLock, Ended
  <2>3. faults' \in 0 .. MaxFaults
    BY <1>9, FaultTyped DEF ApproveBank, FundBank, TypeOK
  <2> QED
    BY <1>9, <2>2, <2>3 DEF TypeOK, ApproveBank, FundBank, Release, sessions
<1>10. ASSUME NEW s \in Sessions, DepositInfo(s) \/ ConfirmDeposit(s) \/ Settle(s) PROVE TypeOK'
  BY <1>10 DEF TypeOK, DepositInfo, ConfirmDeposit, Settle, Seated, requests, Registry
<1>11. ASSUME Restart PROVE TypeOK'
  <2>1. faults' \in 0 .. MaxFaults
    BY <1>11, FaultTyped DEF Restart, TypeOK
  <2> QED
    BY <1>11, <2>1 DEF TypeOK, Restart, Ended
<1> QED
  BY <1>1, <1>2, <1>3, <1>4, <1>5, <1>6, <1>7, <1>8, <1>9, <1>10, <1>11 DEF Steps

LEMMA StutterTyped == TypeOK /\ UNCHANGED vars => TypeOK'
BY DEF TypeOK, vars, requests, sessions

\* Every variable of the server, the file and the sessions keeps its type.
THEOREM DeploymentsTypeCorrect == Spec => []TypeOK
<1>1. Init => TypeOK
  BY InitTypeOK
<1>2. TypeOK /\ [Next]_vars => TypeOK'
  BY NextIsSteps, StepsTyped, StutterTyped
<1> QED
  BY <1>1, <1>2, PTL DEF Spec

-----------------------------------------------------------------------------
(* What a restart finds. *)

\* Unless a save overlapped or was cut short, at most one is under way, it has
\* read what the server holds, and it writes alone.
SaveInv ==
    /\ \A t \in overwritten : pc[t] = "write"
    /\ ~dirty =>
          /\ \A t, u \in Tasks : IsSaving(t) /\ IsSaving(u) => t = u
          /\ \A t \in Tasks :
                /\ pc[t] = "readBank" => snap[t].coinflip = memory.coinflip
                /\ pc[t] \in {"truncate", "write"} => snap[t] = memory
          /\ overwritten = {}
          /\ (\A t \in Tasks : ~IsSaving(t)) => file = memory

LEMMA InitSaveInv == Init => SaveInv
BY DEF Init, SaveInv, IsSaving, Saving

\* Requests that do not touch the save leave it as it is.
LEMMA NoSaveStep ==
    ASSUME TypeOK, SaveInv, NEW t \in Tasks, NEW to \in Stages \ Saving,
           ~IsSaving(t), Go(t, to), UNCHANGED <<memory, file, snap, overwritten, dirty>>
    PROVE  SaveInv'
<1>1. /\ \A u \in Tasks : u # t => pc'[u] = pc[u]
      /\ pc'[t] = to
  BY DEF TypeOK, Go
<1>2. \A u \in Tasks : IsSaving(u)' <=> IsSaving(u)
  BY <1>1 DEF IsSaving
<1>3. \A u \in Tasks : IsSaving(u) => pc'[u] = pc[u]
  BY <1>1
<1>4. \A u \in overwritten : pc'[u] = "write"
  BY <1>3 DEF SaveInv, IsSaving, Saving, TypeOK
<1>5. \A u \in Tasks : pc'[u] \in Saving => pc'[u] = pc[u]
  BY <1>2, <1>3 DEF IsSaving
<1> QED
  BY <1>2, <1>4, <1>5 DEF SaveInv, Saving

LEMMA StepsSaveInv == TypeOK /\ SaveInv /\ Steps => SaveInv'
<1> SUFFICES ASSUME TypeOK, SaveInv, Steps PROVE SaveInv'
  OBVIOUS
<1>0. \A t \in Tasks : pc[t] \in Stages /\ snap[t] \in Registry
  BY DEF TypeOK, Stages
<1>1. ASSUME NEW t \in Tasks, Check(t) PROVE SaveInv'
  BY <1>1, NoSaveStep DEF Check, Stages, PastCheck, NeedsLock, Saving, Ended, IsSaving
<1>2. ASSUME NEW t \in Tasks, Acquire(t) PROVE SaveInv'
  BY <1>2 DEF Acquire, SaveInv, IsSaving
<1>3. ASSUME NEW t \in Tasks, Deploy(t) PROVE SaveInv'
  BY <1>3, NoSaveStep DEF Deploy, Stages, PastCheck, NeedsLock, Saving, Ended, IsSaving
<1>4. ASSUME NEW b \in Banks, ApproveBank(b) \/ FundBank(b) PROVE SaveInv'
  <2>1. b \in Tasks
    BY DEF Tasks
  <2> QED
    BY <1>4, <2>1, NoSaveStep
    DEF ApproveBank, FundBank, Stages, PastCheck, NeedsLock, Saving, Ended, IsSaving
<1>5. ASSUME NEW t \in Tasks, Store(t) PROVE SaveInv'
  <2>1. /\ \A u \in Tasks : u # t => pc'[u] = pc[u]
        /\ pc'[t] = "readCoinflip"
        /\ pc[t] = "store"
    BY <1>5 DEF Store, Go, TypeOK
  <2>2. \A u \in overwritten' : pc'[u] = "write"
    BY <1>5, <2>1 DEF Store, SaveInv, TypeOK
  <2>3. CASE \E u \in Tasks : IsSaving(u)
    BY <1>5, <2>2, <2>3 DEF Store, SaveInv
  <2>4. CASE \A u \in Tasks : ~IsSaving(u)
    <3>1. \A u \in Tasks : IsSaving(u)' => u = t
      BY <2>1, <2>4 DEF IsSaving
    <3>2. overwritten' = {}
      BY <1>5, <2>4 DEF Store, SaveInv, IsSaving, Saving, TypeOK
    <3>3. IsSaving(t)'
      BY <2>1 DEF IsSaving, Saving
    <3>4. \A u \in Tasks : pc'[u] \notin {"readBank", "truncate", "write"}
      BY <2>1, <2>4 DEF IsSaving, Saving
    <3> QED
      BY <2>2, <3>1, <3>2, <3>3, <3>4 DEF SaveInv
  <2> QED
    BY <2>3, <2>4
<1>6. ASSUME NEW t \in Tasks, ReadCoinflip(t) \/ ReadBank(t) PROVE SaveInv'
  <2>1. /\ \A u \in Tasks : u # t => pc'[u] = pc[u] /\ snap'[u] = snap[u]
        /\ IsSaving(t) /\ IsSaving(t)'
        /\ UNCHANGED <<memory, file, overwritten, dirty>>
    BY <1>6 DEF ReadCoinflip, ReadBank, Go, TypeOK, IsSaving, Saving
  <2>2. \A u \in Tasks : IsSaving(u)' <=> IsSaving(u)
    BY <2>1 DEF IsSaving
  <2>3. \A u \in overwritten' : pc'[u] = "write"
    BY <1>6, <2>1 DEF ReadCoinflip, ReadBank, SaveInv, TypeOK
  <2>4. /\ pc'[t] = "readBank" => snap'[t].coinflip = memory.coinflip
        /\ pc'[t] # "write"
    BY <1>0, <1>6 DEF ReadCoinflip, ReadBank, Go, TypeOK, Registry
  <2>5. ~dirty /\ pc'[t] = "truncate" => snap'[t] = memory
    BY <1>0, <1>6 DEF ReadCoinflip, ReadBank, Go, TypeOK, Registry, SaveInv
  <2> QED
    BY <2>1, <2>2, <2>3, <2>4, <2>5 DEF SaveInv
<1>7. ASSUME NEW t \in Tasks, Truncate(t) PROVE SaveInv'
  <2>1. /\ \A u \in Tasks : u # t => pc'[u] = pc[u]
        /\ pc'[t] \in {"write", "done"} /\ pc[t] = "truncate"
        /\ UNCHANGED <<memory, snap, overwritten>>
    BY <1>7 DEF Truncate, Go, TypeOK
  <2>2. \A u \in overwritten' : pc'[u] = "write"
    BY <2>1 DEF SaveInv, TypeOK
  <2>3. CASE pc'[t] = "done"
    BY <1>7, <2>2, <2>3 DEF Truncate, SaveInv, Go, TypeOK
  <2>4. CASE pc'[t] = "write"
    <3>1. UNCHANGED dirty
      BY <1>7, <2>4 DEF Truncate, Go, TypeOK
    <3>2. \A u \in Tasks : IsSaving(u)' <=> IsSaving(u)
      BY <2>1, <2>4 DEF IsSaving, Saving
    <3>3. IsSaving(t)
      BY <2>1 DEF IsSaving, Saving
    <3> QED
      BY <2>1, <2>2, <2>4, <3>1, <3>2, <3>3 DEF SaveInv
  <2> QED
    BY <2>1, <2>3, <2>4
<1>8. ASSUME NEW t \in Tasks, Write(t) PROVE SaveInv'
  <2>1. /\ \A u \in Tasks : u # t => pc'[u] = pc[u] /\ snap'[u] = snap[u]
        /\ pc[t] = "write" /\ pc'[t] = "done"
        /\ UNCHANGED memory /\ (dirty => dirty')
        /\ ~dirty' => file' = snap[t] \/ t \in overwritten
    BY <1>8 DEF Write, Go, TypeOK
  <2>2. \A u \in overwritten' : pc'[u] = "write"
    BY <1>8, <2>1 DEF Write
  <2>3. CASE dirty'
    BY <2>2, <2>3 DEF SaveInv
  <2>4. CASE ~dirty'
    <3>1. \A u \in Tasks : u # t => ~IsSaving(u)
      BY <2>1, <2>4 DEF SaveInv, IsSaving, Saving
    <3>2. \A u \in Tasks : ~IsSaving(u)'
      BY <2>1, <3>1 DEF IsSaving, Saving
    <3>3. overwritten' = {}
      BY <1>8, <3>1 DEF Write, IsSaving, Saving
    <3>4. file' = memory
      BY <2>1, <2>4 DEF SaveInv
    <3> QED
      BY <2>1, <2>2, <3>2, <3>3, <3>4 DEF SaveInv, IsSaving, Saving
  <2> QED
    BY <2>3, <2>4
<1>9. ASSUME NEW s \in Sessions, DepositInfo(s) \/ ConfirmDeposit(s) \/ Settle(s) PROVE SaveInv'
  BY <1>9 DEF DepositInfo, ConfirmDeposit, Settle, requests, SaveInv, IsSaving
<1>10. ASSUME NEW t \in Tasks, Disconnect(t) PROVE SaveInv'
  <2>1. CASE IsSaving(t)
    <3>1. /\ \A u \in Tasks : u # t => pc'[u] = pc[u]
          /\ dirty' = TRUE /\ overwritten' = overwritten
      BY <1>10, <2>1 DEF Disconnect, Go, TypeOK
    <3>2. pc[t] # "write"
      BY <1>10 DEF Disconnect, PastCheck, NeedsLock
    <3> QED
      BY <3>1, <3>2 DEF SaveInv, TypeOK
  <2>2. CASE ~IsSaving(t)
    <3>1. dirty' = dirty
      BY <1>10, <2>2 DEF Disconnect, TypeOK
    <3> QED
      BY <1>10, <2>2, <3>1, NoSaveStep DEF Disconnect, Stages, Saving, Ended
  <2> QED
    BY <2>1, <2>2
<1>11. ASSUME Restart PROVE SaveInv'
  <2>1. \A t \in Tasks : pc'[t] \in Ended \cup {"new"}
    BY <1>11 DEF Restart, Ended
  <2>2. \A t \in Tasks : ~IsSaving(t)'
    BY <2>1 DEF IsSaving, Saving, Ended
  <2> QED
    BY <1>11, <2>1, <2>2 DEF Restart, SaveInv, IsSaving, Saving, Ended
<1> QED
  BY <1>1, <1>2, <1>3, <1>4, <1>5, <1>6, <1>7, <1>8, <1>9, <1>10, <1>11 DEF Steps

LEMMA StutterSaveInv == SaveInv /\ UNCHANGED vars => SaveInv'
BY DEF SaveInv, vars, requests, IsSaving

\* A restart finds what the server held, unless the last save ran beside
\* another one, failed or was cut short.
THEOREM DeploymentsSurviveRestart == Spec => []RestartKeepsDeployments
<1>1. Init => SaveInv
  BY InitSaveInv
<1>2. TypeOK /\ SaveInv /\ [Next]_vars => SaveInv'
  BY NextIsSteps, StepsSaveInv, StutterSaveInv
<1>3. SaveInv => RestartKeepsDeployments
  BY DEF SaveInv, RestartKeepsDeployments
<1> QED
  BY <1>1, <1>2, <1>3, DeploymentsTypeCorrect, PTL DEF Spec

-----------------------------------------------------------------------------
(* Replacement. *)

\* A request that is past its check while a deployment of its kind is in use
\* was already deploying when that one was stored; what is stored anywhere is
\* the contract of a request past its store; and a session in play still
\* finds its bank, or another was being deployed with it.
Past(t) == pc[t] \in {"new"} \cup PastCheck

Known(reg) == \A t \in Tasks : Past(t) => t # reg.coinflip /\ t # reg.bank

OverlapInv ==
    /\ Known(memory) /\ Known(file)
    /\ \A t \in Tasks : Known(snap[t])
    /\ \A g \in Games : pc[g] \in PastCheck /\ memory.coinflip # None =>
                             g \in overlapped[memory.coinflip]
    /\ \A b \in Banks : pc[b] \in PastCheck /\ memory.bank # None =>
                             b \in overlapped[memory.bank]

StrandInv ==
    \A s \in Sessions :
        /\ play[s] # "new" => staked[s] \in Banks /\ ~Past(staked[s])
        /\ play[s] \in {"staked", "matched"} =>
               memory.bank = staked[s] \/ overlapped[staked[s]] # {}
        /\ play[s] = "stranded" =>
               overlapped[staked[s]] # {} \/ staked[s] \notin approved

LEMMA InitOverlapInv == Init => OverlapInv /\ StrandInv
<1> SUFFICES ASSUME Init PROVE OverlapInv /\ StrandInv
  OBVIOUS
<1>1. Known(NoDeployments)
  BY DeploymentsAssumption DEF Known, NoDeployments
<1>2. memory.coinflip = None /\ memory.bank = None
  BY DEF Init, NoDeployments
<1> QED
  BY <1>1, <1>2 DEF Init, OverlapInv, StrandInv

\* A step of t that stores nothing new keeps both invariants, if t does not
\* join the deploying requests while a deployment of its kind is in use.
LEMMA QuietStep ==
    ASSUME TypeOK, OverlapInv, StrandInv, NEW t \in Tasks, NEW to \in Stages \ {"new"},
           Go(t, to), UNCHANGED <<memory, sessions, overlapped>>,
           to \in PastCheck => Deployed(t) = None \/ pc[t] \in PastCheck,
           Past(t) \/ to \notin PastCheck,
           approved \subseteq approved',
           Past(t) \/ approved' = approved,
           approved' \subseteq approved \cup {t},
           Known(file)', \A u \in Tasks : Known(snap[u])'
    PROVE  OverlapInv' /\ StrandInv'
<1>1. /\ \A u \in Tasks : u # t => pc'[u] = pc[u]
      /\ pc'[t] = to
  BY DEF TypeOK, Go
<1>2. \A u \in Tasks : Past(u)' => Past(u)
  BY <1>1 DEF Past
<1>3. Known(memory)'
  BY <1>2 DEF OverlapInv, Known
<1>4. \A u \in Tasks : pc'[u] \in PastCheck =>
         pc[u] \in PastCheck \/ (u = t /\ Deployed(t) = None)
  BY <1>1
<1>5. OverlapInv'
  BY <1>3, <1>4, DeploymentsAssumption DEF OverlapInv, Deployed, Tasks
<1>6. ASSUME NEW s \in Sessions, play[s] # "new"
      PROVE  /\ staked[s] \in Banks /\ ~Past(staked[s])'
             /\ staked[s] \in approved' => staked[s] \in approved
  <2>1. staked[s] \in Tasks /\ ~Past(staked[s])
    BY <1>6 DEF StrandInv, Tasks
  <2> QED
    BY <1>2, <1>6, <2>1 DEF StrandInv, sessions, Past
<1>7. StrandInv'
  BY <1>6 DEF StrandInv, sessions
<1> QED
  BY <1>5, <1>7

LEMMA StepsOverlapInv == TypeOK /\ OverlapInv /\ StrandInv /\ Steps => OverlapInv' /\ StrandInv'
<1> SUFFICES ASSUME TypeOK, OverlapInv, StrandInv, Steps PROVE OverlapInv' /\ StrandInv'
  OBVIOUS
<1>0. Known(NoDeployments) /\ Known(NoDeployments)'
  BY DeploymentsAssumption DEF Known, NoDeployments
<1>2. ASSUME NEW t \in Tasks, NEW to \in Stages \ {"new"}, Go(t, to),
             Past(t) \/ to \notin PastCheck, UNCHANGED <<file, snap>>
      PROVE  Known(file)' /\ \A u \in Tasks : Known(snap[u])'
  <2>1. \A u \in Tasks : Past(u)' => Past(u)
    BY <1>2 DEF Go, TypeOK, Past
  <2> QED
    BY <1>2, <2>1 DEF OverlapInv, Known
<1>3. ASSUME NEW t \in Tasks, Check(t) PROVE OverlapInv' /\ StrandInv'
  <2> DEFINE to == IF Deployed(t) # None THEN "existing" ELSE "deploy"
  <2>1. to \in Stages \ {"new"} /\ Past(t) /\ Go(t, to)
    BY <1>3 DEF Check, Stages, PastCheck, NeedsLock, Ended, Past
  <2>2. to \in PastCheck => Deployed(t) = None
    BY DEF PastCheck, NeedsLock
  <2>3. Known(file)' /\ \A u \in Tasks : Known(snap[u])'
    BY <1>2, <1>3, <2>1 DEF Check
  <2> QED
    BY <1>3, <2>1, <2>2, <2>3, QuietStep DEF Check
<1>4. ASSUME NEW t \in Tasks, Acquire(t) PROVE OverlapInv' /\ StrandInv'
  BY <1>4 DEF Acquire, OverlapInv, StrandInv, Known, Past, sessions
<1>5. ASSUME NEW t \in Tasks, Deploy(t) PROVE OverlapInv' /\ StrandInv'
  <2>1. pc[t] \in PastCheck /\ Past(t)
    BY <1>5 DEF Deploy, PastCheck, NeedsLock, Past
  <2>2. PICK to \in Stages \ {"new"} : Go(t, to)
    BY <1>5 DEF Deploy, Stages, PastCheck, NeedsLock, Ended
  <2>3. Known(file)' /\ \A u \in Tasks : Known(snap[u])'
    BY <1>2, <1>5, <2>1, <2>2 DEF Deploy
  <2> QED
    BY <1>5, <2>1, <2>2, <2>3, QuietStep DEF Deploy
<1>6. ASSUME NEW b \in Banks, ApproveBank(b) \/ FundBank(b) PROVE OverlapInv' /\ StrandInv'
  <2>1. pc[b] \in PastCheck /\ Past(b) /\ b \in Tasks
    BY <1>6 DEF ApproveBank, FundBank, PastCheck, NeedsLock, Past, Tasks
  <2>2. PICK to \in Stages \ {"new"} : Go(b, to)
    BY <1>6 DEF ApproveBank, FundBank, Stages, PastCheck, NeedsLock, Ended
  <2>3. Known(file)' /\ \A u \in Tasks : Known(snap[u])'
    BY <1>2, <1>6, <2>1, <2>2 DEF ApproveBank, FundBank
  <2>4. approved \subseteq approved' /\ approved' \subseteq approved \cup {b}
    BY <1>6 DEF ApproveBank, FundBank
  <2> QED
    BY <1>6, <2>1, <2>2, <2>3, <2>4, QuietStep DEF ApproveBank, FundBank
<1>7. ASSUME NEW t \in Tasks, Store(t) PROVE OverlapInv' /\ StrandInv'
  <2>1. /\ \A u \in Tasks : u # t => pc'[u] = pc[u] /\ overlapped'[u] = overlapped[u]
        /\ pc'[t] = "readCoinflip" /\ pc[t] = "store"
        /\ overlapped'[t] = {u \in Kind(t) \ {t} : pc[u] \in PastCheck}
        /\ UNCHANGED <<file, snap, approved, sessions>>
    BY <1>7 DEF Store, Go, TypeOK
  <2>2. ~Past(t)' /\ Past(t) /\ pc[t] \in PastCheck
    BY <2>1 DEF Past, PastCheck, NeedsLock
  <2>3. \A u \in Tasks : Past(u)' => Past(u) /\ u # t
    BY <2>1, <2>2 DEF Past
  <2>4. \/ t \in Games /\ t \notin Banks /\ memory' = [memory EXCEPT !.coinflip = t]
        \/ t \in Banks /\ t \notin Games /\ memory' = [memory EXCEPT !.bank = t]
    BY <1>7, DeploymentsAssumption DEF Store, Tasks
  <2>5. /\ memory.coinflip # t /\ memory.bank # t
        /\ memory.coinflip \in Games \cup {None} /\ memory.bank \in Banks \cup {None}
    BY <2>2 DEF OverlapInv, Known, TypeOK, Registry
  <2>6. \/ t \in Games /\ memory'.coinflip = t /\ memory'.bank = memory.bank
        \/ t \in Banks /\ memory'.bank = t /\ memory'.coinflip = memory.coinflip
    BY <2>4 DEF TypeOK, Registry
  <2>7. Known(memory)' /\ Known(file)' /\ \A u \in Tasks : Known(snap[u])'
    BY <2>1, <2>3, <2>6 DEF OverlapInv, Known
  <2>8. ASSUME NEW g \in Games, pc'[g] \in PastCheck, memory'.coinflip # None
        PROVE  g \in overlapped'[memory'.coinflip]
    <3>1. g # t /\ g \in Tasks /\ pc[g] \in PastCheck
      BY <2>1, <2>8 DEF Tasks, PastCheck, NeedsLock
    <3>2. CASE t \in Games
      BY <2>1, <2>4, <2>6, <3>1, <3>2 DEF Kind
    <3>3. CASE t \in Banks
      BY <2>1, <2>4, <2>5, <2>6, <2>8, <3>1, <3>3 DEF OverlapInv, Tasks
    <3> QED
      BY <2>4, <3>2, <3>3
  <2>9. ASSUME NEW b \in Banks, pc'[b] \in PastCheck, memory'.bank # None
        PROVE  b \in overlapped'[memory'.bank]
    <3>1. b # t /\ b \in Tasks /\ pc[b] \in PastCheck
      BY <2>1, <2>9 DEF Tasks, PastCheck, NeedsLock
    <3>2. CASE t \in Banks
      BY <2>1, <2>4, <2>6, <3>1, <3>2 DEF Kind
    <3>3. CASE t \in Games
      BY <2>1, <2>4, <2>5, <2>6, <2>9, <3>1, <3>3 DEF OverlapInv, Tasks
    <3> QED
      BY <2>4, <3>2, <3>3
  <2>10. OverlapInv'
    BY <2>7, <2>8, <2>9 DEF OverlapInv
  <2>11. ASSUME NEW s \in Sessions, play[s] # "new"
         PROVE  /\ staked[s] \in Banks /\ ~Past(staked[s])'
                /\ staked[s] # t /\ overlapped'[staked[s]] = overlapped[staked[s]]
    <3>1. staked[s] \in Tasks /\ staked[s] \in Banks /\ ~Past(staked[s])
      BY <2>11 DEF StrandInv, Tasks
    <3> QED
      BY <2>1, <2>2, <2>3, <3>1 DEF sessions, Past
  <2>12. ASSUME NEW s \in Sessions, play[s] \in {"staked", "matched"}
         PROVE  memory'.bank = staked[s] \/ overlapped[staked[s]] # {}
    <3>1. CASE memory.bank # staked[s] \/ t \in Games
      BY <2>4, <2>6, <2>12, <3>1 DEF StrandInv
    <3>2. CASE memory.bank = staked[s] /\ t \in Banks
      <4>1. memory.bank # None
        BY <2>12, <3>2, DeploymentsAssumption DEF StrandInv, Tasks
      <4> QED
        BY <2>2, <3>2, <4>1 DEF OverlapInv
    <3> QED
      BY <2>4, <3>1, <3>2
  <2>13. StrandInv'
    BY <2>1, <2>11, <2>12 DEF StrandInv, sessions
  <2> QED
    BY <2>10, <2>13
<1>8. ASSUME NEW t \in Tasks, ReadCoinflip(t) \/ ReadBank(t) PROVE OverlapInv' /\ StrandInv'
  <2>1. PICK to \in Stages \ {"new"} : Go(t, to) /\ to \notin PastCheck
    BY <1>8 DEF ReadCoinflip, ReadBank, Stages, Saving, PastCheck, NeedsLock
  <2>2. \A u \in Tasks : Past(u)' => Past(u)
    BY <2>1 DEF Go, TypeOK, Past
  <2>3. ASSUME NEW u \in Tasks
        PROVE  /\ snap'[u].coinflip \in {snap[u].coinflip, memory.coinflip}
               /\ snap'[u].bank \in {snap[u].bank, memory.bank}
    <3>1. snap[u] \in Registry /\ snap[t] \in Registry
      BY DEF TypeOK
    <3> QED
      BY <1>8, <3>1 DEF ReadCoinflip, ReadBank, TypeOK, Registry
  <2>4. \A u \in Tasks : Known(snap[u])'
    BY <2>2, <2>3 DEF OverlapInv, Known
  <2>5. Known(file)'
    BY <1>8, <2>2 DEF ReadCoinflip, ReadBank, OverlapInv, Known
  <2> QED
    BY <1>8, <2>1, <2>4, <2>5, QuietStep DEF ReadCoinflip, ReadBank
<1>9. ASSUME NEW t \in Tasks, Truncate(t) \/ Write(t) PROVE OverlapInv' /\ StrandInv'
  <2>1. PICK to \in Stages \ {"new"} : Go(t, to) /\ to \notin PastCheck
    BY <1>9 DEF Truncate, Write, Stages, Saving, Ended, PastCheck, NeedsLock
  <2>2. \A u \in Tasks : Past(u)' => Past(u)
    BY <2>1 DEF Go, TypeOK, Past
  <2>3. file' \in {file, NoDeployments, snap[t]}
    BY <1>9 DEF Truncate, Write
  <2>4. Known(file)'
    BY <1>0, <2>2, <2>3 DEF OverlapInv, Known
  <2>5. \A u \in Tasks : snap'[u] \in {snap[u], NoDeployments}
    BY <1>9 DEF Truncate, Write, TypeOK
  <2>6. \A u \in Tasks : Known(snap[u])'
    BY <1>0, <2>2, <2>5 DEF OverlapInv, Known
  <2> QED
    BY <1>9, <2>1, <2>4, <2>6, QuietStep DEF Truncate, Write
<1>10. ASSUME NEW s \in Sessions, DepositInfo(s) PROVE OverlapInv' /\ StrandInv'
  <2>1. memory.bank \in Banks /\ ~Past(memory.bank)
    BY <1>10 DEF DepositInfo, OverlapInv, Known, TypeOK, Registry, Tasks
  <2>2. OverlapInv'
    BY <1>10 DEF DepositInfo, OverlapInv, requests, Known, Past
  <2>3. \A u : Past(u)' <=> Past(u)
    BY <1>10 DEF DepositInfo, requests, Past
  <2>4. StrandInv'
    BY <1>10, <2>1, <2>3 DEF DepositInfo, StrandInv, requests, Seated, TypeOK
  <2> QED
    BY <2>2, <2>4
<1>11. ASSUME NEW s \in Sessions, ConfirmDeposit(s) \/ Settle(s) PROVE OverlapInv' /\ StrandInv'
  <2>1. OverlapInv'
    BY <1>11 DEF ConfirmDeposit, Settle, OverlapInv, requests, Known, Past
  <2>2. \A u : Past(u)' <=> Past(u)
    BY <1>11 DEF ConfirmDeposit, Settle, requests, Past
  <2>3. StrandInv'
    BY <1>11, <2>2 DEF ConfirmDeposit, Settle, StrandInv, requests, Seated, TypeOK
  <2> QED
    BY <2>1, <2>3
<1>12. ASSUME NEW t \in Tasks, Disconnect(t) PROVE OverlapInv' /\ StrandInv'
  <2>1. "failed" \in Stages \ {"new"} /\ "failed" \notin PastCheck /\ Go(t, "failed")
    BY <1>12 DEF Disconnect, Stages, Ended, PastCheck, NeedsLock
  <2>2. Known(file)' /\ \A u \in Tasks : Known(snap[u])'
    BY <1>2, <1>12, <2>1 DEF Disconnect
  <2> QED
    BY <1>12, <2>1, <2>2, QuietStep DEF Disconnect
<1>13. ASSUME Restart PROVE OverlapInv' /\ StrandInv'
  <2>1. \A t \in Tasks : /\ pc'[t] \notin PastCheck
                         /\ Past(t)' => Past(t)
    BY <1>13 DEF Restart, Past, Ended, PastCheck, NeedsLock
  <2>0. memory' = file /\ UNCHANGED <<file, snap, approved, staked, overlapped>>
    BY <1>13 DEF Restart
  <2>2. OverlapInv'
    <3>1. Known(memory)' /\ Known(file)' /\ \A t \in Tasks : Known(snap[t])'
      BY <2>0, <2>1 DEF OverlapInv, Known
    <3> QED
      BY <2>1, <3>1 DEF OverlapInv, Tasks
  <2>3. \A s \in Sessions : /\ play'[s] \notin {"staked", "matched"}
                            /\ play'[s] # "new" => play[s] # "new"
                            /\ play'[s] = "stranded" => play[s] = "stranded"
    BY <1>13 DEF Restart
  <2>4. StrandInv'
    <3>1. ASSUME NEW s \in Sessions, play'[s] # "new"
          PROVE  staked'[s] \in Banks /\ ~Past(staked[s])'
      BY <2>0, <2>1, <2>3, <3>1 DEF StrandInv, Tasks, Past
    <3> QED
      BY <2>0, <2>3, <3>1 DEF StrandInv
  <2> QED
    BY <2>2, <2>4
<1> QED
  BY <1>3, <1>4, <1>5, <1>6, <1>7, <1>8, <1>9, <1>10, <1>11, <1>12, <1>13 DEF Steps

LEMMA StutterOverlapInv == OverlapInv /\ StrandInv /\ UNCHANGED vars => OverlapInv' /\ StrandInv'
BY DEF OverlapInv, StrandInv, vars, requests, sessions, Known, Past

\* Both invariants hold of every behaviour.
LEMMA OverlapInvHolds == Spec => [](OverlapInv /\ StrandInv)
<1>1. Init => OverlapInv /\ StrandInv
  BY InitOverlapInv
<1>2. TypeOK /\ (OverlapInv /\ StrandInv) /\ [Next]_vars => (OverlapInv /\ StrandInv)'
  BY NextIsSteps, StepsOverlapInv, StutterOverlapInv
<1> QED
  BY <1>1, <1>2, DeploymentsTypeCorrect, PTL DEF Spec

\* A stake is stranded only where a second bank was being deployed when its
\* own was stored, or where its bank's approval failed unnoticed.
THEOREM DeploymentsStrandOnlyByOverlap == Spec => []StrandedOnlyByOverlap
<1>1. StrandInv => StrandedOnlyByOverlap
  BY DEF StrandInv, StrandedOnlyByOverlap
<1> QED
  BY <1>1, OverlapInvHolds, PTL

\* A deployment in use is replaced only by a request that was deploying when
\* it was stored, or by a restart.
THEOREM DeploymentsReplacedOnlyByOverlap == Spec => ReplacedOnlyByOverlap
<1> DEFINE Kept ==
    /\ memory.coinflip # None /\ memory'.coinflip # memory.coinflip =>
           Restart \/ memory'.coinflip \in overlapped[memory.coinflip]
    /\ memory.bank # None /\ memory'.bank # memory.bank =>
           Restart \/ memory'.bank \in overlapped[memory.bank]
<1>1. TypeOK /\ OverlapInv /\ [Next]_vars => [Kept]_vars
  <2> SUFFICES ASSUME TypeOK, OverlapInv, Next PROVE Kept
    OBVIOUS
  <2>1. \/ Restart
        \/ memory' = memory
        \/ \E t \in Tasks : Store(t)
    BY NextIsSteps
    DEF Steps, Check, Acquire, Deploy, Disconnect, ReadCoinflip, ReadBank, Truncate, Write,
        ApproveBank, FundBank, DepositInfo, ConfirmDeposit, Settle
  <2>2. ASSUME NEW t \in Tasks, Store(t) PROVE Kept
    <3>1. pc[t] \in PastCheck
      BY <2>2 DEF Store, PastCheck
    <3>2. \/ t \in Games /\ memory'.coinflip = t /\ memory'.bank = memory.bank
          \/ t \in Banks /\ memory'.bank = t /\ memory'.coinflip = memory.coinflip
      BY <2>2 DEF Store, TypeOK, Registry, Tasks
    <3> QED
      BY <3>1, <3>2 DEF OverlapInv
  <2> QED
    BY <2>1, <2>2
<1>2. Spec => [][Kept]_vars
  BY <1>1, DeploymentsTypeCorrect, OverlapInvHolds, PTL DEF Spec
<1> QED
  BY <1>2 DEF ReplacedOnlyByOverlap

-----------------------------------------------------------------------------
(* No request waits in vain. *)

\* sncast_lock is held by a request that needs it, and the steps that only a
\* bank needs are taken by banks.
LockInv ==
    /\ lock # None => lock \in Tasks /\ pc[lock] \in NeedsLock
    /\ \A t \in Tasks : pc[t] \in {"approve", "fund"} => t \in Banks

\* Some action of Work(t) has its guard.
CanWork(t) ==
    \/ pc[t] \in NeedsLock /\ lock = None
    \/ pc[t] = "deploy" /\ lock = t
    \/ pc[t] \in {"approve", "fund"} /\ lock = t /\ t \in Banks
    \/ pc[t] = "store" \/ pc[t] \in Saving

NobodyStuck ==
    \A t \in Tasks :
        pc[t] \notin Ended \cup {"new"} =>
            CanWork(t) \/ (pc[t] \in NeedsLock /\ lock \in Tasks /\ CanWork(lock))

\* How far a request has come; it is further when it holds the lock.
Place(at) ==
    CASE at = "new" -> 0
      [] at = "deploy" -> 2
      [] at = "approve" -> 4
      [] at = "fund" -> 6
      [] at = "store" -> 8
      [] at = "readCoinflip" -> 10
      [] at = "readBank" -> 12
      [] at = "truncate" -> 14
      [] at = "write" -> 16
      [] at \in Ended -> 18
Rank(t) == Place(pc[t]) + (IF lock = t THEN 1 ELSE 0)

LEMMA Places ==
    /\ Place("new") = 0 /\ Place("deploy") = 2 /\ Place("approve") = 4 /\ Place("fund") = 6
    /\ Place("store") = 8 /\ Place("readCoinflip") = 10 /\ Place("readBank") = 12
    /\ Place("truncate") = 14 /\ Place("write") = 16
    /\ Place("existing") = 18 /\ Place("done") = 18 /\ Place("failed") = 18
BY DEF Place, Ended

\* A step moves one request, or all of them to their end.
OneMoves(t) ==
    /\ \A u \in Tasks \ {t} : pc'[u] = pc[u]
    /\ \/ pc[t] \in NeedsLock /\ pc'[t] = pc[t] /\ lock = None /\ lock' = t
       \/ /\ Place(pc'[t]) \in Nat /\ Place(pc[t]) + 2 <= Place(pc'[t])
          /\ \/ lock' = lock /\ (pc[t] \notin NeedsLock \/ lock # t)
             \/ lock = t /\ lock' = None
          /\ pc'[t] \in {"approve", "fund"} => t \in Banks

LEMMA WorkMoves ==
    ASSUME TypeOK, NEW t \in Tasks, Work(t)
    PROVE  OneMoves(t)
<1> USE Places DEF Go
<1>0. pc \in [Tasks -> Stages] /\ Banks \subseteq Tasks
  BY DEF TypeOK, Stages, Tasks
<1>1. CASE Acquire(t)
  BY <1>1 DEF Acquire, OneMoves
<1>2. CASE Deploy(t)
  BY <1>0, <1>2 DEF Deploy, Release, OneMoves, Tasks
<1>3. CASE Store(t)
  BY <1>0, <1>3 DEF Store, OneMoves, NeedsLock
<1>4. CASE ReadCoinflip(t) \/ ReadBank(t) \/ Truncate(t) \/ Write(t)
  BY <1>0, <1>4 DEF ReadCoinflip, ReadBank, Truncate, Write, OneMoves, NeedsLock
<1>5. CASE t \in Banks /\ (ApproveBank(t) \/ FundBank(t))
  BY <1>0, <1>5 DEF ApproveBank, FundBank, Release, OneMoves
<1> QED
  BY <1>1, <1>2, <1>3, <1>4, <1>5 DEF Work

LEMMA StepsMoveOn ==
    ASSUME TypeOK, Next
    PROVE  \/ UNCHANGED <<pc, lock>>
           \/ \E t \in Tasks : OneMoves(t)
           \/ Restart
<1> USE Places DEF Go
<1>0. pc \in [Tasks -> Stages]
  BY DEF TypeOK, Stages
<1>1. ASSUME NEW t \in Tasks, Check(t) PROVE OneMoves(t)
  BY <1>0, <1>1 DEF Check, OneMoves, NeedsLock
<1>2. ASSUME NEW t \in Tasks, Disconnect(t) PROVE OneMoves(t)
  BY <1>0, <1>2 DEF Disconnect, OneMoves, PastCheck, NeedsLock
<1>3. ASSUME NEW s \in Sessions, DepositInfo(s) \/ ConfirmDeposit(s) \/ Settle(s)
      PROVE  UNCHANGED <<pc, lock>>
  BY <1>3 DEF DepositInfo, ConfirmDeposit, Settle, requests
<1> QED
  BY <1>1, <1>2, <1>3, WorkMoves DEF Next

LEMMA RankGrows ==
    ASSUME TypeOK, LockInv, NEW t \in Tasks, OneMoves(t)
    PROVE  /\ Rank(t) < Rank(t)'
           /\ \A u \in Tasks \ {t} : Rank(u) <= Rank(u)'
<1>1. \A u \in Tasks : Place(pc[u]) \in Nat
  BY Places DEF TypeOK, PastCheck, NeedsLock, Saving, Ended
<1>2. None \notin Tasks
  BY DeploymentsAssumption
<1>3. CASE pc'[t] = pc[t] /\ lock = None /\ lock' = t
  BY <1>1, <1>2, <1>3 DEF OneMoves, Rank
<1>4. CASE /\ Place(pc'[t]) \in Nat /\ Place(pc[t]) + 2 <= Place(pc'[t])
           /\ lock' = lock \/ (lock = t /\ lock' = None)
  BY <1>1, <1>2, <1>4 DEF OneMoves, Rank
<1> QED
  BY <1>3, <1>4 DEF OneMoves

LEMMA LockInvariant == Spec => []LockInv
<1>1. Init => LockInv
  BY DEF Init, LockInv
<1>2. TypeOK /\ LockInv /\ [Next]_vars => LockInv'
  <2> SUFFICES ASSUME TypeOK, LockInv, [Next]_vars PROVE LockInv'
    OBVIOUS
  <2>1. CASE UNCHANGED <<pc, lock>>
    BY <2>1 DEF LockInv
  <2>2. ASSUME NEW t \in Tasks, OneMoves(t) PROVE LockInv'
    BY <2>2, DeploymentsAssumption DEF OneMoves, LockInv
  <2>3. CASE Restart
    BY <2>3 DEF Restart, LockInv, Ended
  <2>4. CASE UNCHANGED vars
    BY <2>1, <2>4 DEF vars, requests
  <2> QED
    BY <2>1, <2>2, <2>3, <2>4, StepsMoveOn
<1> QED
  BY <1>1, <1>2, DeploymentsTypeCorrect, PTL DEF Spec

\* deploy_coinflip and deploy_bank: whatever fails or is dropped, sncast_lock is
\* free or with a request that can go on, so that each request can or queues
\* behind one that can.  It is half of why EveryDeployEnds holds.
THEOREM DeploymentsNeverStuck == Spec => []NobodyStuck
<1>1. TypeOK /\ LockInv => NobodyStuck
  <2> SUFFICES ASSUME TypeOK, LockInv, NEW t \in Tasks, pc[t] \notin Ended \cup {"new"}
               PROVE  CanWork(t) \/ (pc[t] \in NeedsLock /\ lock \in Tasks /\ CanWork(lock))
    BY DEF NobodyStuck
  <2>1. pc[t] \in PastCheck \cup Saving
    BY DEF TypeOK
  <2>2. lock # None => lock \in Tasks /\ CanWork(lock)
    BY DEF LockInv, CanWork, NeedsLock
  <2> QED
    BY <2>1, <2>2 DEF CanWork, PastCheck
<1> QED
  BY <1>1, DeploymentsTypeCorrect, LockInvariant, PTL

\* The other half, and what Fairness says: no deploy request goes back, and each
\* step of the handler brings it on; no request gets further than rank 18.
THEOREM DeploymentsAlwaysGoOn ==
    Spec => [][\A t \in Tasks : /\ Rank(t) <= Rank(t)'
                                /\ Work(t) => Rank(t) < Rank(t)']_vars
<1> DEFINE OnlyOn == \A t \in Tasks : /\ Rank(t) <= Rank(t)'
                                      /\ Work(t) => Rank(t) < Rank(t)'
<1>1. TypeOK /\ LockInv /\ [Next]_vars => [OnlyOn]_vars
  <2> SUFFICES ASSUME TypeOK, LockInv, Next, NEW t \in Tasks
               PROVE  Rank(t) <= Rank(t)' /\ (Work(t) => Rank(t) < Rank(t)')
    OBVIOUS
  <2>1. pc[t] \in Stages /\ Place(pc[t]) \in Nat
    BY Places DEF TypeOK, Stages, PastCheck, NeedsLock, Saving, Ended
  <2>2. UNCHANGED <<pc, lock>> => Rank(t) <= Rank(t)'
    BY <2>1 DEF Rank
  <2>3. ASSUME NEW u \in Tasks, OneMoves(u) PROVE Rank(t) <= Rank(t)'
    <3>1. Rank(t) \in Nat /\ (Rank(t)' \in Nat \/ u # t)
      BY <2>1, <2>3 DEF Rank, OneMoves
    <3> QED
      BY <2>3, <3>1, RankGrows
  <2>4. ASSUME Restart PROVE Rank(t) <= Rank(t)'
    <3>1. /\ pc'[t] = IF pc[t] \in Ended \cup {"new"} THEN pc[t] ELSE "failed"
          /\ lock' = None
      BY <2>4 DEF Restart
    <3>2. Place(pc[t]) <= 18 /\ (pc[t] \notin Ended => Place(pc[t]) <= 16)
      BY <2>1, Places DEF Stages, PastCheck, NeedsLock, Saving, Ended
    <3>3. lock = t => pc[t] \in NeedsLock
      BY DeploymentsAssumption DEF LockInv
    <3> QED
      BY <2>1, <3>1, <3>2, <3>3, Places, DeploymentsAssumption DEF Rank, NeedsLock, Ended
  <2> QED
    BY <2>2, <2>3, <2>4, StepsMoveOn, WorkMoves, RankGrows
<1> QED
  BY <1>1, DeploymentsTypeCorrect, LockInvariant, PTL DEF Spec
=============================================================================
