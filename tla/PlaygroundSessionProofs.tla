----------------------- MODULE PlaygroundSessionProofs -----------------------
(***************************************************************************)
(* Proofs about PlaygroundSession for any requests, workloads, attempts    *)
(* and failures: types, whose block and whose proof a request ends up      *)
(* with, and what the session's reference block is worth.                  *)
(***************************************************************************)
EXTENDS PlaygroundSession, SequenceTheorems, TLAPS

Places == {"new"} \cup InFlight \cup Ended
Sessions(t) == [account : BOOLEAN, contract : Deploys \cup {None, First},
                deployBlock : 0 .. t, reference : 0 .. t,
                invokeTx : Invokes \cup {None}, invokeBlock : 0 .. t,
                proveBlock : 0 .. t, proofFile : BOOLEAN]
Txs(t, m) == [status : {"none", "pending", "ok", "reverted"}, nonce : 0 .. m, block : 0 .. t]
FileStates == [{"session"} -> [Prover!Artifacts -> Prover!Content]]

-----------------------------------------------------------------------------
(* Types, with what they rest on: the account's nonce never falls, what has  *)
(* been executed is in a block, a request knows what it began with, and has  *)
(* attempts left while it is under way.                                      *)

Chain == Tip > 0 /\ \A k \in 1 .. Tip : nonceAt[k] <= nonce
Executed == \A r \in Requests : tx[r].status \in {"ok", "reverted"} => tx[r].block > 0
Begun ==
    /\ \A b \in Blocks : pc[b] # "new" => ref[b] > 0
    /\ \A p \in Scripts : pc[p] # "new" => picked[p] \in Invokes
    /\ \A b \in Blocks : pc[b] \in {"new"} \cup InFlight => attempts[b] < MaxAttempts

TypeInv == TypeOK /\ Chain /\ Executed /\ Begun

LEMMA Kinds ==
    /\ Invokes \subseteq Requests /\ Sncasts \subseteq Requests /\ Jobs \subseteq Requests
    /\ Readers \subseteq Requests /\ Blocks \subseteq Readers /\ Submits \subseteq Readers
    /\ Scripts \subseteq Jobs /\ Blocks \subseteq Jobs
    /\ Deploys \subseteq Sncasts /\ Accounts \subseteq Sncasts /\ Funds \subseteq Sncasts
    /\ Readers \cap Scripts = {} /\ Blocks \cap Scripts = {} /\ Blocks \cap Submits = {}
    /\ Invokes \cap Jobs = {} /\ Invokes \cap Readers = {} /\ Invokes \cap Sncasts = {}
    /\ Sncasts \cap Jobs = {} /\ Sncasts \cap Readers = {} /\ Jobs \cap Submits = {}
BY SessionAssumption DEF Requests, Sncasts, Jobs, Readers

\* What a request that runs sncast does, and what fails one.
SncastStep(r) ==
    \/ SncastBegin(r) \/ SncastLock(r) \/ (r \in Deploys /\ Declare(r)) \/ SncastSend(r)
    \/ SncastConfirmed(r) \/ SncastUnconfirmed(r) \/ SncastFails(r)
Drops ==
    \/ \E r \in Requests : RequestFails(r)
    \/ \E r \in Requests \ Jobs : Disconnect(r)
    \/ Restart

LEMMA SncastEffect ==
    ASSUME NEW r \in Sncasts, SncastStep(r)
    PROVE  /\ \E to \in {"queued", "declaring", "locked", "waiting", "done", "failed"} : Go(r, to)
           /\ pc[r] \notin Ended
           /\ UNCHANGED <<nonceAt, locals, artifacts, rivals>> /\ (Fault \/ UNCHANGED faults)
           /\ \/ UNCHANGED <<session, crossed>> \/ AccountStored
              \/ r \in Deploys /\ SncastConfirmed(r) /\ CounterStored(r)
<1>1. CASE SncastBegin(r) \/ SncastLock(r)
  BY <1>1 DEF SncastBegin, SncastLock, Ended, chain, history
<1>2. CASE Declare(r) \/ SncastSend(r) \/ SncastFails(r)
  BY <1>2 DEF Declare, SncastSend, SncastFails, Children, Orphans, Ended, history
<1>3. CASE SncastConfirmed(r) \/ SncastUnconfirmed(r)
  BY <1>3 DEF SncastConfirmed, SncastUnconfirmed, GivesUp, Ended, chain, history
<1> QED
  BY <1>1, <1>2, <1>3 DEF SncastStep

LEMMA FaultTyped ==
    ASSUME faults \in 0 .. MaxFaults, Fault \/ UNCHANGED faults
    PROVE  faults' \in 0 .. MaxFaults
BY SessionAssumption DEF Fault

\* Where request r goes, and no other.
LEMMA Moves ==
    ASSUME TypeOK, NEW r \in Requests, NEW to, Go(r, to)
    PROVE  /\ pc'[r] = to
           /\ \A q \in Requests : q # r => pc'[q] = pc[q]
           /\ to \in Places => pc' \in [Requests -> Places]
BY DEF TypeOK, Go, Places

\* A new block.
LEMMA ChainGrows ==
    ASSUME TypeOK, Chain, NEW m \in {nonce, nonce + 1}, nonceAt' = Append(nonceAt, m)
    PROVE  /\ nonceAt' \in Seq(Nat) /\ Tip' = Tip + 1 /\ nonce' = m
           /\ nonce \in Nat /\ Tip \in Nat /\ Chain'
           /\ \A k \in 1 .. Tip : nonceAt'[k] = nonceAt[k]
<1>1. nonceAt \in Seq(Nat)
  BY DEF TypeOK
<1>2. Tip \in Nat /\ nonce \in Nat
  BY <1>1 DEF Chain, Tip, nonce
<1>3. nonceAt' \in Seq(Nat) /\ Len(nonceAt') = Len(nonceAt) + 1
  BY <1>1, <1>2
<1>4. \A k \in 1 .. Len(nonceAt) : nonceAt'[k] = nonceAt[k]
  BY <1>1, <1>2
<1>5. nonceAt'[Len(nonceAt) + 1] = m
  BY <1>1, <1>2
<1>6. Chain'
  BY <1>1, <1>2, <1>3, <1>4, <1>5 DEF Chain, Tip, nonce
<1> QED
  BY <1>2, <1>3, <1>4, <1>5, <1>6 DEF Tip, nonce

\* TypeOK without the chain, in a step that adds no block.
LEMMA TypedAgain ==
    ASSUME TypeOK, UNCHANGED <<coming, nonceAt>>, pc' \in [Requests -> Places],
           session' \in Sessions(Tip), lock' \in Sncasts \cup {None},
           tx' \in [Requests -> Txs(Tip, nonce)], declare' \in [Deploys -> Txs(Tip, nonce)],
           ref' \in [Jobs -> 0 .. Tip],
           picked' \in [Scripts -> Invokes \cup {None}], signed' \in [Readers -> 0 .. nonce],
           attempts' \in [Blocks -> 0 .. MaxAttempts], txFile' \in Blocks \cup {None},
           proves' \in [Blocks -> Blocks \cup {None}],
           sent' \in [Readers -> [proof : (SUBSET Jobs) \cup {Missing}, facts : SUBSET Jobs]],
           phase' \in [Jobs -> Prover!Phases], files' \in FileStates,
           rivals' \in [Requests -> SUBSET Jobs], crossed' \in BOOLEAN, faults' \in 0 .. MaxFaults
    PROVE  TypeOK'
<1>1. Tip' = Tip /\ nonce' = nonce
  BY DEF Tip, nonce
<1> QED
  BY <1>1 DEF TypeOK, Sessions, Txs, Places, FileStates

LEMMA TypeFacts ==
    ASSUME TypeOK
    PROVE  /\ pc \in [Requests -> Places] /\ session \in Sessions(Tip)
           /\ lock \in Sncasts \cup {None}
           /\ tx \in [Requests -> Txs(Tip, nonce)] /\ declare \in [Deploys -> Txs(Tip, nonce)]
           /\ ref \in [Jobs -> 0 .. Tip]
           /\ picked \in [Scripts -> Invokes \cup {None}] /\ signed \in [Readers -> 0 .. nonce]
           /\ attempts \in [Blocks -> 0 .. MaxAttempts] /\ txFile \in Blocks \cup {None}
           /\ proves \in [Blocks -> Blocks \cup {None}]
           /\ sent \in [Readers -> [proof : (SUBSET Jobs) \cup {Missing}, facts : SUBSET Jobs]]
           /\ phase \in [Jobs -> Prover!Phases] /\ files \in FileStates
           /\ rivals \in [Requests -> SUBSET Jobs] /\ crossed \in BOOLEAN
           /\ faults \in 0 .. MaxFaults
BY DEF TypeOK, Sessions, Txs, Places, FileStates

LEMMA NumberFacts ==
    ASSUME TypeOK, Chain
    PROVE  /\ Tip \in Nat /\ Tip > 0 /\ nonce \in Nat
           /\ \A k \in 1 .. Tip : nonceAt[k] \in 0 .. nonce
<1>1. nonceAt \in Seq(Nat)
  BY DEF TypeOK
<1> QED
  BY <1>1 DEF Chain, Tip, nonce

\* A step of request r that leaves what it began with alone.
LEMMA Continues ==
    ASSUME TypeInv, NEW r \in Requests, NEW to \in Places \ {"new"}, Go(r, to),
           UNCHANGED <<nonceAt, ref, picked, attempts>>,
           r \in Jobs => pc[r] # "new",
           r \in Blocks /\ to \in InFlight => pc[r] \in InFlight
    PROVE  pc' \in [Requests -> Places] /\ Chain' /\ Begun'
<1>1. /\ pc'[r] = to /\ pc' \in [Requests -> Places]
      /\ \A q \in Requests : q # r => pc'[q] = pc[q]
  BY Moves DEF TypeInv
<1>2. Chain'
  BY DEF TypeInv, Chain, Tip, nonce
<1>3. Begun'
  BY <1>1, Kinds DEF TypeInv, Begun
<1> QED
  BY <1>1, <1>2, <1>3

\* A step that only moves a request on.
LEMMA OnlyMoves ==
    ASSUME TypeInv, NEW r \in Requests, NEW to \in Places \ {"new"}, Go(r, to),
           UNCHANGED <<coming, session, chain, locals, artifacts, history>>,
           lock' \in Sncasts \cup {None}, Fault \/ UNCHANGED faults,
           r \in Jobs => pc[r] # "new",
           r \in Blocks /\ to \in InFlight => pc[r] \in InFlight
    PROVE  TypeInv'
<1>1. pc' \in [Requests -> Places] /\ Chain' /\ Begun'
  BY Continues DEF chain, locals
<1>2. faults' \in 0 .. MaxFaults
  BY TypeFacts, FaultTyped DEF TypeInv
<1>3. TypeOK'
  BY <1>1, <1>2, TypeFacts, TypedAgain DEF TypeInv, chain, locals, artifacts, history
<1> QED
  BY <1>1, <1>3 DEF TypeInv, Executed, chain

LEMMA PlaceNames ==
    /\ InFlight \subseteq Places \ {"new"} /\ Ended \subseteq Places \ {"new"}
    /\ "new" \notin InFlight /\ "new" \notin Ended /\ InFlight \cap Ended = {}
BY DEF Places, InFlight, Children, Orphans, Ended

\* A request that stores something in the session.
LEMMA Stores ==
    ASSUME TypeInv, NEW r \in Requests \ Jobs, NEW to \in Places \ {"new"}, Go(r, to),
           session' \in Sessions(Tip), lock' \in Sncasts \cup {None}, crossed' \in BOOLEAN,
           UNCHANGED <<coming, chain, locals, artifacts, rivals, faults>>
    PROVE  TypeInv'
<1>1. pc' \in [Requests -> Places] /\ Chain' /\ Begun'
  BY Continues, Kinds DEF chain, locals
<1>2. TypeOK'
  BY <1>1, TypeFacts, TypedAgain DEF TypeInv, chain, locals, artifacts
<1> QED
  BY <1>1, <1>2 DEF TypeInv, Executed, chain

\* A request that sends a transaction, or may have.
LEMMA Sends ==
    ASSUME TypeInv, NEW r \in Requests \ Jobs, NEW to \in Places \ {"new"}, Go(r, to),
           NEW m \in 0 .. nonce, tx' \in {tx, [tx EXCEPT ![r] = Pending(m)]},
           declare' \in {declare, [declare EXCEPT ![r] = Pending(m)]},
           lock' \in Sncasts \cup {None}, Fault \/ UNCHANGED faults,
           UNCHANGED <<coming, session, nonceAt, locals, artifacts, history>>
    PROVE  TypeInv'
<1>1. pc' \in [Requests -> Places] /\ Chain' /\ Begun'
  BY Continues, Kinds DEF locals
<1>2. Pending(m) \in Txs(Tip, nonce) /\ Pending(m).status = "pending"
  BY NumberFacts DEF Pending, Txs, TypeInv
<1>3. tx' \in [Requests -> Txs(Tip, nonce)] /\ Executed'
  BY <1>2, TypeFacts DEF TypeInv, Executed
<1>4. declare' \in [Deploys -> Txs(Tip, nonce)]
  BY <1>2, TypeFacts DEF TypeInv
<1>5. faults' \in 0 .. MaxFaults
  BY TypeFacts, FaultTyped DEF TypeInv
<1>6. TypeOK'
  BY <1>1, <1>3, <1>4, <1>5, TypeFacts, TypedAgain DEF TypeInv, locals, artifacts, history
<1> QED
  BY <1>1, <1>3, <1>6 DEF TypeInv

LEMMA InvokesTyped ==
    ASSUME TypeInv, UNCHANGED coming, NEW i \in Invokes,
           InvokeSend(i) \/ InvokeRecord(i) \/ InvokeConfirmed(i) \/ InvokeUnconfirmed(i)
    PROVE  TypeInv'
<1>1. i \in Requests \ Jobs
  BY Kinds
<1>2. CASE InvokeSend(i)
  <2>1. {"accepted", "failed"} \subseteq Places \ {"new"} /\ 0 \in 0 .. nonce
    BY NumberFacts, PlaceNames DEF InFlight, Ended, TypeInv
  <2>2. PICK to \in {"accepted", "failed"} : Go(i, to)
    BY <1>2 DEF InvokeSend
  <2> QED
    BY <1>1, <1>2, <2>1, <2>2, Sends, TypeFacts DEF InvokeSend, TypeInv
<1>3. CASE InvokeRecord(i)
  <2>1. "waiting" \in Places \ {"new"} /\ session' \in Sessions(Tip)
    BY <1>3, TypeFacts, PlaceNames DEF InvokeRecord, InFlight, TypeInv, Sessions
  <2> QED
    BY <1>1, <1>3, <2>1, Stores, TypeFacts DEF InvokeRecord, history, TypeInv
<1>4. CASE InvokeConfirmed(i)
  <2>1. "done" \in Places \ {"new"} /\ tx[i].block \in 0 .. Tip
    BY <1>1, TypeFacts, PlaceNames DEF Ended, TypeInv, Txs
  <2>2. session' \in Sessions(Tip)
    BY <1>4, <2>1, TypeFacts DEF InvokeConfirmed, TypeInv, Sessions
  <2> QED
    BY <1>1, <1>4, <2>1, <2>2, Stores, TypeFacts DEF InvokeConfirmed, history, TypeInv
<1>5. CASE InvokeUnconfirmed(i)
  <2>1. "unconfirmed" \in Places \ {"new"}
    BY PlaceNames DEF Ended
  <2>2. Fault \/ UNCHANGED faults
    BY <1>5 DEF InvokeUnconfirmed, GivesUp
  <2> QED
    BY <1>1, <1>5, <2>1, <2>2, OnlyMoves, Kinds, TypeFacts DEF InvokeUnconfirmed, TypeInv
<1> QED
  BY <1>2, <1>3, <1>4, <1>5

LEMMA SncastsTyped ==
    ASSUME TypeInv, UNCHANGED coming, NEW r \in Sncasts,
           SncastStep(r)
    PROVE  TypeInv'
<1>1. r \in Requests \ Jobs
  BY Kinds
<1>2. {"queued", "declaring", "locked", "waiting", "done", "failed"} \subseteq Places \ {"new"}
  BY PlaceNames DEF InFlight, Children, Ended
<1>0. lock \in Sncasts \cup {None} /\ nonce \in 0 .. nonce
  BY TypeFacts, NumberFacts DEF TypeInv
<1>3. CASE SncastBegin(r) \/ SncastLock(r)
  <2>1. \E to \in {"queued", "declaring", "locked"} : Go(r, to)
    BY <1>3 DEF SncastBegin, SncastLock
  <2> QED
    BY <1>0, <1>1, <1>2, <1>3, <2>1, OnlyMoves, Kinds DEF SncastBegin, SncastLock
<1>4. CASE (r \in Deploys /\ Declare(r)) \/ SncastSend(r) \/ SncastFails(r)
  <2>1. PICK to \in {"locked", "waiting", "failed"} : Go(r, to)
    BY <1>4 DEF Declare, SncastSend, SncastFails
  <2>2. /\ tx' \in {tx, [tx EXCEPT ![r] = Pending(nonce)]}
        /\ declare' \in {declare, [declare EXCEPT ![r] = Pending(nonce)]}
        /\ UNCHANGED <<session, nonceAt, locals, artifacts, history>>
    BY <1>4 DEF Declare, SncastSend, SncastFails
  <2>3. (Fault \/ UNCHANGED faults) /\ lock' \in Sncasts \cup {None}
    BY <1>0, <1>4 DEF Declare, SncastSend, SncastFails, Release
  <2> QED
    BY <1>0, <1>1, <1>2, <2>1, <2>2, <2>3, Sends
<1>5. CASE SncastConfirmed(r)
  <2>1. tx[r].block \in 0 .. Tip
    BY <1>1, TypeFacts DEF TypeInv, Txs
  <2>2. session' \in Sessions(Tip)
    <3>1. CASE r \in Deploys /\ CounterStored(r)
      BY <2>1, <3>1, TypeFacts DEF CounterStored, TypeInv, Sessions
    <3>2. CASE AccountStored \/ UNCHANGED session
      BY <3>2, TypeFacts DEF AccountStored, TypeInv, Sessions
    <3> QED
      BY <1>5, <3>1, <3>2 DEF SncastConfirmed
  <2>3. crossed' \in BOOLEAN
    <3>1. \/ crossed' = (crossed \/ \E b \in Blocks : pc[b] \in InFlight)
          \/ UNCHANGED crossed
      BY <1>5 DEF SncastConfirmed, CounterStored, AccountStored
    <3> QED
      BY <3>1, TypeFacts DEF TypeInv
  <2> QED
    BY <1>1, <1>2, <1>5, <2>2, <2>3, Stores DEF SncastConfirmed
<1>6. CASE SncastUnconfirmed(r)
  <2>1. Fault \/ UNCHANGED faults
    BY <1>6 DEF SncastUnconfirmed, GivesUp
  <2> QED
    BY <1>1, <1>2, <1>6, <2>1, OnlyMoves, Kinds DEF SncastUnconfirmed
<1> QED
  BY <1>3, <1>4, <1>5, <1>6 DEF SncastStep

LEMMA MeetsTyped ==
    ASSUME TypeOK, NEW r \in Requests, Meets(r)
    PROVE  rivals' \in [Requests -> SUBSET Jobs]
<1>1. rivals \in [Requests -> SUBSET Jobs]
  BY TypeFacts
<1> DEFINE others == {j \in Requests \ {r} : UsesFiles(j)}
<1>2. rivals' = [q \in Requests |->
                     CASE q = r -> rivals[r] \cup (others \cap Jobs)
                       [] q \in others /\ r \in Jobs -> rivals[q] \cup {r}
                       [] OTHER -> rivals[q]]
  BY DEF Meets
<1> HIDE DEF others
<1> QED
  BY <1>1, <1>2

\* What a prover job does to its phase and to the files.
LEMMA JobTyped ==
    ASSUME TypeOK, NEW j \in Jobs,
           \/ Prover!Start(j) \/ Prover!Succeed(j) \/ Prover!Fail(j)
           \/ \E f \in Prover!Artifacts : Prover!Open(j, f) \/ Prover!Fill(j, f)
    PROVE  /\ phase' \in [Jobs -> Prover!Phases] /\ files' \in FileStates
           /\ \A k \in Jobs : k # j => phase'[k] = phase[k]
<1>1. phase \in [Jobs -> Prover!Phases] /\ files \in FileStates
  BY TypeFacts
<1>2. PICK to \in Prover!Phases : Prover!Go(j, to)
  BY DEF Prover!Start, Prover!Succeed, Prover!Fail, Prover!Open, Prover!Fill, Prover!Phases,
         Prover!Writing, Prover!Written, Prover!Opening, Prover!Artifacts
<1>3. phase' \in [Jobs -> Prover!Phases] /\ \A k \in Jobs : k # j => phase'[k] = phase[k]
  BY <1>1, <1>2 DEF Prover!Go
<1>4. UNCHANGED files \/ \E f \in Prover!Artifacts, c \in Prover!Content : Prover!Put(j, f, c)
  <2>1. CASE Prover!Start(j) \/ Prover!Succeed(j) \/ Prover!Fail(j)
    BY <2>1 DEF Prover!Start, Prover!Succeed, Prover!Fail
  <2>2. ASSUME NEW f \in Prover!Artifacts, Prover!Open(j, f)
        PROVE  \E c \in Prover!Content : Prover!Put(j, f, c)
    BY <2>2 DEF Prover!Open, Prover!Content
  <2>3. ASSUME NEW f \in Prover!Artifacts, Prover!Fill(j, f)
        PROVE  UNCHANGED files \/ \E c \in Prover!Content : Prover!Put(j, f, c)
    <3>1. files["session"][f] \in Prover!Content
      BY <1>1, <2>3 DEF FileStates
    <3>2. {j} \in Prover!Content
      BY DEF Prover!Content
    <3>3. CASE files["session"][f] # Prover!Missing
      <4>1. files["session"][f] \cup {j} \in Prover!Content
        BY <3>1, <3>3 DEF Prover!Content
      <4> QED
        BY <2>3, <3>2, <4>1 DEF Prover!Fill
    <3>4. CASE files["session"][f] = Prover!Missing
      BY <2>3, <3>2, <3>4 DEF Prover!Fill
    <3> QED
      BY <3>3, <3>4
  <2> QED
    BY <2>1, <2>2, <2>3
<1>5. files' \in FileStates
  <2>1. CASE UNCHANGED files
    BY <1>1, <2>1
  <2>2. ASSUME NEW f \in Prover!Artifacts, NEW c \in Prover!Content, Prover!Put(j, f, c)
        PROVE  files' \in FileStates
    <3>1. files' = [files EXCEPT !["session"] = [files["session"] EXCEPT ![f] = c]]
      BY <2>2 DEF Prover!Put
    <3>2. [files["session"] EXCEPT ![f] = c] \in [Prover!Artifacts -> Prover!Content]
      BY <1>1, <2>2 DEF FileStates
    <3> QED
      BY <1>1, <3>1, <3>2 DEF FileStates
  <2> QED
    BY <1>4, <2>1, <2>2
<1> QED
  BY <1>3, <1>5

\* The script starts with a block of the chain.
LEMMA ScriptProveTyped ==
    ASSUME TypeInv, UNCHANGED coming, NEW p \in Scripts, pc[p] # "new",
           NEW block \in 1 .. Tip, ScriptProve(p, block), UNCHANGED faults
    PROVE  TypeInv'
<1>1. p \in Requests /\ p \in Jobs /\ p \notin Blocks
  BY Kinds
<1>2. block - 1 \in 0 .. Tip
  BY NumberFacts DEF TypeInv
<1>3. ref' \in [Jobs -> 0 .. Tip] /\ \A b \in Blocks : ref'[b] = ref[b]
  BY <1>1, <1>2, TypeFacts, Kinds DEF ScriptProve, TypeInv
<1>4. session' \in Sessions(Tip)
  BY <1>2, TypeFacts DEF ScriptProve, TypeInv, Sessions
<1>5. phase' \in [Jobs -> Prover!Phases] /\ files' \in FileStates
  BY <1>1, JobTyped DEF ScriptProve, TypeInv
<1>6. rivals' \in [Requests -> SUBSET Jobs]
  BY <1>1, MeetsTyped DEF ScriptProve, TypeInv
<1>7. "proving" \in Places \ {"new"}
  BY PlaceNames DEF InFlight
<1>8. /\ pc' \in [Requests -> Places] /\ pc'[p] = "proving"
      /\ \A q \in Requests : q # p => pc'[q] = pc[q]
  BY <1>1, <1>7, Moves DEF ScriptProve, TypeInv
<1>9. Begun' /\ Chain' /\ Executed'
  <2>1. UNCHANGED <<nonceAt, tx, picked, attempts>>
    BY DEF ScriptProve, chain
  <2>2. Chain' /\ Executed'
    BY <2>1 DEF TypeInv, Chain, Executed, Tip, nonce
  <2>3. Begun'
    BY <1>1, <1>3, <1>8, <2>1, Kinds DEF TypeInv, Begun
  <2> QED
    BY <2>2, <2>3
<1>10. TypeOK'
  BY <1>3, <1>4, <1>5, <1>6, <1>8, TypeFacts, TypedAgain DEF ScriptProve, TypeInv, chain
<1> QED
  BY <1>9, <1>10 DEF TypeInv

LEMMA ScriptsTyped ==
    ASSUME TypeInv, UNCHANGED coming, NEW p \in Scripts,
           ScriptBegin(p) \/ ScriptBlock(p) \/ ScriptWaited(p) \/ ScriptEnds(p)
    PROVE  TypeInv'
<1>1. p \in Requests /\ p \in Jobs /\ p \notin Blocks
  BY Kinds
<1>2. {"picked", "waiting", "failed", "done"} \subseteq Places \ {"new"}
  BY PlaceNames DEF InFlight, Ended
<1>3. CASE ScriptBegin(p)
  <2>1. /\ pc' \in [Requests -> Places] /\ pc'[p] = "picked"
        /\ \A q \in Requests : q # p => pc'[q] = pc[q]
    BY <1>1, <1>2, <1>3, Moves DEF ScriptBegin, TypeInv
  <2>2. session.invokeTx \in Invokes
    BY <1>3, TypeFacts DEF ScriptBegin, TypeInv, Sessions
  <2>3. picked' \in [Scripts -> Invokes \cup {None}] /\ picked'[p] \in Invokes
        /\ \A q \in Scripts : q # p => picked'[q] = picked[q]
    BY <1>3, <2>2, TypeFacts DEF ScriptBegin, TypeInv
  <2>4. Begun'
    BY <1>1, <1>3, <2>1, <2>3, Kinds DEF ScriptBegin, TypeInv, Begun
  <2>5. Chain' /\ Executed'
    BY <1>3 DEF ScriptBegin, chain, TypeInv, Chain, Executed, Tip, nonce
  <2>6. TypeOK'
    BY <1>3, <2>1, <2>3, TypeFacts, TypedAgain DEF ScriptBegin, TypeInv, chain, artifacts, history
  <2> QED
    BY <2>4, <2>5, <2>6 DEF TypeInv
<1>4. CASE ScriptBlock(p)
  <2>1. pc[p] # "new" /\ UNCHANGED faults
    BY <1>4 DEF ScriptBlock, ScriptProve
  <2>2. CASE session.invokeBlock # 0 /\ ScriptProve(p, session.invokeBlock)
    <3>1. session.invokeBlock \in 1 .. Tip
      BY <2>2, TypeFacts, NumberFacts DEF TypeInv, Sessions
    <3> QED
      BY <2>1, <2>2, <3>1, ScriptProveTyped
  <2>3. CASE ~(session.invokeBlock # 0 /\ ScriptProve(p, session.invokeBlock))
    BY <1>1, <1>2, <1>4, <2>1, <2>3, OnlyMoves, TypeFacts DEF ScriptBlock, TypeInv
  <2> QED
    BY <2>2, <2>3
<1>5. CASE ScriptWaited(p)
  <2>1. pc[p] # "new"
    BY <1>5 DEF ScriptWaited
  <2>2. CASE Included(picked[p]) /\ ScriptProve(p, tx[picked[p]].block)
    <3>1. picked[p] \in Requests
      BY <2>1, Kinds DEF TypeInv, Begun
    <3>2. tx[picked[p]].block \in 1 .. Tip
      BY <2>2, <3>1, TypeFacts, NumberFacts DEF TypeInv, Txs, Executed, Included
    <3> QED
      BY <2>1, <2>2, <3>2, ScriptProveTyped DEF ScriptProve
  <2>3. CASE ~(Included(picked[p]) /\ ScriptProve(p, tx[picked[p]].block))
    <3>1. Fault \/ UNCHANGED faults
      BY <1>5, <2>3 DEF ScriptWaited, GivesUp
    <3> QED
      BY <1>1, <1>2, <1>5, <2>1, <2>3, <3>1, OnlyMoves, TypeFacts DEF ScriptWaited, TypeInv
  <2> QED
    BY <2>2, <2>3
<1>6. CASE ScriptEnds(p)
  <2>1. session' \in Sessions(Tip)
    BY <1>6, TypeFacts DEF ScriptEnds, TypeInv, Sessions
  <2>2. PICK to \in {"done", "failed"} : Go(p, to)
    BY <1>6 DEF ScriptEnds
  <2>3. pc' \in [Requests -> Places] /\ Chain' /\ Begun'
    BY <1>1, <1>2, <1>6, <2>2, Continues DEF ScriptEnds, chain, locals
  <2>4. TypeOK'
    BY <1>6, <2>1, <2>3, TypeFacts, TypedAgain
    DEF ScriptEnds, TypeInv, chain, locals, artifacts, history
  <2> QED
    BY <1>6, <2>3, <2>4 DEF ScriptEnds, TypeInv, Executed, chain
<1> QED
  BY <1>3, <1>4, <1>5, <1>6

LEMMA BlockMakesProofTyped ==
    ASSUME TypeInv, UNCHANGED coming, NEW b \in Blocks,
           BlockBegin(b) \/ BlockConstruct(b) \/ BlockSpawn(b) \/ BlockProved(b)
    PROVE  TypeInv'
<1>1. b \in Requests /\ b \in Jobs /\ b \in Readers /\ b \notin Scripts
  BY Kinds
<1>2. /\ {"constructing", "spawning", "proving", "reading", "failed"} \subseteq Places \ {"new"}
      /\ {"constructing", "spawning", "proving", "reading"} \subseteq InFlight
  BY PlaceNames DEF InFlight, Ended
<1>3. CASE BlockBegin(b)
  <2>1. /\ pc' \in [Requests -> Places] /\ pc'[b] = "constructing"
        /\ \A q \in Requests : q # b => pc'[q] = pc[q]
    BY <1>1, <1>2, <1>3, Moves DEF BlockBegin, TypeInv
  <2>2. session.reference \in 0 .. Tip /\ session.reference > 0
    BY <1>3, TypeFacts, NumberFacts DEF BlockBegin, TypeInv, Sessions
  <2>3. ref' \in [Jobs -> 0 .. Tip] /\ ref'[b] > 0 /\ \A q \in Jobs : q # b => ref'[q] = ref[q]
    BY <1>1, <1>3, <2>2, TypeFacts DEF BlockBegin, TypeInv
  <2>4. Begun'
    BY <1>1, <1>3, <2>1, <2>3, Kinds DEF BlockBegin, TypeInv, Begun
  <2>5. Chain' /\ Executed'
    BY <1>3 DEF BlockBegin, chain, TypeInv, Chain, Executed, Tip, nonce
  <2>6. TypeOK'
    BY <1>3, <2>1, <2>3, TypeFacts, TypedAgain DEF BlockBegin, TypeInv, chain, artifacts, history
  <2> QED
    BY <2>4, <2>5, <2>6 DEF TypeInv
<1>4. CASE BlockConstruct(b)
  <2>1. pc' \in [Requests -> Places] /\ Chain' /\ Begun'
    BY <1>1, <1>2, <1>4, Continues DEF BlockConstruct, chain, InFlight
  <2>2. ref[b] \in 1 .. Tip
    BY <1>1, <1>4, TypeFacts, NumberFacts DEF BlockConstruct, TypeInv, Begun
  <2>3. signed' \in [Readers -> 0 .. nonce]
    BY <1>1, <1>4, <2>2, TypeFacts, NumberFacts DEF BlockConstruct, TypeInv
  <2>4. rivals' \in [Requests -> SUBSET Jobs]
    BY <1>1, <1>4, MeetsTyped DEF BlockConstruct, TypeInv
  <2>5. TypeOK'
    BY <1>4, <2>1, <2>3, <2>4, TypeFacts, TypedAgain DEF BlockConstruct, TypeInv, chain
  <2> QED
    BY <1>4, <2>1, <2>5 DEF BlockConstruct, TypeInv, Executed, chain
<1>5. CASE BlockSpawn(b)
  <2>1. pc' \in [Requests -> Places] /\ Chain' /\ Begun'
    BY <1>1, <1>2, <1>5, Continues DEF BlockSpawn, chain, InFlight
  <2>2. phase' \in [Jobs -> Prover!Phases] /\ files' \in FileStates
    BY <1>1, <1>5, JobTyped DEF BlockSpawn, TypeInv
  <2>3. proves' \in [Blocks -> Blocks \cup {None}]
    BY <1>5, TypeFacts DEF BlockSpawn, TypeInv
  <2>4. TypeOK'
    BY <1>5, <2>1, <2>2, <2>3, TypeFacts, TypedAgain DEF BlockSpawn, TypeInv, chain, history
  <2> QED
    BY <1>5, <2>1, <2>4 DEF BlockSpawn, TypeInv, Executed, chain
<1>6. CASE BlockProved(b)
  <2>1. PICK to \in {"reading", "failed"} : Go(b, to)
    BY <1>6 DEF BlockProved
  <2>2. pc[b] = "proving"
    BY <1>6 DEF BlockProved
  <2>3. pc[b] # "new" /\ pc[b] \in InFlight
    BY <2>2, <1>2
  <2>4. UNCHANGED <<session, lock, chain, locals, artifacts, history, faults>>
    BY <1>6 DEF BlockProved
  <2> QED
    BY <1>1, <1>2, <2>1, <2>3, <2>4, OnlyMoves, TypeFacts DEF TypeInv
<1> QED
  BY <1>3, <1>4, <1>5, <1>6

LEMMA BlockSubmitTyped ==
    ASSUME TypeInv, UNCHANGED coming, NEW b \in Blocks, BlockSubmit(b)
    PROVE  TypeInv'
<1>1. b \in Requests /\ b \in Jobs /\ b \in Readers /\ b \notin Scripts
  BY Kinds
<1>2. pc[b] = "submitting" /\ pc[b] \in InFlight
  BY DEF BlockSubmit, InFlight
<1>3. PICK to : /\ to \in {"including", "submitting", "refused", "failed"} /\ Go(b, to)
                /\ to = "submitting" => /\ attempts' = [attempts EXCEPT ![b] = @ + 1]
                                        /\ attempts[b] + 1 # MaxAttempts
                /\ to = "including" => attempts' = attempts
                /\ attempts' \in {attempts, [attempts EXCEPT ![b] = @ + 1]}
  <2>1. CASE Accepted(b) /\ UNCHANGED attempts
    BY <2>1 DEF Accepted
  <2>2. CASE Refused(b)
    BY <2>2 DEF Refused
  <2>3. CASE Unanswered(b) /\ UNCHANGED attempts
    BY <2>3 DEF Unanswered
  <2> QED
    BY <2>1, <2>2, <2>3 DEF BlockSubmit
<1>4. /\ to \in Places \ {"new"}
      /\ to \in {"refused", "failed"} => to \notin InFlight
  BY <1>3, PlaceNames DEF InFlight, Ended
<1>5. /\ pc' \in [Requests -> Places] /\ pc'[b] = to
      /\ \A q \in Requests : q # b => pc'[q] = pc[q]
  BY <1>1, <1>3, <1>4, Moves DEF TypeInv
<1>6. attempts[b] \in 0 .. MaxAttempts /\ attempts[b] < MaxAttempts /\ MaxAttempts \in Nat
  BY <1>2, TypeFacts, SessionAssumption DEF TypeInv, Begun
<1>7. /\ attempts' \in [Blocks -> 0 .. MaxAttempts]
      /\ to \in InFlight => attempts'[b] < MaxAttempts
      /\ \A q \in Blocks : q # b => attempts'[q] = attempts[q]
  <2>1. attempts \in [Blocks -> 0 .. MaxAttempts]
    BY TypeFacts DEF TypeInv
  <2>2. CASE to = "submitting"
    BY <1>3, <1>6, <2>1, <2>2
  <2>3. CASE to # "submitting"
    BY <1>3, <1>4, <1>6, <2>1, <2>3
  <2> QED
    BY <2>2, <2>3
<1>8. tx' \in {tx, [tx EXCEPT ![b] = Pending(signed[b])]}
  BY DEF BlockSubmit, Accepted, Refused, Unanswered
<1>9. tx' \in [Requests -> Txs(Tip, nonce)] /\ Executed'
  <2>1. Pending(signed[b]) \in Txs(Tip, nonce) /\ Pending(signed[b]).status = "pending"
    BY <1>1, TypeFacts, NumberFacts DEF Pending, Txs, TypeInv
  <2>2. tx \in [Requests -> Txs(Tip, nonce)] /\ Executed
    BY TypeFacts DEF TypeInv
  <2>3. CASE UNCHANGED tx
    BY <2>2, <2>3, <1>1 DEF Executed
  <2>4. CASE tx' = [tx EXCEPT ![b] = Pending(signed[b])]
    BY <2>1, <2>2, <2>4 DEF Executed
  <2> QED
    BY <1>8, <2>3, <2>4
<1>10. /\ faults' \in 0 .. MaxFaults
       /\ UNCHANGED <<session, lock, declare, nonceAt, ref, picked, signed, proves, sent>>
       /\ UNCHANGED <<artifacts, history>>
  <2>1. Fault \/ UNCHANGED faults
    BY DEF BlockSubmit
  <2> QED
    BY <2>1, TypeFacts, FaultTyped DEF BlockSubmit, TypeInv
<1>11. Chain' /\ Begun'
  <2>1. Chain'
    BY <1>10 DEF TypeInv, Chain, Tip, nonce
  <2>2. pc[b] # "new" /\ to # "new"
    BY <1>2, <1>3, PlaceNames
  <2>3. \A c \in Blocks : pc'[c] # "new" => ref'[c] > 0
    BY <1>5, <1>10, <2>2, Kinds DEF TypeInv, Begun
  <2>4. \A p \in Scripts : pc'[p] # "new" => picked'[p] \in Invokes
    BY <1>1, <1>5, <1>10, <2>2, Kinds DEF TypeInv, Begun
  <2>5. \A c \in Blocks : pc'[c] \in {"new"} \cup InFlight => attempts'[c] < MaxAttempts
    BY <1>5, <1>7, <2>2, Kinds DEF TypeInv, Begun
  <2> QED
    BY <2>1, <2>3, <2>4, <2>5 DEF Begun
<1>12. TypeOK'
  BY <1>5, <1>7, <1>9, <1>10, TypeFacts, TypedAgain DEF TypeInv, artifacts, history
<1> QED
  BY <1>9, <1>11, <1>12 DEF TypeInv

LEMMA BlockIncludedTyped ==
    ASSUME TypeInv, UNCHANGED coming, NEW b \in Blocks, BlockIncluded(b)
    PROVE  TypeInv'
<1>1. b \in Requests /\ b \in Jobs
  BY Kinds
<1>2. PICK to \in {"done", "failed"} : Go(b, to)
  BY DEF BlockIncluded
<1>3. to \in Places \ {"new"} /\ to \notin InFlight
  BY <1>2, PlaceNames DEF Ended
<1>4. pc' \in [Requests -> Places] /\ Chain' /\ Begun'
  BY <1>1, <1>2, <1>3, Continues DEF BlockIncluded, chain, locals
<1>5. session' \in Sessions(Tip)
  <2>1. tx[b].block \in 0 .. Tip
    BY <1>1, TypeFacts DEF TypeInv, Txs
  <2> QED
    BY <2>1, TypeFacts DEF BlockIncluded, TypeInv, Sessions
<1>6. faults' \in 0 .. MaxFaults
  <2>1. Fault \/ UNCHANGED faults
    BY DEF BlockIncluded, GivesUp
  <2> QED
    BY <2>1, TypeFacts, FaultTyped DEF TypeInv
<1>7. TypeOK'
  BY <1>4, <1>5, <1>6, TypeFacts, TypedAgain
  DEF BlockIncluded, TypeInv, chain, locals, artifacts, history
<1> QED
  BY <1>4, <1>7 DEF BlockIncluded, TypeInv, Executed, chain

LEMMA ReadersTyped ==
    ASSUME TypeInv, UNCHANGED coming, NEW r \in Readers, ReadProof(r) \/ ReadFacts(r)
    PROVE  TypeInv'
<1>1. r \in Requests /\ r \notin Scripts
  BY Kinds
<1>2. PICK to \in {"facts", "submitting", "signing", "failed"} : Go(r, to)
  BY DEF ReadProof, ReadFacts
<1>3. to \in Places \ {"new"} /\ pc[r] \in InFlight /\ pc[r] # "new"
  BY <1>2, PlaceNames DEF ReadProof, ReadFacts, InFlight, Ended
<1>4. pc' \in [Requests -> Places] /\ Chain' /\ Begun'
  BY <1>1, <1>3, <1>2, Continues DEF ReadProof, ReadFacts, chain
<1>5. /\ sent' \in [Readers -> [proof : (SUBSET Jobs) \cup {Missing}, facts : SUBSET Jobs]]
      /\ \A q \in Readers : q # r => sent'[q] = sent[q]
  <2>1. \A f \in Prover!Artifacts : File[f] \in (SUBSET Jobs) \cup {Missing}
    BY TypeFacts DEF TypeInv, FileStates, File, Prover!Content, Missing
  <2>2. {"proof", "facts"} \subseteq Prover!Artifacts
    BY DEF Prover!Artifacts
  <2>3. sent \in [Readers -> [proof : (SUBSET Jobs) \cup {Missing}, facts : SUBSET Jobs]]
    BY TypeFacts DEF TypeInv
  <2>4. CASE sent' = [sent EXCEPT ![r].proof = File["proof"]]
    BY <2>1, <2>2, <2>3, <2>4
  <2>5. CASE File["facts"] # Missing /\ sent' = [sent EXCEPT ![r].facts = File["facts"]]
    BY <2>1, <2>2, <2>3, <2>5
  <2>6. CASE sent' = sent
    BY <2>3, <2>6
  <2> QED
    BY <2>4, <2>5, <2>6 DEF ReadProof, ReadFacts
<1>6. TypeOK'
  BY <1>4, <1>5, TypeFacts, TypedAgain DEF ReadProof, ReadFacts, TypeInv, chain, artifacts, history
<1> QED
  BY <1>4, <1>6 DEF ReadProof, ReadFacts, TypeInv, Executed, chain

LEMMA SubmitsTyped ==
    ASSUME TypeInv, UNCHANGED coming, NEW s \in Submits,
           SubmitBegin(s) \/ SubmitSign(s) \/ SubmitSend(s)
    PROVE  TypeInv'
<1>1. s \in Requests \ Jobs /\ s \in Readers
  BY Kinds
<1>2. {"reading", "submitting", "done", "failed"} \subseteq Places \ {"new"}
  BY PlaceNames DEF InFlight, Ended
<1>3. CASE SubmitBegin(s)
  <2>1. pc' \in [Requests -> Places] /\ Chain' /\ Begun'
    BY <1>1, <1>2, <1>3, Continues, Kinds DEF SubmitBegin, chain, locals
  <2>2. rivals' \in [Requests -> SUBSET Jobs]
    BY <1>1, <1>3, MeetsTyped DEF SubmitBegin, TypeInv
  <2>3. TypeOK'
    BY <1>3, <2>1, <2>2, TypeFacts, TypedAgain
    DEF SubmitBegin, TypeInv, chain, locals, artifacts
  <2> QED
    BY <1>3, <2>1, <2>3 DEF SubmitBegin, TypeInv, Executed, chain
<1>4. CASE SubmitSign(s)
  <2>1. pc' \in [Requests -> Places] /\ Chain' /\ Begun'
    BY <1>1, <1>2, <1>4, Continues, Kinds DEF SubmitSign, chain
  <2>2. signed' \in [Readers -> 0 .. nonce]
    BY <1>1, <1>4, TypeFacts, NumberFacts DEF SubmitSign, TypeInv
  <2>3. TypeOK'
    BY <1>4, <2>1, <2>2, TypeFacts, TypedAgain DEF SubmitSign, TypeInv, chain, artifacts, history
  <2> QED
    BY <1>4, <2>1, <2>3 DEF SubmitSign, TypeInv, Executed, chain
<1>5. CASE SubmitSend(s)
  <2>1. signed[s] \in 0 .. nonce
    BY <1>1, TypeFacts DEF TypeInv
  <2>2. PICK to \in {"done", "failed"} : Go(s, to)
    BY <1>5 DEF SubmitSend, Unanswered
  <2>3. tx' \in {tx, [tx EXCEPT ![s] = Pending(signed[s])]} /\ (Fault \/ UNCHANGED faults)
    BY <1>5 DEF SubmitSend, Unanswered
  <2> QED
    BY <1>1, <1>2, <1>5, <2>1, <2>2, <2>3, Sends, TypeFacts DEF SubmitSend, TypeInv
<1> QED
  BY <1>3, <1>4, <1>5

\* A new block keeps what is known of the older ones.
LEMMA ExecuteTyped ==
    ASSUME TypeInv, UNCHANGED coming, NEW r \in Requests, Execute(r)
    PROVE  TypeInv'
<1>1. PICK m \in {nonce, nonce + 1} : nonceAt' = Append(nonceAt, m)
  BY DEF Execute
<1>2. /\ nonceAt' \in Seq(Nat) /\ Tip' = Tip + 1 /\ nonce' = m
      /\ nonce \in Nat /\ Tip \in Nat /\ Chain'
  BY <1>1, ChainGrows DEF TypeInv
<1>3. \A k \in 0 .. Tip : k \in 0 .. Tip'
  BY <1>2
<1>4. \A k \in 0 .. nonce : k \in 0 .. nonce'
  BY <1>1, <1>2
<1>5. PICK status \in {"ok", "reverted"} :
          tx' = [tx EXCEPT ![r].status = status, ![r].block = Tip + 1]
  BY DEF Execute
<1>6. tx \in [Requests -> Txs(Tip, nonce)] /\ Tip + 1 \in 0 .. Tip' /\ Tip + 1 > 0
  BY <1>2, TypeFacts DEF TypeInv
<1>7. tx' \in [Requests -> Txs(Tip', nonce')] /\ Executed'
  <2>1. Txs(Tip, nonce) \subseteq Txs(Tip', nonce')
    BY <1>3, <1>4 DEF Txs
  <2>2. [tx[r] EXCEPT !.status = status, !.block = Tip + 1] \in Txs(Tip', nonce')
    BY <1>4, <1>5, <1>6 DEF Txs
  <2>3. tx' = [tx EXCEPT ![r] = [tx[r] EXCEPT !.status = status, !.block = Tip + 1]]
    BY <1>5
  <2>4. \A q \in Requests : q # r => tx'[q] = tx[q]
    BY <1>6, <2>3
  <2>5. tx'[r].block = Tip + 1
    BY <1>6, <2>3 DEF Txs
  <2>6. tx' \in [Requests -> Txs(Tip', nonce')]
    BY <1>6, <2>1, <2>2, <2>3
  <2> QED
    BY <1>6, <2>4, <2>5, <2>6 DEF TypeInv, Executed
<1>8. session' \in Sessions(Tip') /\ ref' \in [Jobs -> 0 .. Tip'] /\ signed' \in [Readers -> 0 .. nonce']
  <2>1. UNCHANGED <<session, ref, signed>>
    BY DEF Execute, locals
  <2>2. Sessions(Tip) \subseteq Sessions(Tip')
    BY <1>3 DEF Sessions
  <2> QED
    BY <1>3, <1>4, <2>1, <2>2, TypeFacts DEF TypeInv
<1>9. faults' \in 0 .. MaxFaults
  BY TypeFacts, FaultTyped DEF Execute, TypeInv
<1>10. declare' \in [Deploys -> Txs(Tip', nonce')]
  <2>1. Txs(Tip, nonce) \subseteq Txs(Tip', nonce')
    BY <1>3, <1>4 DEF Txs
  <2> QED
    BY <2>1, TypeFacts DEF Execute, TypeInv
<1>11. TypeOK'
  BY <1>2, <1>7, <1>8, <1>9, <1>10
  DEF Execute, TypeInv, TypeOK, Sessions, Txs, locals, artifacts, history
<1>12. Begun'
  BY DEF Execute, TypeInv, Begun, locals
<1> QED
  BY <1>2, <1>7, <1>11, <1>12 DEF TypeInv

LEMMA ExecuteDeclareTyped ==
    ASSUME TypeInv, UNCHANGED coming, NEW d \in Deploys, ExecuteDeclare(d)
    PROVE  TypeInv'
<1>1. /\ nonceAt' \in Seq(Nat) /\ Tip' = Tip + 1 /\ nonce' = nonce + 1
      /\ nonce \in Nat /\ Tip \in Nat /\ Chain'
  BY ChainGrows DEF ExecuteDeclare, TypeInv
<1>2. \A k \in 0 .. Tip : k \in 0 .. Tip'
  BY <1>1
<1>3. \A k \in 0 .. nonce : k \in 0 .. nonce'
  BY <1>1
<1>4. Txs(Tip, nonce) \subseteq Txs(Tip', nonce') /\ Sessions(Tip) \subseteq Sessions(Tip')
  BY <1>2, <1>3 DEF Txs, Sessions
<1>5. declare' \in [Deploys -> Txs(Tip', nonce')]
  <2>1. declare[d] \in Txs(Tip, nonce) /\ Tip + 1 \in 0 .. Tip'
    BY <1>1, TypeFacts DEF TypeInv
  <2>2. [declare[d] EXCEPT !.status = "ok", !.block = Tip + 1] \in Txs(Tip', nonce')
    BY <1>3, <2>1 DEF Txs
  <2>3. declare' = [declare EXCEPT ![d] = [declare[d] EXCEPT !.status = "ok", !.block = Tip + 1]]
    BY DEF ExecuteDeclare
  <2> QED
    BY <1>4, <2>2, <2>3, TypeFacts DEF TypeInv
<1>6. /\ tx' \in [Requests -> Txs(Tip', nonce')] /\ session' \in Sessions(Tip')
      /\ ref' \in [Jobs -> 0 .. Tip'] /\ signed' \in [Readers -> 0 .. nonce']
  <2>1. UNCHANGED <<tx, session, ref, signed>>
    BY DEF ExecuteDeclare, locals
  <2> QED
    BY <1>2, <1>3, <1>4, <2>1, TypeFacts DEF TypeInv
<1>7. TypeOK'
  BY <1>1, <1>5, <1>6
  DEF ExecuteDeclare, TypeInv, TypeOK, Sessions, Txs, locals, artifacts, history
<1>8. Begun' /\ Executed'
  BY DEF ExecuteDeclare, TypeInv, Begun, Executed, locals
<1> QED
  BY <1>1, <1>7, <1>8 DEF TypeInv

\* A dropped request is lost, but for a sncast process that it has started.
LEMMA RequestsDropped ==
    ASSUME TypeInv, Drops
    PROVE  /\ UNCHANGED <<chain, locals, artifacts, history>> /\ Fault
           /\ session' \in {session, NewSession} /\ lock' \in Sncasts \cup {None}
           /\ pc' \in [Requests -> Places]
           /\ \A r \in Requests : pc'[r] = pc[r] \/ (pc[r] \in InFlight /\ pc'[r] \in {"failed"} \cup Orphans)
           /\ \A r \in Requests \ Sncasts : pc'[r] = pc[r] \/ pc'[r] = "failed"
           /\ \A r \in Requests : pc'[r] \in Orphans => pc[r] \in Children \cup Orphans
<1>1. pc \in [Requests -> Places] /\ lock \in Sncasts \cup {None} /\ "failed" \notin Orphans
  BY TypeFacts DEF TypeInv, Orphans
<1>2. {"failed"} \cup Orphans \subseteq Places /\ Children \cup Orphans \subseteq InFlight
  BY DEF Places, InFlight, Ended
<1>3. \A r \in Requests : /\ Lost(r) = pc[r] \/ (pc[r] \in InFlight /\ Lost(r) \in {"failed"} \cup Orphans)
                          /\ r \notin Sncasts => Lost(r) \in {pc[r], "failed"}
                          /\ Lost(r) \in Orphans => pc[r] \in Children \cup Orphans
  <2> SUFFICES ASSUME NEW r \in Requests
               PROVE  /\ Lost(r) = pc[r] \/ (pc[r] \in InFlight /\ Lost(r) \in {"failed"} \cup Orphans)
                      /\ r \notin Sncasts => Lost(r) \in {pc[r], "failed"}
                      /\ Lost(r) \in Orphans => pc[r] \in Children \cup Orphans
    OBVIOUS
  <2>1. CASE HasChild(r)
    BY <1>2, <2>1 DEF HasChild, Lost, Orphans
  <2>2. CASE ~HasChild(r) /\ pc[r] \in InFlight
    BY <1>1, <2>2 DEF Lost
  <2>3. CASE ~HasChild(r) /\ pc[r] \notin InFlight
    BY <2>3 DEF Lost
  <2> QED
    BY <2>1, <2>2, <2>3
<1>4. ASSUME NEW r \in Requests, NEW to \in {"failed", Lost(r)}, pc[r] \in InFlight, Go(r, to)
      PROVE  /\ pc' \in [Requests -> Places]
             /\ \A q \in Requests : pc'[q] = pc[q] \/ (pc[q] \in InFlight /\ pc'[q] \in {"failed"} \cup Orphans)
             /\ \A q \in Requests \ Sncasts : pc'[q] = pc[q] \/ pc'[q] = "failed"
             /\ \A q \in Requests : pc'[q] \in Orphans => pc[q] \in Children \cup Orphans
  <2>1. pc'[r] = to /\ \A q \in Requests : q # r => pc'[q] = pc[q]
    BY <1>1, <1>4 DEF Go
  <2>2. to \in Places
    BY <1>1, <1>2, <1>3, <1>4
  <2> QED
    BY <1>1, <1>3, <1>4, <2>1, <2>2, Moves DEF TypeInv
<1>5. ASSUME NEW r \in Requests, RequestFails(r)
      PROVE  /\ pc[r] \in InFlight /\ Go(r, "failed") /\ UNCHANGED <<session, lock>>
             /\ UNCHANGED <<chain, locals, artifacts, history>> /\ Fault
  BY <1>5 DEF RequestFails, InFlight
<1>6. ASSUME NEW r \in Requests, Disconnect(r)
      PROVE  /\ pc[r] \in InFlight /\ Go(r, Lost(r)) /\ UNCHANGED session
             /\ lock' \in Sncasts \cup {None}
             /\ UNCHANGED <<chain, locals, artifacts, history>> /\ Fault
  BY <1>1, <1>6 DEF Disconnect, Release
<1>7. CASE Restart
  <2>1. \A r \in Requests : pc'[r] = Lost(r)
    BY <1>7 DEF Restart
  <2>2. pc' \in [Requests -> Places]
    BY <1>1, <1>2, <1>3, <1>7 DEF Restart
  <2> QED
    BY <1>3, <1>7, <2>1, <2>2 DEF Restart
<1>8. CASE \E r \in Requests : RequestFails(r)
  BY <1>1, <1>4, <1>5, <1>8
<1>9. CASE \E r \in Requests : Disconnect(r)
  BY <1>4, <1>6, <1>9
<1> QED
  BY <1>7, <1>8, <1>9 DEF Drops

LEMMA FailuresTyped ==
    ASSUME TypeInv, UNCHANGED coming,
           (\E j \in Jobs : JobStep(j)) \/ Drops
    PROVE  TypeInv'
<1>1. ASSUME NEW j \in Jobs, JobStep(j) PROVE TypeInv'
  <2>1. Fault \/ UNCHANGED faults
    BY <1>1 DEF JobStep
  <2>2. \/ Prover!Succeed(j) \/ Prover!Fail(j)
        \/ \E f \in Prover!Artifacts : Prover!Open(j, f) \/ Prover!Fill(j, f)
    BY <1>1 DEF JobStep, Prover!Artifacts
  <2>3. phase' \in [Jobs -> Prover!Phases] /\ files' \in FileStates
    BY <2>2, JobTyped DEF TypeInv
  <2>4. faults' \in 0 .. MaxFaults
    BY <2>1, TypeFacts, FaultTyped DEF TypeInv
  <2>5. TypeOK'
    BY <1>1, <2>3, <2>4, TypeFacts, TypedAgain DEF JobStep, TypeInv, chain, locals, history
  <2> QED
    BY <1>1, <2>5 DEF JobStep, TypeInv, Chain, Executed, Begun, chain, locals, Tip, nonce
<1>2. CASE Drops
  <2>1. /\ pc' \in [Requests -> Places]
        /\ \A r \in Requests : pc'[r] = pc[r] \/ (pc[r] \in InFlight /\ pc'[r] # "new")
        /\ \A b \in Blocks : pc'[b] \in {"new"} \cup InFlight => pc[b] \in {"new"} \cup InFlight
    BY <1>2, RequestsDropped, Kinds, PlaceNames DEF Orphans
  <2>2. session' \in Sessions(Tip)
    <3>1. NewSession \in Sessions(Tip)
      BY NumberFacts DEF NewSession, Sessions, TypeInv
    <3> QED
      BY <1>2, <3>1, RequestsDropped, TypeFacts DEF TypeInv
  <2>3. faults' \in 0 .. MaxFaults
    BY <1>2, RequestsDropped, TypeFacts, FaultTyped DEF TypeInv
  <2>4. UNCHANGED <<chain, locals, artifacts, history>> /\ lock' \in Sncasts \cup {None}
    BY <1>2, RequestsDropped
  <2>5. TypeOK'
    BY <2>1, <2>2, <2>3, <2>4, TypeFacts, TypedAgain
    DEF TypeInv, chain, locals, artifacts, history
  <2>6. Begun'
    BY <2>1, <2>4, Kinds, PlaceNames DEF TypeInv, Begun, locals
  <2> QED
    BY <2>4, <2>5, <2>6 DEF TypeInv, Chain, Executed, chain, Tip, nonce
<1> QED
  BY <1>1, <1>2

LEMMA InitTyped == Init => TypeInv
<1> SUFFICES ASSUME Init PROVE TypeInv
  OBVIOUS
<1>1. nonceAt \in Seq(Nat) /\ Tip = 1 /\ nonce = 0
  BY DEF Init, Tip, nonce
<1>2. Chain
  BY <1>1 DEF Init, Chain
<1>3. Executed /\ Begun
  BY SessionAssumption, Kinds DEF Init, Executed, Begun, NoTx
<1>4. session \in Sessions(Tip)
  <2>1. NewSession \in Sessions(Tip)
    BY <1>1 DEF NewSession, Sessions
  <2>2. Deployed \in Sessions(Tip)
    <3>1. TRUE \in BOOLEAN /\ First \in Deploys \cup {None, First} /\ 1 \in 0 .. Tip
      BY <1>1
    <3> QED
      BY <2>1, <3>1 DEF Deployed, NewSession, Sessions
  <2> QED
    BY <2>1, <2>2 DEF Init
<1>5. /\ tx \in [Requests -> Txs(Tip, nonce)] /\ declare \in [Deploys -> Txs(Tip, nonce)]
      /\ ref \in [Jobs -> 0 .. Tip]
      /\ signed \in [Readers -> 0 .. nonce] /\ attempts \in [Blocks -> 0 .. MaxAttempts]
      /\ faults \in 0 .. MaxFaults
  BY <1>1, SessionAssumption DEF Init, NoTx, Txs
<1>6. phase \in [Jobs -> Prover!Phases] /\ files \in FileStates
  BY DEF Init, Prover!Init, Prover!Phases, FileStates, Prover!Content
<1>7. sent \in [Readers -> [proof : (SUBSET Jobs) \cup {Missing}, facts : SUBSET Jobs]]
  BY DEF Init
<1> QED
  BY <1>1, <1>2, <1>3, <1>4, <1>5, <1>6, <1>7
  DEF Init, TypeInv, TypeOK, Sessions, Txs, FileStates

\* Every step, request by request.
Steps ==
    \/ \E i \in Invokes :
           InvokeSend(i) \/ InvokeRecord(i) \/ InvokeConfirmed(i) \/ InvokeUnconfirmed(i)
    \/ \E r \in Sncasts : SncastStep(r)
    \/ \E p \in Scripts : ScriptBegin(p) \/ ScriptBlock(p) \/ ScriptWaited(p) \/ ScriptEnds(p)
    \/ \E b \in Blocks : BlockBegin(b) \/ BlockConstruct(b) \/ BlockSpawn(b) \/ BlockProved(b)
    \/ \E b \in Blocks : BlockSubmit(b) \/ BlockIncluded(b)
    \/ \E r \in Readers : ReadProof(r) \/ ReadFacts(r)
    \/ \E s \in Submits : SubmitBegin(s) \/ SubmitSign(s) \/ SubmitSend(s)
    \/ \E r \in Requests : Execute(r)
    \/ \E d \in Deploys : ExecuteDeclare(d)
    \/ \E j \in Jobs : JobStep(j)
    \/ Drops

LEMMA NextIsSteps == Next => Steps /\ UNCHANGED coming
<1>1. Deploys \subseteq Sncasts
  BY Kinds
<1>2. Arrive => Steps
  BY DEF Arrive, Steps, SncastStep
<1>3. Work => Steps
  BY <1>1 DEF Work, Steps, SncastStep
<1>4. Failures \/ Restart => Steps
  BY DEF Failures, Steps, SncastStep, Drops
<1> QED
  BY <1>2, <1>3, <1>4 DEF Next

LEMMA TypeInvariant == Spec => []TypeInv
<1>1. TypeInv /\ [Next]_vars => TypeInv'
  <2> SUFFICES ASSUME TypeInv, [Next]_vars PROVE TypeInv'
    OBVIOUS
  <2>1. CASE Steps /\ UNCHANGED coming
    BY <2>1, InvokesTyped, SncastsTyped, ScriptsTyped, BlockMakesProofTyped, BlockSubmitTyped,
       BlockIncludedTyped, ReadersTyped, SubmitsTyped, ExecuteTyped, ExecuteDeclareTyped,
       FailuresTyped DEF Steps
  <2>2. CASE UNCHANGED vars
    <3>1. TypeOK'
      BY <2>2, TypeFacts, TypedAgain DEF vars, TypeInv, chain, locals, artifacts, history
    <3> QED
      BY <2>2, <3>1 DEF vars, TypeInv, Chain, Executed, Begun, chain, locals, Tip, nonce
  <2> QED
    BY <2>1, <2>2, NextIsSteps
<1> QED
  BY <1>1, InitTyped, PTL DEF Spec

\* routes.rs of both crates: however the requests of a session interleave and
\* fail, its state is one that they know.
THEOREM SessionTypeCorrect == Spec => []TypeOK
<1>1. TypeInv => TypeOK
  BY DEF TypeInv
<1> QED
  BY <1>1, TypeInvariant, PTL

-----------------------------------------------------------------------------
(* What a step may do to a request and its transaction.  A request sends its *)
(* transaction once, and what has ended or been executed stays as it is.     *)

BeforeSend == {"new", "queued", "constructing", "spawning", "proving", "reading", "facts",
               "signing", "submitting"} \cup Children \cup Orphans
Unsent == \A r \in Requests \ Scripts : pc[r] \in BeforeSend => tx[r].status = "none"

\* One request moves, from a place where it has not ended.
Moved(r, to) ==
    /\ Go(r, to)
    /\ pc[r] \notin Ended /\ to # "new"
    /\ r \notin Scripts /\ to \in BeforeSend => pc[r] \in BeforeSend
TxKept == UNCHANGED tx
TxSent(r) ==
    /\ pc[r] \in BeforeSend /\ pc'[r] \notin BeforeSend /\ r \notin Scripts
    /\ \E m \in 0 .. nonce : tx' = [tx EXCEPT ![r] = Pending(m)]
TxExecuted(r) ==
    /\ tx[r].status = "pending" /\ UNCHANGED pc
    /\ \E status \in {"ok", "reverted"} :
           tx' = [tx EXCEPT ![r].status = status, ![r].block = Tip + 1]

Footprint ==
    \/ \E r \in Requests, to \in Places : Moved(r, to) /\ (TxKept \/ TxSent(r))
    \/ \E r \in Requests : TxExecuted(r)
    \/ TxKept /\ UNCHANGED pc
    \/ TxKept /\ Drops

LEMMA StepsLeaveFootprints ==
    ASSUME TypeInv, Steps
    PROVE  Footprint
<1>1. ASSUME NEW i \in Invokes,
             InvokeSend(i) \/ InvokeRecord(i) \/ InvokeConfirmed(i) \/ InvokeUnconfirmed(i)
      PROVE  Footprint
  <2>1. i \in Requests /\ i \notin Scripts /\ 0 \in 0 .. nonce
    BY Kinds, NumberFacts DEF TypeInv
  <2>2. CASE InvokeSend(i)
    <3>1. PICK to \in {"accepted", "failed"} :
              Go(i, to) /\ tx' \in {tx, [tx EXCEPT ![i] = Pending(0)]}
      BY <2>2 DEF InvokeSend
    <3>2. Moved(i, to) /\ pc'[i] = to /\ pc[i] = "new"
      BY <2>1, <2>2, <3>1, Moves DEF InvokeSend, Moved, Ended, BeforeSend, Children, Orphans, TypeInv
    <3>3. TxKept \/ TxSent(i)
      BY <2>1, <3>1, <3>2 DEF TxKept, TxSent, BeforeSend, Children, Orphans
    <3> QED
      BY <2>1, <3>1, <3>2, <3>3 DEF Footprint, Places, InFlight, Ended
  <2>3. CASE InvokeRecord(i) \/ InvokeConfirmed(i) \/ InvokeUnconfirmed(i)
    <3>1. \E to \in {"waiting", "done", "unconfirmed"} : Moved(i, to)
      BY <2>3 DEF InvokeRecord, InvokeConfirmed, InvokeUnconfirmed, Moved, Ended, BeforeSend,
                  Children, Orphans
    <3>2. TxKept
      BY <2>3 DEF InvokeRecord, InvokeConfirmed, InvokeUnconfirmed, TxKept, chain
    <3> QED
      BY <2>1, <3>1, <3>2 DEF Footprint, Places, InFlight, Ended
  <2> QED
    BY <1>1, <2>2, <2>3
<1>2. ASSUME NEW r \in Sncasts, SncastStep(r) PROVE Footprint
  <2>1. r \in Requests /\ r \notin Scripts /\ nonce \in 0 .. nonce
    BY Kinds, NumberFacts DEF TypeInv
  <2>2. CASE SncastSend(r) \/ SncastFails(r)
    <3>1. PICK to \in {"waiting", "failed"} :
              Go(r, to) /\ tx' \in {tx, [tx EXCEPT ![r] = Pending(nonce)]}
      BY <2>2 DEF SncastSend, SncastFails
    <3>2. Moved(r, to) /\ pc'[r] = to /\ pc[r] \in Children \cup Orphans /\ to \notin BeforeSend
      BY <2>1, <2>2, <3>1, Moves
      DEF SncastSend, SncastFails, Moved, Ended, BeforeSend, Children, Orphans, TypeInv
    <3>3. TxKept \/ TxSent(r)
      BY <2>1, <3>1, <3>2 DEF TxKept, TxSent, BeforeSend
    <3> QED
      BY <2>1, <3>1, <3>2, <3>3 DEF Footprint, Places, InFlight, Ended
  <2>3. CASE \/ SncastBegin(r) \/ SncastLock(r) \/ Declare(r)
             \/ SncastConfirmed(r) \/ SncastUnconfirmed(r)
    <3>1. \E to \in {"queued", "declaring", "locked", "done", "failed"} : Moved(r, to)
      BY <2>3 DEF SncastBegin, SncastLock, Declare, SncastConfirmed, SncastUnconfirmed, Moved,
                  Ended, BeforeSend, Children, Orphans
    <3>2. TxKept
      BY <2>3 DEF SncastBegin, SncastLock, Declare, SncastConfirmed, SncastUnconfirmed, TxKept, chain
    <3> QED
      BY <2>1, <3>1, <3>2 DEF Footprint, Places, InFlight, Children, Ended
  <2> QED
    BY <1>2, <2>2, <2>3 DEF SncastStep
<1>3. ASSUME NEW p \in Scripts, ScriptBegin(p) \/ ScriptBlock(p) \/ ScriptWaited(p) \/ ScriptEnds(p)
      PROVE  Footprint
  <2>1. p \in Requests
    BY Kinds
  <2>2. \E to \in {"picked", "waiting", "proving", "failed", "done"} : Moved(p, to)
    BY <1>3 DEF ScriptBegin, ScriptBlock, ScriptWaited, ScriptEnds, ScriptProve, Moved, Ended
  <2>3. TxKept
    BY <1>3 DEF ScriptBegin, ScriptBlock, ScriptWaited, ScriptEnds, ScriptProve, TxKept, chain
  <2> QED
    BY <2>1, <2>2, <2>3 DEF Footprint, Places, InFlight, Ended
<1>4. ASSUME NEW b \in Blocks, BlockBegin(b) \/ BlockConstruct(b) \/ BlockSpawn(b) \/ BlockProved(b)
      PROVE  Footprint
  <2>1. b \in Requests
    BY Kinds
  <2>2. \E to \in {"constructing", "spawning", "proving", "reading", "failed"} : Moved(b, to)
    BY <1>4 DEF BlockBegin, BlockConstruct, BlockSpawn, BlockProved, Moved, Ended, BeforeSend
  <2>3. TxKept
    BY <1>4 DEF BlockBegin, BlockConstruct, BlockSpawn, BlockProved, TxKept, chain
  <2> QED
    BY <2>1, <2>2, <2>3 DEF Footprint, Places, InFlight, Ended
<1>5. ASSUME NEW b \in Blocks, BlockSubmit(b) PROVE Footprint
  <2>1. b \in Requests /\ b \notin Scripts /\ signed[b] \in 0 .. nonce
    BY Kinds, TypeFacts DEF TypeInv
  <2>2. pc[b] = "submitting" /\ "submitting" \in BeforeSend /\ "submitting" \notin Ended
    BY <1>5 DEF BlockSubmit, BeforeSend, Ended
  <2>3. ASSUME NEW to \in {"including", "failed"}, Go(b, to),
               UNCHANGED tx \/ tx' = [tx EXCEPT ![b] = Pending(signed[b])]
        PROVE  Footprint
    <3>1. Moved(b, to) /\ pc'[b] = to /\ to \notin BeforeSend
      BY <2>1, <2>2, <2>3, Moves DEF Moved, BeforeSend, Children, Orphans, TypeInv
    <3>2. TxKept \/ TxSent(b)
      BY <2>1, <2>2, <2>3, <3>1 DEF TxKept, TxSent
    <3> QED
      BY <2>1, <3>1, <3>2 DEF Footprint, Places, InFlight, Ended
  <2>4. CASE Refused(b)
    <3>1. \E to \in {"refused", "submitting"} : Moved(b, to)
      BY <2>2, <2>4 DEF Refused, Moved
    <3> QED
      BY <2>1, <2>4, <3>1 DEF Refused, Footprint, TxKept, Places, InFlight, Ended
  <2>5. CASE Accepted(b) \/ Unanswered(b)
    BY <2>3, <2>5 DEF Accepted, Unanswered
  <2> QED
    BY <1>5, <2>4, <2>5 DEF BlockSubmit
<1>6. ASSUME NEW b \in Blocks, BlockIncluded(b) PROVE Footprint
  <2>1. b \in Requests
    BY Kinds
  <2>2. \E to \in {"done", "failed"} : Moved(b, to)
    BY <1>6 DEF BlockIncluded, Moved, Ended, BeforeSend, Children, Orphans
  <2> QED
    BY <1>6, <2>1, <2>2 DEF BlockIncluded, TxKept, chain, Footprint, Places, Ended
<1>7. ASSUME NEW r \in Readers, ReadProof(r) \/ ReadFacts(r) PROVE Footprint
  <2>1. r \in Requests
    BY Kinds
  <2>2. \E to \in {"facts", "submitting", "signing", "failed"} : Moved(r, to)
    BY <1>7 DEF ReadProof, ReadFacts, Moved, Ended, BeforeSend
  <2> QED
    BY <1>7, <2>1, <2>2 DEF ReadProof, ReadFacts, TxKept, chain, Footprint, Places, InFlight, Ended
<1>8. ASSUME NEW s \in Submits, SubmitBegin(s) \/ SubmitSign(s) \/ SubmitSend(s) PROVE Footprint
  <2>1. s \in Requests /\ s \notin Scripts /\ signed[s] \in 0 .. nonce
    BY Kinds, TypeFacts DEF TypeInv
  <2>2. CASE SubmitBegin(s) \/ SubmitSign(s)
    <3>1. \E to \in {"reading", "submitting"} : Moved(s, to)
      BY <2>2 DEF SubmitBegin, SubmitSign, Moved, Ended, BeforeSend
    <3> QED
      BY <2>1, <2>2, <3>1 DEF SubmitBegin, SubmitSign, TxKept, chain, Footprint, Places, InFlight
  <2>3. CASE SubmitSend(s)
    <3>1. PICK to \in {"done", "failed"} :
              Go(s, to) /\ tx' \in {tx, [tx EXCEPT ![s] = Pending(signed[s])]}
      BY <2>3 DEF SubmitSend, Unanswered
    <3>2. /\ Moved(s, to) /\ pc'[s] = to /\ pc[s] \in BeforeSend /\ to \notin BeforeSend
      BY <2>1, <2>3, <3>1, Moves
      DEF SubmitSend, Moved, Ended, BeforeSend, Children, Orphans, TypeInv
    <3>3. TxKept \/ TxSent(s)
      BY <2>1, <3>1, <3>2 DEF TxKept, TxSent
    <3> QED
      BY <2>1, <3>1, <3>2, <3>3 DEF Footprint, Places, InFlight, Ended
  <2> QED
    BY <1>8, <2>2, <2>3
<1>9. ASSUME NEW r \in Requests, Execute(r) PROVE Footprint
  BY <1>9 DEF Execute, Footprint, TxExecuted
<1>10. ASSUME NEW j \in Jobs, JobStep(j) PROVE Footprint
  BY <1>10 DEF JobStep, Footprint, TxKept, chain
<1>11. ASSUME NEW d \in Deploys, ExecuteDeclare(d) PROVE Footprint
  BY <1>11 DEF ExecuteDeclare, Footprint, TxKept
<1>12. CASE Drops
  BY <1>12, RequestsDropped DEF TxKept, chain, Footprint
<1> QED
  BY <1>1, <1>2, <1>3, <1>4, <1>5, <1>6, <1>7, <1>8, <1>9, <1>10, <1>11, <1>12 DEF Steps

LEMMA Settled ==
    ASSUME TypeInv, Unsent, Footprint
    PROVE  /\ Unsent'
           /\ \A r \in Requests : tx[r].status \in {"ok", "reverted"} => tx'[r] = tx[r]
           /\ \A r \in Requests : tx'[r] = tx[r] \/ tx'[r].status = "pending" \/ tx'[r].block = Tip + 1
           /\ \A r \in Requests : pc[r] \in Ended => pc'[r] = pc[r]
           /\ \A r \in Requests : pc'[r] \in {"new"} => pc[r] = "new"
<1>1. pc \in [Requests -> Places] /\ tx \in [Requests -> Txs(Tip, nonce)]
  BY TypeFacts DEF TypeInv
<1>2. "new" \in BeforeSend /\ BeforeSend \cap Ended = {} /\ "failed" \notin BeforeSend
  BY DEF BeforeSend, Children, Orphans, Ended
<1>3. CASE \E r \in Requests, to \in Places : Moved(r, to) /\ (TxKept \/ TxSent(r))
  <2>1. PICK r \in Requests, to \in Places : Moved(r, to) /\ (TxKept \/ TxSent(r))
    BY <1>3
  <2>2. pc'[r] = to /\ \A q \in Requests : q # r => pc'[q] = pc[q]
    BY <1>1, <2>1 DEF Moved, Go
  <2>3. /\ \A q \in Requests : pc[q] \in Ended => pc'[q] = pc[q]
        /\ \A q \in Requests : pc'[q] = "new" => pc[q] = "new"
        /\ \A q \in Requests \ Scripts : pc'[q] \in BeforeSend => pc[q] \in BeforeSend
    BY <2>1, <2>2 DEF Moved
  <2>4. CASE TxKept
    BY <2>3, <2>4 DEF TxKept, Unsent
  <2>5. CASE TxSent(r)
    <3>1. /\ tx'[r].status = "pending" /\ \A q \in Requests : q # r => tx'[q] = tx[q]
          /\ tx[r].status = "none" /\ pc'[r] \notin BeforeSend
      BY <1>1, <2>5 DEF TxSent, Pending, Unsent
    <3> QED
      BY <2>3, <3>1 DEF Unsent
  <2> QED
    BY <2>1, <2>4, <2>5
<1>4. CASE \E r \in Requests : TxExecuted(r)
  <2>1. PICK r \in Requests, status \in {"ok", "reverted"} :
            /\ tx[r].status = "pending" /\ UNCHANGED pc
            /\ tx' = [tx EXCEPT ![r].status = status, ![r].block = Tip + 1]
    BY <1>4 DEF TxExecuted
  <2>2. \A q \in Requests : q # r => tx'[q] = tx[q]
    BY <1>1, <2>1
  <2>3. tx'[r].block = Tip + 1
    BY <1>1, <2>1 DEF Txs
  <2> QED
    BY <2>1, <2>2, <2>3 DEF Unsent
<1>5. CASE TxKept /\ UNCHANGED pc
  BY <1>5 DEF TxKept, Unsent
<1>6. CASE TxKept /\ Drops
  <2>1. \A r \in Requests : /\ pc'[r] \in BeforeSend => pc[r] \in BeforeSend
                            /\ pc[r] \in Ended => pc'[r] = pc[r]
                            /\ pc'[r] = "new" => pc[r] = "new"
    BY <1>2, <1>6, RequestsDropped, PlaceNames DEF BeforeSend, Orphans
  <2> QED
    BY <1>6, <2>1 DEF TxKept, Unsent
<1> QED
  BY <1>3, <1>4, <1>5, <1>6 DEF Footprint

LEMMA UnsentInvariant == Spec => [](TypeInv /\ Unsent)
<1>1. Init => Unsent
  BY DEF Init, Unsent, NoTx
<1>2. TypeInv /\ Unsent /\ [Next]_vars => Unsent'
  <2>1. ASSUME Unsent, UNCHANGED vars PROVE Unsent'
    BY <2>1 DEF vars, chain, Unsent
  <2> QED
    BY <2>1, NextIsSteps, StepsLeaveFootprints, Settled
<1> QED
  BY <1>1, <1>2, TypeInvariant, PTL DEF Spec

-----------------------------------------------------------------------------
(* Whose block a proof is made against.  The block in the session is one that *)
(* an invoke has confirmed, and so is that of a proof, unless the proof has   *)
(* waited for its own transaction.                                            *)

SessionBlock == session.invokeBlock # 0 =>
    \E i \in Invokes : pc[i] = "done" /\ Included(i) /\ tx[i].block = session.invokeBlock
ProofBlock == \A p \in Scripts : ref[p] # 0 =>
    \E i \in Invokes : /\ Included(i) /\ tx[i].block = ref[p] + 1
                       /\ pc[i] = "done" \/ i = picked[p]
Fresh == \A p \in Scripts : pc[p] = "new" => ref[p] = 0

BlockInv == SessionBlock /\ ProofBlock /\ Fresh

LEMMA ScriptProveKeepsBlocks ==
    ASSUME TypeInv, Unsent, BlockInv, NEW p \in Scripts, pc[p] # "new",
           NEW block \in 1 .. Tip, ScriptProve(p, block),
           \E i \in Invokes : /\ Included(i) /\ tx[i].block = block
                              /\ pc[i] = "done" \/ i = picked[p]
    PROVE  BlockInv'
<1>1. p \in Requests /\ p \in Jobs /\ p \notin Invokes
  BY Kinds
<1>2. /\ ref' = [ref EXCEPT ![p] = block - 1] /\ UNCHANGED <<tx, picked>>
      /\ session' = [session EXCEPT !.proveBlock = block - 1]
  BY DEF ScriptProve, chain
<1>3. /\ pc'[p] = "proving" /\ \A q \in Requests : q # p => pc'[q] = pc[q]
  BY <1>1, Moves DEF ScriptProve, TypeInv
<1>4. session'.invokeBlock = session.invokeBlock
  BY <1>2, TypeFacts DEF TypeInv, Sessions
<1>5. \A i \in Invokes : pc'[i] = pc[i]
  BY <1>1, <1>3, Kinds
<1>6. SessionBlock'
  BY <1>2, <1>4, <1>5 DEF BlockInv, SessionBlock, Included
<1>7. ref'[p] + 1 = block /\ \A q \in Scripts : q # p => ref'[q] = ref[q]
  BY <1>1, <1>2, TypeFacts, NumberFacts, Kinds DEF TypeInv
<1>8. ProofBlock'
  BY <1>2, <1>5, <1>7 DEF BlockInv, ProofBlock, Included
<1>9. Fresh'
  BY <1>3, <1>7, Kinds DEF BlockInv, Fresh
<1> QED
  BY <1>6, <1>8, <1>9 DEF BlockInv

LEMMA StepsKeepBlocks ==
    ASSUME TypeInv, Unsent, BlockInv, Steps
    PROVE  BlockInv'
<1>1. Footprint
  BY StepsLeaveFootprints
<1>2. /\ \A i \in Invokes : Included(i) => tx'[i] = tx[i]
      /\ \A i \in Invokes : pc[i] = "done" => pc'[i] = "done"
      /\ \A p \in Scripts : pc'[p] = "new" => pc[p] = "new"
  BY <1>1, Settled, Kinds DEF Included, Ended
<1>3. ASSUME UNCHANGED <<ref, picked>>,
             session'.invokeBlock = session.invokeBlock \/ session'.invokeBlock = 0
      PROVE  BlockInv'
  <2>1. SessionBlock'
    BY <1>2, <1>3 DEF BlockInv, SessionBlock, Included
  <2>2. ProofBlock'
    BY <1>2, <1>3 DEF BlockInv, ProofBlock, Included
  <2>3. Fresh'
    BY <1>2, <1>3 DEF BlockInv, Fresh
  <2> QED
    BY <2>1, <2>2, <2>3 DEF BlockInv
<1>4. session \in Sessions(Tip)
  BY TypeFacts DEF TypeInv
<1>5. ASSUME NEW i \in Invokes, InvokeConfirmed(i) PROVE BlockInv'
  <2>1. UNCHANGED <<ref, picked, tx>> /\ Included(i)
    BY <1>5 DEF InvokeConfirmed, locals, chain
  <2>2. session'.invokeBlock = tx[i].block /\ pc'[i] = "done"
    BY <1>4, <1>5, Kinds, Moves DEF InvokeConfirmed, Sessions, TypeInv
  <2>3. SessionBlock'
    BY <2>1, <2>2 DEF SessionBlock, Included
  <2>4. ProofBlock' /\ Fresh'
    BY <1>2, <2>1 DEF BlockInv, ProofBlock, Fresh, Included
  <2> QED
    BY <2>3, <2>4 DEF BlockInv
<1>6. ASSUME NEW i \in Invokes, InvokeSend(i) \/ InvokeRecord(i) \/ InvokeUnconfirmed(i)
      PROVE  BlockInv'
  BY <1>3, <1>4, <1>6 DEF InvokeSend, InvokeRecord, InvokeUnconfirmed, locals, Sessions
<1>7. ASSUME NEW r \in Sncasts, SncastStep(r) PROVE BlockInv'
  <2>1. UNCHANGED <<ref, picked>>
    BY <1>7, SncastEffect DEF locals
  <2>2. session'.invokeBlock = session.invokeBlock
    BY <1>4, <1>7, SncastEffect DEF CounterStored, AccountStored, Sessions
  <2> QED
    BY <1>3, <2>1, <2>2
<1>8. ASSUME NEW p \in Scripts, ScriptBegin(p) PROVE BlockInv'
  <2>1. UNCHANGED <<ref, session, tx>>
    BY <1>8 DEF ScriptBegin, chain
  <2>2. ref[p] = 0 /\ \A q \in Scripts : q # p => picked'[q] = picked[q]
    BY <1>8, TypeFacts DEF ScriptBegin, BlockInv, Fresh, TypeInv
  <2>3. SessionBlock' /\ Fresh'
    BY <1>2, <2>1 DEF BlockInv, SessionBlock, Fresh, Included
  <2>4. ProofBlock'
    BY <1>2, <2>1, <2>2 DEF BlockInv, ProofBlock, Included
  <2> QED
    BY <2>3, <2>4 DEF BlockInv
<1>9. ASSUME NEW p \in Scripts, ScriptBlock(p) \/ ScriptWaited(p) PROVE BlockInv'
  <2>1. pc[p] # "new"
    BY <1>9 DEF ScriptBlock, ScriptWaited
  <2>2. CASE session.invokeBlock # 0 /\ ScriptProve(p, session.invokeBlock)
    <3>1. session.invokeBlock \in 1 .. Tip
      BY <1>4, <2>2, NumberFacts DEF TypeInv, Sessions
    <3> QED
      BY <2>1, <2>2, <3>1, ScriptProveKeepsBlocks DEF BlockInv, SessionBlock
  <2>3. CASE Included(picked[p]) /\ ScriptProve(p, tx[picked[p]].block)
    <3>1. picked[p] \in Invokes /\ picked[p] \in Requests
      BY <2>1, Kinds DEF TypeInv, Begun
    <3>2. tx[picked[p]].block \in 1 .. Tip
      BY <2>3, <3>1, TypeFacts, NumberFacts DEF TypeInv, Txs, Executed, Included
    <3> QED
      BY <2>1, <2>3, <3>1, <3>2, ScriptProveKeepsBlocks
  <2>4. CASE UNCHANGED <<session, locals>>
    BY <1>3, <2>4 DEF locals
  <2> QED
    BY <1>9, <2>2, <2>3, <2>4 DEF ScriptBlock, ScriptWaited
<1>10. ASSUME NEW p \in Scripts, ScriptEnds(p) PROVE BlockInv'
  BY <1>3, <1>4, <1>10 DEF ScriptEnds, locals, Sessions
<1>11. ASSUME NEW b \in Blocks, BlockBegin(b) PROVE BlockInv'
  <2>1. UNCHANGED <<session, picked, tx>> /\ \A p \in Scripts : ref'[p] = ref[p]
    BY <1>11, TypeFacts, Kinds DEF BlockBegin, chain, TypeInv
  <2> QED
    BY <1>2, <2>1 DEF BlockInv, SessionBlock, ProofBlock, Fresh, Included
<1>12. ASSUME NEW b \in Blocks,
              BlockConstruct(b) \/ BlockSpawn(b) \/ BlockProved(b) \/ BlockSubmit(b)
       PROVE  BlockInv'
  BY <1>3, <1>12 DEF BlockConstruct, BlockSpawn, BlockProved, BlockSubmit, locals
<1>13. ASSUME NEW b \in Blocks, BlockIncluded(b) PROVE BlockInv'
  BY <1>3, <1>4, <1>13 DEF BlockIncluded, locals, Sessions
<1>14. ASSUME NEW r \in Readers, ReadProof(r) \/ ReadFacts(r) PROVE BlockInv'
  BY <1>3, <1>14 DEF ReadProof, ReadFacts
<1>15. ASSUME NEW s \in Submits, SubmitBegin(s) \/ SubmitSign(s) \/ SubmitSend(s) PROVE BlockInv'
  BY <1>3, <1>15 DEF SubmitBegin, SubmitSign, SubmitSend, locals
<1>16. CASE \/ \E r \in Requests : Execute(r)
            \/ \E d \in Deploys : ExecuteDeclare(d)
            \/ \E j \in Jobs : JobStep(j)
  BY <1>3, <1>16 DEF Execute, ExecuteDeclare, JobStep, locals
<1>17. CASE Drops
  BY <1>3, <1>17, RequestsDropped DEF NewSession, locals
<1> QED
  BY <1>5, <1>6, <1>7, <1>8, <1>9, <1>10, <1>11, <1>12, <1>13, <1>14, <1>15, <1>16, <1>17 DEF Steps

LEMMA SessionBegins ==
    ASSUME Init
    PROVE  session.invokeBlock = 0 /\ session.reference >= session.deployBlock
<1>1. CASE session = NewSession
  BY <1>1 DEF NewSession
<1>2. CASE session = Deployed
  <2>1. Deployed.invokeBlock = NewSession.invokeBlock
    BY DEF Deployed, NewSession
  <2>2. Deployed.reference = 1 /\ Deployed.deployBlock = 1
    BY DEF Deployed, NewSession
  <2> QED
    BY <1>2, <2>1, <2>2 DEF NewSession
<1> QED
  BY <1>1, <1>2 DEF Init

LEMMA BlockInvariant == Spec => [](TypeInv /\ Unsent /\ BlockInv)
<1>1. Init => BlockInv
  <2> SUFFICES ASSUME Init PROVE BlockInv
    OBVIOUS
  <2>1. session.invokeBlock = 0
    BY SessionBegins
  <2>2. \A p \in Scripts : ref[p] = 0
    <3>1. ref = [r \in Jobs |-> 0]
      BY DEF Init
    <3> QED
      BY <3>1 DEF Jobs
  <2> QED
    BY <2>1, <2>2 DEF BlockInv, SessionBlock, ProofBlock, Fresh
<1>2. TypeInv /\ Unsent /\ BlockInv /\ [Next]_vars => BlockInv'
  <2>1. ASSUME BlockInv, UNCHANGED vars PROVE BlockInv'
    BY <2>1 DEF vars, chain, locals, BlockInv, SessionBlock, ProofBlock, Fresh, Included
  <2> QED
    BY <2>1, NextIsSteps, StepsKeepBlocks
<1> QED
  BY <1>1, <1>2, UnsentInvariant, PTL DEF Spec

\* prove_transaction (snip36-server's prove.rs:30-60): a proof made against
\* another block than its transaction's is made against that of another invoke
\* of the session, one that has been confirmed and answered.
THEOREM SessionWrongBlocks == Spec => []WrongBlockIsAnotherInvokes
<1>1. TypeInv /\ BlockInv => WrongBlockIsAnotherInvokes
  <2> SUFFICES ASSUME BlockInv, NEW p \in Scripts,
                      ref[p] # 0, ref[p] + 1 # tx[picked[p]].block
               PROVE  \E i \in Invokes \ {picked[p]} : pc[i] = "done" /\ tx[i].block = ref[p] + 1
    BY DEF WrongBlockIsAnotherInvokes
  <2>1. PICK i \in Invokes : /\ Included(i) /\ tx[i].block = ref[p] + 1
                             /\ pc[i] = "done" \/ i = picked[p]
    BY DEF BlockInv, ProofBlock
  <2> QED
    BY <2>1
<1> QED
  BY <1>1, BlockInvariant, PTL

-----------------------------------------------------------------------------
(* What the reference block is worth.  As long as no contract is stored while *)
(* a prove_block is under way, a block that is about to become the reference  *)
(* is not older than the contract.                                            *)

Behind == session.reference >= session.deployBlock
Returning == \A b \in Blocks :
                 pc[b] \in InFlight /\ Included(b) => tx[b].block >= session.deployBlock
RefInv == crossed \/ (Behind /\ Returning)

LEMMA StepsKeepReference ==
    ASSUME TypeInv, Unsent, RefInv, Steps
    PROVE  RefInv'
<1>1. /\ session \in Sessions(Tip) /\ session.deployBlock \in Nat /\ session.deployBlock <= Tip
      /\ crossed \in BOOLEAN /\ Tip \in Nat
  BY TypeFacts, NumberFacts DEF TypeInv, Sessions
<1>2. \A b \in Blocks : pc'[b] \in InFlight /\ Included(b)' =>
          tx'[b].block = Tip + 1 \/ (tx'[b] = tx[b] /\ pc[b] \in InFlight /\ Included(b))
  <2>1. /\ \A r \in Requests : tx'[r] = tx[r] \/ tx'[r].status = "pending" \/ tx'[r].block = Tip + 1
        /\ \A r \in Requests : pc[r] \in Ended => pc'[r] = pc[r]
    BY StepsLeaveFootprints, Settled
  <2>2. ASSUME NEW b \in Blocks, pc'[b] \in InFlight, Included(b)', tx'[b] = tx[b]
        PROVE  pc[b] \in InFlight /\ Included(b)
    <3>1. b \in Requests \ Scripts /\ pc[b] \in Places
      BY TypeFacts, Kinds DEF TypeInv
    <3>2. pc[b] # "new" /\ Included(b)
      BY <2>2, <3>1 DEF Unsent, BeforeSend, Included
    <3>3. pc[b] \notin Ended
      BY <2>1, <2>2, <3>1, PlaceNames
    <3> QED
      BY <3>1, <3>2, <3>3 DEF Places
  <2>3. ASSUME NEW b \in Blocks, Included(b)' PROVE tx'[b].status # "pending" /\ b \in Requests
    BY <2>3, Kinds DEF Included
  <2> QED
    BY <2>1, <2>2, <2>3
<1>3. ASSUME session'.reference # session.reference /\ ~crossed =>
                 session'.reference >= session.deployBlock,
             session'.deployBlock = session.deployBlock, UNCHANGED crossed
      PROVE  RefInv'
  <2>1. CASE crossed
    BY <1>3, <2>1 DEF RefInv
  <2>2. CASE ~crossed
    <3>1. Behind'
      BY <1>3, <2>2 DEF RefInv, Behind
    <3>2. Returning'
      BY <1>1, <1>2, <1>3, <2>2 DEF RefInv, Returning
    <3> QED
      BY <3>1, <3>2 DEF RefInv
  <2> QED
    BY <1>1, <2>1, <2>2
<1>4. ASSUME NEW i \in Invokes,
             InvokeSend(i) \/ InvokeRecord(i) \/ InvokeConfirmed(i) \/ InvokeUnconfirmed(i)
      PROVE  RefInv'
  BY <1>1, <1>3, <1>4 DEF InvokeSend, InvokeRecord, InvokeConfirmed, InvokeUnconfirmed, history, Sessions
<1>5. ASSUME NEW r \in Deploys, SncastConfirmed(r), CounterStored(r) PROVE RefInv'
  <2>1. crossed' = (crossed \/ \E b \in Blocks : pc[b] \in InFlight)
    BY <1>5 DEF CounterStored
  <2>2. CASE \E b \in Blocks : pc[b] \in InFlight
    BY <2>1, <2>2 DEF RefInv
  <2>3. CASE \A b \in Blocks : pc[b] \notin InFlight
    <3>1. \A b \in Blocks : pc'[b] = pc[b]
      BY <1>5, Kinds, Moves DEF SncastConfirmed, TypeInv
    <3>2. Returning'
      BY <2>3, <3>1 DEF Returning
    <3>3. tx[r].block \in Nat
      BY <1>1, Kinds, TypeFacts DEF TypeInv, Txs
    <3>4. session'.reference = tx[r].block /\ session'.deployBlock = tx[r].block
      BY <1>1, <1>5 DEF CounterStored, Sessions
    <3>5. Behind'
      BY <3>3, <3>4 DEF Behind
    <3> QED
      BY <3>2, <3>5 DEF RefInv
  <2> QED
    BY <2>2, <2>3
<1>6. ASSUME NEW r \in Sncasts, SncastStep(r) PROVE RefInv'
  <2>1. CASE r \in Deploys /\ SncastConfirmed(r) /\ CounterStored(r)
    BY <2>1, <1>5
  <2>2. CASE AccountStored
    BY <1>1, <1>3, <2>2 DEF AccountStored, Sessions
  <2>3. CASE UNCHANGED <<session, crossed>>
    BY <1>3, <2>3
  <2> QED
    BY <1>6, <2>1, <2>2, <2>3, SncastEffect
<1>7. ASSUME NEW p \in Scripts, ScriptBegin(p) \/ ScriptBlock(p) \/ ScriptWaited(p) \/ ScriptEnds(p)
      PROVE  RefInv'
  BY <1>1, <1>3, <1>7 DEF ScriptBegin, ScriptBlock, ScriptWaited, ScriptEnds, ScriptProve, history, Sessions
<1>8. ASSUME NEW b \in Blocks,
             \/ BlockBegin(b) \/ BlockConstruct(b) \/ BlockSpawn(b) \/ BlockProved(b)
             \/ BlockSubmit(b)
      PROVE  RefInv'
  BY <1>3, <1>8 DEF BlockBegin, BlockConstruct, BlockSpawn, BlockProved, BlockSubmit, history
<1>9. ASSUME NEW b \in Blocks, BlockIncluded(b) PROVE RefInv'
  <2>1. CASE UNCHANGED session
    BY <1>3, <1>9, <2>1 DEF BlockIncluded, history
  <2>2. CASE Included(b) /\ session' = [session EXCEPT !.reference = tx[b].block]
    <3>1. pc[b] \in InFlight
      BY <1>9 DEF BlockIncluded, InFlight
    <3>2. ~crossed => tx[b].block >= session.deployBlock
      BY <2>2, <3>1 DEF RefInv, Returning
    <3>3. session'.reference = tx[b].block /\ session'.deployBlock = session.deployBlock
      BY <1>1, <2>2 DEF Sessions
    <3> QED
      BY <1>3, <1>9, <3>2, <3>3 DEF BlockIncluded, history
  <2> QED
    BY <1>9, <2>1, <2>2 DEF BlockIncluded
<1>10. ASSUME NEW r \in Readers, ReadProof(r) \/ ReadFacts(r) PROVE RefInv'
  BY <1>3, <1>10 DEF ReadProof, ReadFacts, history
<1>11. ASSUME NEW s \in Submits, SubmitBegin(s) \/ SubmitSign(s) \/ SubmitSend(s) PROVE RefInv'
  BY <1>3, <1>11 DEF SubmitBegin, SubmitSign, SubmitSend, history
<1>12. CASE \/ \E r \in Requests : Execute(r)
            \/ \E d \in Deploys : ExecuteDeclare(d)
            \/ \E j \in Jobs : JobStep(j)
  BY <1>3, <1>12 DEF Execute, ExecuteDeclare, JobStep, history
<1>13. CASE Drops
  <2>1. session' \in {session, NewSession} /\ UNCHANGED crossed
    BY <1>13, RequestsDropped DEF history
  <2>2. CASE session' = session
    BY <1>3, <2>1, <2>2
  <2>3. CASE session' = NewSession
    <3>1. session'.reference = 0 /\ session'.deployBlock = 0
      BY <2>3 DEF NewSession
    <3>2. \A b \in Blocks : tx'[b].block \in Nat
      BY <1>1, <1>13, RequestsDropped, Kinds, TypeFacts DEF chain, TypeInv, Txs
    <3>3. Behind' /\ Returning'
      BY <3>1, <3>2 DEF Behind, Returning
    <3> QED
      BY <3>3 DEF RefInv
  <2> QED
    BY <2>1, <2>2, <2>3
<1> QED
  BY <1>4, <1>6, <1>7, <1>8, <1>9, <1>10, <1>11, <1>12, <1>13 DEF Steps

\* prove_block and deploy_counter (routes.rs:957 and :342): the block that the
\* next proof is made against has the session's contract, unless it was
\* replaced while a prove_block was under way.
THEOREM SessionReference == Spec => []ReferenceHasContract
<1>1. Init => RefInv
  <2> SUFFICES ASSUME Init PROVE RefInv
    OBVIOUS
  <2>1. Behind
    BY SessionBegins DEF Behind
  <2>2. \A b \in Blocks : tx[b].status = "none"
    <3>1. tx = [r \in Requests |-> NoTx] /\ NoTx.status = "none"
      BY DEF Init, NoTx
    <3> QED
      BY <3>1 DEF Jobs, Requests
  <2>3. Returning
    BY <2>2 DEF Returning, Included
  <2> QED
    BY <2>1, <2>3 DEF RefInv
<1>2. TypeInv /\ Unsent /\ RefInv /\ [Next]_vars => RefInv'
  <2>1. ASSUME RefInv, UNCHANGED vars PROVE RefInv'
    BY <2>1 DEF vars, chain, history, RefInv, Behind, Returning, Included
  <2> QED
    BY <2>1, NextIsSteps, StepsKeepReference
<1>3. RefInv => ReferenceHasContract
  BY DEF RefInv, Behind, ReferenceHasContract
<1> QED
  BY <1>1, <1>2, <1>3, UnsentInvariant, PTL DEF Spec

-----------------------------------------------------------------------------
(* When a proof is refused.  The nonce that it is signed with is that of its  *)
(* reference block, and every refusal costs a failure or finds it spent.      *)

NotSubmitted == {"new", "constructing", "spawning", "proving", "reading", "facts"}
WithNonce == {"spawning", "proving", "reading", "facts", "submitting", "refused"}

Unattempted == \A b \in Blocks : pc[b] \in NotSubmitted => attempts[b] = 0
SignedAtRef == \A b \in Blocks : pc[b] \in WithNonce => signed[b] = nonceAt[ref[b]]
Accounted == \A b \in Blocks : attempts[b] <= faults \/ signed[b] < nonce
AllTried == \A b \in Blocks : pc[b] = "refused" => attempts[b] = MaxAttempts

SpentInv == Unattempted /\ SignedAtRef /\ Accounted /\ AllTried

\* A step adds at most a block, and at most a failure.
LEMMA StepsMoveOn ==
    ASSUME TypeInv, Steps
    PROVE  /\ \/ UNCHANGED nonceAt
              \/ (\E r \in Requests : Execute(r)) \/ (\E d \in Deploys : ExecuteDeclare(d))
           /\ Fault \/ UNCHANGED faults
<1>1. CASE \E i \in Invokes :
              InvokeSend(i) \/ InvokeRecord(i) \/ InvokeConfirmed(i) \/ InvokeUnconfirmed(i)
  BY <1>1 DEF InvokeSend, InvokeRecord, InvokeConfirmed, InvokeUnconfirmed, GivesUp, chain
<1>2. CASE \E r \in Sncasts : SncastStep(r)
  BY <1>2, SncastEffect
<1>3. CASE \E p \in Scripts : ScriptBegin(p) \/ ScriptBlock(p) \/ ScriptWaited(p) \/ ScriptEnds(p)
  BY <1>3 DEF ScriptBegin, ScriptBlock, ScriptWaited, ScriptEnds, ScriptProve, GivesUp, chain
<1>4. CASE \E b \in Blocks : BlockBegin(b) \/ BlockConstruct(b) \/ BlockSpawn(b) \/ BlockProved(b)
  BY <1>4 DEF BlockBegin, BlockConstruct, BlockSpawn, BlockProved, chain
<1>5. CASE \E b \in Blocks : BlockSubmit(b) \/ BlockIncluded(b)
  BY <1>5 DEF BlockSubmit, BlockIncluded, GivesUp, chain
<1>6. CASE \/ \E r \in Readers : ReadProof(r) \/ ReadFacts(r)
           \/ \E s \in Submits : SubmitBegin(s) \/ SubmitSign(s) \/ SubmitSend(s)
  BY <1>6 DEF ReadProof, ReadFacts, SubmitBegin, SubmitSign, SubmitSend, chain
<1>7. CASE (\E r \in Requests : Execute(r)) \/ (\E d \in Deploys : ExecuteDeclare(d))
  BY <1>7 DEF Execute, ExecuteDeclare
<1>8. CASE \E j \in Jobs : JobStep(j)
  BY <1>8 DEF JobStep, chain
<1>9. CASE Drops
  BY <1>9, RequestsDropped DEF chain
<1> QED
  BY <1>1, <1>2, <1>3, <1>4, <1>5, <1>6, <1>7, <1>8, <1>9 DEF Steps

LEMMA NumbersGrow ==
    ASSUME TypeInv, Steps
    PROVE  /\ faults \in Nat /\ faults' \in Nat /\ faults' >= faults
           /\ nonce \in Nat /\ nonce' \in Nat /\ nonce' >= nonce /\ Tip \in Nat
           /\ \A k \in 1 .. Tip : nonceAt'[k] = nonceAt[k]
<1>1. faults \in Nat /\ faults' \in Nat /\ faults' >= faults
  BY StepsMoveOn, TypeFacts, SessionAssumption DEF TypeInv, Fault
<1>2. nonce \in Nat /\ Tip \in Nat
  BY NumberFacts DEF TypeInv
<1>3. CASE UNCHANGED nonceAt
  BY <1>1, <1>2, <1>3 DEF nonce, Tip
<1>4. CASE (\E r \in Requests : Execute(r)) \/ (\E d \in Deploys : ExecuteDeclare(d))
  <2>1. PICK m \in {nonce, nonce + 1} : nonceAt' = Append(nonceAt, m)
    BY <1>4 DEF Execute, ExecuteDeclare
  <2>2. nonce' = m /\ \A k \in 1 .. Tip : nonceAt'[k] = nonceAt[k]
    BY <2>1, ChainGrows DEF TypeInv
  <2>3. nonce' \in Nat /\ nonce' >= nonce
    BY <1>2, <2>1, <2>2
  <2> QED
    BY <1>1, <1>2, <2>2, <2>3
<1> QED
  BY <1>3, <1>4, StepsMoveOn

LEMMA StepsKeepSpent ==
    ASSUME TypeInv, SpentInv, Steps
    PROVE  SpentInv'
<1>1. /\ faults \in Nat /\ faults' \in Nat /\ faults' >= faults
      /\ nonce \in Nat /\ nonce' \in Nat /\ nonce' >= nonce /\ Tip \in Nat
      /\ \A k \in 1 .. Tip : nonceAt'[k] = nonceAt[k]
  BY NumbersGrow
<1>2. \A b \in Blocks : /\ attempts[b] \in Nat /\ signed[b] \in Nat /\ b \in Requests
                        /\ pc[b] # "new" => ref[b] \in 1 .. Tip
  <2> SUFFICES ASSUME NEW b \in Blocks
               PROVE  /\ attempts[b] \in Nat /\ signed[b] \in Nat /\ b \in Requests
                      /\ pc[b] # "new" => ref[b] \in 1 .. Tip
    OBVIOUS
  <2>1. b \in Requests /\ b \in Readers /\ b \in Jobs
    BY Kinds
  <2>2. attempts[b] \in 0 .. MaxAttempts /\ signed[b] \in 0 .. nonce /\ ref[b] \in 0 .. Tip
    BY <2>1, TypeFacts DEF TypeInv
  <2>3. pc[b] # "new" => ref[b] > 0
    BY DEF TypeInv, Begun
  <2> QED
    BY <1>1, <2>1, <2>2, <2>3, SessionAssumption
<1>3. \A b \in Blocks : pc[b] \in WithNonce => ref[b] \in 1 .. Tip
  BY <1>2 DEF WithNonce
<1>0. pc \in [Requests -> Places]
  BY TypeFacts DEF TypeInv
\* What holds of a block whose request does not change what it has.
<1>4. ASSUME NEW b \in Blocks,
             attempts'[b] = attempts[b], signed'[b] = signed[b], ref'[b] = ref[b],
             pc'[b] = pc[b] \/ pc'[b] \in {"failed", "done", "including"}
                 \/ (/\ pc'[b] \in WithNonce \ {"refused"} /\ pc[b] \in WithNonce
                     /\ pc'[b] \in NotSubmitted => pc[b] \in NotSubmitted)
      PROVE  /\ pc'[b] \in NotSubmitted => attempts'[b] = 0
             /\ pc'[b] \in WithNonce => signed'[b] = nonceAt'[ref'[b]]
             /\ attempts'[b] <= faults' \/ signed'[b] < nonce'
             /\ pc'[b] = "refused" => attempts'[b] = MaxAttempts
  <2>1. /\ pc'[b] \in NotSubmitted => pc[b] \in NotSubmitted
        /\ pc'[b] \in WithNonce => pc[b] \in WithNonce
        /\ pc'[b] = "refused" => pc[b] = "refused"
    BY <1>4 DEF NotSubmitted, WithNonce
  <2>2. pc'[b] \in WithNonce => signed'[b] = nonceAt'[ref'[b]]
    BY <1>1, <1>3, <1>4, <2>1 DEF SpentInv, SignedAtRef
  <2>3. attempts'[b] <= faults' \/ signed'[b] < nonce'
    <3>1. attempts[b] <= faults \/ signed[b] < nonce
      BY DEF SpentInv, Accounted
    <3>2. attempts[b] \in Nat /\ signed[b] \in Nat
      BY <1>2
    <3> QED
      BY <1>1, <1>4, <3>1, <3>2
  <2> QED
    BY <1>4, <2>1, <2>2, <2>3 DEF SpentInv, Unattempted, AllTried
<1>5. ASSUME \A b \in Blocks :
                 /\ attempts'[b] = attempts[b] /\ signed'[b] = signed[b] /\ ref'[b] = ref[b]
                 /\ pc'[b] = pc[b] \/ pc'[b] = "failed"
      PROVE  SpentInv'
  BY <1>4, <1>5 DEF SpentInv, Unattempted, SignedAtRef, Accounted, AllTried
<1>6. ASSUME NEW r \in Requests \ Blocks, NEW to, Go(r, to), UNCHANGED <<ref, signed, attempts>>
      PROVE  SpentInv'
  <2>1. \A b \in Blocks : pc'[b] = pc[b]
    BY <1>2, <1>6, TypeFacts DEF Go, TypeInv
  <2> QED
    BY <1>5, <1>6, <2>1
\* A request of Blocks that moves on, and what has to be shown of it.
<1>7. ASSUME NEW b \in Blocks, NEW to, Go(b, to),
             \A c \in Blocks : c # b => /\ attempts'[c] = attempts[c] /\ signed'[c] = signed[c]
                                       /\ ref'[c] = ref[c],
             to \in NotSubmitted => attempts'[b] = 0,
             to \in WithNonce => signed'[b] = nonceAt'[ref'[b]],
             attempts'[b] <= faults' \/ signed'[b] < nonce',
             to = "refused" => attempts'[b] = MaxAttempts
      PROVE  SpentInv'
  <2>1. pc'[b] = to /\ \A c \in Blocks : c # b => pc'[c] = pc[c]
    BY <1>2, <1>7, <1>0 DEF Go
  <2>2. \A c \in Blocks : c # b =>
             /\ pc'[c] \in NotSubmitted => attempts'[c] = 0
             /\ pc'[c] \in WithNonce => signed'[c] = nonceAt'[ref'[c]]
             /\ attempts'[c] <= faults' \/ signed'[c] < nonce'
             /\ pc'[c] = "refused" => attempts'[c] = MaxAttempts
    BY <1>4, <1>7, <2>1
  <2> QED
    BY <1>7, <2>1, <2>2 DEF SpentInv, Unattempted, SignedAtRef, Accounted, AllTried
<1>8. ASSUME NEW b \in Blocks, NEW to, Go(b, to), UNCHANGED <<ref, signed, attempts>>,
             \/ to \in {"failed", "done", "including"}
             \/ (/\ to \in WithNonce \ {"refused"} /\ pc[b] \in WithNonce
                 /\ to \in NotSubmitted => pc[b] \in NotSubmitted)
      PROVE  SpentInv'
  <2>1. pc'[b] = to
    BY <1>2, <1>8, <1>0 DEF Go
  <2> QED
    BY <1>4, <1>7, <1>8, <2>1
<1>9. ASSUME NEW i \in Invokes,
             InvokeSend(i) \/ InvokeRecord(i) \/ InvokeConfirmed(i) \/ InvokeUnconfirmed(i)
      PROVE  SpentInv'
  <2>1. i \in Requests \ Blocks
    BY Kinds
  <2> QED
    BY <1>6, <1>9, <2>1
    DEF InvokeSend, InvokeRecord, InvokeConfirmed, InvokeUnconfirmed, locals
<1>10. ASSUME NEW r \in Sncasts, SncastStep(r) PROVE SpentInv'
  <2>1. r \in Requests \ Blocks
    BY Kinds
  <2> QED
    BY <1>6, <1>10, <2>1, SncastEffect DEF locals
<1>11. ASSUME NEW p \in Scripts,
              ScriptBegin(p) \/ ScriptBlock(p) \/ ScriptWaited(p) \/ ScriptEnds(p)
       PROVE  SpentInv'
  <2>1. p \in Requests \ Blocks /\ p \in Jobs
    BY Kinds
  <2>2. CASE UNCHANGED <<ref, signed, attempts>> /\ \E to : Go(p, to)
    BY <1>6, <2>1, <2>2
  <2>3. ASSUME NEW block, ScriptProve(p, block) PROVE SpentInv'
    <3>1. \A b \in Blocks : pc'[b] = pc[b] /\ ref'[b] = ref[b]
      BY <2>1, <2>3, TypeFacts, Kinds DEF ScriptProve, Go, TypeInv
    <3> QED
      BY <1>5, <2>3, <3>1 DEF ScriptProve
  <2> QED
    BY <1>11, <2>2, <2>3 DEF ScriptBegin, ScriptBlock, ScriptWaited, ScriptEnds, locals
<1>12. ASSUME NEW b \in Blocks, BlockBegin(b) PROVE SpentInv'
  <2>1. /\ UNCHANGED <<signed, attempts>> /\ Go(b, "constructing") /\ pc[b] \in NotSubmitted
        /\ \A c \in Blocks : c # b => ref'[c] = ref[c]
    BY <1>12, TypeFacts, Kinds DEF BlockBegin, NotSubmitted, TypeInv
  <2>2. attempts[b] = 0 /\ attempts'[b] <= faults'
    BY <1>1, <2>1 DEF SpentInv, Unattempted
  <2> QED
    BY <1>7, <2>1, <2>2 DEF WithNonce
<1>13. ASSUME NEW b \in Blocks, BlockConstruct(b) PROVE SpentInv'
  <2>1. /\ UNCHANGED <<ref, attempts, nonceAt>> /\ Go(b, "spawning") /\ pc[b] \in NotSubmitted
        /\ signed'[b] = nonceAt[ref[b]] /\ \A c \in Blocks : c # b => signed'[c] = signed[c]
    BY <1>13, TypeFacts, Kinds DEF BlockConstruct, NotSubmitted, TypeInv, chain
  <2>2. attempts[b] = 0 /\ attempts'[b] <= faults'
    BY <1>1, <2>1 DEF SpentInv, Unattempted
  <2> QED
    BY <1>7, <2>1, <2>2
<1>14. ASSUME NEW b \in Blocks, BlockSpawn(b) \/ BlockProved(b) PROVE SpentInv'
  <2>1. /\ UNCHANGED <<ref, signed, attempts>> /\ pc[b] \in WithNonce \cap NotSubmitted
        /\ \E to \in {"proving", "reading", "failed"} : Go(b, to)
    BY <1>14 DEF BlockSpawn, BlockProved, WithNonce, NotSubmitted, locals
  <2> QED
    BY <1>8, <2>1 DEF WithNonce, NotSubmitted
<1>15. ASSUME NEW b \in Blocks, BlockSubmit(b) PROVE SpentInv'
  <2>1. /\ UNCHANGED <<ref, signed, nonceAt>> /\ pc[b] = "submitting" /\ nonce' = nonce
        /\ signed[b] = nonceAt[ref[b]]
    BY <1>15 DEF BlockSubmit, SpentInv, SignedAtRef, WithNonce, nonce, Tip
  <2>2. ASSUME Refused(b), signed[b] < nonce \/ Fault PROVE SpentInv'
    <3>1. PICK to \in {"refused", "submitting"} :
              Go(b, to) /\ (to = "refused" => attempts[b] + 1 = MaxAttempts)
      BY <2>2 DEF Refused
    <3>2. attempts'[b] = attempts[b] + 1 /\ \A c \in Blocks : c # b => attempts'[c] = attempts[c]
      BY <2>2, TypeFacts DEF Refused, TypeInv
    <3>3. attempts'[b] <= faults' \/ signed'[b] < nonce'
      <4>1. attempts[b] <= faults \/ signed[b] < nonce
        BY DEF SpentInv, Accounted
      <4>2. attempts[b] \in Nat /\ signed[b] \in Nat
        BY <1>2
      <4>3. signed[b] < nonce \/ faults' = faults + 1
        BY <2>2 DEF Fault
      <4> QED
        BY <1>1, <2>1, <3>2, <4>1, <4>2, <4>3
    <3> QED
      BY <1>7, <2>1, <3>1, <3>2, <3>3 DEF NotSubmitted
  <2>3. CASE (Accepted(b) \/ Unanswered(b)) /\ UNCHANGED attempts
    BY <1>8, <2>1, <2>3 DEF Accepted, Unanswered
  <2> QED
    BY <1>15, <2>2, <2>3 DEF BlockSubmit
<1>16. ASSUME NEW b \in Blocks, BlockIncluded(b) PROVE SpentInv'
  BY <1>8, <1>16 DEF BlockIncluded, locals
<1>17. ASSUME NEW r \in Readers, ReadProof(r) \/ ReadFacts(r) PROVE SpentInv'
  <2>1. UNCHANGED <<ref, signed, attempts>> /\ r \in Requests
    BY <1>17, Kinds DEF ReadProof, ReadFacts
  <2>2. PICK to \in {"facts", "submitting", "signing", "failed"} :
            /\ Go(r, to)
            /\ r \in Blocks => pc[r] \in {"reading", "facts"} /\ to # "signing"
    BY <1>17 DEF ReadProof, ReadFacts
  <2>3. CASE r \in Blocks
    BY <1>8, <2>1, <2>2, <2>3 DEF WithNonce, NotSubmitted
  <2>4. CASE r \notin Blocks
    BY <1>6, <2>1, <2>2, <2>4
  <2> QED
    BY <2>3, <2>4
<1>18. ASSUME NEW s \in Submits, SubmitBegin(s) \/ SubmitSign(s) \/ SubmitSend(s) PROVE SpentInv'
  <2>1. s \in Requests \ Blocks /\ s \in Readers
    BY Kinds
  <2>2. /\ UNCHANGED <<ref, attempts>> /\ \E to : Go(s, to)
        /\ signed' = signed \/ signed' = [signed EXCEPT ![s] = nonce]
    BY <1>18 DEF SubmitBegin, SubmitSign, SubmitSend, Unanswered, locals
  <2>3. \A b \in Blocks : signed'[b] = signed[b] /\ pc'[b] = pc[b]
    BY <1>2, <2>1, <2>2, TypeFacts, Kinds DEF Go, TypeInv
  <2> QED
    BY <1>5, <2>2, <2>3
<1>19. CASE \/ \E r \in Requests : Execute(r)
            \/ \E d \in Deploys : ExecuteDeclare(d)
            \/ \E j \in Jobs : JobStep(j)
  BY <1>5, <1>19 DEF Execute, ExecuteDeclare, JobStep, locals
<1>20. CASE Drops
  BY <1>5, <1>20, RequestsDropped, Kinds DEF locals
<1> QED
  BY <1>9, <1>10, <1>11, <1>12, <1>13, <1>14, <1>15, <1>16, <1>17, <1>18, <1>19, <1>20 DEF Steps

\* prove_block (routes.rs:644 and its submission loop): a proof that is refused
\* at every attempt had its nonce spent since the reference block, or the node
\* failed it as often as it was tried.
THEOREM SessionRefusals == Spec => []RefusedOnlyWhenSpent
<1>1. Init => SpentInv
  <2> SUFFICES ASSUME Init PROVE SpentInv
    OBVIOUS
  <2>1. \A b \in Blocks : pc[b] = "new" /\ attempts[b] = 0
    BY Kinds DEF Init
  <2>2. faults = 0
    BY DEF Init
  <2> QED
    BY <2>1, <2>2 DEF SpentInv, Unattempted, SignedAtRef, Accounted, AllTried, WithNonce
<1>2. TypeInv /\ SpentInv /\ [Next]_vars => SpentInv'
  <2>1. ASSUME SpentInv, UNCHANGED vars PROVE SpentInv'
    BY <2>1 DEF vars, chain, locals, SpentInv, Unattempted, SignedAtRef, Accounted, AllTried,
                nonce, Tip
  <2> QED
    BY <2>1, NextIsSteps, StepsKeepSpent
<1>3. TypeInv /\ SpentInv => RefusedOnlyWhenSpent
  <2> SUFFICES ASSUME TypeInv, SpentInv, NEW b \in Blocks, pc[b] = "refused"
               PROVE  nonce > nonceAt[ref[b]] \/ faults >= MaxAttempts
    BY DEF RefusedOnlyWhenSpent
  <2>1. attempts[b] = MaxAttempts /\ signed[b] = nonceAt[ref[b]]
    BY DEF SpentInv, AllTried, SignedAtRef, WithNonce
  <2>2. MaxAttempts \in Nat /\ faults \in Nat /\ nonce \in Nat /\ signed[b] \in Nat
    BY TypeFacts, NumberFacts, SessionAssumption, Kinds DEF TypeInv
  <2> QED
    BY <2>1, <2>2 DEF SpentInv, Accounted
<1> QED
  BY <1>1, <1>2, <1>3, TypeInvariant, PTL DEF Spec

-----------------------------------------------------------------------------
(* Whose proof a request reports or sends.  A job that has met no other has   *)
(* the session's files to itself for as long as its request uses them, and    *)
(* meeting one is remembered.                                                 *)

Unrivalled(j) == rivals[j] = {}
HasSent == {"facts", "submitting", "including", "done", "refused"}
HasRead == {"proving", "reading"} \cup HasSent

Alone == \A j \in Jobs :
    UsesFiles(j) /\ Unrivalled(j) => \A k \in Jobs \ {j} : ~UsesFiles(k)
OwnFile == \A j \in Jobs :
    UsesFiles(j) /\ Unrivalled(j) /\ phase[j] \in Prover!Writing \cup {"ok"} =>
        File["proof"] \subseteq {j}
NotStarted == \A b \in Blocks : pc[b] \in {"new", "constructing", "spawning"} => phase[b] = "idle"
Ready == \A b \in Blocks : pc[b] \in {"reading", "facts"} => phase[b] = "ok"
OwnTx == \A b \in Blocks : pc[b] = "spawning" /\ Unrivalled(b) => txFile = b
OwnRead == \A b \in Blocks : pc[b] \in HasRead /\ Unrivalled(b) => proves[b] = b
OwnSent == \A b \in Blocks : pc[b] \in HasSent /\ Unrivalled(b) => sent[b].proof \subseteq {b}

FilesInv == Alone /\ OwnFile /\ NotStarted /\ Ready /\ OwnTx /\ OwnRead /\ OwnSent

\* The moves that leave all of this alone.
CalmMove(j, to) ==
    \/ to = "failed"
    \/ j \in Scripts /\ to \in {"picked", "waiting", "done"}
    \/ j \in Blocks /\ pc[j] = "new" /\ to = "constructing"
    \/ j \in Blocks /\ pc[j] = "facts" /\ to = "submitting"
    \/ j \in Blocks /\ pc[j] \in {"submitting", "including"}
                   /\ to \in {"submitting", "including", "done", "refused"}

\* Moves that start no use of the files, while nobody writes them.
LEMMA CalmKeepsFiles ==
    ASSUME FilesInv, UNCHANGED artifacts,
           \A j \in Jobs : rivals'[j] = rivals[j] /\ (pc'[j] = pc[j] \/ CalmMove(j, pc'[j])),
           \A b \in Blocks : proves'[b] = proves[b] /\ sent'[b].proof = sent[b].proof
    PROVE  FilesInv'
<1>1. UNCHANGED <<phase, files, txFile, File>> /\ Blocks \subseteq Jobs /\ Blocks \cap Scripts = {}
  BY Kinds DEF artifacts, File
<1>2. \A j \in Jobs : UsesFiles(j)' => UsesFiles(j)
  BY <1>1 DEF UsesFiles, CalmMove
<1>3. \A j \in Jobs : Unrivalled(j)' => Unrivalled(j)
  BY DEF Unrivalled
<1>4. Alone' /\ OwnFile'
  BY <1>1, <1>2, <1>3 DEF FilesInv, Alone, OwnFile
<1>5. NotStarted' /\ Ready'
  BY <1>1 DEF FilesInv, NotStarted, Ready, CalmMove
<1>6. OwnTx'
  BY <1>1, <1>3 DEF FilesInv, OwnTx, CalmMove
<1>7. OwnRead' /\ OwnSent'
  BY <1>1, <1>3 DEF FilesInv, OwnRead, OwnSent, HasRead, HasSent, CalmMove
<1> QED
  BY <1>4, <1>5, <1>6, <1>7 DEF FilesInv

\* A request that is not a job's moves, and meets others or not.
LEMMA OthersKeepFiles ==
    ASSUME TypeInv, FilesInv, NEW r \in Requests \ Jobs, NEW to, Go(r, to),
           UNCHANGED <<artifacts, proves, sent>> \/ (r \in Readers /\ UNCHANGED <<artifacts, proves>>
               /\ \A b \in Blocks : sent'[b] = sent[b]),
           UNCHANGED rivals \/ Meets(r)
    PROVE  FilesInv'
<1>1. \A j \in Jobs : j \in Requests /\ j # r
  BY Kinds
<1>2. \A j \in Jobs : pc'[j] = pc[j]
  BY <1>1, Moves DEF TypeInv
<1>3. \A j \in Jobs : rivals'[j] = rivals[j]
  BY <1>1 DEF Meets
<1>4. UNCHANGED artifacts /\ \A b \in Blocks : proves'[b] = proves[b] /\ sent'[b].proof = sent[b].proof
  OBVIOUS
<1> QED
  BY <1>2, <1>3, <1>4, CalmKeepsFiles

\* A job comes to use the files: whoever uses them has met it.
LEMMA MeetingsRemembered ==
    ASSUME TypeInv, Alone, NEW r \in Jobs, Meets(r), ~UsesFiles(r),
           \A j \in Jobs \ {r} : UsesFiles(j)' <=> UsesFiles(j)
    PROVE  /\ Alone'
           /\ \A j \in Jobs : Unrivalled(j)' => Unrivalled(j)
           /\ \A j \in Jobs \ {r} : Unrivalled(j)' => ~UsesFiles(j)
<1> DEFINE others == {j \in Requests \ {r} : UsesFiles(j)}
<1>1. rivals' = [q \in Requests |->
                     CASE q = r -> rivals[r] \cup (others \cap Jobs)
                       [] q \in others /\ r \in Jobs -> rivals[q] \cup {r}
                       [] OTHER -> rivals[q]]
  BY DEF Meets
<1>2. /\ Jobs \subseteq Requests /\ r \notin others
      /\ \A j \in Jobs \ {r} : j \in others <=> UsesFiles(j)
  BY Kinds
<1> HIDE DEF others
<1>3. rivals'[r] = rivals[r] \cup (others \cap Jobs)
  BY <1>1, <1>2
<1>4. \A j \in Jobs \ {r} : j \in others => rivals'[j] = rivals[j] \cup {r}
  BY <1>1, <1>2
<1>5. \A j \in Jobs \ {r} : j \notin others => rivals'[j] = rivals[j]
  BY <1>1, <1>2
<1>6. \A j \in Jobs : Unrivalled(j)' => Unrivalled(j)
  BY <1>3, <1>4, <1>5 DEF Unrivalled
<1>7. \A j \in Jobs \ {r} : Unrivalled(j)' => ~UsesFiles(j)
  BY <1>2, <1>4 DEF Unrivalled
<1>8. Unrivalled(r)' => \A j \in Jobs \ {r} : ~UsesFiles(j)
  BY <1>2, <1>3 DEF Unrivalled
<1>9. Alone'
  BY <1>7, <1>8 DEF Alone
<1> QED
  BY <1>6, <1>7, <1>9

\* What a prover job does to its phase, and to the proof.
LEMMA JobProof ==
    ASSUME TypeInv, NEW j \in Jobs, JobStep(j)
    PROVE  /\ phase[j] \in {"running"} \cup Prover!Writing
           /\ phase'[j] \in {"ok", "failed"} \cup Prover!Writing
           /\ phase'[j] = "ok" => phase[j] \in Prover!Writing
           /\ \A k \in Jobs : k # j => phase'[k] = phase[k]
           /\ \/ File'["proof"] \in {{}, {j}}
              \/ File'["proof"] = File["proof"] /\ (phase[j] \in Prover!Writing \/ phase'[j] = "failed")
              \/ File'["proof"] = File["proof"] \cup {j} /\ phase[j] \in Prover!Writing
<1>1. phase \in [Jobs -> Prover!Phases] /\ files \in FileStates
  BY TypeFacts DEF TypeInv
<1>2. ASSUME NEW f \in Prover!Artifacts, NEW c, Prover!Put(j, f, c)
      PROVE  File'["proof"] = IF f = "proof" THEN c ELSE File["proof"]
  <2>1. files' = [files EXCEPT !["session"] = [files["session"] EXCEPT ![f] = c]]
    BY <1>2 DEF Prover!Put
  <2>2. File' = [File EXCEPT ![f] = c] /\ File \in [Prover!Artifacts -> Prover!Content]
    BY <1>1, <2>1 DEF File, FileStates
  <2> QED
    BY <2>2 DEF Prover!Artifacts
<1>3. \A to : Prover!Go(j, to) => phase'[j] = to /\ \A k \in Jobs : k # j => phase'[k] = phase[k]
  BY <1>1 DEF Prover!Go
<1>4. CASE Prover!Succeed(j) \/ Prover!Fail(j)
  BY <1>3, <1>4 DEF Prover!Succeed, Prover!Fail, Prover!Writing, Prover!Written, File
<1>5. ASSUME NEW f \in {"proof", "facts"}, Prover!Open(j, f)
      PROVE  /\ phase[j] \in {"running"} \cup Prover!Writing
             /\ phase'[j] \in Prover!Writing
             /\ \A k \in Jobs : k # j => phase'[k] = phase[k]
             /\ File'["proof"] = {} \/ (File'["proof"] = File["proof"] /\ phase[j] \in Prover!Writing)
  <2>1. f \in Prover!Artifacts
    BY DEF Prover!Artifacts
  <2>2. /\ phase'[j] = Prover!Opening[f] /\ phase[j] \in Prover!Before[f]
        /\ \A k \in Jobs : k # j => phase'[k] = phase[k]
        /\ File'["proof"] = IF f = "proof" THEN {} ELSE File["proof"]
    BY <1>2, <1>3, <1>5, <2>1 DEF Prover!Open
  <2>3. CASE f = "proof"
    BY <2>2, <2>3 DEF Prover!Before, Prover!Opening, Prover!Writing, Prover!Written
  <2>4. CASE f = "facts"
    BY <2>2, <2>4 DEF Prover!Before, Prover!Opening, Prover!Writing, Prover!Written
  <2> QED
    BY <2>3, <2>4
<1>6. ASSUME NEW f \in {"proof", "facts"}, Prover!Fill(j, f)
      PROVE  /\ phase[j] \in Prover!Writing /\ phase'[j] \in Prover!Writing
             /\ \A k \in Jobs : k # j => phase'[k] = phase[k]
             /\ File'["proof"] \in {{j}, File["proof"], File["proof"] \cup {j}}
  <2>1. f \in Prover!Artifacts
    BY DEF Prover!Artifacts
  <2>2. /\ phase[j] = Prover!Opening[f] /\ phase'[j] = f
        /\ \A k \in Jobs : k # j => phase'[k] = phase[k]
    BY <1>3, <1>6 DEF Prover!Fill
  <2>3. phase[j] \in Prover!Writing /\ phase'[j] \in Prover!Writing
    BY <2>2 DEF Prover!Opening, Prover!Writing, Prover!Written
  <2>4. CASE f = "proof"
    <3>1. \/ Prover!Put(j, f, {j}) \/ Prover!Put(j, f, files["session"][f] \cup {j})
          \/ UNCHANGED files
      BY <1>6 DEF Prover!Fill
    <3> QED
      BY <1>2, <2>1, <2>2, <2>3, <2>4, <3>1 DEF File
  <2>5. CASE f # "proof"
    <3>1. UNCHANGED files \/ \E c : Prover!Put(j, f, c)
      BY <1>6 DEF Prover!Fill
    <3> QED
      BY <1>2, <2>1, <2>2, <2>3, <2>5, <3>1 DEF File
  <2> QED
    BY <2>4, <2>5
<1>7. "ok" \notin Prover!Writing
  BY DEF Prover!Writing, Prover!Written
<1>8. CASE \E f \in {"proof", "facts"} : Prover!Open(j, f)
  BY <1>5, <1>7, <1>8
<1>9. CASE \E f \in {"proof", "facts"} : Prover!Fill(j, f)
  BY <1>6, <1>7, <1>9
<1> QED
  BY <1>4, <1>8, <1>9 DEF JobStep

LEMMA JobsKeepFiles ==
    ASSUME TypeInv, FilesInv, NEW j \in Jobs, JobStep(j)
    PROVE  FilesInv'
<1>1. /\ UNCHANGED <<pc, txFile, rivals, proves, sent>>
  BY DEF JobStep, locals, history
<1>2. /\ phase[j] \notin {"idle", "ok", "failed"} /\ phase'[j] # "idle"
      /\ \A k \in Jobs : k # j => phase'[k] = phase[k]
  BY JobProof DEF Prover!Writing, Prover!Written
<1>3. UsesFiles(j) /\ \A k \in Jobs : UsesFiles(k)' => UsesFiles(k)
  BY <1>1, <1>2 DEF UsesFiles
<1>4. Alone'
  BY <1>1, <1>3 DEF FilesInv, Alone, Unrivalled
<1>5. OwnFile'
  <2> SUFFICES ASSUME NEW k \in Jobs, UsesFiles(k)', Unrivalled(k),
                      phase'[k] \in Prover!Writing \cup {"ok"}
               PROVE  File'["proof"] \subseteq {k}
    BY <1>1 DEF OwnFile, Unrivalled
  <2>1. k = j
    BY <1>3 DEF FilesInv, Alone
  <2>2. phase'[j] # "failed"
    BY <2>1 DEF Prover!Writing, Prover!Written
  <2>3. phase[j] \in Prover!Writing => File["proof"] \subseteq {j}
    BY <1>3, <2>1 DEF FilesInv, OwnFile
  <2> QED
    BY <2>1, <2>2, <2>3, JobProof
<1>6. NotStarted' /\ Ready'
  BY <1>1, <1>2, Kinds DEF FilesInv, NotStarted, Ready
<1>7. OwnTx' /\ OwnRead' /\ OwnSent'
  BY <1>1 DEF FilesInv, OwnTx, OwnRead, OwnSent, Unrivalled
<1> QED
  BY <1>4, <1>5, <1>6, <1>7 DEF FilesInv

LEMMA ScriptProveKeepsFiles ==
    ASSUME TypeInv, FilesInv, NEW p \in Scripts, NEW block, ScriptProve(p, block),
           pc[p] \in {"picked", "waiting"}
    PROVE  FilesInv'
<1>1. p \in Requests /\ p \in Jobs /\ p \notin Blocks /\ Blocks \subseteq Jobs
  BY Kinds
<1>2. /\ UNCHANGED <<files, txFile, proves, sent>> /\ Meets(p)
      /\ phase[p] = "idle" /\ phase' = [phase EXCEPT ![p] = "running"]
  BY DEF ScriptProve, Prover!Start, Prover!Go
<1>3. pc'[p] = "proving" /\ \A j \in Jobs \ {p} : pc'[j] = pc[j]
  BY <1>1, Moves, Kinds DEF ScriptProve, TypeInv
<1>4. phase'[p] = "running" /\ \A j \in Jobs \ {p} : phase'[j] = phase[j]
  BY <1>1, <1>2, TypeFacts DEF TypeInv
<1>5. ~UsesFiles(p) /\ \A j \in Jobs \ {p} : UsesFiles(j)' <=> UsesFiles(j)
  BY <1>2, <1>3, <1>4 DEF UsesFiles
<1>6. /\ Alone' /\ \A j \in Jobs : Unrivalled(j)' => Unrivalled(j)
      /\ \A j \in Jobs \ {p} : Unrivalled(j)' => ~UsesFiles(j)
  BY <1>1, <1>2, <1>5, MeetingsRemembered DEF FilesInv
<1>7. OwnFile'
  <2>1. "running" \notin Prover!Writing \cup {"ok"}
    BY DEF Prover!Writing, Prover!Written
  <2> QED
    BY <1>4, <1>5, <1>6, <2>1 DEF OwnFile
<1>8. NotStarted' /\ Ready'
  BY <1>1, <1>3, <1>4 DEF FilesInv, NotStarted, Ready
<1>9. OwnTx' /\ OwnRead' /\ OwnSent'
  BY <1>1, <1>2, <1>3, <1>6 DEF FilesInv, OwnTx, OwnRead, OwnSent
<1> QED
  BY <1>6, <1>7, <1>8, <1>9 DEF FilesInv

LEMMA BlocksKeepFiles ==
    ASSUME TypeInv, FilesInv, NEW b \in Blocks,
           \/ BlockBegin(b) \/ BlockConstruct(b) \/ BlockSpawn(b) \/ BlockProved(b)
           \/ BlockSubmit(b) \/ BlockIncluded(b)
    PROVE  FilesInv'
<1>1. b \in Requests /\ b \in Jobs /\ Blocks \subseteq Jobs /\ Jobs \subseteq Requests
  BY Kinds
<1>2. \A to : Go(b, to) => pc'[b] = to /\ \A j \in Jobs \ {b} : pc'[j] = pc[j]
  BY <1>1, TypeFacts DEF Go, TypeInv
<1>3. ASSUME NEW to, Go(b, to), CalmMove(b, to), UNCHANGED <<artifacts, rivals, proves, sent>>
      PROVE  FilesInv'
  BY <1>2, <1>3, CalmKeepsFiles
<1>4. CASE BlockBegin(b)
  BY <1>3, <1>4 DEF BlockBegin, CalmMove, history
<1>5. CASE BlockConstruct(b)
  <2>1. /\ UNCHANGED <<phase, files, proves, sent>> /\ Meets(b) /\ txFile' = b
        /\ pc[b] = "constructing" /\ pc'[b] = "spawning" /\ \A j \in Jobs \ {b} : pc'[j] = pc[j]
    BY <1>2, <1>5 DEF BlockConstruct
  <2>2. phase[b] = "idle" /\ UNCHANGED File
    BY <2>1 DEF FilesInv, NotStarted, File
  <2>3. ~UsesFiles(b) /\ \A j \in Jobs \ {b} : UsesFiles(j)' <=> UsesFiles(j)
    BY <2>1, <2>2 DEF UsesFiles
  <2>4. /\ Alone' /\ \A j \in Jobs : Unrivalled(j)' => Unrivalled(j)
        /\ \A j \in Jobs \ {b} : Unrivalled(j)' => ~UsesFiles(j)
    BY <1>1, <2>1, <2>3, MeetingsRemembered DEF FilesInv
  <2>5. OwnFile'
    <3>1. "idle" \notin Prover!Writing \cup {"ok"}
      BY DEF Prover!Writing, Prover!Written
    <3> QED
      BY <2>1, <2>2, <2>3, <2>4, <3>1 DEF OwnFile
  <2>6. NotStarted' /\ Ready'
    BY <1>1, <2>1, <2>2 DEF FilesInv, NotStarted, Ready
  <2>7. OwnTx'
    BY <1>1, <2>1, <2>4 DEF OwnTx, UsesFiles
  <2>8. OwnRead' /\ OwnSent'
    BY <1>1, <2>1, <2>4 DEF FilesInv, OwnRead, OwnSent, HasRead, HasSent
  <2> QED
    BY <2>4, <2>5, <2>6, <2>7, <2>8 DEF FilesInv
<1>6. CASE BlockSpawn(b)
  <2>1. /\ UNCHANGED <<files, txFile, sent, rivals>> /\ pc[b] = "spawning" /\ pc'[b] = "proving"
        /\ \A j \in Jobs \ {b} : pc'[j] = pc[j]
        /\ phase' = [phase EXCEPT ![b] = "running"] /\ proves' = [proves EXCEPT ![b] = txFile]
    BY <1>2, <1>6 DEF BlockSpawn, Prover!Start, Prover!Go, history
  <2>2. /\ phase'[b] = "running" /\ \A j \in Jobs \ {b} : phase'[j] = phase[j]
        /\ proves'[b] = txFile /\ \A c \in Blocks \ {b} : proves'[c] = proves[c]
    BY <1>1, <2>1, TypeFacts DEF TypeInv
  <2>3. UsesFiles(b) /\ \A j \in Jobs : UsesFiles(j)' <=> UsesFiles(j)
    BY <1>1, <2>1, <2>2 DEF UsesFiles
  <2>4. Alone'
    BY <2>1, <2>3 DEF FilesInv, Alone, Unrivalled
  <2>5. OwnFile'
    <3>1. "running" \notin Prover!Writing \cup {"ok"}
      BY DEF Prover!Writing, Prover!Written
    <3> QED
      BY <2>1, <2>2, <2>3, <3>1 DEF FilesInv, OwnFile, Unrivalled, File
  <2>6. NotStarted' /\ Ready' /\ OwnTx'
    BY <1>1, <2>1, <2>2 DEF FilesInv, NotStarted, Ready, OwnTx, Unrivalled
  <2>7. OwnRead' /\ OwnSent'
    BY <1>1, <2>1, <2>2 DEF FilesInv, OwnTx, OwnRead, OwnSent, HasRead, HasSent, Unrivalled
  <2> QED
    BY <2>4, <2>5, <2>6, <2>7 DEF FilesInv
<1>7. CASE BlockProved(b)
  <2>1. CASE Go(b, "failed")
    BY <1>3, <1>7, <2>1 DEF BlockProved, CalmMove, locals, history
  <2>2. CASE phase[b] = "ok" /\ Go(b, "reading")
    <3>1. /\ UNCHANGED <<phase, files, txFile, sent, proves, rivals, File>> /\ pc[b] = "proving"
          /\ pc'[b] = "reading" /\ \A j \in Jobs \ {b} : pc'[j] = pc[j]
      BY <1>2, <1>7, <2>2 DEF BlockProved, locals, artifacts, history, File
    <3>2. \A j \in Jobs : UsesFiles(j)' <=> UsesFiles(j)
      BY <3>1 DEF UsesFiles
    <3>3. Alone' /\ OwnFile'
      BY <3>1, <3>2 DEF FilesInv, Alone, OwnFile, Unrivalled
    <3>4. NotStarted' /\ Ready' /\ OwnTx'
      BY <1>1, <2>2, <3>1 DEF FilesInv, NotStarted, Ready, OwnTx, Unrivalled
    <3>5. OwnRead' /\ OwnSent'
      BY <1>1, <3>1 DEF FilesInv, OwnRead, OwnSent, HasRead, HasSent, Unrivalled
    <3> QED
      BY <3>3, <3>4, <3>5 DEF FilesInv
  <2> QED
    BY <1>7, <2>1, <2>2 DEF BlockProved
<1>8. CASE BlockSubmit(b)
  <2>1. \E to \in {"including", "submitting", "refused", "failed"} : Go(b, to)
    BY <1>8 DEF BlockSubmit, Accepted, Refused, Unanswered
  <2> QED
    BY <1>3, <1>8, <2>1 DEF BlockSubmit, CalmMove, history
<1>9. CASE BlockIncluded(b)
  <2>1. \E to \in {"done", "failed"} : Go(b, to)
    BY <1>9 DEF BlockIncluded
  <2> QED
    BY <1>3, <1>9, <2>1 DEF BlockIncluded, CalmMove, locals, history
<1> QED
  BY <1>4, <1>5, <1>6, <1>7, <1>8, <1>9

LEMMA ReadersKeepFiles ==
    ASSUME TypeInv, FilesInv, NEW r \in Readers, ReadProof(r) \/ ReadFacts(r)
    PROVE  FilesInv'
<1>1. /\ r \in Requests /\ (r \in Jobs <=> r \in Blocks)
      /\ Blocks \subseteq Jobs /\ Jobs \subseteq Requests /\ Blocks \subseteq Readers
  BY Kinds, SessionAssumption DEF Readers
<1>2. \A to : Go(r, to) => pc'[r] = to /\ \A j \in Jobs \ {r} : pc'[j] = pc[j]
  BY <1>1, TypeFacts DEF Go, TypeInv
<1>3. /\ UNCHANGED <<artifacts, rivals, proves>>
      /\ \/ sent' = [sent EXCEPT ![r].proof = File["proof"]]
         \/ sent' = [sent EXCEPT ![r].facts = File["facts"]]
         \/ UNCHANGED sent
  BY DEF ReadProof, ReadFacts, history
<1>4. \A q \in Readers : q # r => sent'[q] = sent[q]
  BY <1>3, TypeFacts DEF TypeInv
<1>5. CASE r \notin Blocks
  <2>1. \E to : Go(r, to)
    BY DEF ReadProof, ReadFacts
  <2>2. \A b \in Blocks : sent'[b] = sent[b]
    BY <1>1, <1>4, <1>5
  <2> QED
    BY <1>1, <1>3, <1>5, <2>1, <2>2, OthersKeepFiles
<1>6. CASE r \in Blocks /\ ReadFacts(r)
  <2>1. pc[r] = "facts" /\ \E to \in {"submitting", "failed"} : Go(r, to)
    BY <1>6 DEF ReadFacts
  <2>2. sent'[r].proof = sent[r].proof
    BY <1>6, TypeFacts DEF ReadFacts, TypeInv
  <2>3. \A j \in Jobs : pc'[j] = pc[j] \/ CalmMove(j, pc'[j])
    BY <1>2, <1>6, <2>1 DEF CalmMove
  <2>4. \A b \in Blocks : sent'[b].proof = sent[b].proof
    BY <1>1, <1>4, <2>2
  <2> QED
    BY <1>3, <2>3, <2>4, CalmKeepsFiles
<1>7. CASE r \in Blocks /\ ReadProof(r)
  <2>1. /\ UNCHANGED <<phase, files, txFile, proves, rivals, File>> /\ pc[r] = "reading"
        /\ pc'[r] = "facts" /\ \A j \in Jobs \ {r} : pc'[j] = pc[j]
    BY <1>2, <1>3, <1>7 DEF ReadProof, artifacts, File
  <2>2. sent'[r].proof = File["proof"]
    BY <1>7, TypeFacts DEF ReadProof, TypeInv
  <2>3. UsesFiles(r) /\ phase[r] = "ok" /\ \A j \in Jobs : UsesFiles(j)' <=> UsesFiles(j)
    BY <1>7, <2>1 DEF UsesFiles, FilesInv, Ready
  <2>4. Unrivalled(r) => File["proof"] \subseteq {r}
    BY <1>1, <1>7, <2>3 DEF FilesInv, OwnFile
  <2>5. Alone' /\ OwnFile'
    BY <2>1, <2>3 DEF FilesInv, Alone, OwnFile, Unrivalled
  <2>6. NotStarted' /\ Ready' /\ OwnTx'
    BY <1>1, <1>7, <2>1, <2>3 DEF FilesInv, NotStarted, Ready, OwnTx, Unrivalled
  <2>7. OwnRead'
    BY <1>1, <1>7, <2>1 DEF FilesInv, OwnRead, HasRead, HasSent, Unrivalled
  <2>8. OwnSent'
    BY <1>1, <1>4, <1>7, <2>1, <2>2, <2>4 DEF FilesInv, OwnSent, HasSent, Unrivalled
  <2> QED
    BY <2>5, <2>6, <2>7, <2>8 DEF FilesInv
<1> QED
  BY <1>5, <1>6, <1>7

LEMMA StepsKeepFiles ==
    ASSUME TypeInv, FilesInv, Steps
    PROVE  FilesInv'
<1>1. ASSUME NEW i \in Invokes,
             InvokeSend(i) \/ InvokeRecord(i) \/ InvokeConfirmed(i) \/ InvokeUnconfirmed(i)
      PROVE  FilesInv'
  <2>1. i \in Requests \ Jobs
    BY Kinds
  <2> QED
    BY <1>1, <2>1, OthersKeepFiles
    DEF InvokeSend, InvokeRecord, InvokeConfirmed, InvokeUnconfirmed, locals, history
<1>2. ASSUME NEW r \in Sncasts, SncastStep(r) PROVE FilesInv'
  <2>1. r \in Requests \ Jobs
    BY Kinds
  <2> QED
    BY <1>2, <2>1, SncastEffect, OthersKeepFiles DEF locals
<1>3. ASSUME NEW s \in Submits, SubmitBegin(s) \/ SubmitSign(s) \/ SubmitSend(s) PROVE FilesInv'
  <2>1. s \in Requests \ Jobs
    BY Kinds
  <2> QED
    BY <1>3, <2>1, OthersKeepFiles DEF SubmitBegin, SubmitSign, SubmitSend, Unanswered, locals, history
<1>4. ASSUME NEW p \in Scripts, ScriptBegin(p) \/ ScriptBlock(p) \/ ScriptWaited(p) \/ ScriptEnds(p)
      PROVE  FilesInv'
  <2>1. p \in Requests /\ p \in Jobs
    BY Kinds
  <2>2. ASSUME NEW to \in {"picked", "waiting", "done", "failed"}, Go(p, to),
               UNCHANGED <<artifacts, rivals, proves, sent>>
        PROVE  FilesInv'
    <3>1. \A j \in Jobs : pc'[j] = pc[j] \/ CalmMove(j, pc'[j])
      BY <2>1, <2>2, Moves, Kinds DEF CalmMove, TypeInv
    <3> QED
      BY <2>2, <3>1, CalmKeepsFiles
  <2>3. ASSUME NEW block, ScriptProve(p, block), pc[p] \in {"picked", "waiting"} PROVE FilesInv'
    BY <2>3, ScriptProveKeepsFiles
  <2> QED
    BY <1>4, <2>2, <2>3 DEF ScriptBegin, ScriptBlock, ScriptWaited, ScriptEnds, locals, history
<1>5. CASE \E b \in Blocks :
              \/ BlockBegin(b) \/ BlockConstruct(b) \/ BlockSpawn(b) \/ BlockProved(b)
              \/ BlockSubmit(b) \/ BlockIncluded(b)
  BY <1>5, BlocksKeepFiles
<1>6. CASE \E r \in Readers : ReadProof(r) \/ ReadFacts(r)
  BY <1>6, ReadersKeepFiles
<1>7. CASE \E j \in Jobs : JobStep(j)
  BY <1>7, JobsKeepFiles
<1>8. CASE (\E r \in Requests : Execute(r)) \/ (\E d \in Deploys : ExecuteDeclare(d))
  BY <1>8, CalmKeepsFiles DEF Execute, ExecuteDeclare, locals, history
<1>9. CASE Drops
  BY <1>9, RequestsDropped, Kinds, CalmKeepsFiles DEF CalmMove, locals, history
<1> QED
  BY <1>1, <1>2, <1>3, <1>4, <1>5, <1>6, <1>7, <1>8, <1>9 DEF Steps

LEMMA FilesInvariant == Spec => [](TypeInv /\ FilesInv)
<1>1. Init => FilesInv
  <2> SUFFICES ASSUME Init PROVE FilesInv
    OBVIOUS
  <2>1. \A j \in Jobs : pc[j] = "new" /\ phase[j] = "idle"
    BY Kinds DEF Init, Prover!Init
  <2>2. \A j \in Jobs : ~UsesFiles(j)
    BY <2>1 DEF UsesFiles
  <2> QED
    BY <2>1, <2>2, Kinds
    DEF FilesInv, Alone, OwnFile, NotStarted, Ready, OwnTx, OwnRead, OwnSent, HasRead, HasSent
<1>2. TypeInv /\ FilesInv /\ [Next]_vars => FilesInv'
  <2>1. ASSUME FilesInv, UNCHANGED vars PROVE FilesInv'
    BY <2>1, CalmKeepsFiles DEF vars, locals, history
  <2> QED
    BY <2>1, NextIsSteps, StepsKeepFiles
<1> QED
  BY <1>1, <1>2, TypeInvariant, PTL DEF Spec

\* prove_block (routes.rs:700-800): the proof that it sends is the one its own
\* job made of the transaction it signed, unless another job of the session was
\* under way at the same time.
THEOREM SessionSendsOwnProof == Spec => []SendsItsOwnProof
<1>1. FilesInv => SendsItsOwnProof
  BY DEF FilesInv, OwnRead, OwnSent, HasRead, HasSent, Unrivalled, SendsItsOwnProof
<1> QED
  BY <1>1, FilesInvariant, PTL

\* prove_transaction (snip36-server's prove.rs:183): a proof reported as its own
\* is one that its own job made, unless that job failed or met another.
THEOREM SessionReportsOwnProof == Spec => ReportsItsOwnProof
<1> DEFINE Reports == \A p \in Scripts :
               pc[p] = "proving" /\ pc'[p] = "done" =>
                   File["proof"] \subseteq {p} \/ phase[p] = "failed" \/ rivals[p] # {}
<1>1. TypeInv /\ FilesInv /\ [Next]_vars => [Reports]_vars
  <2> SUFFICES ASSUME TypeInv, FilesInv, Steps, NEW p \in Scripts,
                      pc[p] = "proving", pc'[p] = "done", phase[p] # "failed", Unrivalled(p)
               PROVE  File["proof"] \subseteq {p}
    BY NextIsSteps DEF Unrivalled
  <2>1. p \in Jobs /\ p \in Requests /\ p \notin Invokes /\ p \notin Sncasts /\ p \notin Readers
        /\ p \notin Blocks /\ p \notin Submits
    BY Kinds
  <2>2. UsesFiles(p)
    BY DEF UsesFiles
  <2>3. phase[p] = "ok"
    <3>1. pc' # pc /\ pc'[p] # pc[p]
      OBVIOUS
    <3>2. \A r \in Requests \ {p} : \A to : ~Go(r, to)
      BY <2>1, <3>1, TypeFacts DEF Go, TypeInv
    <3>3. \A to : Go(p, to) => to = "done"
      BY <2>1, TypeFacts DEF Go, TypeInv
    <3>4. ~\E i \in Invokes :
              InvokeSend(i) \/ InvokeRecord(i) \/ InvokeConfirmed(i) \/ InvokeUnconfirmed(i)
      BY <2>1, <3>2, Kinds DEF InvokeSend, InvokeRecord, InvokeConfirmed, InvokeUnconfirmed
    <3>5. ~\E r \in Sncasts : SncastStep(r)
      BY <2>1, <3>2, Kinds, SncastEffect
    <3>6. ~\E b \in Blocks : BlockBegin(b) \/ BlockConstruct(b) \/ BlockSpawn(b) \/ BlockProved(b)
      BY <2>1, <3>2, Kinds DEF BlockBegin, BlockConstruct, BlockSpawn, BlockProved
    <3>7. ~\E b \in Blocks : BlockSubmit(b) \/ BlockIncluded(b)
      BY <2>1, <3>2, Kinds
      DEF BlockSubmit, BlockIncluded, Accepted, Refused, Unanswered
    <3>8. ~\E r \in Readers : ReadProof(r) \/ ReadFacts(r)
      BY <2>1, <3>2, Kinds DEF ReadProof, ReadFacts
    <3>9. ~\E s \in Submits : SubmitBegin(s) \/ SubmitSign(s) \/ SubmitSend(s)
      BY <2>1, <3>2, Kinds DEF SubmitBegin, SubmitSign, SubmitSend, Unanswered
    <3>10. ~((\E r \in Requests : Execute(r)) \/ (\E d \in Deploys : ExecuteDeclare(d)))
      BY <3>1 DEF Execute, ExecuteDeclare
    <3>11. ~\E j \in Jobs : JobStep(j)
      BY <3>1 DEF JobStep
    <3>12. ~Drops
      BY <2>1, <3>1, RequestsDropped
    <3>13. ~\E q \in Scripts : ScriptBegin(q) \/ ScriptBlock(q) \/ ScriptWaited(q)
      BY <2>1, <3>2, <3>3, Kinds DEF ScriptBegin, ScriptBlock, ScriptWaited, ScriptProve
    <3>14. \E q \in Scripts : ScriptEnds(q)
      BY <3>4, <3>5, <3>6, <3>7, <3>8, <3>9, <3>10, <3>11, <3>12, <3>13 DEF Steps
    <3>15. ScriptEnds(p)
      BY <3>2, <3>14, Kinds DEF ScriptEnds
    <3> QED
      BY <3>15 DEF ScriptEnds
  <2> QED
    BY <2>1, <2>2, <2>3 DEF FilesInv, OwnFile
<1>2. Spec => [][Reports]_vars
  BY <1>1, FilesInvariant, PTL DEF Spec
<1> QED
  BY <1>2 DEF ReportsItsOwnProof
=============================================================================
