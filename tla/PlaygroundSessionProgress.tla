----------------------- MODULE PlaygroundSessionProgress -----------------------
(***************************************************************************)
(* More proofs about PlaygroundSession for any requests, workloads,        *)
(* attempts and failures: that its jobs are used as ProofFiles promises,   *)
(* that no request waits in vain, and that every step is progress.         *)
(***************************************************************************)
EXTENDS PlaygroundSessionProofs

(* The jobs. *)

\* PlaygroundSession with ProofFiles: what the requests of a session start, and
\* whatever fails between, the jobs and their files take only steps that
\* ProofFiles allows, those that VirtualOsProver is shown to implement.
THEOREM SessionUsesPromise == Spec => Prover!Spec
<1>1. Init => Prover!Init
  BY DEF Init
<1>2. TypeInv /\ [Next]_vars => [Prover!Next]_(Prover!vars)
  <2> SUFFICES ASSUME TypeInv, Steps PROVE Prover!Next \/ UNCHANGED <<phase, files>>
    BY NextIsSteps DEF vars, artifacts, Prover!vars
  <2>1. ASSUME NEW p \in Scripts, NEW block, ScriptProve(p, block) PROVE Prover!Next
    BY <2>1, Kinds DEF ScriptProve, Prover!Next, Prover!Step
  <2>2. ASSUME NEW b \in Blocks, BlockSpawn(b) PROVE Prover!Next
    BY <2>2, Kinds DEF BlockSpawn, Prover!Next, Prover!Step
  <2>3. ASSUME NEW j \in Jobs, JobStep(j) PROVE Prover!Next
    BY <2>3 DEF JobStep, Prover!Next, Prover!Step, Prover!Artifacts
  <2>4. CASE \E i \in Invokes :
                InvokeSend(i) \/ InvokeRecord(i) \/ InvokeConfirmed(i) \/ InvokeUnconfirmed(i)
    BY <2>4 DEF InvokeSend, InvokeRecord, InvokeConfirmed, InvokeUnconfirmed, artifacts
  <2>5. CASE \E r \in Sncasts : SncastStep(r)
    BY <2>5, SncastEffect DEF artifacts
  <2>6. CASE \E p \in Scripts :
                ScriptBegin(p) \/ ScriptBlock(p) \/ ScriptWaited(p) \/ ScriptEnds(p)
    BY <2>1, <2>6 DEF ScriptBegin, ScriptBlock, ScriptWaited, ScriptEnds, artifacts
  <2>7. CASE \E b \in Blocks : \/ BlockBegin(b) \/ BlockConstruct(b) \/ BlockProved(b)
                               \/ BlockSubmit(b) \/ BlockIncluded(b)
    BY <2>7 DEF BlockBegin, BlockConstruct, BlockProved, BlockSubmit, BlockIncluded, artifacts
  <2>8. CASE \/ \E r \in Readers : ReadProof(r) \/ ReadFacts(r)
             \/ \E s \in Submits : SubmitBegin(s) \/ SubmitSign(s) \/ SubmitSend(s)
    BY <2>8 DEF ReadProof, ReadFacts, SubmitBegin, SubmitSign, SubmitSend, artifacts
  <2>9. CASE (\E r \in Requests : Execute(r)) \/ (\E d \in Deploys : ExecuteDeclare(d)) \/ Drops
    BY <2>9, RequestsDropped DEF Execute, ExecuteDeclare, artifacts
  <2> QED
    BY <2>2, <2>3, <2>4, <2>5, <2>6, <2>7, <2>8, <2>9 DEF Steps
<1> QED
  BY <1>1, <1>2, TypeInvariant, PTL DEF Spec, Prover!Spec

-----------------------------------------------------------------------------
(* How far requests and jobs have come. *)

\* Where the requests of each kind can be.
MayBe(r, at) ==
    \/ at \in {"new"} \cup Ended
    \/ r \in Invokes /\ at \in {"accepted", "waiting"}
    \/ r \in Sncasts /\ at \in {"queued", "waiting"} \cup Children \cup Orphans
    \/ r \in Scripts /\ at \in {"picked", "waiting", "proving"}
    \/ r \in Blocks /\ at \in {"constructing", "spawning", "proving", "reading", "facts",
                               "submitting", "including"}
    \/ r \in Submits /\ at \in {"reading", "facts", "signing", "submitting"}

Rank(at) ==
    CASE at = "new" -> 0
      [] at \in {"accepted", "queued", "picked", "constructing"} -> 1
      [] at \in {"declaring", "spawning"} -> 2
      [] at = "declareOrphan" -> 3
      [] at = "locked" -> 4
      [] at \in {"waiting", "orphan"} -> 5
      [] at = "proving" -> 6
      [] at = "reading" -> 7
      [] at = "facts" -> 8
      [] at = "signing" -> 9
      [] at = "submitting" -> 10
      [] at = "including" -> 11
      [] at \in Ended -> 12

JobRank(at) ==
    CASE at = "idle" -> 0
      [] at = "running" -> 1
      [] at = "proofOpen" -> 2
      [] at = "proof" -> 3
      [] at = "factsOpen" -> 4
      [] at = "facts" -> 5
      [] at = "messagesOpen" -> 6
      [] at = "messages" -> 7
      [] at \in {"ok", "failed"} -> 8

LEMMA Ranks ==
    /\ Rank("new") = 0 /\ Rank("accepted") = 1 /\ Rank("queued") = 1 /\ Rank("picked") = 1
    /\ Rank("constructing") = 1 /\ Rank("declaring") = 2 /\ Rank("spawning") = 2
    /\ Rank("declareOrphan") = 3 /\ Rank("locked") = 4 /\ Rank("waiting") = 5
    /\ Rank("orphan") = 5 /\ Rank("proving") = 6 /\ Rank("reading") = 7 /\ Rank("facts") = 8
    /\ Rank("signing") = 9 /\ Rank("submitting") = 10 /\ Rank("including") = 11
    /\ Rank("done") = 12 /\ Rank("unconfirmed") = 12 /\ Rank("refused") = 12
    /\ Rank("failed") = 12
BY DEF Rank, Ended

LEMMA JobRanks ==
    /\ JobRank("idle") = 0 /\ JobRank("running") = 1 /\ JobRank("proofOpen") = 2
    /\ JobRank("proof") = 3 /\ JobRank("factsOpen") = 4 /\ JobRank("facts") = 5
    /\ JobRank("messagesOpen") = 6 /\ JobRank("messages") = 7
    /\ JobRank("ok") = 8 /\ JobRank("failed") = 8
BY DEF JobRank

LEMMA RankTypes ==
    ASSUME TypeInv
    PROVE  /\ \A r \in Requests : Rank(pc[r]) \in 0 .. 12
           /\ \A j \in Jobs : JobRank(phase[j]) \in 0 .. 8
<1>1. pc \in [Requests -> Places] /\ phase \in [Jobs -> Prover!Phases]
  BY TypeFacts DEF TypeInv
<1>2. \A at \in Places : Rank(at) \in 0 .. 12
  BY Ranks DEF Places, InFlight, Children, Orphans, Ended
<1>3. \A at \in Prover!Phases : JobRank(at) \in 0 .. 8
  BY JobRanks DEF Prover!Phases, Prover!Writing, Prover!Written
<1> QED
  BY <1>1, <1>2, <1>3

\* A request goes on to a place that its kind has.
Hop(r, to) == Go(r, to) /\ MayBe(r, to) /\ Rank(pc[r]) < Rank(to)

\* prove_block submits again.
Again(b) ==
    /\ pc[b] = "submitting" /\ Go(b, "submitting")
    /\ attempts' = [attempts EXCEPT ![b] = @ + 1]

LEMMA WorkHops ==
    ASSUME TypeInv, Work
    PROVE  \/ \E r \in Requests, to \in Places : Hop(r, to)
           \/ \E b \in Blocks : Again(b)
           \/ \E r \in Requests : Execute(r)
           \/ \E d \in Deploys : ExecuteDeclare(d)
           \/ \E j \in Jobs : JobStep(j)
<1> DEFINE Hops == \E r \in Requests, to \in Places : Hop(r, to)
<1> USE Kinds, Ranks DEF MayBe, Hop
<1>0. {"waiting", "declaring", "locked", "proving", "spawning", "reading", "facts", "signing",
       "submitting", "including"} \cup Ended \subseteq Places
  BY DEF Places, InFlight, Children
<1>1. ASSUME NEW i \in Invokes, InvokeRecord(i) \/ InvokeConfirmed(i) \/ InvokeUnconfirmed(i)
      PROVE  Hops
  BY <1>0, <1>1 DEF InvokeRecord, InvokeConfirmed, InvokeUnconfirmed, Ended
<1>2. ASSUME NEW r \in Sncasts,
             \/ SncastLock(r) \/ (r \in Deploys /\ Declare(r)) \/ SncastSend(r)
             \/ SncastConfirmed(r) \/ SncastUnconfirmed(r)
      PROVE  Hops
  <2>1. \E to \in {"declaring", "locked", "waiting", "failed", "done"} :
            Go(r, to) /\ Rank(pc[r]) < Rank(to)
    BY <1>2 DEF SncastLock, Declare, SncastSend, SncastConfirmed, SncastUnconfirmed
  <2> QED
    BY <1>0, <2>1 DEF Children, Ended
<1>3. ASSUME NEW p \in Scripts, ScriptBlock(p) \/ ScriptWaited(p) \/ ScriptEnds(p) PROVE Hops
  BY <1>0, <1>3 DEF ScriptBlock, ScriptWaited, ScriptEnds, ScriptProve, Ended
<1>4. ASSUME NEW b \in Blocks,
             BlockConstruct(b) \/ BlockSpawn(b) \/ BlockProved(b) \/ BlockIncluded(b)
      PROVE  Hops
  BY <1>0, <1>4 DEF BlockConstruct, BlockSpawn, BlockProved, BlockIncluded, Ended
<1>5. ASSUME NEW b \in Blocks, BlockSubmit(b) PROVE Hops \/ Again(b)
  BY <1>0, <1>5 DEF BlockSubmit, Accepted, Refused, Unanswered, Again, Ended
<1>6. ASSUME NEW r \in Readers, ReadProof(r) \/ ReadFacts(r) PROVE Hops
  BY <1>0, <1>6 DEF ReadProof, ReadFacts, Readers, Ended
<1>7. ASSUME NEW s \in Submits, SubmitSign(s) \/ SubmitSend(s) PROVE Hops
  BY <1>0, <1>7 DEF SubmitSign, SubmitSend, Unanswered, Ended
<1> QED
  BY <1>1, <1>2, <1>3, <1>4, <1>5, <1>6, <1>7 DEF Work

LEMMA StepsHop ==
    ASSUME TypeInv, Next
    PROVE  \/ \E r \in Requests, to \in Places : Hop(r, to)
           \/ \E b \in Blocks : Again(b)
           \/ \E r \in Requests : Execute(r)
           \/ \E d \in Deploys : ExecuteDeclare(d)
           \/ \E j \in Jobs : JobStep(j)
           \/ Restart
<1> DEFINE Hops == \E r \in Requests, to \in Places : Hop(r, to)
<1>1. CASE Arrive
  <2> USE Kinds, Ranks DEF MayBe, Hop
  <2>1. {"accepted", "queued", "picked", "constructing", "reading", "failed"} \subseteq Places
    BY DEF Places, InFlight, Ended
  <2>2. ASSUME NEW i \in Invokes, InvokeSend(i) PROVE Hops
    BY <2>1, <2>2 DEF InvokeSend, Ended
  <2>3. ASSUME NEW r \in Sncasts, SncastBegin(r) PROVE Hops
    BY <2>1, <2>3 DEF SncastBegin
  <2>4. ASSUME NEW p \in Scripts, ScriptBegin(p) PROVE Hops
    BY <2>1, <2>4 DEF ScriptBegin
  <2>5. ASSUME NEW b \in Blocks, BlockBegin(b) PROVE Hops
    BY <2>1, <2>5 DEF BlockBegin
  <2>6. ASSUME NEW s \in Submits, SubmitBegin(s) PROVE Hops
    BY <2>1, <2>6 DEF SubmitBegin
  <2> QED
    BY <1>1, <2>2, <2>3, <2>4, <2>5, <2>6 DEF Arrive
<1>2. CASE Failures
  <2>1. {"declareOrphan", "orphan", "failed"} \subseteq Places
    BY DEF Places, InFlight, Orphans, Ended
  <2>2. ASSUME NEW r \in Requests, RequestFails(r) \/ SncastFails(r) PROVE Hops
    <3>1. Go(r, "failed") /\ Rank(pc[r]) < Rank("failed")
      BY <2>2, Ranks DEF RequestFails, SncastFails, Children, Orphans
    <3> QED
      BY <2>1, <3>1 DEF Hop, MayBe, Ended
  <2>3. ASSUME NEW r \in Requests, Disconnect(r) PROVE Hops
    <3>1. Go(r, Lost(r)) /\ pc[r] \in InFlight \ Orphans
      BY <2>3 DEF Disconnect
    <3>2. CASE HasChild(r) /\ pc[r] = "declaring"
      <4>1. Lost(r) = "declareOrphan"
        BY <3>2 DEF Lost
      <4> QED
        BY <2>1, <3>1, <3>2, <4>1, Ranks DEF HasChild, Hop, MayBe, Orphans
    <3>3. CASE HasChild(r) /\ pc[r] # "declaring"
      <4>1. Lost(r) = "orphan" /\ pc[r] = "locked"
        BY <3>1, <3>3 DEF Lost, HasChild, Children, Orphans
      <4> QED
        BY <2>1, <3>1, <3>3, <4>1, Ranks DEF HasChild, Hop, MayBe, Orphans
    <3>4. CASE ~HasChild(r)
      <4>1. Lost(r) = "failed"
        BY <3>1, <3>4 DEF Lost
      <4>2. Rank(pc[r]) < Rank("failed")
        BY <3>1, Ranks DEF InFlight, Children, Orphans
      <4> QED
        BY <2>1, <3>1, <4>1, <4>2 DEF Hop, MayBe, Ended
    <3> QED
      BY <3>2, <3>3, <3>4
  <2> QED
    BY <1>2, <2>2, <2>3, Kinds DEF Failures
<1> QED
  BY <1>1, <1>2, WorkHops DEF Next

\* What a job's own step does to its phase.
LEMMA JobHops ==
    ASSUME TypeInv, NEW j \in Jobs, JobStep(j)
    PROVE  /\ phase[j] # "idle" /\ phase'[j] \in FilesMove
           /\ JobRank(phase[j]) < JobRank(phase'[j])
           /\ \A k \in Jobs \ {j} : phase'[k] = phase[k]
<1> USE JobRanks DEF FilesMove
<1> DEFINE Hopped == JobRank(phase[j]) < JobRank(phase'[j]) /\ phase'[j] \in FilesMove
<1>1. phase \in [Jobs -> Prover!Phases]
  BY TypeFacts DEF TypeInv
<1>2. \A to : Prover!Go(j, to) => phase'[j] = to
  BY <1>1 DEF Prover!Go
<1>3. ASSUME Prover!Succeed(j) PROVE Hopped
  BY <1>2, <1>3 DEF Prover!Succeed, Prover!Written
<1>4. ASSUME Prover!Fail(j) PROVE Hopped
  BY <1>2, <1>4 DEF Prover!Fail, Prover!Writing, Prover!Written
<1>5. ASSUME Prover!Open(j, "proof") \/ Prover!Open(j, "facts")
      PROVE  Hopped
  BY <1>2, <1>5 DEF Prover!Open, Prover!Before, Prover!Opening
<1>6. ASSUME Prover!Fill(j, "proof") \/ Prover!Fill(j, "facts")
      PROVE  Hopped
  BY <1>2, <1>6 DEF Prover!Fill, Prover!Opening
<1>7. Hopped
  BY <1>3, <1>4, <1>5, <1>6 DEF JobStep
<1> QED
  BY <1>7, JobProof DEF JobStep, Prover!Writing, Prover!Written

\* A job is started by its own request, as its request's next step.
LEMMA StepsStart ==
    ASSUME TypeInv, Steps
    PROVE  \/ UNCHANGED phase /\ \A j \in Jobs : pc'[j] = "proving" => pc[j] = "proving"
           \/ \E j \in Jobs : Prover!Start(j) /\ Go(j, "proving")
           \/ \E j \in Jobs : JobStep(j)
<1> USE Kinds
<1>0. pc \in [Requests -> Places]
  BY TypeFacts DEF TypeInv
<1> DEFINE Still == UNCHANGED phase /\ \A j \in Jobs : pc'[j] = "proving" => pc[j] = "proving"
           Starts == \E j \in Jobs : Prover!Start(j) /\ Go(j, "proving")
<1>1. ASSUME NEW r \in Requests, NEW to, Go(r, to), to # "proving", UNCHANGED phase PROVE Still
  BY <1>0, <1>1 DEF Go
<1> HIDE DEF Still
<1>2. ASSUME NEW i \in Invokes,
             InvokeSend(i) \/ InvokeRecord(i) \/ InvokeConfirmed(i) \/ InvokeUnconfirmed(i)
      PROVE  Still
  BY <1>1, <1>2 DEF InvokeSend, InvokeRecord, InvokeConfirmed, InvokeUnconfirmed, artifacts
<1>3. ASSUME NEW r \in Sncasts, SncastStep(r) PROVE Still
  BY <1>1, <1>3, SncastEffect DEF artifacts
<1>4. ASSUME NEW p \in Scripts, NEW block, ScriptProve(p, block) PROVE Starts
  BY <1>4 DEF ScriptProve
<1>5. ASSUME NEW p \in Scripts, ScriptBegin(p) \/ ScriptBlock(p) \/ ScriptWaited(p) \/ ScriptEnds(p)
      PROVE  Still \/ Starts
  BY <1>1, <1>4, <1>5 DEF ScriptBegin, ScriptBlock, ScriptWaited, ScriptEnds, artifacts
<1>6. ASSUME NEW b \in Blocks, BlockSpawn(b) PROVE Starts
  BY <1>6 DEF BlockSpawn
<1>7. ASSUME NEW b \in Blocks,
             \/ BlockBegin(b) \/ BlockConstruct(b) \/ BlockProved(b)
             \/ BlockSubmit(b) \/ BlockIncluded(b)
      PROVE  Still
  BY <1>1, <1>7 DEF BlockBegin, BlockConstruct, BlockProved, BlockSubmit, BlockIncluded,
                    Accepted, Refused, Unanswered, artifacts
<1>8. ASSUME NEW r \in Readers, ReadProof(r) \/ ReadFacts(r) PROVE Still
  BY <1>1, <1>8 DEF ReadProof, ReadFacts, artifacts
<1>9. ASSUME NEW s \in Submits, SubmitBegin(s) \/ SubmitSign(s) \/ SubmitSend(s) PROVE Still
  BY <1>1, <1>9 DEF SubmitBegin, SubmitSign, SubmitSend, Unanswered, artifacts
<1>10. CASE (\E r \in Requests : Execute(r)) \/ (\E d \in Deploys : ExecuteDeclare(d))
  BY <1>10 DEF Execute, ExecuteDeclare, artifacts, Still
<1>11. CASE Drops
  <2>1. UNCHANGED phase /\ \A j \in Jobs : pc'[j] = pc[j] \/ pc'[j] = "failed"
    BY <1>11, RequestsDropped DEF artifacts
  <2> QED
    BY <2>1 DEF Still
<1> QED
  BY <1>2, <1>3, <1>5, <1>6, <1>7, <1>8, <1>9, <1>10, <1>11 DEF Steps, Still

\* Only prove_block counts.
LEMMA StepsCount ==
    ASSUME TypeInv, Steps
    PROVE  UNCHANGED attempts \/ \E b \in Blocks : attempts' = [attempts EXCEPT ![b] = @ + 1]
<1>1. CASE \E i \in Invokes :
              InvokeSend(i) \/ InvokeRecord(i) \/ InvokeConfirmed(i) \/ InvokeUnconfirmed(i)
  BY <1>1 DEF InvokeSend, InvokeRecord, InvokeConfirmed, InvokeUnconfirmed, locals
<1>2. CASE \E r \in Sncasts : SncastStep(r)
  BY <1>2, SncastEffect DEF locals
<1>3. CASE \E p \in Scripts : ScriptBegin(p) \/ ScriptBlock(p) \/ ScriptWaited(p) \/ ScriptEnds(p)
  BY <1>3 DEF ScriptBegin, ScriptBlock, ScriptWaited, ScriptEnds, ScriptProve, locals
<1>4. CASE \E b \in Blocks : \/ BlockBegin(b) \/ BlockConstruct(b) \/ BlockSpawn(b)
                             \/ BlockProved(b) \/ BlockIncluded(b)
  BY <1>4 DEF BlockBegin, BlockConstruct, BlockSpawn, BlockProved, BlockIncluded, locals
<1>5. CASE \E b \in Blocks : BlockSubmit(b)
  BY <1>5 DEF BlockSubmit, Accepted, Refused, Unanswered
<1>6. CASE \/ \E r \in Readers : ReadProof(r) \/ ReadFacts(r)
           \/ \E s \in Submits : SubmitBegin(s) \/ SubmitSign(s) \/ SubmitSend(s)
  BY <1>6 DEF ReadProof, ReadFacts, SubmitBegin, SubmitSign, SubmitSend, locals
<1>7. CASE \/ \E r \in Requests : Execute(r)
           \/ \E d \in Deploys : ExecuteDeclare(d)
           \/ \E j \in Jobs : JobStep(j)
  BY <1>7 DEF Execute, ExecuteDeclare, JobStep, locals
<1>8. CASE Drops
  BY <1>8, RequestsDropped DEF locals
<1> QED
  BY <1>1, <1>2, <1>3, <1>4, <1>5, <1>6, <1>7, <1>8 DEF Steps

\* No step takes a request or a job back.
LEMMA NoneGoesBack ==
    ASSUME TypeInv, Next
    PROVE  /\ \A r \in Requests : Rank(pc[r]) <= Rank(pc'[r])
           /\ \A j \in Jobs : JobRank(phase[j]) <= JobRank(phase'[j])
           /\ \A b \in Blocks : attempts[b] <= attempts'[b]
<1>1. pc \in [Requests -> Places] /\ \A b \in Blocks : attempts[b] \in Nat
  BY TypeFacts, SessionAssumption DEF TypeInv
<1>2. Steps
  BY NextIsSteps
<1>3. \A r \in Requests : Rank(pc[r]) <= Rank(pc'[r])
  <2>1. ASSUME NEW q \in Requests, NEW to \in Places, Hop(q, to)
        PROVE  \A r \in Requests : Rank(pc[r]) <= Rank(pc'[r])
    <3>1. pc'[q] = to /\ \A r \in Requests \ {q} : pc'[r] = pc[r]
      BY <1>1, <2>1 DEF Hop, Go
    <3>2. Rank(to) \in Nat
      BY Ranks DEF Places, InFlight, Children, Orphans, Ended
    <3> QED
      BY <2>1, <3>1, <3>2, RankTypes DEF Hop
  <2>2. UNCHANGED pc => \A r \in Requests : Rank(pc[r]) <= Rank(pc'[r])
    BY RankTypes
  <2>3. ASSUME NEW b \in Blocks, Again(b) PROVE UNCHANGED pc
    BY <1>1, <2>3, Kinds DEF Again, Go
  <2>4. ASSUME Restart PROVE \A r \in Requests : Rank(pc[r]) <= Rank(pc'[r])
    <3>1. ASSUME NEW r \in Requests, HasChild(r) PROVE Rank(pc[r]) <= Rank(Lost(r))
      BY <3>1, Ranks DEF HasChild, Lost, Children, Orphans
    <3>2. ASSUME NEW r \in Requests, ~HasChild(r) PROVE Lost(r) \in {pc[r], "failed"}
      BY <3>2 DEF Lost
    <3>3. \A r \in Requests : pc'[r] = Lost(r)
      BY <2>4 DEF Restart
    <3> QED
      BY <3>1, <3>2, <3>3, RankTypes, Ranks
  <2>5. CASE \/ \E r \in Requests : Execute(r)
             \/ \E d \in Deploys : ExecuteDeclare(d)
             \/ \E j \in Jobs : JobStep(j)
    BY <2>2, <2>5 DEF Execute, ExecuteDeclare, JobStep
  <2> QED
    BY <2>1, <2>2, <2>3, <2>4, <2>5, StepsHop
<1>4. \A j \in Jobs : JobRank(phase[j]) <= JobRank(phase'[j])
  <2>1. ASSUME NEW j \in Jobs, Prover!Start(j) \/ JobStep(j)
        PROVE  \A k \in Jobs : JobRank(phase[k]) <= JobRank(phase'[k])
    <3>1. CASE Prover!Start(j)
      <4>1. /\ phase[j] = "idle" /\ phase'[j] = "running"
            /\ \A k \in Jobs \ {j} : phase'[k] = phase[k]
        BY <3>1, TypeFacts DEF Prover!Start, Prover!Go, TypeInv
      <4> QED
        BY <4>1, RankTypes, JobRanks
    <3>2. CASE JobStep(j)
      <4>1. JobRank(phase'[j]) \in Nat
        BY <3>2, JobProof, JobRanks DEF Prover!Writing, Prover!Written
      <4> QED
        BY <3>2, <4>1, JobHops, RankTypes
    <3> QED
      BY <2>1, <3>1, <3>2
  <2>2. UNCHANGED phase \/ \E j \in Jobs : Prover!Start(j) \/ JobStep(j)
    BY <1>2, StepsStart
  <2> QED
    BY <2>1, <2>2, RankTypes
<1>5. \A b \in Blocks : attempts[b] <= attempts'[b]
  <2>1. UNCHANGED attempts \/ \E b \in Blocks : attempts' = [attempts EXCEPT ![b] = @ + 1]
    BY <1>2, StepsCount
  <2>2. attempts \in [Blocks -> 0 .. MaxAttempts]
    BY TypeFacts DEF TypeInv
  <2> QED
    BY <1>1, <2>1, <2>2
<1> QED
  BY <1>3, <1>4, <1>5

-----------------------------------------------------------------------------
(* Nobody waits in vain. *)

Unstarted == {"new", "picked", "waiting", "constructing", "spawning"}
Out == {"accepted", "waiting", "including"}

\* Requests are where their kind can be, and so are their jobs.
RoleInv == \A r \in Requests : MayBe(r, pc[r])
StartInv == \A j \in Jobs : /\ phase[j] \in {"idle"} \cup FilesMove
                            /\ pc[j] \in Unstarted => phase[j] = "idle"
                            /\ pc[j] = "proving" => phase[j] # "idle"

\* Whoever waits for a transaction has sent it, and prove_transaction picks one
\* that was sent.
SentInv ==
    /\ \A r \in Requests \ Scripts : pc[r] \in Out => tx[r].status # "none"
    /\ session.invokeTx # None => tx[session.invokeTx].status # "none"
    /\ \A p \in Scripts : picked[p] # None => tx[picked[p]].status # "none"

\* sncast_lock is held by a request that uses it.
LockInv == lock # None => lock \in Sncasts /\ pc[lock] \in {"waiting"} \cup Children

\* A class is declared once.
BeforeDeclare == {"new", "queued", "declaring", "declareOrphan"}
DeclareInv == \A d \in Deploys : pc[d] \in BeforeDeclare => declare[d].status = "none"

WaitInv == RoleInv /\ StartInv /\ SentInv /\ LockInv /\ DeclareInv

LEMMA StepsKeepRoles ==
    ASSUME TypeInv, RoleInv, Next
    PROVE  RoleInv'
<1>1. pc \in [Requests -> Places]
  BY TypeFacts DEF TypeInv
<1>2. ASSUME NEW q \in Requests, NEW to \in Places, Hop(q, to) PROVE RoleInv'
  BY <1>1, <1>2 DEF Hop, Go, RoleInv
<1>3. ASSUME NEW b \in Blocks, Again(b) PROVE RoleInv'
  <2>1. UNCHANGED pc
    BY <1>1, <1>3, Kinds DEF Again, Go
  <2> QED
    BY <2>1 DEF RoleInv
<1>4. CASE Restart
  <2>1. \A r \in Requests : \/ pc'[r] = pc[r] \/ pc'[r] = "failed"
                            \/ r \in Sncasts /\ pc'[r] \in Orphans
    BY <1>4, RequestsDropped DEF Drops
  <2>2. \A r : MayBe(r, "failed") /\ \A at \in Orphans : r \in Sncasts => MayBe(r, at)
    BY DEF MayBe, Ended
  <2> QED
    BY <2>1, <2>2 DEF RoleInv
<1>5. CASE \/ \E r \in Requests : Execute(r)
           \/ \E d \in Deploys : ExecuteDeclare(d)
           \/ \E j \in Jobs : JobStep(j)
  BY <1>5 DEF Execute, ExecuteDeclare, JobStep, RoleInv
<1> QED
  BY <1>2, <1>3, <1>4, <1>5, StepsHop

LEMMA StepsKeepStarts ==
    ASSUME TypeInv, RoleInv, StartInv, Next
    PROVE  StartInv'
<1>1. pc \in [Requests -> Places] /\ phase \in [Jobs -> Prover!Phases]
  BY TypeFacts DEF TypeInv
<1>2. ASSUME NEW j \in Jobs, pc'[j] \in Unstarted PROVE pc[j] \in Unstarted
  <2>1. Rank(pc'[j]) <= 5
    BY <1>2, Ranks DEF Unstarted
  <2>2. Rank(pc[j]) <= 5
    BY <2>1, NoneGoesBack, RankTypes, Kinds, Ranks, <1>2 DEF Unstarted
  <2>3. /\ MayBe(j, pc[j])
        /\ j \notin Invokes /\ j \notin Sncasts /\ j \notin Submits
    BY Kinds DEF RoleInv
  <2> QED
    BY <2>2, <2>3, Ranks DEF MayBe, Unstarted, Ended
<1>3. CASE UNCHANGED phase /\ \A j \in Jobs : pc'[j] = "proving" => pc[j] = "proving"
  BY <1>2, <1>3 DEF StartInv
<1>4. ASSUME NEW j \in Jobs, Prover!Start(j), Go(j, "proving") PROVE StartInv'
  <2>1. pc'[j] = "proving" /\ phase'[j] = "running"
    BY <1>1, <1>4, Kinds DEF Go, Prover!Start, Prover!Go
  <2>2. \A k \in Jobs \ {j} : pc'[k] = pc[k] /\ phase'[k] = phase[k]
    BY <1>1, <1>4, Kinds DEF Go, Prover!Start, Prover!Go
  <2> QED
    BY <2>1, <2>2 DEF StartInv, Unstarted, FilesMove
<1>5. ASSUME NEW j \in Jobs, JobStep(j) PROVE StartInv'
  <2>1. UNCHANGED pc
    BY <1>5 DEF JobStep
  <2> QED
    BY <1>5, <2>1, JobHops DEF StartInv, FilesMove
<1> QED
  BY <1>3, <1>4, <1>5, StepsStart, NextIsSteps

\* A transaction that was sent stays sent.
LEMMA TxStays ==
    ASSUME TypeInv, Steps, NEW r \in Requests, tx[r].status # "none"
    PROVE  tx'[r].status # "none"
<1>1. tx \in [Requests -> Txs(Tip, nonce)]
  BY TypeFacts DEF TypeInv
<1>2. ASSUME NEW q \in Requests, TxSent(q) PROVE tx'[r].status # "none"
  BY <1>1, <1>2 DEF TxSent, Pending
<1>3. ASSUME NEW q \in Requests, TxExecuted(q) PROVE tx'[r].status # "none"
  <2>1. PICK status \in {"ok", "reverted"} :
            tx' = [tx EXCEPT ![q].status = status, ![q].block = Tip + 1]
    BY <1>3 DEF TxExecuted
  <2> QED
    BY <1>1, <2>1 DEF Txs
<1> QED
  BY <1>2, <1>3, StepsLeaveFootprints DEF Footprint, TxKept

\* A wait begins when the transaction has been sent.
LEMMA WaitBegins ==
    ASSUME TypeInv, Steps, NEW r \in Requests \ Scripts, pc'[r] \in Out
    PROVE  pc[r] \in Out \/ tx'[r].status = "pending"
<1> USE Kinds DEF Out
<1>0. pc \in [Requests -> Places] /\ tx \in [Requests -> Txs(Tip, nonce)]
  BY TypeFacts DEF TypeInv
<1> DEFINE Begins == pc[r] \in Out \/ tx'[r].status = "pending"
<1>1. UNCHANGED pc => Begins
  OBVIOUS
<1>2. ASSUME NEW q \in Requests, NEW to, Go(q, to),
             to \notin Out \/ pc[q] \in Out \/ q \in Scripts
                 \/ \E m : tx' = [tx EXCEPT ![q] = Pending(m)]
      PROVE  Begins
  BY <1>0, <1>2 DEF Go, Pending
<1> HIDE DEF Begins
<1>3. ASSUME NEW i \in Invokes,
             InvokeSend(i) \/ InvokeRecord(i) \/ InvokeConfirmed(i) \/ InvokeUnconfirmed(i)
      PROVE  Begins
  BY <1>2, <1>3 DEF InvokeSend, InvokeRecord, InvokeConfirmed, InvokeUnconfirmed
<1>4. ASSUME NEW q \in Sncasts, SncastStep(q) PROVE Begins
  <2>1. CASE SncastSend(q)
    BY <1>2, <2>1 DEF SncastSend
  <2>2. CASE \/ SncastBegin(q) \/ SncastLock(q) \/ Declare(q)
             \/ SncastConfirmed(q) \/ SncastUnconfirmed(q) \/ SncastFails(q)
    <3>1. \E to \in {"queued", "declaring", "locked", "done", "failed"} : Go(q, to)
      BY <2>2 DEF SncastBegin, SncastLock, Declare, SncastConfirmed, SncastUnconfirmed, SncastFails
    <3> QED
      BY <1>2, <3>1
  <2> QED
    BY <1>4, <2>1, <2>2 DEF SncastStep
<1>5. ASSUME NEW p \in Scripts, ScriptBegin(p) \/ ScriptBlock(p) \/ ScriptWaited(p) \/ ScriptEnds(p)
      PROVE  Begins
  BY <1>2, <1>5 DEF ScriptBegin, ScriptBlock, ScriptWaited, ScriptEnds, ScriptProve
<1>6. ASSUME NEW b \in Blocks, BlockBegin(b) \/ BlockConstruct(b) \/ BlockSpawn(b) \/ BlockProved(b)
      PROVE  Begins
  BY <1>2, <1>6 DEF BlockBegin, BlockConstruct, BlockSpawn, BlockProved
<1>7. ASSUME NEW b \in Blocks, BlockSubmit(b) \/ BlockIncluded(b) PROVE Begins
  BY <1>2, <1>7 DEF BlockSubmit, BlockIncluded, Accepted, Refused, Unanswered
<1>8. ASSUME NEW q \in Readers, ReadProof(q) \/ ReadFacts(q) PROVE Begins
  BY <1>2, <1>8 DEF ReadProof, ReadFacts
<1>9. ASSUME NEW q \in Submits, SubmitBegin(q) \/ SubmitSign(q) \/ SubmitSend(q) PROVE Begins
  BY <1>2, <1>9 DEF SubmitBegin, SubmitSign, SubmitSend, Unanswered
<1>10. ASSUME \/ \E q \in Requests : Execute(q)
              \/ \E d \in Deploys : ExecuteDeclare(d)
              \/ \E j \in Jobs : JobStep(j)
       PROVE  Begins
  BY <1>1, <1>10 DEF Execute, ExecuteDeclare, JobStep
<1>11. ASSUME Drops PROVE Begins
  <2>1. pc'[r] = pc[r] \/ pc'[r] \in {"failed"} \cup Orphans
    BY <1>11, RequestsDropped
  <2> QED
    BY <2>1 DEF Begins, Orphans
<1>12. Begins
  BY <1>3, <1>4, <1>5, <1>6, <1>7, <1>8, <1>9, <1>10, <1>11 DEF Steps
<1> QED
  BY <1>12 DEF Begins

\* Which transaction the session and prove_transaction name.
LEMMA StepsName ==
    ASSUME TypeInv, Steps
    PROVE  /\ \/ session'.invokeTx = session.invokeTx \/ session'.invokeTx = None
              \/ \E i \in Invokes : pc[i] = "accepted" /\ session'.invokeTx = i
           /\ \/ UNCHANGED picked
              \/ \E p \in Scripts : /\ session.invokeTx # None
                                    /\ picked' = [picked EXCEPT ![p] = session.invokeTx]
<1> DEFINE Names == /\ \/ session'.invokeTx = session.invokeTx \/ session'.invokeTx = None
                       \/ \E i \in Invokes : pc[i] = "accepted" /\ session'.invokeTx = i
                    /\ \/ UNCHANGED picked
                       \/ \E p \in Scripts :
                              /\ session.invokeTx # None
                              /\ picked' = [picked EXCEPT ![p] = session.invokeTx]
<1>0. session \in Sessions(Tip)
  BY TypeFacts DEF TypeInv
<1>1. ASSUME NEW i \in Invokes,
             InvokeSend(i) \/ InvokeConfirmed(i) \/ InvokeUnconfirmed(i)
      PROVE  Names
  BY <1>0, <1>1 DEF InvokeSend, InvokeConfirmed, InvokeUnconfirmed, locals, Sessions
<1>2. ASSUME NEW i \in Invokes, InvokeRecord(i) PROVE Names
  BY <1>0, <1>2 DEF InvokeRecord, locals, Sessions
<1>3. ASSUME NEW r \in Sncasts, SncastStep(r) PROVE Names
  <2>1. session'.invokeTx = session.invokeTx
    BY <1>0, <1>3, SncastEffect DEF CounterStored, AccountStored, Sessions
  <2> QED
    BY <1>3, <2>1, SncastEffect DEF locals
<1>5. ASSUME NEW p \in Scripts, ScriptBegin(p) PROVE Names
  BY <1>5 DEF ScriptBegin
<1>6. ASSUME NEW p \in Scripts, NEW block, ScriptProve(p, block) PROVE Names
  BY <1>0, <1>6 DEF ScriptProve, Sessions
<1>7. ASSUME NEW p \in Scripts, ScriptBlock(p) \/ ScriptWaited(p) \/ ScriptEnds(p) PROVE Names
  BY <1>0, <1>6, <1>7 DEF ScriptBlock, ScriptWaited, ScriptEnds, locals, Sessions
<1>8. ASSUME NEW b \in Blocks, BlockBegin(b) \/ BlockConstruct(b) \/ BlockSpawn(b) \/ BlockProved(b)
      PROVE  Names
  BY <1>8 DEF BlockBegin, BlockConstruct, BlockSpawn, BlockProved, locals
<1>9. ASSUME NEW b \in Blocks, BlockSubmit(b) \/ BlockIncluded(b) PROVE Names
  BY <1>0, <1>9 DEF BlockSubmit, BlockIncluded, locals, Sessions
<1>10. ASSUME NEW r \in Readers, ReadProof(r) \/ ReadFacts(r) PROVE Names
  BY <1>10 DEF ReadProof, ReadFacts
<1>11. ASSUME NEW s \in Submits, SubmitBegin(s) \/ SubmitSign(s) \/ SubmitSend(s) PROVE Names
  BY <1>11 DEF SubmitBegin, SubmitSign, SubmitSend, locals
<1>12. CASE \/ \E r \in Requests : Execute(r)
            \/ \E d \in Deploys : ExecuteDeclare(d)
            \/ \E j \in Jobs : JobStep(j)
  BY <1>12 DEF Execute, ExecuteDeclare, JobStep, locals
<1>13. CASE Drops
  BY <1>13, RequestsDropped DEF NewSession, locals
<1> QED
  BY <1>1, <1>2, <1>3, <1>5, <1>7, <1>8, <1>9, <1>10, <1>11, <1>12, <1>13 DEF Steps

LEMMA StepsKeepSent ==
    ASSUME TypeInv, SentInv, Next
    PROVE  SentInv'
<1>1. Steps
  BY NextIsSteps
<1>2. /\ session \in Sessions(Tip) /\ None \notin Invokes /\ Invokes \subseteq Requests \ Scripts
      /\ picked \in [Scripts -> Invokes \cup {None}]
      /\ session.invokeTx \in Invokes \cup {None}
  BY TypeFacts, Kinds, SessionAssumption DEF TypeInv, Sessions
<1>3. \A r \in Requests \ Scripts : pc'[r] \in Out => tx'[r].status # "none"
  BY <1>1, TxStays, WaitBegins DEF SentInv
<1>4. session'.invokeTx # None => tx'[session'.invokeTx].status # "none"
  <2>1. ASSUME NEW i \in Invokes, pc[i] = "accepted" PROVE tx'[i].status # "none"
    BY <1>1, <1>2, <2>1, TxStays DEF SentInv, Out
  <2> QED
    BY <1>1, <1>2, <2>1, StepsName, TxStays DEF SentInv
<1>5. \A p \in Scripts : picked'[p] # None => tx'[picked'[p]].status # "none"
  <2>1. ASSUME NEW p \in Scripts, picked'[p] # None
        PROVE  /\ picked'[p] \in Invokes
               /\ tx[picked'[p]].status # "none"
    BY <1>1, <1>2, <2>1, StepsName DEF SentInv
  <2> QED
    BY <1>1, <1>2, <2>1, TxStays
<1> QED
  BY <1>3, <1>4, <1>5 DEF SentInv

LEMMA StepsKeepLock ==
    ASSUME TypeInv, RoleInv, LockInv, Next
    PROVE  LockInv'
<1> USE Kinds DEF LockInv
<1>0. pc \in [Requests -> Places] /\ None \notin Sncasts
  BY TypeFacts, SessionAssumption DEF TypeInv, Requests
<1>1. ASSUME NEW r \in Requests \ Sncasts, NEW to, Go(r, to), UNCHANGED lock PROVE LockInv'
  BY <1>0, <1>1 DEF Go
<1>2. ASSUME NEW i \in Invokes,
             InvokeSend(i) \/ InvokeRecord(i) \/ InvokeConfirmed(i) \/ InvokeUnconfirmed(i)
      PROVE  LockInv'
  BY <1>1, <1>2 DEF InvokeSend, InvokeRecord, InvokeConfirmed, InvokeUnconfirmed
<1>3. ASSUME NEW r \in Sncasts, SncastStep(r) PROVE LockInv'
  <2>1. CASE SncastBegin(r) \/ SncastLock(r)
    BY <1>0, <2>1 DEF SncastBegin, SncastLock, Go, Children
  <2>2. CASE Declare(r) \/ SncastSend(r) \/ SncastFails(r)
    BY <1>0, <2>2 DEF Declare, SncastSend, SncastFails, Release, Go, Children, Orphans
  <2>3. CASE SncastConfirmed(r) \/ SncastUnconfirmed(r)
    BY <2>3 DEF SncastConfirmed, SncastUnconfirmed
  <2> QED
    BY <1>3, <2>1, <2>2, <2>3 DEF SncastStep
<1>4. ASSUME NEW p \in Scripts, ScriptBegin(p) \/ ScriptBlock(p) \/ ScriptWaited(p) \/ ScriptEnds(p)
      PROVE  LockInv'
  BY <1>1, <1>4 DEF ScriptBegin, ScriptBlock, ScriptWaited, ScriptEnds, ScriptProve
<1>5. ASSUME NEW b \in Blocks, BlockBegin(b) \/ BlockConstruct(b) \/ BlockSpawn(b) \/ BlockProved(b)
      PROVE  LockInv'
  BY <1>1, <1>5 DEF BlockBegin, BlockConstruct, BlockSpawn, BlockProved
<1>6. ASSUME NEW b \in Blocks, BlockSubmit(b) \/ BlockIncluded(b) PROVE LockInv'
  BY <1>1, <1>6 DEF BlockSubmit, BlockIncluded, Accepted, Refused, Unanswered
<1>7. ASSUME NEW r \in Readers, ReadProof(r) \/ ReadFacts(r) PROVE LockInv'
  BY <1>1, <1>7 DEF ReadProof, ReadFacts
<1>8. ASSUME NEW s \in Submits, SubmitBegin(s) \/ SubmitSign(s) \/ SubmitSend(s) PROVE LockInv'
  BY <1>1, <1>8 DEF SubmitBegin, SubmitSign, SubmitSend, Unanswered
<1>9. CASE \/ \E r \in Requests : Execute(r)
           \/ \E d \in Deploys : ExecuteDeclare(d)
           \/ \E j \in Jobs : JobStep(j)
  BY <1>9 DEF Execute, ExecuteDeclare, JobStep
<1>10. ASSUME NEW r \in Requests, RequestFails(r) PROVE LockInv'
  BY <1>0, <1>10 DEF RequestFails, Go, Children
<1>11. ASSUME NEW r \in Requests, Disconnect(r) PROVE LockInv'
  BY <1>0, <1>11 DEF Disconnect, Release, Go
<1>12. CASE Restart
  BY <1>12 DEF Restart
<1> QED
  BY <1>2, <1>3, <1>4, <1>5, <1>6, <1>7, <1>8, <1>9, <1>10, <1>11, <1>12, NextIsSteps
  DEF Steps, Drops

\* What becomes of a declaration.
LEMMA StepsDeclare ==
    ASSUME TypeInv, Steps
    PROVE  \/ UNCHANGED declare
           \/ \E d \in Deploys : /\ pc[d] \in BeforeDeclare /\ pc'[d] \notin BeforeDeclare
                                 /\ declare' = [declare EXCEPT ![d] = Pending(nonce)]
           \/ \E d \in Deploys : ExecuteDeclare(d)
<1> DEFINE Declares == \E d \in Deploys : /\ pc[d] \in BeforeDeclare /\ pc'[d] \notin BeforeDeclare
                                          /\ declare' = [declare EXCEPT ![d] = Pending(nonce)]
<1>0. /\ declare \in [Deploys -> Txs(Tip, nonce)]
      /\ \A r \in Requests : \A to : Go(r, to) => pc'[r] = to
  BY TypeFacts, Moves DEF TypeInv
<1>1. ASSUME NEW r \in Sncasts, SncastStep(r) PROVE UNCHANGED declare \/ Declares
  <2>1. CASE r \in Deploys /\ (Declare(r) \/ SncastFails(r))
    <3>1. pc'[r] \in {"locked", "failed"}
      BY <1>0, <2>1, Kinds DEF Declare, SncastFails
    <3> QED
      BY <2>1, <3>1 DEF Declare, SncastFails, Children, Orphans, BeforeDeclare
  <2>2. CASE r \notin Deploys /\ SncastFails(r)
    BY <1>0, <2>2 DEF SncastFails
  <2>3. CASE SncastBegin(r) \/ SncastLock(r) \/ SncastSend(r) \/ SncastConfirmed(r) \/ SncastUnconfirmed(r)
    BY <2>3 DEF SncastBegin, SncastLock, SncastSend, SncastConfirmed, SncastUnconfirmed, chain
  <2> QED
    BY <1>1, <2>1, <2>2, <2>3 DEF SncastStep
<1>2. CASE \E i \in Invokes :
              InvokeSend(i) \/ InvokeRecord(i) \/ InvokeConfirmed(i) \/ InvokeUnconfirmed(i)
  BY <1>2 DEF InvokeSend, InvokeRecord, InvokeConfirmed, InvokeUnconfirmed, chain
<1>3. CASE \E p \in Scripts : ScriptBegin(p) \/ ScriptBlock(p) \/ ScriptWaited(p) \/ ScriptEnds(p)
  BY <1>3 DEF ScriptBegin, ScriptBlock, ScriptWaited, ScriptEnds, ScriptProve, chain
<1>4. CASE \E b \in Blocks : \/ BlockBegin(b) \/ BlockConstruct(b) \/ BlockSpawn(b)
                             \/ BlockProved(b) \/ BlockSubmit(b) \/ BlockIncluded(b)
  BY <1>4 DEF BlockBegin, BlockConstruct, BlockSpawn, BlockProved, BlockSubmit, BlockIncluded, chain
<1>5. CASE \/ \E r \in Readers : ReadProof(r) \/ ReadFacts(r)
           \/ \E s \in Submits : SubmitBegin(s) \/ SubmitSign(s) \/ SubmitSend(s)
  BY <1>5 DEF ReadProof, ReadFacts, SubmitBegin, SubmitSign, SubmitSend, chain
<1>6. CASE (\E r \in Requests : Execute(r)) \/ (\E j \in Jobs : JobStep(j)) \/ Drops
  BY <1>6, RequestsDropped DEF Execute, JobStep, chain
<1> QED
  BY <1>1, <1>2, <1>3, <1>4, <1>5, <1>6 DEF Steps

LEMMA StepsKeepDeclared ==
    ASSUME TypeInv, RoleInv, DeclareInv, Next
    PROVE  DeclareInv'
<1> SUFFICES ASSUME NEW d \in Deploys, pc'[d] \in BeforeDeclare
             PROVE  declare'[d].status = "none"
  BY DEF DeclareInv
<1>1. d \in Requests /\ d \in Sncasts
  BY Kinds
<1>2. pc[d] \in BeforeDeclare
  <2>1. Rank(pc'[d]) <= 3
    BY Ranks DEF BeforeDeclare
  <2>2. Rank(pc[d]) <= 3
    BY <1>1, <2>1, NoneGoesBack, RankTypes, Ranks DEF BeforeDeclare
  <2>3. MayBe(d, pc[d]) /\ d \notin Invokes /\ d \notin Scripts /\ d \notin Blocks /\ d \notin Submits
    BY <1>1, Kinds, SessionAssumption DEF RoleInv
  <2> QED
    BY <2>2, <2>3, Ranks DEF MayBe, BeforeDeclare, Children, Orphans, Ended
<1>3. declare \in [Deploys -> Txs(Tip, nonce)] /\ declare[d].status = "none"
  BY <1>2, TypeFacts DEF TypeInv, DeclareInv
<1>4. \A e \in Deploys : ExecuteDeclare(e) => e # d
  BY <1>3 DEF ExecuteDeclare
<1>5. \A e \in Deploys : ExecuteDeclare(e) => declare'[d] = declare[d]
  BY <1>3, <1>4 DEF ExecuteDeclare
<1> QED
  BY <1>3, <1>5, StepsDeclare, NextIsSteps

LEMMA WaitInvariant == Spec => [](TypeInv /\ WaitInv)
<1>1. Init => WaitInv
  <2> SUFFICES ASSUME Init PROVE WaitInv
    OBVIOUS
  <2>1. /\ \A r \in Requests : pc[r] = "new"
        /\ \A j \in Jobs : phase[j] = "idle"
        /\ \A p \in Scripts : picked[p] = None
        /\ lock = None
    BY DEF Init, Prover!Init
  <2>2. session.invokeTx = None
    <3>1. Deployed.invokeTx = NewSession.invokeTx /\ NewSession.invokeTx = None
      BY DEF Deployed, NewSession
    <3> QED
      BY <3>1 DEF Init
  <2> QED
    BY <2>1, <2>2, Kinds
    DEF Init, WaitInv, RoleInv, MayBe, StartInv, SentInv, LockInv, DeclareInv, NoTx, Out
<1>2. TypeInv /\ WaitInv /\ [Next]_vars => WaitInv'
  <2>1. ASSUME WaitInv, UNCHANGED vars PROVE WaitInv'
    BY <2>1 DEF vars, chain, locals, artifacts, WaitInv, RoleInv, StartInv, SentInv, LockInv,
                DeclareInv
  <2> QED
    BY <2>1, StepsKeepRoles, StepsKeepStarts, StepsKeepSent, StepsKeepLock, StepsKeepDeclared
    DEF WaitInv
<1> QED
  BY <1>1, <1>2, TypeInvariant, PTL DEF Spec

\* What an awaited transaction that was sent comes to.
LEMMA SentIsDecided ==
    ASSUME TypeInv, NEW q \in Requests, tx[q].status # "none"
    PROVE  Decided(q) \/ CanExecute(q)
<1>1. tx \in [Requests -> Txs(Tip, nonce)] /\ nonce \in Nat
  BY TypeFacts, NumberFacts DEF TypeInv
<1>2. tx[q].status \in {"none", "pending", "ok", "reverted"} /\ tx[q].nonce \in 0 .. nonce
  BY <1>1 DEF Txs
<1> QED
  BY <1>1, <1>2 DEF Decided, CanExecute

LEMMA WaitersGoOn ==
    ASSUME TypeInv, WaitInv, NEW r \in Requests, pc[r] \in {"waiting", "including"}
    PROVE  CanGoOn(r)
<1> USE Kinds
<1>1. Awaited(r) \in Requests /\ tx[Awaited(r)].status # "none"
  <2>1. CASE r \in Scripts
    <3>1. picked[r] \in Invokes /\ None \notin Invokes
      BY <2>1, SessionAssumption DEF TypeInv, Begun, Requests
    <3> QED
      BY <2>1, <3>1 DEF Awaited, WaitInv, SentInv
  <2>2. CASE r \notin Scripts
    BY <2>2 DEF Awaited, WaitInv, SentInv, Out
  <2> QED
    BY <2>1, <2>2
<1>2. ASSUME r \in Scripts PROVE phase[r] = "idle"
  <2>1. MayBe(r, pc[r])
    BY DEF WaitInv, RoleInv
  <2>2. pc[r] = "waiting"
    BY <1>2, <2>1 DEF MayBe, Ended
  <2> QED
    BY <1>2, <2>2 DEF WaitInv, StartInv, Unstarted
<1> QED
  BY <1>1, <1>2, SentIsDecided DEF CanGoOn

\* routes.rs (counter) and snip36-server's prove.rs, deploy.rs and fund.rs: at
\* every await of every request, the request can go on, its prover job can, or
\* the chain can include or has refused what it waits for; whoever queues for
\* sncast_lock queues behind a holder of which that is true.  It takes no
\* failure and no timeout to free a request.
THEOREM SessionNeverStuck == Spec => [](RoleInv /\ NobodyStuck)
<1>1. TypeInv /\ WaitInv => RoleInv /\ NobodyStuck
  <2> SUFFICES ASSUME TypeInv, WaitInv, NEW r \in Requests, pc[r] \in InFlight
               PROVE  CanGoOn(r) \/ (pc[r] = "queued" /\ lock # None /\ CanGoOn(lock))
    BY DEF NobodyStuck, WaitInv
  <2>1. MayBe(r, pc[r])
    BY DEF WaitInv, RoleInv
  <2>2. CASE pc[r] \in {"accepted", "constructing", "reading", "facts", "signing", "submitting"}
                        \cup Children \cup Orphans
    BY <2>2 DEF CanGoOn
  <2>3. CASE pc[r] = "queued"
    <3>1. ASSUME lock # None PROVE CanGoOn(lock)
      <4>1. lock \in Requests /\ pc[lock] \in {"waiting"} \cup Children
        BY <3>1, Kinds DEF WaitInv, LockInv
      <4>2. CASE pc[lock] \in Children
        BY <4>2 DEF CanGoOn
      <4>3. CASE pc[lock] = "waiting"
        BY <4>1, <4>3, WaitersGoOn
      <4> QED
        BY <4>1, <4>2, <4>3
    <3> QED
      BY <2>3, <3>1 DEF CanGoOn
  <2>4. CASE pc[r] \in {"picked", "spawning", "proving"}
    <3>1. r \in Jobs
      BY <2>1, <2>4, Kinds DEF MayBe, Ended, Children, Orphans
    <3> QED
      BY <2>4, <3>1 DEF WaitInv, StartInv, Unstarted, CanGoOn
  <2>5. CASE pc[r] \in {"waiting", "including"}
    BY <2>5, WaitersGoOn
  <2> QED
    BY <2>2, <2>3, <2>4, <2>5 DEF InFlight
<1> QED
  BY <1>1, WaitInvariant, PTL

-----------------------------------------------------------------------------
(* Every step is progress.  Requests, transactions, jobs and attempts have   *)
(* ranks with a bound that no step lowers, and all but a restart raise one:  *)
(* there are only so many steps between two restarts.                        *)

TxRank(t) ==
    CASE t.status = "none" -> 0
      [] t.status = "pending" -> 1
      [] t.status \in {"ok", "reverted"} -> 2

Bounded ==
    /\ \A r \in Requests : Rank(pc[r]) \in 0 .. 12 /\ TxRank(tx[r]) \in 0 .. 2
    /\ \A d \in Deploys : TxRank(declare[d]) \in 0 .. 2
    /\ \A j \in Jobs : JobRank(phase[j]) \in 0 .. 8
    /\ \A b \in Blocks : attempts[b] \in 0 .. MaxAttempts

NothingGoesBack ==
    /\ \A r \in Requests : Rank(pc[r]) <= Rank(pc'[r]) /\ TxRank(tx[r]) <= TxRank(tx'[r])
    /\ \A d \in Deploys : TxRank(declare[d]) <= TxRank(declare'[d])
    /\ \A r \in Requests : tx[r].status \in {"ok", "reverted"} => tx'[r] = tx[r]
    /\ \A j \in Jobs : JobRank(phase[j]) <= JobRank(phase'[j])
    /\ \A b \in Blocks : attempts[b] <= attempts'[b]

Gains ==
    \/ \E r \in Requests : Rank(pc[r]) < Rank(pc'[r]) \/ TxRank(tx[r]) < TxRank(tx'[r])
    \/ \E d \in Deploys : TxRank(declare[d]) < TxRank(declare'[d])
    \/ \E j \in Jobs : JobRank(phase[j]) < JobRank(phase'[j])
    \/ \E b \in Blocks : attempts[b] < attempts'[b]

LEMMA TxRanks ==
    ASSUME NEW t, t.status \in {"none", "pending", "ok", "reverted"}
    PROVE  /\ t.status = "none" => TxRank(t) = 0
           /\ t.status = "pending" => TxRank(t) = 1
           /\ t.status \in {"ok", "reverted"} => TxRank(t) = 2
           /\ TxRank(t) \in 0 .. 2
BY DEF TxRank

LEMMA Statuses ==
    ASSUME TypeInv
    PROVE  /\ \A r \in Requests : tx[r].status \in {"none", "pending", "ok", "reverted"}
           /\ \A d \in Deploys : declare[d].status \in {"none", "pending", "ok", "reverted"}
<1>1. tx \in [Requests -> Txs(Tip, nonce)] /\ declare \in [Deploys -> Txs(Tip, nonce)]
  BY TypeFacts DEF TypeInv
<1> QED
  BY <1>1 DEF Txs

\* A transaction is sent once and executed once.
LEMMA TxGoesOn ==
    ASSUME TypeInv, TypeInv', Unsent, Steps, NEW r \in Requests
    PROVE  TxRank(tx[r]) <= TxRank(tx'[r])
<1>1. tx'[r].status \in {"none", "pending", "ok", "reverted"}
  BY DEF TypeInv, TypeOK
<1>2. CASE tx[r].status \in {"ok", "reverted"}
  <2>1. tx'[r] = tx[r]
    BY <1>2, StepsLeaveFootprints, Settled
  <2> QED
    BY <2>1, <1>2, Statuses, TxRanks
<1>3. CASE tx[r].status = "pending"
  BY <1>1, <1>3, TxStays, TxRanks
<1>4. CASE tx[r].status = "none"
  BY <1>1, <1>4, TxRanks
<1> QED
  BY <1>2, <1>3, <1>4, Statuses

\* And so is a declaration.
LEMMA ExecutedDeclaration ==
    ASSUME TypeInv, NEW d \in Deploys, ExecuteDeclare(d)
    PROVE  /\ declare[d].status = "pending" /\ declare'[d].status = "ok"
           /\ TxRank(declare[d]) = 1 /\ TxRank(declare'[d]) = 2
           /\ \A e \in Deploys \ {d} : declare'[e] = declare[e]
<1>1. declare \in [Deploys -> Txs(Tip, nonce)]
  BY TypeFacts DEF TypeInv
<1>2. declare[d].status = "pending" /\ declare' = [declare EXCEPT ![d].status = "ok", ![d].block = Tip + 1]
  BY DEF ExecuteDeclare
<1>3. declare'[d].status = "ok" /\ \A e \in Deploys \ {d} : declare'[e] = declare[e]
  BY <1>1, <1>2 DEF Txs
<1>4. TxRank(declare[d]) = 1 /\ TxRank(declare'[d]) = 2
  BY <1>2, <1>3 DEF TxRank
<1> QED
  BY <1>2, <1>3, <1>4

LEMMA DeclareGoesOn ==
    ASSUME TypeInv, DeclareInv, Steps, NEW d \in Deploys
    PROVE  TxRank(declare[d]) <= TxRank(declare'[d])
<1>1. declare \in [Deploys -> Txs(Tip, nonce)] /\ TxRank(declare[d]) \in 0 .. 2
  BY TypeFacts, Statuses, TxRanks DEF TypeInv
<1>2. ASSUME NEW e \in Deploys, ExecuteDeclare(e) PROVE TxRank(declare[d]) <= TxRank(declare'[d])
  BY <1>1, <1>2, ExecutedDeclaration
<1>3. ASSUME NEW e \in Deploys, pc[e] \in BeforeDeclare, declare' = [declare EXCEPT ![e] = Pending(nonce)]
      PROVE  TxRank(declare[d]) <= TxRank(declare'[d])
  <2>1. CASE e = d
    <3>1. declare[d].status = "none" /\ declare'[d].status = "pending"
      BY <1>1, <1>3, <2>1 DEF DeclareInv, Pending
    <3>2. TxRank(declare[d]) = 0 /\ TxRank(declare'[d]) = 1
      BY <3>1, TxRanks
    <3> QED
      BY <3>2
  <2>2. CASE e # d
    BY <1>1, <1>3, <2>2
  <2> QED
    BY <2>1, <2>2
<1> QED
  BY <1>1, <1>2, <1>3, StepsDeclare

LEMMA StepsGain ==
    ASSUME TypeInv, Next
    PROVE  Gains \/ Restart
<1>0. pc \in [Requests -> Places] /\ attempts \in [Blocks -> 0 .. MaxAttempts]
  BY TypeFacts DEF TypeInv
<1>1. ASSUME NEW r \in Requests, NEW to \in Places, Hop(r, to) PROVE Gains
  <2>1. pc'[r] = to
    BY <1>0, <1>1 DEF Hop, Go
  <2> QED
    BY <1>1, <2>1 DEF Hop, Gains
<1>2. ASSUME NEW b \in Blocks, Again(b) PROVE Gains
  <2>1. attempts'[b] = attempts[b] + 1 /\ attempts[b] \in Nat
    BY <1>0, <1>2, SessionAssumption DEF Again
  <2> QED
    BY <2>1 DEF Gains
<1>3. ASSUME NEW r \in Requests, Execute(r) PROVE Gains
  <2>1. tx[r].status = "pending" /\ tx'[r].status \in {"ok", "reverted"}
    <3>1. tx \in [Requests -> Txs(Tip, nonce)]
      BY TypeFacts DEF TypeInv
    <3> QED
      BY <1>3, <3>1 DEF Execute, Txs
  <2>2. TxRank(tx[r]) = 1 /\ TxRank(tx'[r]) = 2
    BY <2>1, TxRanks
  <2> QED
    BY <2>2 DEF Gains
<1>4. ASSUME NEW j \in Jobs, JobStep(j) PROVE Gains
  BY <1>4, JobHops DEF Gains
<1>5. ASSUME NEW d \in Deploys, ExecuteDeclare(d) PROVE Gains
  BY <1>5, ExecutedDeclaration DEF Gains
<1> QED
  BY <1>1, <1>2, <1>3, <1>4, <1>5, StepsHop

\* The same requests, and their retries (prove_block's loop at routes.rs:911 of
\* counter): no step takes a request, a prover job or an executed transaction
\* back, and every step but a restart takes one of them forward or counts an
\* attempt.  The measure is bounded, so no interleaving goes on for ever: with
\* SessionNeverStuck, the safety half of EveryRequestEnds.
THEOREM SessionAlwaysGoesOn ==
    Spec => /\ []Bounded
            /\ [][NothingGoesBack /\ (Gains \/ Restart)]_vars
<1>1. TypeInv => Bounded
  <2> SUFFICES ASSUME TypeInv PROVE Bounded
    OBVIOUS
  <2>1. \A b \in Blocks : attempts[b] \in 0 .. MaxAttempts
    BY TypeFacts DEF TypeInv
  <2>2. /\ \A r \in Requests : TxRank(tx[r]) \in 0 .. 2
        /\ \A d \in Deploys : TxRank(declare[d]) \in 0 .. 2
    BY Statuses, TxRanks
  <2> QED
    BY <2>1, <2>2, RankTypes DEF Bounded
<1>2. TypeInv /\ Unsent /\ WaitInv /\ TypeInv' /\ [Next]_vars
      => [NothingGoesBack /\ (Gains \/ Restart)]_vars
  <2> SUFFICES ASSUME TypeInv, Unsent, WaitInv, TypeInv', Next
               PROVE  NothingGoesBack /\ (Gains \/ Restart)
    OBVIOUS
  <2>1. Steps
    BY NextIsSteps
  <2>2. \A r \in Requests : tx[r].status \in {"ok", "reverted"} => tx'[r] = tx[r]
    BY <2>1, StepsLeaveFootprints, Settled
  <2>3. \A r \in Requests : TxRank(tx[r]) <= TxRank(tx'[r])
    BY <2>1, TxGoesOn
  <2>4. \A d \in Deploys : TxRank(declare[d]) <= TxRank(declare'[d])
    BY <2>1, DeclareGoesOn DEF WaitInv
  <2> QED
    BY <2>2, <2>3, <2>4, NoneGoesBack, StepsGain DEF NothingGoesBack
<1> QED
  BY <1>1, <1>2, UnsentInvariant, WaitInvariant, PTL DEF Spec
================================================================================
