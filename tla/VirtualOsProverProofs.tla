------------------------ MODULE VirtualOsProverProofs ------------------------
(***************************************************************************)
(* Proofs about VirtualOsProver for any numbers of jobs, paths, polls and  *)
(* failures: types, whose runner serves whom, that no runner outlives a    *)
(* job that ended by itself, that the jobs keep ProofFiles' promise, and   *)
(* that the artifacts of a job that met no other belong together.          *)
(***************************************************************************)
EXTENDS VirtualOsProver, TLAPS

Places == {"new"} \cup Asking \cup Writing \cup Ended
Runners == {"none", "starting", "dead"} \cup Listening
Contents == (SUBSET Jobs) \cup {Missing}

\* Every step, action by action.
Steps ==
    \/ \E j \in Jobs : Start(j) \/ Load(j) \/ CheckPort(j) \/ PortTaken(j) \/ Spawn(j)
    \/ \E j \in Jobs : PollAnswered(j) \/ PollRefused(j) \/ Inspect(j) \/ Post(j)
    \/ \E j \in Jobs : Answer(j) \/ NoAnswer(j) \/ Finish(j)
    \/ \E j \in Jobs, f \in Artifacts : Open(j, f) \/ Fill(j, f)
    \/ \E j \in Jobs : StepFails(j) \/ Crash(j) \/ Bind(j) \/ RunnerFails(j)
    \/ Pkill

LEMMA NextIsSteps == Next => Steps /\ UNCHANGED kind
BY DEF Next, Steps, Work

-----------------------------------------------------------------------------
(* Types, with what they rest on: a job polls while it has polls left, has   *)
(* no server before it asks, and writes to a file that it has opened.        *)

Counts == \A j \in Jobs :
    pc[j] \in {"new", "load", "check", "spawn", "poll", "inspect"} => tries[j] < MaxTries
Unasked == \A j \in Jobs :
    pc[j] \in {"new", "load", "check", "spawn", "poll", "inspect", "post"} => server[j] = NoRunner
Opened == \A j \in Jobs, f \in Artifacts :
    pc[j] = Opening[f] => files[Output[j]][f] # Missing

TypeInv == TypeOK /\ Counts /\ Opened

LEMMA InitTyped == Init => TypeInv
<1> SUFFICES ASSUME Init PROVE TypeInv
  OBVIOUS
<1>1. TypeOK
  <2>1. 0 \in 0 .. MaxTries /\ 0 \in 0 .. MaxFaults
    BY ProverAssumption
  <2>2. files \in [Paths -> [Artifacts -> Contents]]
    BY DEF Init, Contents
  <2> QED
    BY <2>1, <2>2 DEF Init, TypeOK, Contents, Asking, Writing, Ended
<1>2. Counts
  BY ProverAssumption DEF Init, Counts
<1>3. Opened
  BY DEF Init, Opened, Opening, Artifacts
<1> QED
  BY <1>1, <1>2, <1>3 DEF TypeInv

\* Where a job goes is a place.
LEMMA GoTyped ==
    ASSUME TypeOK, NEW j \in Jobs, NEW to \in Places, Go(j, to)
    PROVE  /\ pc' \in [Jobs -> Places]
           /\ pc'[j] = to
           /\ \A k \in Jobs \ {j} : pc'[k] = pc[k]
BY DEF TypeOK, Go, Places

LEMMA FaultTyped ==
    ASSUME TypeOK, Fault \/ UNCHANGED faults
    PROVE  faults' \in 0 .. MaxFaults
BY ProverAssumption DEF TypeOK, Fault

LEMMA ForgetTyped ==
    ASSUME TypeOK, NEW j \in Jobs, Forget(j)
    PROVE  /\ tries' \in [Jobs -> 0 .. MaxTries]
           /\ server' \in [Jobs -> Jobs \cup {NoRunner, Cloud}]
           /\ upSince' \in [Jobs -> SUBSET Jobs]
<1>1. 0 \in 0 .. MaxTries
  BY ProverAssumption
<1> QED
  BY <1>1 DEF TypeOK, Forget

LEMMA StoppedTyped ==
    ASSUME TypeOK, NEW j \in Jobs, runner' = [runner EXCEPT ![j] = Stopped(j)]
    PROVE  runner' \in [Jobs -> Runners]
BY DEF TypeOK, Stopped, Runners

\* Writing a file keeps the others.
LEMMA PutTyped ==
    ASSUME TypeOK, NEW j \in Jobs, NEW f \in Artifacts, NEW c \in Contents, Put(j, f, c)
    PROVE  /\ files' \in [Paths -> [Artifacts -> Contents]]
           /\ \A p \in Paths, g \in Artifacts :
                  files'[p][g] = IF p = Output[j] /\ g = f THEN c ELSE files[p][g]
<1>1. Output[j] \in Paths
  BY ProverAssumption
<1>2. [files[Output[j]] EXCEPT ![f] = c] \in [Artifacts -> Contents]
  BY <1>1 DEF TypeOK, Contents
<1>3. files' = [files EXCEPT ![Output[j]] = [files[Output[j]] EXCEPT ![f] = c]]
  BY DEF Put
<1>4. files \in [Paths -> [Artifacts -> Contents]]
  BY DEF TypeOK, Contents
<1>5. ASSUME NEW p \in Paths, NEW g \in Artifacts
      PROVE  files'[p][g] = IF p = Output[j] /\ g = f THEN c ELSE files[p][g]
  BY <1>1, <1>3, <1>4
<1> QED
  BY <1>1, <1>2, <1>3, <1>4, <1>5

\* A job that gives up, from wherever it is.
LEMMA AbortTyped ==
    ASSUME TypeInv, NEW j \in Jobs, Abort(j), Fault \/ UNCHANGED faults, UNCHANGED kind
    PROVE  TypeInv'
<1>1. /\ pc' \in [Jobs -> Places]
      /\ pc'[j] = "failed"
      /\ \A k \in Jobs \ {j} : pc'[k] = pc[k]
  BY GoTyped DEF Abort, TypeInv, Places, Ended
<1>2. faults' \in 0 .. MaxFaults
  BY FaultTyped DEF TypeInv
<1>3. TypeOK'
  <2>1. /\ tries' \in [Jobs -> 0 .. MaxTries]
        /\ server' \in [Jobs -> Jobs \cup {NoRunner, Cloud}]
        /\ upSince' \in [Jobs -> SUBSET Jobs]
    BY ForgetTyped DEF Abort, TypeInv
  <2>2. runner' \in [Jobs -> Runners]
    BY StoppedTyped DEF Abort, TypeInv
  <2> QED
    BY <1>1, <1>2, <2>1, <2>2 DEF TypeInv, TypeOK, Abort, Places, Runners
<1>4. Counts'
  BY <1>1, ProverAssumption DEF TypeInv, TypeOK, Counts, Abort, Forget
<1>5. Opened'
  BY <1>1 DEF TypeInv, Opened, Abort, Opening, Artifacts
<1> QED
  BY <1>3, <1>4, <1>5 DEF TypeInv

\* Steps that keep the files and open none.
LEMMA QuietOpened ==
    ASSUME TypeInv, NEW j \in Jobs, NEW to \in Places \ {"proofOpen", "factsOpen", "messagesOpen"},
           Go(j, to), UNCHANGED files
    PROVE  Opened'
<1>1. pc'[j] = to /\ \A k \in Jobs \ {j} : pc'[k] = pc[k]
  BY GoTyped DEF TypeInv
<1> QED
  BY <1>1 DEF TypeInv, Opened, Opening, Artifacts

LEMMA StepsTyped == TypeInv /\ Steps /\ UNCHANGED kind => TypeInv'
<1> SUFFICES ASSUME TypeInv, Steps, UNCHANGED kind PROVE TypeInv'
  OBVIOUS
<1> USE DEF Places, Asking, Ended
<1>1. ASSUME NEW j \in Jobs, Start(j) \/ Load(j) \/ Spawn(j) \/ PollAnswered(j) \/ PollRefused(j)
      PROVE  TypeInv'
  <2>1. PICK to \in {"load", "check", "spawn", "post", "poll", "inspect"} :
            /\ Go(j, to)
            /\ to # "post" => pc[j] \in {"new", "load", "spawn", "poll"}
    BY <1>1, ProverAssumption DEF Start, Load, Spawn, PollAnswered, PollRefused, TypeInv, TypeOK
  <2>2. UNCHANGED <<tries, server, result, files, upSince, met, faults>>
    BY <1>1 DEF Start, Load, Spawn, PollAnswered, PollRefused, history
  <2>3. runner' \in [Jobs -> Runners]
    BY <1>1 DEF Start, Load, Spawn, PollAnswered, PollRefused, TypeInv, TypeOK, Runners
  <2>4. pc' \in [Jobs -> Places] /\ pc'[j] = to /\ \A k \in Jobs \ {j} : pc'[k] = pc[k]
    BY <2>1, GoTyped DEF TypeInv
  <2>5. TypeOK'
    BY <2>2, <2>3, <2>4 DEF TypeInv, TypeOK, Runners
  <2>6. Counts'
    BY <2>1, <2>2, <2>4 DEF TypeInv, Counts
  <2>7. Opened'
    BY <2>1, <2>2, QuietOpened
  <2> QED
    BY <2>5, <2>6, <2>7 DEF TypeInv
<1>2. ASSUME NEW j \in Jobs, CheckPort(j) PROVE TypeInv'
  <2>1. pc' \in [Jobs -> Places] /\ pc'[j] = "spawn" /\ \A k \in Jobs \ {j} : pc'[k] = pc[k]
    BY <1>2, GoTyped DEF TypeInv, CheckPort
  <2>2. TypeOK'
    BY <1>2, <2>1 DEF TypeInv, TypeOK, CheckPort
  <2>3. Counts'
    BY <1>2, <2>1 DEF TypeInv, Counts, CheckPort
  <2>4. Opened'
    BY <1>2, QuietOpened DEF CheckPort
  <2> QED
    BY <2>2, <2>3, <2>4 DEF TypeInv
<1>3. ASSUME NEW j \in Jobs, PortTaken(j) \/ NoAnswer(j) \/ StepFails(j) PROVE TypeInv'
  BY <1>3, AbortTyped DEF PortTaken, NoAnswer, StepFails
<1>4. ASSUME NEW j \in Jobs, Inspect(j) PROVE TypeInv'
  <2>1. CASE Abort(j)
    BY <2>1, <1>4, AbortTyped DEF Inspect
  <2>2. CASE ~Abort(j)
    <3> DEFINE to == IF tries[j] + 1 = MaxTries THEN "post" ELSE "poll"
    <3>1. /\ pc[j] = "inspect" /\ Go(j, to)
          /\ tries' = [tries EXCEPT ![j] = @ + 1]
          /\ UNCHANGED <<runner, server, result, files, upSince, met, faults>>
      BY <1>4, <2>2 DEF Inspect, history
    <3>2. tries[j] \in Nat /\ tries[j] < MaxTries /\ MaxTries \in Nat
      BY <3>1, ProverAssumption DEF TypeInv, TypeOK, Counts
    <3>3. pc' \in [Jobs -> Places] /\ pc'[j] = to /\ \A k \in Jobs \ {j} : pc'[k] = pc[k]
      <4>1. to \in Places
        OBVIOUS
      <4> QED
        BY <3>1, <4>1, GoTyped DEF TypeInv
    <3>4. tries' \in [Jobs -> 0 .. MaxTries]
      BY <3>1, <3>2 DEF TypeInv, TypeOK
    <3>5. TypeOK'
      BY <3>1, <3>3, <3>4 DEF TypeInv, TypeOK
    <3>6. Counts'
      <4>1. tries'[j] = tries[j] + 1 /\ \A k \in Jobs \ {j} : tries'[k] = tries[k]
        BY <3>1 DEF TypeInv, TypeOK
      <4>2. to # "post" => tries'[j] < MaxTries
        BY <3>2, <4>1
      <4> QED
        BY <3>3, <4>1, <4>2 DEF TypeInv, Counts
    <3>7. Opened'
      <4>1. to \in Places \ {"proofOpen", "factsOpen", "messagesOpen"}
        OBVIOUS
      <4> QED
        BY <3>1, <4>1, QuietOpened
    <3> QED
      BY <3>5, <3>6, <3>7 DEF TypeInv
  <2> QED
    BY <2>1, <2>2
<1>5. ASSUME NEW j \in Jobs, Post(j) PROVE TypeInv'
  <2>1. CASE Abort(j)
    BY <2>1, <1>5, AbortTyped DEF Post
  <2>2. CASE ~Abort(j)
    <3>1. /\ Go(j, "proving")
          /\ UNCHANGED <<runner, tries, result, files, upSince, met, faults>>
      BY <1>5, <2>2 DEF Post, history
    <3>2. server' \in [Jobs -> Jobs \cup {NoRunner, Cloud}]
      BY <1>5, <2>2 DEF Post, TypeInv, TypeOK
    <3>3. pc' \in [Jobs -> Places] /\ pc'[j] = "proving" /\ \A k \in Jobs \ {j} : pc'[k] = pc[k]
      BY <3>1, GoTyped DEF TypeInv
    <3>4. TypeOK'
      BY <3>1, <3>2, <3>3 DEF TypeInv, TypeOK
    <3>5. Counts'
      BY <3>1, <3>3 DEF TypeInv, Counts
    <3>6. Opened'
      BY <3>1, QuietOpened
    <3> QED
      BY <3>4, <3>5, <3>6 DEF TypeInv
  <2> QED
    BY <2>1, <2>2
<1>6. ASSUME NEW j \in Jobs, Answer(j) PROVE TypeInv'
  <2>1. pc' \in [Jobs -> Places] /\ pc'[j] = "save" /\ \A k \in Jobs \ {j} : pc'[k] = pc[k]
    BY <1>6, GoTyped DEF TypeInv, Answer
  <2>2. result' \in [Jobs -> SUBSET Artifacts]
    BY <1>6, ProverAssumption DEF TypeInv, TypeOK, Answer, Artifacts
  <2>3. TypeOK'
    BY <1>6, <2>1, <2>2 DEF TypeInv, TypeOK, Answer, history
  <2>4. Counts'
    BY <1>6, <2>1 DEF TypeInv, Counts, Answer
  <2>5. Opened'
    BY <1>6, QuietOpened DEF Answer
  <2> QED
    BY <2>3, <2>4, <2>5 DEF TypeInv
<1>7. ASSUME NEW j \in Jobs, Finish(j) PROVE TypeInv'
  <2> DEFINE to == IF kind[j] = "script" /\ runner[j] = "dead" THEN "failed" ELSE "ok"
  <2>1. to \in Places \ {"proofOpen", "factsOpen", "messagesOpen"}
    OBVIOUS
  <2>2. pc' \in [Jobs -> Places] /\ pc'[j] = to /\ \A k \in Jobs \ {j} : pc'[k] = pc[k]
    BY <1>7, <2>1, GoTyped DEF TypeInv, Finish
  <2>3. TypeOK'
    <3>1. /\ tries' \in [Jobs -> 0 .. MaxTries]
          /\ server' \in [Jobs -> Jobs \cup {NoRunner, Cloud}]
          /\ upSince' \in [Jobs -> SUBSET Jobs]
      BY <1>7, ForgetTyped DEF Finish, TypeInv
    <3>2. runner' \in [Jobs -> Runners]
      BY <1>7, StoppedTyped DEF Finish, TypeInv
    <3> QED
      BY <1>7, <2>2, <3>1, <3>2 DEF TypeInv, TypeOK, Finish, Runners
  <2>4. Counts'
    BY <1>7, <2>2, ProverAssumption DEF TypeInv, TypeOK, Counts, Finish, Forget
  <2>5. Opened'
    BY <1>7, <2>1, QuietOpened DEF Finish
  <2> QED
    BY <2>3, <2>4, <2>5 DEF TypeInv
<1>8. ASSUME NEW j \in Jobs, NEW f \in Artifacts, Open(j, f) PROVE TypeInv'
  <2>1. Opening[f] \in Places
    BY DEF Opening, Artifacts, Writing
  <2>2. pc' \in [Jobs -> Places] /\ pc'[j] = Opening[f] /\ \A k \in Jobs \ {j} : pc'[k] = pc[k]
    BY <1>8, <2>1, GoTyped DEF TypeInv, Open
  <2>3. Output[j] \in Paths
    BY ProverAssumption
  <2>4. /\ files' \in [Paths -> [Artifacts -> Contents]]
        /\ \A p \in Paths, g \in Artifacts :
               files'[p][g] = IF p = Output[j] /\ g = f THEN {} ELSE files[p][g]
    <3>1. {} \in Contents
      BY DEF Contents
    <3> QED
      BY <1>8, <3>1, PutTyped DEF TypeInv, Open
  <2>5. met' \in [Jobs -> SUBSET Jobs]
    BY <1>8 DEF TypeInv, TypeOK, Open, Rivals
  <2>6. TypeOK'
    BY <1>8, <2>2, <2>4, <2>5 DEF TypeInv, TypeOK, Open, Contents
  <2>7. Counts'
    BY <1>8, <2>2 DEF TypeInv, Counts, Open, Opening, Artifacts
  <2>8. Opened'
    <3> SUFFICES ASSUME NEW k \in Jobs, NEW g \in Artifacts, pc'[k] = Opening[g]
                 PROVE  files'[Output[k]][g] # Missing
      BY DEF Opened
    <3>1. Output[k] \in Paths /\ Missing # {}
      BY ProverAssumption DEF Missing
    <3>2. k # j => files[Output[k]][g] # Missing
      BY <2>2 DEF TypeInv, Opened
    <3>3. k = j => g = f
      BY <2>2 DEF Opening, Artifacts
    <3> QED
      BY <2>4, <3>1, <3>2, <3>3
  <2> QED
    BY <2>6, <2>7, <2>8 DEF TypeInv
<1>9. ASSUME NEW j \in Jobs, NEW f \in Artifacts, Fill(j, f) PROVE TypeInv'
  <2>1. f \in Places \ {"proofOpen", "factsOpen", "messagesOpen"}
    BY DEF Artifacts, Writing
  <2>2. pc' \in [Jobs -> Places] /\ pc'[j] = f /\ \A k \in Jobs \ {j} : pc'[k] = pc[k]
    BY <1>9, <2>1, GoTyped DEF TypeInv, Fill
  <2>3. Output[j] \in Paths
    BY ProverAssumption
  <2>4. PICK c \in SUBSET Jobs : Put(j, f, c) \/ UNCHANGED files
    <3>1. files[Output[j]][f] \in SUBSET Jobs
      BY <1>9, <2>3 DEF TypeInv, TypeOK, Opened, Fill
    <3> QED
      BY <1>9, <3>1 DEF Fill
  <2>5. Missing \notin SUBSET Jobs
    BY ProverAssumption DEF Missing
  <2>6. /\ files' \in [Paths -> [Artifacts -> Contents]]
        /\ \A p \in Paths, g \in Artifacts :
               files[p][g] # Missing => files'[p][g] # Missing
    <3>1. CASE Put(j, f, c)
      <4>1. c \in Contents
        BY DEF Contents
      <4> QED
        BY <2>5, <3>1, <4>1, PutTyped DEF TypeInv
    <3>2. CASE UNCHANGED files
      BY <3>2 DEF TypeInv, TypeOK, Contents
    <3> QED
      BY <2>4, <3>1, <3>2
  <2>7. TypeOK'
    BY <1>9, <2>2, <2>6 DEF TypeInv, TypeOK, Fill, history, Contents
  <2>8. Counts'
    BY <1>9, <2>2 DEF TypeInv, Counts, Fill, Artifacts
  <2>9. Opened'
    <3> SUFFICES ASSUME NEW k \in Jobs, NEW g \in Artifacts, pc'[k] = Opening[g]
                 PROVE  files'[Output[k]][g] # Missing
      BY DEF Opened
    <3>1. Output[k] \in Paths
      BY ProverAssumption
    <3>2. k # j
      BY <2>2 DEF Opening, Artifacts
    <3> QED
      BY <2>2, <2>6, <3>1, <3>2 DEF TypeInv, Opened
  <2> QED
    BY <2>7, <2>8, <2>9 DEF TypeInv
<1>10. ASSUME NEW j \in Jobs, Crash(j) PROVE TypeInv'
  <2>1. pc' \in [Jobs -> Places] /\ pc'[j] = "crashed" /\ \A k \in Jobs \ {j} : pc'[k] = pc[k]
    BY <1>10, GoTyped DEF TypeInv, Crash
  <2>2. faults' \in 0 .. MaxFaults
    BY <1>10, FaultTyped DEF TypeInv, Crash
  <2>3. TypeOK'
    <3>1. /\ tries' \in [Jobs -> 0 .. MaxTries]
          /\ server' \in [Jobs -> Jobs \cup {NoRunner, Cloud}]
          /\ upSince' \in [Jobs -> SUBSET Jobs]
      BY <1>10, ForgetTyped DEF Crash, TypeInv
    <3> QED
      BY <1>10, <2>1, <2>2, <3>1 DEF TypeInv, TypeOK, Crash
  <2>4. Counts'
    BY <1>10, <2>1, ProverAssumption DEF TypeInv, TypeOK, Counts, Crash, Forget
  <2>5. Opened'
    BY <1>10, QuietOpened DEF Crash
  <2> QED
    BY <2>3, <2>4, <2>5 DEF TypeInv
<1>11. ASSUME NEW j \in Jobs, Bind(j) \/ RunnerFails(j) \/ Pkill PROVE TypeInv'
  <2>1. runner' \in [Jobs -> Runners]
    BY <1>11 DEF TypeInv, TypeOK, Bind, RunnerFails, Pkill, Stopped, Runners, Listening
  <2>2. faults' \in 0 .. MaxFaults
    BY <1>11, FaultTyped DEF TypeInv, Bind, RunnerFails, Pkill
  <2>3. upSince' \in [Jobs -> SUBSET Jobs]
    BY <1>11 DEF TypeInv, TypeOK, Bind, RunnerFails, Pkill, history
  <2>4. UNCHANGED <<pc, tries, server, result, files, met>>
    BY <1>11 DEF Bind, RunnerFails, Pkill, history
  <2>5. TypeOK'
    BY <2>1, <2>2, <2>3, <2>4 DEF TypeInv, TypeOK, Runners
  <2> QED
    BY <2>4, <2>5 DEF TypeInv, Counts, Opened
<1>12. ASSUME Pkill PROVE TypeInv'
  BY <1>11, <1>12 DEF Pkill
<1> QED
  BY <1>1, <1>2, <1>3, <1>4, <1>5, <1>6, <1>7, <1>8, <1>9, <1>10, <1>11, <1>12 DEF Steps

LEMMA TypeInvariant == Spec => []TypeInv
<1>1. TypeInv /\ [Next]_vars => TypeInv'
  <2>1. ASSUME TypeInv, UNCHANGED vars PROVE TypeInv'
    BY <2>1 DEF TypeInv, TypeOK, Counts, Opened, vars, history
  <2> QED
    BY <2>1, NextIsSteps, StepsTyped
<1> QED
  BY InitTyped, <1>1, PTL DEF Spec

\* prove.rs: every variable of the jobs, the runners and the files keeps its
\* type; a job polls at most MaxTries times.
THEOREM ProverTypeCorrect == Spec => []TypeOK
<1>1. TypeInv => TypeOK
  BY DEF TypeInv
<1> QED
  BY <1>1, TypeInvariant, PTL

-----------------------------------------------------------------------------
(* Runners: they end with their jobs, and the one that serves a CLI job came *)
(* up after that job had looked.  Screened is why: whatever listens while a  *)
(* job is past its check came up since.                                      *)

Screened == \A j, k \in Jobs :
    kind[j] = "cli" /\ pc[j] \in PastCheck /\ runner[k] \in Listening => k \in upSince[j]

RunnerInv == RunnersEndWithJobs /\ Unasked /\ Screened /\ StaleRunnerNeverServes

\* Where job j goes, and nobody else.
LEMMA Moves ==
    ASSUME TypeInv, NEW j \in Jobs, NEW to, Go(j, to)
    PROVE  pc'[j] = to /\ \A k \in Jobs : k # j => pc'[k] = pc[k]
BY DEF TypeInv, TypeOK, Go

\* A job that ends stops its runner, and has no server.
LEMMA EndKeepsRunners ==
    ASSUME TypeInv, RunnerInv, UNCHANGED kind, NEW j \in Jobs, NEW to \in Ended,
           Go(j, to), Forget(j),
           \/ runner' = [runner EXCEPT ![j] = Stopped(j)]
           \/ to = "crashed" /\ UNCHANGED runner
    PROVE  RunnerInv'
<1>1. pc'[j] = to /\ \A k \in Jobs : k # j => pc'[k] = pc[k]
  BY Moves
<1>2. /\ \A k \in Jobs : k # j => /\ server'[k] = server[k] /\ upSince'[k] = upSince[k]
                                  /\ runner'[k] = runner[k]
      /\ server'[j] = NoRunner
      /\ runner'[j] \in Listening => runner[j] \in Listening
      /\ to # "crashed" => runner'[j] \in {"none", "dead"}
  BY DEF TypeInv, TypeOK, Forget, Stopped, Listening
<1>3. Screened'
  BY <1>1, <1>2 DEF RunnerInv, Screened, PastCheck, Ended
<1>4. StaleRunnerNeverServes'
  BY <1>1, <1>2 DEF RunnerInv, StaleRunnerNeverServes
<1>5. RunnersEndWithJobs' /\ Unasked'
  BY <1>1, <1>2 DEF RunnerInv, RunnersEndWithJobs, Unasked
<1> QED
  BY <1>3, <1>4, <1>5 DEF RunnerInv

\* A step of job j before it asks, by which no runner comes up.
LEMMA WayToPort ==
    ASSUME TypeInv, RunnerInv, UNCHANGED kind, NEW j \in Jobs,
           NEW to \in {"load", "check", "spawn", "poll", "inspect", "post"}, Go(j, to),
           pc[j] \in {"new", "load", "check", "spawn", "poll", "inspect"},
           kind[j] = "cli" /\ to \in PastCheck => pc[j] \in PastCheck,
           \A k \in Jobs : runner'[k] \in Listening => runner[k] \in Listening,
           \A k \in Jobs : k # j => runner'[k] = runner[k],
           UNCHANGED <<server, upSince>>
    PROVE  RunnerInv'
<1>1. pc'[j] = to /\ \A k \in Jobs : k # j => pc'[k] = pc[k]
  BY Moves
<1>2. Screened'
  BY <1>1 DEF RunnerInv, Screened
<1>3. RunnersEndWithJobs' /\ Unasked' /\ StaleRunnerNeverServes'
  BY <1>1 DEF RunnerInv, RunnersEndWithJobs, Unasked, StaleRunnerNeverServes
<1> QED
  BY <1>2, <1>3 DEF RunnerInv

\* A step of job j that has asked.
LEMMA AfterAsking ==
    ASSUME TypeInv, RunnerInv, UNCHANGED kind, NEW j \in Jobs,
           NEW to \in {"save"} \cup Writing, Go(j, to), UNCHANGED <<runner, server, upSince>>
    PROVE  RunnerInv'
<1>1. pc'[j] = to /\ \A k \in Jobs : k # j => pc'[k] = pc[k]
  BY Moves
<1>2. Screened'
  BY <1>1 DEF RunnerInv, Screened, PastCheck, Writing, Artifacts
<1>3. RunnersEndWithJobs' /\ Unasked' /\ StaleRunnerNeverServes'
  BY <1>1 DEF RunnerInv, RunnersEndWithJobs, Unasked, StaleRunnerNeverServes, Writing, Artifacts
<1> QED
  BY <1>2, <1>3 DEF RunnerInv

LEMMA StepsKeepRunners == TypeInv /\ RunnerInv /\ Steps /\ UNCHANGED kind => RunnerInv'
<1> SUFFICES ASSUME TypeInv, RunnerInv, Steps, UNCHANGED kind PROVE RunnerInv'
  OBVIOUS
<1>1. ASSUME NEW j \in Jobs, Start(j) \/ PollAnswered(j) \/ PollRefused(j) PROVE RunnerInv'
  <2>1. PICK to \in {"load", "post", "inspect"} : Go(j, to) /\ pc[j] = (IF to = "load" THEN "new" ELSE "poll")
    BY <1>1 DEF Start, PollAnswered, PollRefused
  <2>2. UNCHANGED <<runner, server, upSince>>
    BY <1>1 DEF Start, PollAnswered, PollRefused, history
  <2> QED
    BY <2>1, <2>2, WayToPort DEF PastCheck
<1>2. ASSUME NEW j \in Jobs, Load(j) PROVE RunnerInv'
  <2>1. PICK to \in {"check", "spawn", "post"} : Go(j, to) /\ (kind[j] = "cli" => to = "check")
    BY <1>2, ProverAssumption DEF Load, TypeInv, TypeOK
  <2>2. UNCHANGED <<runner, server, upSince>> /\ pc[j] = "load"
    BY <1>2 DEF Load, history
  <2> QED
    BY <2>1, <2>2, WayToPort DEF PastCheck
<1>3. ASSUME NEW j \in Jobs, CheckPort(j) PROVE RunnerInv'
  <2>1. pc'[j] = "spawn" /\ \A k \in Jobs : k # j => pc'[k] = pc[k]
    BY <1>3, Moves DEF CheckPort
  <2>2. /\ UNCHANGED <<runner, server>> /\ server[j] = NoRunner
        /\ \A k \in Jobs : runner[k] \notin Listening
        /\ \A k \in Jobs : k # j => upSince'[k] = upSince[k]
    BY <1>3 DEF CheckPort, PortFree, TypeInv, TypeOK, RunnerInv, Unasked
  <2>3. Screened' /\ StaleRunnerNeverServes'
    BY <2>1, <2>2 DEF RunnerInv, Screened, StaleRunnerNeverServes
  <2>4. RunnersEndWithJobs' /\ Unasked'
    BY <2>1, <2>2 DEF RunnerInv, RunnersEndWithJobs, Unasked
  <2> QED
    BY <2>3, <2>4 DEF RunnerInv
<1>4. ASSUME NEW j \in Jobs, Abort(j) PROVE RunnerInv'
  BY <1>4, EndKeepsRunners DEF Abort, Ended
<1>5. ASSUME NEW j \in Jobs, PortTaken(j) \/ NoAnswer(j) \/ StepFails(j) PROVE RunnerInv'
  BY <1>4, <1>5 DEF PortTaken, NoAnswer, StepFails
<1>6. ASSUME NEW j \in Jobs, Spawn(j) PROVE RunnerInv'
  <2>1. /\ Go(j, "poll") /\ pc[j] = "spawn" /\ UNCHANGED <<server, upSince>>
        /\ \A k \in Jobs : k # j => runner'[k] = runner[k]
        /\ runner'[j] = "starting"
    BY <1>6 DEF Spawn, history, TypeInv, TypeOK
  <2> QED
    BY <2>1, WayToPort DEF PastCheck, Listening
<1>7. ASSUME NEW j \in Jobs, Inspect(j) PROVE RunnerInv'
  <2>1. CASE ~Abort(j)
    <3>1. PICK to \in {"post", "poll"} : Go(j, to)
      BY <1>7, <2>1 DEF Inspect
    <3>2. pc[j] = "inspect" /\ UNCHANGED <<runner, server, upSince>>
      BY <1>7, <2>1 DEF Inspect, history
    <3> QED
      BY <3>1, <3>2, WayToPort DEF PastCheck
  <2> QED
    BY <1>4, <2>1
<1>8. ASSUME NEW j \in Jobs, Post(j) PROVE RunnerInv'
  <2>1. CASE ~Abort(j)
    <3>1. pc'[j] = "proving" /\ (\A k \in Jobs : k # j => pc'[k] = pc[k]) /\ pc[j] = "post"
      BY <1>8, <2>1, Moves DEF Post
    <3>2. UNCHANGED <<runner, upSince>>
      BY <1>8, <2>1 DEF Post, history
    <3>3. /\ \A k \in Jobs : k # j => server'[k] = server[k]
          /\ kind[j] = "cli" => server'[j] \in upSince[j]
      <4>1. CASE kind[j] = "remote"
        BY <1>8, <2>1, <4>1 DEF Post, TypeInv, TypeOK
      <4>2. CASE kind[j] # "remote"
        <5>1. PICK k \in Jobs : runner[k] \in Listening /\ server' = [server EXCEPT ![j] = k]
          BY <1>8, <2>1, <4>2 DEF Post
        <5> QED
          BY <5>1, <3>1 DEF RunnerInv, Screened, PastCheck, TypeInv, TypeOK
      <4> QED
        BY <4>1, <4>2
    <3>4. Screened'
      BY <3>1, <3>2 DEF RunnerInv, Screened, PastCheck
    <3>5. StaleRunnerNeverServes'
      BY <3>1, <3>2, <3>3 DEF RunnerInv, StaleRunnerNeverServes
    <3>6. RunnersEndWithJobs' /\ Unasked'
      BY <3>1, <3>2, <3>3 DEF RunnerInv, RunnersEndWithJobs, Unasked
    <3> QED
      BY <3>4, <3>5, <3>6 DEF RunnerInv
  <2> QED
    BY <1>4, <2>1
<1>9. ASSUME NEW j \in Jobs, Answer(j) PROVE RunnerInv'
  BY <1>9, AfterAsking DEF Answer, history
<1>10. ASSUME NEW j \in Jobs, Finish(j) PROVE RunnerInv'
  <2>1. PICK to \in {"failed", "ok"} : Go(j, to)
    BY <1>10 DEF Finish
  <2> QED
    BY <1>10, <2>1, EndKeepsRunners DEF Finish, Ended
<1>11. ASSUME NEW j \in Jobs, NEW f \in Artifacts, Open(j, f) \/ Fill(j, f) PROVE RunnerInv'
  <2>1. PICK to \in Writing : Go(j, to)
    BY <1>11 DEF Open, Fill, Opening, Writing, Artifacts
  <2>2. UNCHANGED <<runner, server, upSince>>
    BY <1>11 DEF Open, Fill, history
  <2> QED
    BY <2>1, <2>2, AfterAsking
<1>12. ASSUME NEW j \in Jobs, Crash(j) PROVE RunnerInv'
  BY <1>12, EndKeepsRunners DEF Crash, Ended
<1>13. ASSUME NEW j \in Jobs, Bind(j) PROVE RunnerInv'
  <2>1. UNCHANGED <<pc, server>>
    BY <1>13 DEF Bind
  <2>2. /\ \A k \in Jobs : k # j => runner'[k] = runner[k]
        /\ \A k \in Jobs : upSince[k] \subseteq upSince'[k]
        /\ runner[j] = "starting"
        /\ runner'[j] \in Listening =>
               \A k \in Jobs : pc[k] \in PastCheck => j \in upSince'[k]
    BY <1>13 DEF Bind, TypeInv, TypeOK, Listening
  <2>3. Screened'
    BY <2>1, <2>2 DEF RunnerInv, Screened
  <2>4. StaleRunnerNeverServes' /\ RunnersEndWithJobs' /\ Unasked'
    BY <2>1, <2>2 DEF RunnerInv, StaleRunnerNeverServes, RunnersEndWithJobs, Unasked
  <2> QED
    BY <2>3, <2>4 DEF RunnerInv
<1>14. ASSUME NEW j \in Jobs, RunnerFails(j) \/ Pkill PROVE RunnerInv'
  <2>1. UNCHANGED <<pc, server, upSince>>
    BY <1>14 DEF RunnerFails, Pkill, history
  <2>2. \A k \in Jobs : /\ runner'[k] \in Listening => runner[k] \in Listening
                        /\ runner[k] \in {"none", "dead"} => runner'[k] \in {"none", "dead"}
    BY <1>14 DEF RunnerFails, Pkill, Stopped, Listening, TypeInv, TypeOK
  <2> QED
    BY <2>1, <2>2 DEF RunnerInv, Screened, StaleRunnerNeverServes, RunnersEndWithJobs, Unasked
<1>15. ASSUME Pkill PROVE RunnerInv'
  BY <1>14, <1>15 DEF Pkill
<1> QED
  BY <1>1, <1>2, <1>3, <1>5, <1>6, <1>7, <1>8, <1>9, <1>10, <1>11, <1>12, <1>13, <1>14, <1>15 DEF Steps

LEMMA RunnerInvariant == Spec => []RunnerInv
<1>1. Init => RunnerInv
  BY DEF Init, RunnerInv, RunnersEndWithJobs, Unasked, Screened, StaleRunnerNeverServes, PastCheck
<1>2. TypeInv /\ RunnerInv /\ [Next]_vars => RunnerInv'
  <2>1. ASSUME RunnerInv, UNCHANGED vars PROVE RunnerInv'
    BY <2>1 DEF RunnerInv, RunnersEndWithJobs, Unasked, Screened, StaleRunnerNeverServes, vars, history
  <2> QED
    BY <2>1, NextIsSteps, StepsKeepRunners
<1> QED
  BY <1>1, <1>2, TypeInvariant, PTL DEF Spec

\* prove.rs: no runner outlives a job that succeeds or fails.
THEOREM ProverRunnersEnd == Spec => []RunnersEndWithJobs
<1>1. RunnerInv => RunnersEndWithJobs
  BY DEF RunnerInv
<1> QED
  BY <1>1, RunnerInvariant, PTL

\* prove.rs: the port check keeps a CLI job from a runner that was there before.
THEOREM ProverScreensStaleRunners == Spec => []StaleRunnerNeverServes
<1>1. RunnerInv => StaleRunnerNeverServes
  BY DEF RunnerInv
<1> QED
  BY <1>1, RunnerInvariant, PTL

-----------------------------------------------------------------------------
(* Refinement.  The phase of a job follows from where it is.                 *)

PhaseOf(at) == CASE at = "new" -> "idle"
                 [] at \in Asking -> "running"
                 [] at = "crashed" -> "failed"
                 [] OTHER -> at
Phases == [j \in Jobs |-> PhaseOf(pc[j])]

LEMMA PhasesKnown ==
    /\ PhaseOf("new") = "idle" /\ PhaseOf("crashed") = "failed"
    /\ PhaseOf("failed") = "failed" /\ PhaseOf("ok") = "ok"
    /\ \A at \in Asking : PhaseOf(at) = "running"
    /\ \A at \in Writing : PhaseOf(at) = at
BY DEF PhaseOf, Asking, Writing, Artifacts

LEMMA PhaseMoves ==
    ASSUME TypeInv, NEW j \in Jobs, NEW to, Go(j, to)
    PROVE  Phases' = [Phases EXCEPT ![j] = PhaseOf(to)]
<1>1. pc' = [k \in Jobs |-> IF k = j THEN to ELSE pc[k]]
  BY DEF TypeInv, TypeOK, Go
<1>2. Phases' = [k \in Jobs |-> PhaseOf(pc'[k])]
  BY DEF Phases
<1>3. \A k \in Jobs : PhaseOf(pc'[k]) = IF k = j THEN PhaseOf(to) ELSE PhaseOf(pc[k])
  BY <1>1
<1> QED
  BY <1>2, <1>3 DEF Phases

LEMMA PromiseGoes ==
    ASSUME NEW j \in Jobs, NEW to, Phases' = [Phases EXCEPT ![j] = to]
    PROVE  Promise!Go(j, to)
BY DEF Promise!Go, Phases, PhaseOf

LEMMA PhasesStay ==
    ASSUME Phases' = Phases, UNCHANGED files
    PROVE  UNCHANGED Promise!vars
BY DEF Promise!vars, Phases, PhaseOf

LEMMA PhaseAt ==
    ASSUME NEW j \in Jobs
    PROVE  Phases[j] = PhaseOf(pc[j])
BY DEF Phases

\* A step of job j that stays in one phase.
LEMMA QuietRefines ==
    ASSUME TypeInv, NEW j \in Jobs, NEW to, Go(j, to),
           PhaseOf(to) = PhaseOf(pc[j]), UNCHANGED files
    PROVE  UNCHANGED Promise!vars
<1>1. Phases' = [Phases EXCEPT ![j] = Phases[j]]
  BY PhaseMoves, PhaseAt
<1>2. Phases' = Phases
  BY <1>1 DEF Phases
<1> QED
  BY <1>2, PhasesStay

\* A job that gives up or is killed.
LEMMA FailureRefines ==
    ASSUME TypeInv, NEW j \in Jobs, NEW to \in {"failed", "crashed"}, Go(j, to),
           pc[j] \in Asking \cup Writing, UNCHANGED files
    PROVE  Promise!Fail(j)
<1>1. Promise!Go(j, "failed")
  BY PhaseMoves, PromiseGoes, PhasesKnown
<1>2. PhaseOf(pc[j]) \in {"running"} \cup Writing
  BY PhasesKnown
<1>3. Promise!Fail(j) <=> /\ Phases[j] \in {"running"} \cup Writing
                          /\ Promise!Go(j, "failed") /\ UNCHANGED files
  BY DEF Promise!Fail, Promise!Writing, Promise!Written, Writing, Artifacts, Phases, PhaseOf
<1> QED
  BY <1>1, <1>2, <1>3, PhaseAt

LEMMA OpenRefines ==
    ASSUME TypeInv, NEW j \in Jobs, NEW f \in Artifacts, Open(j, f)
    PROVE  Promise!Open(j, f)
<1>1. /\ f = "proof" => pc[j] = "save"
      /\ f = "facts" => pc[j] = "proof"
      /\ f = "messages" => pc[j] \in {"proof", "facts"}
  BY DEF Open, IsNext
<1>2. Phases[j] \in Promise!Before[f]
  <2>1. "save" \in Asking /\ {"proof", "facts"} \subseteq Writing
    BY DEF Asking, Writing, Artifacts
  <2>2. Phases[j] = PhaseOf(pc[j])
    BY PhaseAt
  <2>3. /\ f = "proof" => Phases[j] = "running"
        /\ f = "facts" => Phases[j] = "proof"
        /\ f = "messages" => Phases[j] \in {"proof", "facts"}
    BY <1>1, <2>1, <2>2, PhasesKnown
  <2> QED
    BY <2>3 DEF Promise!Before, Artifacts
<1>3. Promise!Go(j, Promise!Opening[f])
  <2>1. Opening[f] \in Writing /\ Promise!Opening[f] = Opening[f] /\ Go(j, Opening[f])
    BY DEF Open, Opening, Promise!Opening, Writing, Artifacts
  <2> QED
    BY <2>1, PhaseMoves, PromiseGoes, PhasesKnown
<1>4. Promise!Put(j, f, {})
  BY DEF Open, Put, Promise!Put
<1> QED
  BY <1>2, <1>3, <1>4 DEF Promise!Open, Phases, PhaseOf

LEMMA FillRefines ==
    ASSUME TypeInv, NEW j \in Jobs, NEW f \in Artifacts, Fill(j, f)
    PROVE  Promise!Fill(j, f)
<1>1. Opening[f] \in Writing /\ f \in Writing /\ Promise!Opening[f] = Opening[f]
  BY DEF Opening, Promise!Opening, Writing, Artifacts
<1>2. Phases[j] = Promise!Opening[f]
  BY <1>1, PhaseAt, PhasesKnown DEF Fill
<1>3. Promise!Go(j, f)
  BY <1>1, PhaseMoves, PromiseGoes, PhasesKnown DEF Fill
<1>4. files[Output[j]][f] # Promise!Missing
  BY DEF Fill, TypeInv, Opened, Missing, Promise!Missing
<1>5. \/ Promise!Put(j, f, {j})
      \/ Promise!Put(j, f, files[Output[j]][f] \cup {j})
      \/ UNCHANGED files
  BY DEF Fill, Put, Promise!Put
<1> QED
  BY <1>2, <1>3, <1>4, <1>5 DEF Promise!Fill, Phases, PhaseOf

LEMMA FinishRefines ==
    ASSUME TypeInv, NEW j \in Jobs, Finish(j)
    PROVE  Promise!Succeed(j) \/ Promise!Fail(j)
<1>1. pc[j] \in Artifacts /\ UNCHANGED files
  BY DEF Finish
<1>2. CASE Go(j, "failed")
  BY <1>1, <1>2, FailureRefines DEF Writing
<1>3. CASE Go(j, "ok")
  <2>1. Promise!Go(j, "ok")
    BY <1>3, PhaseMoves, PromiseGoes, PhasesKnown
  <2>2. Phases[j] \in Artifacts
    BY <1>1, PhaseAt, PhasesKnown DEF Writing
  <2> QED
    BY <1>1, <2>1, <2>2 DEF Promise!Succeed, Promise!Written, Artifacts, Phases, PhaseOf
<1> QED
  BY <1>2, <1>3 DEF Finish

LEMMA StepsRefine == TypeInv /\ Steps => Promise!Next \/ UNCHANGED Promise!vars
<1> SUFFICES ASSUME TypeInv, Steps PROVE Promise!Next \/ UNCHANGED Promise!vars
  OBVIOUS
<1> DEFINE Kept == Promise!Next \/ UNCHANGED Promise!vars
<1>1. ASSUME NEW j \in Jobs, NEW to \in {"failed", "crashed"}, Go(j, to),
             pc[j] \in Asking \cup Writing, UNCHANGED files
      PROVE  Kept
  BY <1>1, FailureRefines DEF Promise!Next, Promise!Step
<1>2. ASSUME NEW j \in Jobs, Abort(j), pc[j] \in Asking \cup Writing PROVE Kept
  BY <1>1, <1>2 DEF Abort
<1>3. ASSUME NEW j \in Jobs, NEW to \in Asking, Go(j, to), pc[j] \in Asking, UNCHANGED files
      PROVE  Kept
  BY <1>3, QuietRefines, PhasesKnown
<1>4. ASSUME NEW j \in Jobs, Start(j) PROVE Kept
  <2>1. Promise!Go(j, "running") /\ Phases[j] = "idle" /\ UNCHANGED files
    BY <1>4, PhaseMoves, PromiseGoes, PhaseAt, PhasesKnown DEF Start, Asking
  <2>2. Promise!Start(j)
    BY <2>1 DEF Promise!Start, Phases, PhaseOf
  <2> QED
    BY <2>2 DEF Promise!Next, Promise!Step
<1>5. ASSUME NEW j \in Jobs, Load(j) PROVE Kept
  <2>1. PICK to \in Asking : Go(j, to)
    BY <1>5, ProverAssumption DEF Load, Asking, TypeInv, TypeOK
  <2> QED
    BY <1>3, <1>5, <2>1 DEF Load, Asking
<1>6. ASSUME NEW j \in Jobs, CheckPort(j) \/ Spawn(j) \/ PollAnswered(j) \/ PollRefused(j)
                                 \/ Answer(j)
      PROVE  Kept
  <2>1. PICK to \in Asking : Go(j, to)
    BY <1>6 DEF CheckPort, Spawn, PollAnswered, PollRefused, Answer, Asking
  <2>2. pc[j] \in Asking /\ UNCHANGED files
    BY <1>6 DEF CheckPort, Spawn, PollAnswered, PollRefused, Answer, Asking
  <2> QED
    BY <1>3, <2>1, <2>2
<1>7. ASSUME NEW j \in Jobs, PortTaken(j) \/ NoAnswer(j) \/ StepFails(j) PROVE Kept
  BY <1>2, <1>7 DEF PortTaken, NoAnswer, StepFails, Asking
<1>8. ASSUME NEW j \in Jobs, Inspect(j) \/ Post(j) PROVE Kept
  <2>1. pc[j] \in Asking
    BY <1>8 DEF Inspect, Post, Asking
  <2>2. CASE ~Abort(j)
    <3>1. PICK to \in Asking : Go(j, to)
      BY <1>8, <2>2 DEF Inspect, Post, Asking
    <3>2. UNCHANGED files
      BY <1>8, <2>2 DEF Inspect, Post
    <3> QED
      BY <1>3, <2>1, <3>1, <3>2
  <2> QED
    BY <1>2, <2>1, <2>2
<1>9. ASSUME NEW j \in Jobs, Crash(j) PROVE Kept
  BY <1>1, <1>9 DEF Crash, Active
<1>10. ASSUME NEW j \in Jobs, Finish(j) PROVE Kept
  BY <1>10, FinishRefines DEF Promise!Next, Promise!Step
<1>11. ASSUME NEW j \in Jobs, NEW f \in Artifacts, Open(j, f) \/ Fill(j, f) PROVE Kept
  <2>1. Promise!Open(j, f) \/ Promise!Fill(j, f)
    BY <1>11, OpenRefines, FillRefines
  <2> QED
    BY <2>1 DEF Promise!Next, Promise!Step, Promise!Artifacts, Artifacts
<1>12. ASSUME NEW j \in Jobs, Bind(j) \/ RunnerFails(j) \/ Pkill PROVE Kept
  <2>1. UNCHANGED <<pc, files>>
    BY <1>12 DEF Bind, RunnerFails, Pkill
  <2>2. Phases' = Phases
    BY <2>1 DEF Phases
  <2> QED
    BY <2>1, <2>2, PhasesStay
<1>13. ASSUME Pkill PROVE Kept
  <2>1. PICK j \in Jobs : pc[j] = "crashed"
    BY <1>13 DEF Pkill
  <2> QED
    BY <1>12, <1>13
<1> QED
  BY <1>4, <1>5, <1>6, <1>7, <1>8, <1>9, <1>10, <1>11, <1>12, <1>13 DEF Steps

\* prove.rs, run-virtual-os.sh: whatever the runners, the port and the other
\* jobs do, a job leaves its artifacts as ProofFiles promises.
THEOREM ProverKeepsPromise == Spec => ImplementsPromise
<1>1. Init => Promise!Init
  <2>1. ASSUME Init PROVE Phases = [j \in Jobs |-> "idle"]
    BY <2>1, PhasesKnown DEF Init, Phases
  <2>2. ASSUME Init PROVE files = [p \in Paths |-> [f \in Promise!Artifacts |-> Promise!Missing]]
    BY <2>2 DEF Init, Artifacts, Missing, Promise!Artifacts, Promise!Missing
  <2> QED
    BY <2>1, <2>2 DEF Promise!Init, Phases, PhaseOf
<1>2. TypeInv /\ [Next]_vars => [Promise!Next]_(Promise!vars)
  <2>1. ASSUME UNCHANGED vars PROVE UNCHANGED Promise!vars
    <3>1. UNCHANGED <<pc, files>>
      BY <2>1 DEF vars
    <3> QED
      BY <3>1, PhasesStay DEF Phases
  <2> QED
    BY <2>1, NextIsSteps, StepsRefine
<1> QED
  BY <1>1, <1>2, TypeInvariant, PTL DEF Spec, ImplementsPromise, Promise!Spec

-----------------------------------------------------------------------------
(* The artifacts beside a path.  Unmet(j): nobody wrote there while j did.   *)

At(j) == files[Output[j]]
Unmet(j) == met[j] = {}
Beside(j) == {k \in Jobs \ {j} : Output[k] = Output[j]}
Past == [proof |-> {"proof", "factsOpen", "facts", "messagesOpen", "messages"},
         facts |-> {"facts", "messagesOpen", "messages"},
         messages |-> {"messages"}]

\* While such a job writes, it is alone, truncates what it opens, and keeps what
\* it has written.
Alone == \A j \in Jobs : pc[j] \in Writing /\ Unmet(j) => \A k \in Beside(j) : pc[k] \notin Writing
Emptied == \A j \in Jobs, f \in Artifacts : pc[j] = Opening[f] /\ Unmet(j) => At(j)[f] = {}
Retained == \A j \in Jobs, f \in Artifacts :
    pc[j] \in Past[f] /\ Unmet(j) /\ f \in result[j] /\ Wants(j, f) => At(j)[f] = {j}

\* When it has ended, whoever writes there has taken its proof away.
Overwritten == \A j \in Jobs :
    pc[j] = "ok" /\ Unmet(j) /\ At(j)["proof"] = {j} => \A k \in Beside(j) : pc[k] \notin Writing
Together == \A j \in Jobs, f \in Artifacts :
    pc[j] = "ok" /\ Unmet(j) /\ At(j)["proof"] = {j} /\ f \in result[j] /\ Wants(j, f)
    => At(j)[f] = {j}

ArtifactsInv == Alone /\ Emptied /\ Retained /\ Overwritten /\ Together

LEMMA InitArtifacts == Init => ArtifactsInv
BY DEF Init, ArtifactsInv, Alone, Emptied, Retained, Overwritten, Together,
       Writing, Artifacts, Past, Opening

\* A step of job j outside its writing.
LEMMA OffDisk ==
    ASSUME TypeInv, ArtifactsInv, UNCHANGED kind, NEW j \in Jobs, NEW to, Go(j, to),
           to \notin Writing \cup {"ok"}, UNCHANGED <<files, met>>,
           \A k \in Jobs \ {j} : result'[k] = result[k]
    PROVE  ArtifactsInv'
<1>1. pc'[j] = to /\ \A k \in Jobs : k # j => pc'[k] = pc[k]
  BY Moves
<1>2. Alone' /\ Overwritten'
  BY <1>1 DEF ArtifactsInv, Alone, Overwritten, At, Unmet, Beside
<1>3. Emptied'
  BY <1>1 DEF ArtifactsInv, Emptied, At, Unmet, Opening, Writing, Artifacts
<1>4. Retained' /\ Together'
  <2>1. \A f \in Artifacts : to \notin Past[f]
    BY DEF Past, Writing, Artifacts
  <2> QED
    BY <1>1, <2>1 DEF ArtifactsInv, Retained, Together, At, Unmet, Wants
<1> QED
  BY <1>2, <1>3, <1>4 DEF ArtifactsInv

\* A job that ends well has written all that it was given.
LEMMA FinishKeepsArtifacts ==
    ASSUME TypeInv, ArtifactsInv, UNCHANGED kind, NEW j \in Jobs, Finish(j), Go(j, "ok")
    PROVE  ArtifactsInv'
<1>1. /\ pc'[j] = "ok" /\ \A k \in Jobs : k # j => pc'[k] = pc[k]
      /\ UNCHANGED <<files, met, result>> /\ pc[j] \in Artifacts
  BY Moves DEF Finish
<1>2. Alone' /\ Emptied'
  BY <1>1 DEF ArtifactsInv, Alone, Emptied, At, Unmet, Beside, Writing, Artifacts, Opening
<1>3. Retained'
  BY <1>1 DEF ArtifactsInv, Retained, At, Unmet, Wants, Past, Artifacts
<1>4. Overwritten'
  BY <1>1 DEF ArtifactsInv, Alone, Overwritten, At, Unmet, Beside, Writing
<1>5. \A f \in Artifacts : Wants(j, f) => pc[j] \in Past[f]
  BY <1>1 DEF Finish, IsNext, Past, Artifacts
<1>6. Together'
  BY <1>1, <1>5 DEF ArtifactsInv, Retained, Together, At, Unmet, Wants
<1> QED
  BY <1>2, <1>3, <1>4, <1>6 DEF ArtifactsInv

\* A job that opens a file tells those it finds writing, and they tell it.
LEMMA OpenKeepsArtifacts ==
    ASSUME TypeInv, ArtifactsInv, UNCHANGED kind, NEW j \in Jobs, NEW f \in Artifacts, Open(j, f)
    PROVE  ArtifactsInv'
<1>1. /\ pc'[j] = Opening[f] /\ \A k \in Jobs : k # j => pc'[k] = pc[k]
      /\ UNCHANGED result
  BY Moves DEF Open
<1>2. \A k \in Jobs : Output[k] \in Paths
  BY ProverAssumption
<1>3. \A p \in Paths, g \in Artifacts :
         files'[p][g] = IF p = Output[j] /\ g = f THEN {} ELSE files[p][g]
  <2>1. {} \in Contents
    BY DEF Contents
  <2> QED
    BY <2>1, PutTyped DEF TypeInv, Open
<1>4. /\ \A k \in Jobs : met[k] \subseteq met'[k]
      /\ Rivals(j) \subseteq met'[j]
      /\ \A k \in Rivals(j) : j \in met'[k]
  BY DEF Open, Rivals
<1>5. /\ \A k \in Jobs : Unmet(k)' => Unmet(k)
      /\ Unmet(j)' => \A k \in Beside(j) : pc[k] \notin Writing
      /\ \A k \in Beside(j) : pc[k] \in Writing => ~Unmet(k)'
  BY <1>4 DEF Unmet, Rivals, Beside
<1>0. /\ f = "proof" => pc[j] = "save"
      /\ f = "facts" => pc[j] = "proof"
      /\ f = "messages" => pc[j] = "facts" \/ (pc[j] = "proof" /\ ~Wants(j, "facts"))
  BY DEF Open, IsNext
<1>6. /\ Opening[f] \in Writing /\ Opening[f] # "ok"
      /\ \A g \in Artifacts : Opening[g] = Opening[f] => g = f
      /\ f = "proof" \/ pc[j] \in Writing
  BY <1>0 DEF Opening, Writing, Artifacts
<1>7. Alone'
  BY <1>1, <1>5, <1>6 DEF ArtifactsInv, Alone, Beside
<1>8. Emptied'
  <2> SUFFICES ASSUME NEW k \in Jobs, NEW g \in Artifacts, pc'[k] = Opening[g], Unmet(k)'
               PROVE  files'[Output[k]][g] = {}
    BY DEF Emptied, At
  <2> QED
    BY <1>1, <1>2, <1>3, <1>5, <1>6 DEF ArtifactsInv, Emptied, At
<1>9. Retained'
  <2> SUFFICES ASSUME NEW k \in Jobs, NEW g \in Artifacts, pc'[k] \in Past[g], Unmet(k)',
                      g \in result[k], Wants(k, g)
               PROVE  files'[Output[k]][g] = {k}
    BY <1>1 DEF Retained, At, Wants
  <2>1. CASE k = j
    <3>1. g # f /\ pc[j] \in Past[g]
      <4>1. Opening[f] \in Past[g] /\ Wants(j, g)
        BY <1>1, <2>1
      <4>2. f # "proof"
        BY <4>1 DEF Opening, Past, Artifacts
      <4>3. f = "facts" => g = "proof"
        BY <4>1 DEF Opening, Past, Artifacts
      <4>4. f = "messages" => g \in {"proof", "facts"}
        BY <4>1 DEF Opening, Past, Artifacts
      <4> QED
        BY <1>0, <4>1, <4>2, <4>3, <4>4 DEF Past, Artifacts
    <3> QED
      BY <1>2, <1>3, <1>5, <2>1, <3>1 DEF ArtifactsInv, Retained, At
  <2>2. CASE k # j
    <3>1. pc[k] \in Writing
      BY <1>1, <2>2 DEF Past, Writing, Artifacts
    <3>2. Output[k] # Output[j]
      BY <1>5, <2>2, <3>1 DEF Beside
    <3> QED
      BY <1>1, <1>2, <1>3, <1>5, <2>2, <3>2 DEF ArtifactsInv, Retained, At
  <2> QED
    BY <2>1, <2>2
<1>10. ASSUME NEW k \in Jobs, pc'[k] = "ok", Unmet(k)', files'[Output[k]]["proof"] = {k}
       PROVE  /\ k # j /\ j \notin Beside(k)
              /\ pc[k] = "ok" /\ Unmet(k) /\ At(k)["proof"] = {k}
              /\ \A g \in Artifacts : files'[Output[k]][g] = files[Output[k]][g]
  <2>1. k # j /\ pc[k] = "ok" /\ Unmet(k)
    BY <1>1, <1>5, <1>6, <1>10
  <2>2. At(k)["proof"] = {k}
    BY <1>2, <1>3, <1>10 DEF At, Artifacts
  <2>3. j \notin Beside(k)
    <3>1. CASE f = "proof"
      BY <1>2, <1>3, <1>10, <3>1 DEF Beside, Artifacts
    <3>2. CASE pc[j] \in Writing
      BY <2>1, <2>2, <3>2 DEF ArtifactsInv, Overwritten
    <3> QED
      BY <1>6, <3>1, <3>2
  <2> QED
    BY <1>2, <1>3, <2>1, <2>2, <2>3 DEF Beside
<1>11. Overwritten' /\ Together'
  <2>1. Overwritten'
    BY <1>1, <1>10 DEF ArtifactsInv, Overwritten, At, Beside
  <2>2. Together'
    <3> SUFFICES ASSUME NEW k \in Jobs, NEW g \in Artifacts, pc'[k] = "ok", Unmet(k)',
                        files'[Output[k]]["proof"] = {k}, g \in result[k], Wants(k, g)
                 PROVE  files'[Output[k]][g] = {k}
      BY <1>1 DEF Together, At, Wants
    <3> QED
      BY <1>10 DEF ArtifactsInv, Together, At
  <2> QED
    BY <2>1, <2>2
<1> QED
  BY <1>7, <1>8, <1>9, <1>11 DEF ArtifactsInv

\* Nobody but j writes to a file that j has opened alone.
LEMMA FillKeepsArtifacts ==
    ASSUME TypeInv, ArtifactsInv, UNCHANGED kind, NEW j \in Jobs, NEW f \in Artifacts, Fill(j, f)
    PROVE  ArtifactsInv'
<1>1. /\ pc[j] = Opening[f] /\ pc'[j] = f /\ \A k \in Jobs : k # j => pc'[k] = pc[k]
      /\ UNCHANGED <<result, met>>
  BY Moves DEF Fill, history
<1>2. \A k \in Jobs : Output[k] \in Paths
  BY ProverAssumption
<1>3. /\ pc[j] \in Writing /\ f \in Writing /\ f # "ok"
      /\ \A g \in Artifacts : f # Opening[g]
  BY <1>1 DEF Opening, Writing, Artifacts
<1>4. /\ \A p \in Paths, g \in Artifacts : p # Output[j] \/ g # f => files'[p][g] = files[p][g]
      /\ f \notin result[j] => files' = files
      /\ f \in result[j] =>
             files'[Output[j]][f] = {j} \/ files'[Output[j]][f] = At(j)[f] \cup {j}
  <2>1. CASE f \in result[j]
    <3>1. At(j)[f] \in SUBSET Jobs
      BY <1>1, <1>2 DEF TypeInv, TypeOK, Opened, At
    <3>2. PICK c \in {{j}, At(j)[f] \cup {j}} : Put(j, f, c)
      BY <2>1 DEF Fill, At
    <3>3. c \in Contents
      BY <3>1, <3>2 DEF Contents
    <3> QED
      BY <1>2, <2>1, <3>2, <3>3, PutTyped DEF TypeInv
  <2>2. CASE f \notin result[j]
    BY <2>2 DEF Fill
  <2> QED
    BY <2>1, <2>2
<1>5. ASSUME Unmet(j) PROVE f \in result[j] => files'[Output[j]][f] = {j}
  <2>1. At(j)[f] = {}
    BY <1>1, <1>5 DEF ArtifactsInv, Emptied
  <2> QED
    BY <1>4, <2>1
<1>6. Alone'
  BY <1>1, <1>3 DEF ArtifactsInv, Alone, Unmet, Beside
<1>7. ASSUME NEW k \in Jobs \ {j}, NEW g \in Artifacts, Unmet(k), pc[k] \in Writing
      PROVE  files'[Output[k]][g] = At(k)[g]
  <2>1. Output[k] # Output[j]
    BY <1>3, <1>7 DEF ArtifactsInv, Alone, Beside
  <2> QED
    BY <1>2, <1>4, <2>1 DEF At
<1>8. Emptied'
  <2> SUFFICES ASSUME NEW k \in Jobs, NEW g \in Artifacts, pc'[k] = Opening[g], Unmet(k)
               PROVE  files'[Output[k]][g] = {}
    BY <1>1 DEF Emptied, At, Unmet
  <2>1. k # j /\ pc[k] = Opening[g]
    BY <1>1, <1>3
  <2>2. pc[k] \in Writing
    BY <2>1 DEF Opening, Writing, Artifacts
  <2> QED
    BY <1>7, <2>1, <2>2 DEF ArtifactsInv, Emptied
<1>9. Retained'
  <2> SUFFICES ASSUME NEW k \in Jobs, NEW g \in Artifacts, pc'[k] \in Past[g], Unmet(k),
                      g \in result[k], Wants(k, g)
               PROVE  files'[Output[k]][g] = {k}
    BY <1>1 DEF Retained, At, Unmet, Wants
  <2>1. CASE k = j /\ g = f
    BY <1>5, <2>1
  <2>2. CASE k = j /\ g # f
    <3>1. f \in Past[g]
      BY <1>1, <2>2
    <3>2. pc[j] \in Past[g]
      BY <1>1, <2>2, <3>1 DEF Opening, Past, Artifacts
    <3> QED
      BY <1>2, <1>4, <2>2, <3>2 DEF ArtifactsInv, Retained, At
  <2>3. CASE k # j
    <3>1. pc[k] \in Past[g] /\ pc[k] \in Writing
      BY <1>1, <2>3 DEF Past, Writing, Artifacts
    <3> QED
      BY <1>7, <2>3, <3>1 DEF ArtifactsInv, Retained
  <2> QED
    BY <2>1, <2>2, <2>3
<1>10. ASSUME NEW k \in Jobs, pc'[k] = "ok", Unmet(k), files'[Output[k]]["proof"] = {k}
       PROVE  /\ k # j /\ j \notin Beside(k)
              /\ pc[k] = "ok" /\ At(k)["proof"] = {k}
              /\ \A g \in Artifacts : files'[Output[k]][g] = files[Output[k]][g]
  <2>1. k # j /\ pc[k] = "ok"
    BY <1>1, <1>3, <1>10
  <2>2. ASSUME j \in Beside(k) PROVE At(k)["proof"] = {k}
    <3>1. Output[k] = Output[j]
      BY <2>2 DEF Beside
    <3>2. f \in result[j] => f # "proof"
      BY <1>4, <1>10, <2>1, <3>1
    <3> QED
      BY <1>2, <1>4, <1>10, <3>1, <3>2 DEF At, Artifacts
  <2>3. j \notin Beside(k)
    BY <1>3, <1>10, <2>1, <2>2 DEF ArtifactsInv, Overwritten
  <2>4. Output[k] # Output[j]
    BY <2>1, <2>3 DEF Beside
  <2> QED
    BY <1>2, <1>4, <1>10, <2>1, <2>3, <2>4 DEF At, Artifacts
<1>11. Overwritten'
  BY <1>1, <1>10 DEF ArtifactsInv, Overwritten, At, Unmet, Beside
<1>12. Together'
  <2> SUFFICES ASSUME NEW k \in Jobs, NEW g \in Artifacts, pc'[k] = "ok", Unmet(k),
                      files'[Output[k]]["proof"] = {k}, g \in result[k], Wants(k, g)
               PROVE  files'[Output[k]][g] = {k}
    BY <1>1 DEF Together, At, Unmet, Wants
  <2> QED
    BY <1>10 DEF ArtifactsInv, Together, At
<1> QED
  BY <1>6, <1>8, <1>9, <1>11, <1>12 DEF ArtifactsInv

LEMMA StepsKeepArtifacts == TypeInv /\ ArtifactsInv /\ Steps /\ UNCHANGED kind => ArtifactsInv'
<1> SUFFICES ASSUME TypeInv, ArtifactsInv, Steps, UNCHANGED kind PROVE ArtifactsInv'
  OBVIOUS
<1>1. Asking \cap (Writing \cup {"ok"}) = {}
      /\ {"failed", "crashed"} \cap (Writing \cup {"ok"}) = {}
  BY DEF Asking, Writing, Artifacts
<1>2. ASSUME NEW j \in Jobs, Abort(j) PROVE ArtifactsInv'
  <2>1. \A k \in Jobs \ {j} : result'[k] = result[k]
    BY <1>2 DEF Abort, TypeInv, TypeOK
  <2> QED
    BY <1>1, <1>2, <2>1, OffDisk DEF Abort
<1>3. ASSUME NEW j \in Jobs, NEW to \in Asking, Go(j, to), UNCHANGED <<files, met>>,
             \A k \in Jobs \ {j} : result'[k] = result[k]
      PROVE  ArtifactsInv'
  BY <1>1, <1>3, OffDisk
<1>4. ASSUME NEW j \in Jobs, Start(j) \/ Load(j) \/ CheckPort(j) \/ Spawn(j) \/ PollAnswered(j)
                             \/ PollRefused(j)
      PROVE  ArtifactsInv'
  <2>1. PICK to \in Asking : Go(j, to)
    BY <1>4, ProverAssumption
    DEF Start, Load, CheckPort, Spawn, PollAnswered, PollRefused, Asking, TypeInv, TypeOK
  <2>2. UNCHANGED <<files, met, result>>
    BY <1>4 DEF Start, Load, CheckPort, Spawn, PollAnswered, PollRefused, history
  <2> QED
    BY <1>3, <2>1, <2>2
<1>5. ASSUME NEW j \in Jobs, Answer(j) PROVE ArtifactsInv'
  <2>1. "save" \in Asking /\ Go(j, "save") /\ UNCHANGED <<files, met>>
    BY <1>5 DEF Answer, Asking, history
  <2>2. \A k \in Jobs \ {j} : result'[k] = result[k]
    BY <1>5 DEF Answer, TypeInv, TypeOK
  <2> QED
    BY <1>3, <2>1, <2>2
<1>6. ASSUME NEW j \in Jobs, PortTaken(j) \/ NoAnswer(j) \/ StepFails(j) PROVE ArtifactsInv'
  BY <1>2, <1>6 DEF PortTaken, NoAnswer, StepFails
<1>7. ASSUME NEW j \in Jobs, Inspect(j) \/ Post(j), ~Abort(j) PROVE ArtifactsInv'
  <2>1. PICK to \in Asking : Go(j, to)
    BY <1>7 DEF Inspect, Post, Asking
  <2>2. UNCHANGED <<files, met, result>>
    BY <1>7 DEF Inspect, Post, history
  <2> QED
    BY <1>3, <2>1, <2>2
<1>8. ASSUME NEW j \in Jobs, Crash(j) PROVE ArtifactsInv'
  <2>1. \A k \in Jobs \ {j} : result'[k] = result[k]
    BY <1>8 DEF Crash, TypeInv, TypeOK
  <2> QED
    BY <1>1, <1>8, <2>1, OffDisk DEF Crash
<1>9. ASSUME NEW j \in Jobs, Finish(j) PROVE ArtifactsInv'
  <2>1. CASE Go(j, "ok")
    BY <1>9, <2>1, FinishKeepsArtifacts
  <2>2. CASE Go(j, "failed")
    BY <1>1, <1>9, <2>2, OffDisk DEF Finish
  <2> QED
    BY <1>9, <2>1, <2>2 DEF Finish
<1>10. ASSUME UNCHANGED <<pc, result, files, met>> PROVE ArtifactsInv'
  BY <1>10 DEF ArtifactsInv, Alone, Emptied, Retained, Overwritten, Together, At, Unmet, Wants
<1>11. ASSUME NEW j \in Jobs, Bind(j) \/ RunnerFails(j) PROVE ArtifactsInv'
  BY <1>10, <1>11 DEF Bind, RunnerFails, history
<1>12. CASE Pkill
  BY <1>10, <1>12 DEF Pkill, history
<1>13. ASSUME NEW j \in Jobs, NEW f \in Artifacts, Open(j, f) \/ Fill(j, f) PROVE ArtifactsInv'
  BY <1>13, OpenKeepsArtifacts, FillKeepsArtifacts
<1> QED
  BY <1>2, <1>4, <1>5, <1>6, <1>7, <1>8, <1>9, <1>11, <1>12, <1>13 DEF Steps

\* prove.rs, run-virtual-os.sh: for any jobs and paths, the facts and messages
\* that a successful job was given lie beside its proof, unless another job was
\* writing there meanwhile or has replaced the proof since.
THEOREM ProverArtifactsBelongTogether == Spec => []ArtifactsBelongTogether
<1>1. TypeInv /\ ArtifactsInv /\ [Next]_vars => ArtifactsInv'
  <2> SUFFICES ASSUME TypeInv, ArtifactsInv, [Next]_vars PROVE ArtifactsInv'
    OBVIOUS
  <2>1. CASE Next
    BY <2>1, NextIsSteps, StepsKeepArtifacts
  <2>2. CASE UNCHANGED vars
    BY <2>2 DEF vars, history, ArtifactsInv, Alone, Emptied, Retained, Overwritten, Together,
                At, Unmet, Wants
  <2> QED
    BY <2>1, <2>2
<1>2. ArtifactsInv => ArtifactsBelongTogether
  <2> SUFFICES ASSUME ArtifactsInv, NEW j \in Jobs, NEW f \in {"facts", "messages"},
                      pc[j] = "ok", At(j)["proof"] = {j}, f \in result[j],
                      f = "facts" \/ kind[j] # "script", met[j] = {}
               PROVE  At(j)[f] = {j}
    BY DEF ArtifactsBelongTogether, At
  <2>1. Wants(j, f) /\ f \in Artifacts
    BY DEF Wants, Artifacts
  <2> QED
    BY <2>1 DEF ArtifactsInv, Together, Unmet
<1> QED
  BY <1>1, <1>2, InitArtifacts, TypeInvariant, PTL DEF Spec

-----------------------------------------------------------------------------
(* Every step of a job is progress.  A job that polls again has counted the  *)
(* poll, so that its rank, which has a bound, rises all the same.            *)

Rank(at, n) ==
    CASE at = "new" -> 0
      [] at = "load" -> 1
      [] at = "check" -> 2
      [] at = "spawn" -> 3
      [] at = "poll" -> 4 + 2 * n
      [] at = "inspect" -> 5 + 2 * n
      [] at = "post" -> 2 * MaxTries + 4
      [] at = "proving" -> 2 * MaxTries + 5
      [] at = "save" -> 2 * MaxTries + 6
      [] at = "proofOpen" -> 2 * MaxTries + 7
      [] at = "proof" -> 2 * MaxTries + 8
      [] at = "factsOpen" -> 2 * MaxTries + 9
      [] at = "facts" -> 2 * MaxTries + 10
      [] at = "messagesOpen" -> 2 * MaxTries + 11
      [] at = "messages" -> 2 * MaxTries + 12
      [] at \in Ended -> 2 * MaxTries + 13

Far(j) == Rank(pc[j], tries[j])
JobsGoOn == \A j \in Jobs : Far(j) <= Far(j)' /\ (Work(j) => Far(j) < Far(j)')

\* What job j does to its own, and leaves of the others'.
Advances(j) == Far(j) < Far(j)' /\ \A k \in Jobs \ {j} : Far(k)' = Far(k)
OwnSteps(j) ==
    \/ Start(j) \/ Load(j) \/ CheckPort(j) \/ PortTaken(j) \/ Spawn(j)
    \/ PollAnswered(j) \/ PollRefused(j) \/ Inspect(j) \/ Post(j)
    \/ Answer(j) \/ NoAnswer(j) \/ Finish(j) \/ StepFails(j) \/ Crash(j)
    \/ \E f \in Artifacts : Open(j, f) \/ Fill(j, f)

LEMMA Ranks ==
    \A n :
        /\ Rank("new", n) = 0 /\ Rank("load", n) = 1 /\ Rank("check", n) = 2
        /\ Rank("spawn", n) = 3 /\ Rank("poll", n) = 4 + 2 * n
        /\ Rank("inspect", n) = 5 + 2 * n
        /\ Rank("post", n) = 2 * MaxTries + 4 /\ Rank("proving", n) = 2 * MaxTries + 5
        /\ Rank("save", n) = 2 * MaxTries + 6 /\ Rank("proofOpen", n) = 2 * MaxTries + 7
        /\ Rank("proof", n) = 2 * MaxTries + 8 /\ Rank("factsOpen", n) = 2 * MaxTries + 9
        /\ Rank("facts", n) = 2 * MaxTries + 10 /\ Rank("messagesOpen", n) = 2 * MaxTries + 11
        /\ Rank("messages", n) = 2 * MaxTries + 12
        /\ Rank("ok", n) = 2 * MaxTries + 13 /\ Rank("failed", n) = 2 * MaxTries + 13
        /\ Rank("crashed", n) = 2 * MaxTries + 13
BY DEF Rank, Ended

\* Before a job has ended it is not at the last rank, and while it polls it has
\* not come to the request.
LEMMA FarTyped ==
    ASSUME TypeInv, NEW j \in Jobs
    PROVE  /\ Far(j) \in 0 .. 2 * MaxTries + 13
           /\ pc[j] \notin Ended => Far(j) < 2 * MaxTries + 13
           /\ pc[j] \in {"poll", "inspect"} => Far(j) < 2 * MaxTries + 4
<1>1. tries[j] \in 0 .. MaxTries /\ MaxTries \in Nat /\ MaxTries > 0
  BY ProverAssumption DEF TypeInv, TypeOK
<1>2. pc[j] \in Places
  BY DEF TypeInv, TypeOK, Places
<1>3. CASE pc[j] \in {"poll", "inspect"}
  <2>1. tries[j] < MaxTries
    BY <1>3 DEF TypeInv, Counts
  <2> QED
    BY <1>1, <1>3, <2>1, Ranks DEF Far
<1>4. CASE pc[j] \notin {"poll", "inspect"}
  BY <1>1, <1>2, <1>4, Ranks DEF Far, Places, Asking, Writing, Artifacts, Ended
<1> QED
  BY <1>3, <1>4

\* A step that ends the job.
LEMMA EndAdvances ==
    ASSUME TypeInv, NEW j \in Jobs, NEW to \in Ended, Go(j, to), Forget(j), pc[j] \notin Ended
    PROVE  Advances(j)
<1>1. /\ pc'[j] = to
      /\ \A k \in Jobs \ {j} : pc'[k] = pc[k] /\ tries'[k] = tries[k]
  BY DEF TypeInv, TypeOK, Go, Forget
<1>2. Far(j)' = 2 * MaxTries + 13
  BY <1>1, Ranks DEF Far, Ended
<1> QED
  BY <1>1, <1>2, FarTyped DEF Advances, Far

\* A step that goes on, with the same count.
LEMMA GoAdvances ==
    ASSUME TypeInv, NEW j \in Jobs, NEW to, Go(j, to), UNCHANGED tries,
           Rank(pc[j], tries[j]) < Rank(to, tries[j])
    PROVE  Advances(j)
<1>1. pc'[j] = to /\ \A k \in Jobs \ {j} : pc'[k] = pc[k]
  BY DEF TypeInv, TypeOK, Go
<1> QED
  BY <1>1 DEF Advances, Far

LEMMA OwnStepsAdvance ==
    ASSUME TypeInv, NEW j \in Jobs, OwnSteps(j)
    PROVE  Advances(j)
<1>0. /\ tries[j] \in 0 .. MaxTries /\ MaxTries \in Nat
      /\ \A k \in Jobs : kind[k] \in {"cli", "script", "remote"}
  BY ProverAssumption DEF TypeInv, TypeOK
<1>1. ASSUME Abort(j), pc[j] \notin Ended PROVE Advances(j)
  BY <1>1, EndAdvances DEF Abort, Ended
<1>2. CASE Start(j) \/ CheckPort(j) \/ Spawn(j) \/ PollRefused(j) \/ Answer(j)
  <2>1. /\ Start(j) => Rank("new", tries[j]) < Rank("load", tries[j])
        /\ CheckPort(j) => Rank("check", tries[j]) < Rank("spawn", tries[j])
        /\ Spawn(j) => Rank("spawn", tries[j]) < Rank("poll", tries[j])
        /\ PollRefused(j) => Rank("poll", tries[j]) < Rank("inspect", tries[j])
        /\ Answer(j) => Rank("proving", tries[j]) < Rank("save", tries[j])
    BY <1>0, Ranks
  <2> QED
    BY <1>2, <2>1, GoAdvances DEF Start, CheckPort, Spawn, PollRefused, Answer
<1>3. CASE Load(j)
  <2>1. PICK to \in {"check", "spawn", "post"} : Go(j, to)
    BY <1>0, <1>3 DEF Load
  <2>2. Rank("load", tries[j]) < Rank(to, tries[j])
    BY <1>0, Ranks
  <2> QED
    BY <1>3, <2>1, <2>2, GoAdvances DEF Load
<1>4. CASE PollAnswered(j)
  <2>1. Rank("poll", tries[j]) < Rank("post", tries[j])
    BY <1>0, <1>4, Ranks, FarTyped DEF Far, PollAnswered
  <2> QED
    BY <1>4, <2>1, GoAdvances DEF PollAnswered
<1>5. CASE Inspect(j)
  <2>1. CASE runner[j] = "dead" /\ Abort(j)
    BY <1>1, <1>5, <2>1 DEF Inspect, Ended
  <2>2. ASSUME tries' = [tries EXCEPT ![j] = @ + 1],
               NEW to \in {"poll", "post"}, Go(j, to)
        PROVE  Advances(j)
    <3>1. /\ pc'[j] = to /\ tries'[j] = tries[j] + 1
          /\ \A k \in Jobs \ {j} : pc'[k] = pc[k] /\ tries'[k] = tries[k]
      BY <2>2 DEF TypeInv, TypeOK, Go
    <3>2. Far(j) = 5 + 2 * tries[j] /\ Far(j) < 2 * MaxTries + 4
      BY <1>5, Ranks, FarTyped DEF Inspect, Far
    <3>3. Far(j)' \in {4 + 2 * (tries[j] + 1), 2 * MaxTries + 4}
      BY <3>1, Ranks DEF Far
    <3>4. Far(j) < Far(j)'
      BY <1>0, <3>2, <3>3
    <3> QED
      BY <3>1, <3>4 DEF Advances, Far
  <2> QED
    BY <1>5, <2>1, <2>2 DEF Inspect
<1>6. CASE Post(j)
  <2>1. Rank("post", tries[j]) < Rank("proving", tries[j])
    BY <1>0, Ranks
  <2>2. CASE Abort(j)
    BY <1>1, <1>6, <2>2 DEF Post, Ended
  <2>3. CASE Go(j, "proving") /\ UNCHANGED tries
    BY <1>6, <2>1, <2>3, GoAdvances DEF Post
  <2> QED
    BY <1>6, <2>2, <2>3 DEF Post
<1>7. CASE PortTaken(j) \/ NoAnswer(j) \/ StepFails(j)
  BY <1>1, <1>7 DEF PortTaken, NoAnswer, StepFails, Ended, Writing, Artifacts
<1>8. CASE Finish(j)
  BY <1>8, EndAdvances DEF Finish, Ended, Artifacts
<1>9. CASE Crash(j)
  BY <1>9, EndAdvances DEF Crash, Active, Asking, Writing, Artifacts, Ended
<1>10. ASSUME NEW f \in Artifacts, Open(j, f) PROVE Advances(j)
  <2>1. Rank(pc[j], tries[j]) < Rank(Opening[f], tries[j])
    <3>1. /\ f = "proof" => pc[j] = "save"
          /\ f = "facts" => pc[j] = "proof"
          /\ f = "messages" => pc[j] \in {"proof", "facts"}
      BY <1>10 DEF Open, IsNext
    <3>2. /\ Opening["proof"] = "proofOpen" /\ Opening["facts"] = "factsOpen"
          /\ Opening["messages"] = "messagesOpen"
      BY DEF Opening
    <3> QED
      BY <1>0, <3>1, <3>2, Ranks DEF Artifacts
  <2> QED
    BY <1>10, <2>1, GoAdvances DEF Open
<1>11. ASSUME NEW f \in Artifacts, Fill(j, f) PROVE Advances(j)
  <2>1. Rank(pc[j], tries[j]) < Rank(f, tries[j])
    BY <1>0, <1>11, Ranks DEF Fill, Opening, Artifacts
  <2> QED
    BY <1>11, <2>1, GoAdvances DEF Fill
<1> QED
  BY <1>2, <1>3, <1>4, <1>5, <1>6, <1>7, <1>8, <1>9, <1>10, <1>11 DEF OwnSteps

\* prove.rs and run-virtual-os.sh (the readiness loop at prove.rs:301): whatever
\* runners and other jobs do, a job is never set back, and each of its own steps
\* takes it further, a poll that finds the port closed included.  Its way has a
\* bound, MaxTries polls and a few steps: what is left of EveryJobEnds is that
\* it is scheduled, and that the poll itself returns.
THEOREM ProverAlwaysGoesOn ==
    Spec => [](\A j \in Jobs : Far(j) \in 0 .. 2 * MaxTries + 13) /\ [][JobsGoOn]_vars
<1>1. TypeInv /\ [Next]_vars => [JobsGoOn]_vars
  <2> SUFFICES ASSUME TypeInv, Next
               PROVE  JobsGoOn
    OBVIOUS
  <2>1. ASSUME NEW j \in Jobs, Work(j) PROVE Far(j) < Far(j)'
    BY <2>1, OwnStepsAdvance DEF Work, OwnSteps, Advances
  <2>2. ASSUME NEW j \in Jobs, Advances(j) PROVE \A k \in Jobs : Far(k) <= Far(k)'
    <3>1. \A k \in Jobs : Far(k) \in Nat
      BY FarTyped, ProverAssumption
    <3>2. Far(j) <= Far(j)'
      <4>1. pc'[j] \in Places /\ tries'[j] \in Nat
        BY NextIsSteps, StepsTyped, ProverAssumption DEF TypeInv, TypeOK, Places
      <4>2. Far(j)' \in Nat
        BY <4>1, Ranks, ProverAssumption DEF Far, Places, Asking, Writing, Artifacts, Ended
      <4> QED
        BY <2>2, <3>1, <4>2 DEF Advances
    <3> QED
      BY <2>2, <3>1, <3>2 DEF Advances
  <2>3. CASE UNCHANGED <<pc, tries>>
    <3>1. \A k \in Jobs : Far(k)' = Far(k) /\ Far(k) \in Nat
      BY <2>3, FarTyped, ProverAssumption DEF Far
    <3> QED
      BY <2>1, <3>1 DEF JobsGoOn
  <2>4. (\E j \in Jobs : OwnSteps(j)) \/ UNCHANGED <<pc, tries>>
    BY NextIsSteps DEF Steps, OwnSteps, Bind, RunnerFails, Pkill
  <2> QED
    BY <2>1, <2>2, <2>3, <2>4, OwnStepsAdvance DEF JobsGoOn
<1>2. TypeInv => \A j \in Jobs : Far(j) \in 0 .. 2 * MaxTries + 13
  BY FarTyped
<1> QED
  BY <1>1, <1>2, TypeInvariant, PTL DEF Spec
=============================================================================
