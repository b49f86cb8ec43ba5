--------------------------- MODULE VirtualOsProver ---------------------------
(***************************************************************************)
(* `snip36 prove virtual-os` (run_virtual_os of                            *)
(* src/crates/snip36-cli/src/commands/prove.rs) and                        *)
(* src/scripts/run-virtual-os.sh, several of them on one machine.  A job   *)
(* starts a runner, waits until something answers on the port, asks it for *)
(* a proof and writes what it answers.  All jobs use the same port, and    *)
(* some the same output path.                                              *)
(***************************************************************************)
EXTENDS Naturals

CONSTANTS
    Jobs,      \* prover jobs, each run once
    Kinds,     \* the kinds of job there may be: "cli", "script", or "remote"
               \* for the CLI with --prover-url
    Paths,     \* output paths
    Output,    \* Output[j]: the path given to job j
    Absent,    \* names a file that is not there
    NoRunner,  \* server of a job that has sent no request
    Cloud,     \* the prover behind --prover-url
    Answers,   \* the sets of artifacts that an answer may bring
    MaxTries,  \* readiness polls (30 in the code)
    MaxFaults  \* bound on failures: see Fault

ASSUME ProverAssumption ==
    /\ Kinds \subseteq [Jobs -> {"cli", "script", "remote"}]
    /\ Output \in [Jobs -> Paths]
    /\ {NoRunner, Cloud, Absent} \cap Jobs = {}
    /\ NoRunner # Cloud
    /\ Answers \subseteq SUBSET {"proof", "facts", "messages"}
    /\ MaxTries \in Nat \ {0}
    /\ MaxFaults \in Nat

VARIABLES
    kind,     \* kind[j]: how job j was started
    pc,       \* pc[j]: where job j is
    runner,   \* runner[j]: the process that job j started
    tries,    \* tries[j]: polls that found the port closed
    server,   \* server[j]: whose runner has the request of j
    result,   \* result[j]: the artifacts in the answer to j
    files,    \* see ProofFiles
    upSince,  \* history: runners that came up since j saw the port free
    met,      \* history: jobs on the path of j that were writing while j was
    faults

history == <<upSince, met>>
vars == <<kind, pc, runner, tries, server, result, files, history, faults>>

Missing == {Absent}
Artifacts == {"proof", "facts", "messages"}
Listening == {"up", "hung"}
PastCheck == {"spawn", "poll", "inspect", "post"}
Asking == {"load", "check", "spawn", "poll", "inspect", "post", "proving", "save"}
Opening == [proof |-> "proofOpen", facts |-> "factsOpen", messages |-> "messagesOpen"]
Writing == Artifacts \cup {"proofOpen", "factsOpen", "messagesOpen"}
Ended == {"ok", "failed", "crashed"}
Active(j) == pc[j] \in Asking \cup Writing

PortFree == \A k \in Jobs : runner[k] \notin Listening
IsServed(j) == server[j] = Cloud \/ (server[j] \in Jobs /\ runner[server[j]] = "up")
IsLost(j) == server[j] \in Jobs /\ runner[server[j]] = "dead"

Init ==
    /\ kind \in Kinds
    /\ pc = [j \in Jobs |-> "new"]
    /\ runner = [j \in Jobs |-> "none"]
    /\ tries = [j \in Jobs |-> 0]
    /\ server = [j \in Jobs |-> NoRunner]
    /\ result = [j \in Jobs |-> {}]
    /\ files = [p \in Paths |-> [f \in Artifacts |-> Missing]]
    /\ upSince = [j \in Jobs |-> {}]
    /\ met = [j \in Jobs |-> {}]
    /\ faults = 0

\* A failure: of a process, an RPC call, the prover, a file write or the machine.
Fault == faults < MaxFaults /\ faults' = faults + 1

Go(j, to) == pc' = [pc EXCEPT ![j] = to]

\* Mutant of Stopped: without kill_on_drop a runner outlives the job that failed.
Stopped_OnSuccess(j) == IF pc[j] \in Artifacts /\ runner[j] # "none" THEN "dead" ELSE runner[j]

\* The runner is killed on every way out: kill_on_drop, or the script's trap.
Stopped(j) == IF runner[j] = "none" THEN "none" ELSE "dead"

\* A job that is over has no request and no local state.
Forget(j) ==
    /\ tries' = [tries EXCEPT ![j] = 0]
    /\ server' = [server EXCEPT ![j] = NoRunner]
    /\ upSince' = [upSince EXCEPT ![j] = {}]

\* The job gives up.
Abort(j) ==
    /\ Go(j, "failed")
    /\ runner' = [runner EXCEPT ![j] = Stopped(j)]
    /\ Forget(j)
    /\ result' = [result EXCEPT ![j] = {}]
    /\ UNCHANGED <<files, met>>

-----------------------------------------------------------------------------
(* Starting the runner. *)

Start(j) ==
    /\ pc[j] = "new"
    /\ Go(j, "load")
    /\ UNCHANGED <<runner, tries, server, result, files, history, faults>>

\* The transaction has been read or fetched.
Load(j) ==
    /\ pc[j] = "load"
    /\ Go(j, CASE kind[j] = "cli" -> "check"
               [] kind[j] = "script" -> "spawn"
               [] kind[j] = "remote" -> "post")
    /\ UNCHANGED <<runner, tries, server, result, files, history, faults>>

\* Mutant of CheckPort: the CLI, like the script, starts without looking.
CheckPort_Skipped(j) ==
    /\ pc[j] = "check"
    /\ Go(j, "spawn") /\ upSince' = [upSince EXCEPT ![j] = {}]
    /\ UNCHANGED <<runner, tries, server, result, files, met, faults>>

\* The CLI refuses to start when something listens on the port.
CheckPort(j) ==
    /\ pc[j] = "check"
    /\ PortFree
    /\ Go(j, "spawn")
    /\ upSince' = [upSince EXCEPT ![j] = {}]
    /\ UNCHANGED <<runner, tries, server, result, files, met, faults>>

PortTaken(j) == pc[j] = "check" /\ ~PortFree /\ Abort(j) /\ UNCHANGED faults

Spawn(j) ==
    /\ pc[j] = "spawn"
    /\ Go(j, "poll")
    /\ runner' = [runner EXCEPT ![j] = "starting"]
    /\ UNCHANGED <<tries, server, result, files, history, faults>>

\* Something answers: the job does not ask whose runner it is.
PollAnswered(j) ==
    /\ pc[j] = "poll"
    /\ \E k \in Jobs : runner[k] = "up"
    /\ Go(j, "post")
    /\ UNCHANGED <<runner, tries, server, result, files, history, faults>>

PollRefused(j) ==
    /\ pc[j] = "poll"
    /\ PortFree
    /\ Go(j, "inspect")
    /\ UNCHANGED <<runner, tries, server, result, files, history, faults>>

\* Mutant of Inspect: the polls are not counted.
Inspect_Forever(j) ==
    /\ pc[j] = "inspect"
    /\ \/ runner[j] = "dead" /\ Abort(j)
       \/ /\ runner[j] # "dead"
          /\ tries' = [tries EXCEPT ![j] = @ + 1]
          /\ Go(j, "poll")
          /\ UNCHANGED <<runner, server, result, files, history>>
    /\ UNCHANGED faults

\* Only now is the process looked at.  After the last poll the job goes on
\* although nothing has answered.
Inspect(j) ==
    /\ pc[j] = "inspect"
    /\ \/ runner[j] = "dead" /\ Abort(j)
       \/ /\ runner[j] # "dead"
          /\ tries' = [tries EXCEPT ![j] = @ + 1]
          /\ Go(j, IF tries[j] + 1 = MaxTries THEN "post" ELSE "poll")
          /\ UNCHANGED <<runner, server, result, files, history>>
    /\ UNCHANGED faults

-----------------------------------------------------------------------------
(* The request. *)

Post(j) ==
    /\ pc[j] = "post"
    /\ \/ /\ kind[j] = "remote" /\ server' = [server EXCEPT ![j] = Cloud]
          /\ Go(j, "proving")
          /\ UNCHANGED <<runner, tries, result, files, history>>
       \/ /\ kind[j] # "remote"
          /\ \E k \in Jobs : /\ runner[k] \in Listening
                             /\ server' = [server EXCEPT ![j] = k]
          /\ Go(j, "proving")
          /\ UNCHANGED <<runner, tries, result, files, history>>
       \/ kind[j] # "remote" /\ PortFree /\ Abort(j)
    /\ UNCHANGED faults

\* The answer has a result, in which any of the artifacts may be missing.
Answer(j) ==
    /\ pc[j] = "proving"
    /\ IsServed(j)
    /\ \E r \in Answers : result' = [result EXCEPT ![j] = r]
    /\ Go(j, "save")
    /\ UNCHANGED <<runner, tries, server, files, history, faults>>

\* Mutant of NoAnswer: the request has no timeout.
NoAnswer_Forever(j) == pc[j] = "proving" /\ IsLost(j) /\ Abort(j) /\ UNCHANGED faults

\* The runner died under the request, or 600 seconds are over.
NoAnswer(j) == pc[j] = "proving" /\ ~IsServed(j) /\ Abort(j) /\ UNCHANGED faults

-----------------------------------------------------------------------------
(* Saving the artifacts. *)

\* Mutant of Wants: the CLI leaves the facts out.
Wants_NoFacts(j, f) ==
    \/ f = "proof"
    \/ kind[j] # "script" /\ f = "messages" /\ f \in result[j]

\* The proof is always written, with nothing in it when the answer has none.
\* The CLI writes the others when it has them; the script writes the facts
\* always, and never messages.
Wants(j, f) ==
    \/ f = "proof"
    \/ kind[j] = "script" /\ f = "facts"
    \/ kind[j] # "script" /\ f \in result[j]

\* Mutant of IsNext: the messages are written before the facts.
IsNext_MessagesFirst(j, f) ==
    /\ Wants(j, f)
    /\ CASE f = "proof" -> pc[j] = "save"
         [] f = "messages" -> pc[j] = "proof"
         [] f = "facts" -> pc[j] = "messages" \/ (pc[j] = "proof" /\ ~Wants(j, "messages"))

\* The next file j has to write.
IsNext(j, f) ==
    /\ Wants(j, f)
    /\ CASE f = "proof" -> pc[j] = "save"
         [] f = "facts" -> pc[j] = "proof"
         [] f = "messages" -> pc[j] = "facts" \/ (pc[j] = "proof" /\ ~Wants(j, "facts"))

Put(j, f, content) == files' = [files EXCEPT ![Output[j]][f] = content]
Rivals(j) == {k \in Jobs \ {j} : Output[k] = Output[j] /\ pc[k] \in Writing}

Open(j, f) ==
    /\ IsNext(j, f)
    /\ Go(j, Opening[f])
    /\ Put(j, f, {})
    /\ met' = [k \in Jobs |-> CASE k = j -> met[j] \cup Rivals(j)
                                [] k \in Rivals(j) -> met[k] \cup {j}
                                [] OTHER -> met[k]]
    /\ UNCHANGED <<runner, tries, server, result, upSince, faults>>

Fill(j, f) ==
    /\ pc[j] = Opening[f]
    /\ Go(j, f)
    /\ IF f \in result[j]
       THEN \/ Put(j, f, {j})
            \/ Put(j, f, files[Output[j]][f] \cup {j})
       ELSE UNCHANGED files
    /\ UNCHANGED <<runner, tries, server, result, history, faults>>

\* The last file is written.  The script's trap fails, and with it the script,
\* when there is no runner of its own left to kill.
Finish(j) ==
    /\ pc[j] \in Artifacts
    /\ \A f \in Artifacts : ~IsNext(j, f)
    /\ Go(j, IF kind[j] = "script" /\ runner[j] = "dead" THEN "failed" ELSE "ok")
    /\ runner' = [runner EXCEPT ![j] = Stopped(j)]
    /\ Forget(j)
    /\ UNCHANGED <<result, files, met, faults>>

-----------------------------------------------------------------------------
(* Failures, and the runners themselves (external). *)

\* A step of the job returns an error.
StepFails(j) ==
    /\ pc[j] \in {"load", "spawn", "proving", "save"} \cup Writing
    /\ Fault
    /\ Abort(j)

\* The job is killed: nothing is cleaned up.
Crash(j) ==
    /\ Active(j)
    /\ Fault
    /\ Go(j, "crashed")
    /\ Forget(j)
    /\ result' = [result EXCEPT ![j] = {}]
    /\ UNCHANGED <<runner, files, met>>

\* A runner that finds the port taken exits.
Bind(j) ==
    /\ runner[j] = "starting"
    /\ runner' = [runner EXCEPT ![j] = IF PortFree THEN "up" ELSE "dead"]
    /\ upSince' = IF PortFree THEN [k \in Jobs |-> IF pc[k] \in PastCheck THEN upSince[k] \cup {j}
                                                                 ELSE upSince[k]]
                              ELSE upSince
    /\ UNCHANGED <<pc, tries, server, result, files, met, faults>>

\* A runner dies, or listens and never answers again.
RunnerFails(j) ==
    /\ \/ runner[j] \in {"starting", "up"} /\ runner' = [runner EXCEPT ![j] = "dead"]
       \/ runner[j] = "up" /\ runner' = [runner EXCEPT ![j] = "hung"]
    /\ Fault
    /\ UNCHANGED <<pc, tries, server, result, files, history>>

\* The operator follows the advice of the port check, and kills every runner.
Pkill ==
    /\ \E j \in Jobs : pc[j] = "crashed" /\ runner[j] \in Listening
    /\ runner' = [j \in Jobs |-> Stopped(j)]
    /\ UNCHANGED <<pc, tries, server, result, files, history, faults>>

-----------------------------------------------------------------------------
Work(j) ==
    \/ Load(j) \/ CheckPort(j) \/ PortTaken(j) \/ Spawn(j) \/ PollAnswered(j)
    \/ PollRefused(j) \/ Inspect(j) \/ Post(j) \/ Answer(j) \/ NoAnswer(j)
    \/ (\E f \in Artifacts : Open(j, f) \/ Fill(j, f)) \/ Finish(j)

Next ==
    /\ \/ \E j \in Jobs : Start(j) \/ Work(j) \/ StepFails(j) \/ Crash(j)
       \/ \E j \in Jobs : Bind(j) \/ RunnerFails(j)
       \/ Pkill
    /\ UNCHANGED kind

Spec == Init /\ [][Next]_vars

\* Processes are scheduled.  Every step of Work is progress and the polls are
\* bounded, so one weak fairness is enough; a runner need not ever come up.
FairSpec == Spec /\ WF_vars((\E j \in Jobs : Work(j)) /\ UNCHANGED kind)

-----------------------------------------------------------------------------
TypeOK ==
    /\ kind \in Kinds
    /\ pc \in [Jobs -> {"new"} \cup Asking \cup Writing \cup Ended]
    /\ runner \in [Jobs -> {"none", "starting", "dead"} \cup Listening]
    /\ tries \in [Jobs -> 0 .. MaxTries]
    /\ server \in [Jobs -> Jobs \cup {NoRunner, Cloud}]
    /\ result \in [Jobs -> SUBSET Artifacts]
    /\ files \in [Paths -> [Artifacts -> (SUBSET Jobs) \cup {Missing}]]
    /\ upSince \in [Jobs -> SUBSET Jobs]
    /\ met \in [Jobs -> SUBSET Jobs]
    /\ faults \in 0 .. MaxFaults

\* prove.rs: no runner outlives a job that succeeds or fails; one is left on the
\* port only by a job that was killed.
RunnersEndWithJobs ==
    \A j \in Jobs : pc[j] \in {"ok", "failed"} => runner[j] \in {"none", "dead"}

\* prove.rs: the CLI never sends its request to a runner that was already
\* listening when it looked.  One that came up since, it cannot tell from its own.
StaleRunnerNeverServes ==
    \A j \in Jobs : kind[j] = "cli" /\ server[j] # NoRunner => server[j] \in upSince[j]

\* The artifacts beside one path belong together: when a job that succeeded
\* was given facts or messages, they are not those of another job unless that
\* one was writing to the same path meanwhile or has written since.
ArtifactsBelongTogether ==
    \A j \in Jobs, f \in {"facts", "messages"} :
        LET at == files[Output[j]]
        IN  /\ pc[j] = "ok"
            /\ at["proof"] = {j}
            /\ f \in result[j] /\ (f = "facts" \/ kind[j] # "script")
            => at[f] = {j} \/ met[j] # {}

\* What the requests of a playground session rely on.
Promise == INSTANCE ProofFiles WITH
    phase <- [j \in Jobs |->
                 CASE pc[j] = "new" -> "idle"
                   [] pc[j] \in Asking -> "running"
                   [] pc[j] = "crashed" -> "failed"
                   [] OTHER -> pc[j]]
ImplementsPromise == Promise!Spec

\* Every job ends, unless the port is held by a runner that never answers the
\* readiness poll, which has no timeout.
EveryJobEnds ==
    <>[](\A j \in Jobs : Active(j) =>
             pc[j] = "poll" /\ \E k \in Jobs : runner[k] = "hung")
=============================================================================
