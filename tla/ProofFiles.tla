----------------------------- MODULE ProofFiles -----------------------------
(***************************************************************************)
(* What a prover job promises about the artifacts it leaves on disk: the   *)
(* proof, then the proof facts, then the L2-to-L1 messages, each written   *)
(* beside the output path it was given.  VirtualOsProver implements this,  *)
(* and PlaygroundSession's requests start jobs that behave so.             *)
(*                                                                         *)
(* A file is Missing, or the set of the jobs whose data it holds: empty    *)
(* when it has been truncated, or written without data.                    *)
(***************************************************************************)
CONSTANTS
    Jobs,    \* runs of `snip36 prove virtual-os` and of run-virtual-os.sh
    Paths,   \* output paths
    Output,  \* Output[j]: the path given to job j
    Absent   \* names a file that is not there

VARIABLES
    phase,   \* phase[j]: how far job j has come
    files    \* files[p][f]: file f beside output path p

vars == <<phase, files>>

Artifacts == {"proof", "facts", "messages"}
Missing == {Absent}
Content == (SUBSET Jobs) \cup {Missing}

Opening == [proof |-> "proofOpen", facts |-> "factsOpen", messages |-> "messagesOpen"]
Written == {"proof", "facts", "messages"}   \* the phase after the file of that name
Before == [proof |-> {"running"}, facts |-> {"proof"}, messages |-> {"proof", "facts"}]
Writing == Written \cup {"proofOpen", "factsOpen", "messagesOpen"}
Phases == {"idle", "running", "ok", "failed"} \cup Writing

Init ==
    /\ phase = [j \in Jobs |-> "idle"]
    /\ files = [p \in Paths |-> [f \in Artifacts |-> Missing]]

Go(j, to) == phase' = [phase EXCEPT ![j] = to]
Put(j, f, content) == files' = [files EXCEPT ![Output[j]][f] = content]

Start(j) == phase[j] = "idle" /\ Go(j, "running") /\ UNCHANGED files

\* The file is created, or truncated.
Open(j, f) == phase[j] \in Before[f] /\ Go(j, Opening[f]) /\ Put(j, f, {})

\* The data is written from the start of the file, over or before what another
\* job has put there since; or there is no data to write.
Fill(j, f) ==
    /\ phase[j] = Opening[f]
    /\ Go(j, f)
    /\ \/ Put(j, f, {j})
       \/ files[Output[j]][f] # Missing /\ Put(j, f, files[Output[j]][f] \cup {j})
       \/ UNCHANGED files

\* Success needs the proof; the other files may have been left as they were.
Succeed(j) == phase[j] \in Written /\ Go(j, "ok") /\ UNCHANGED files

\* A job may fail anywhere, even after its last write.
Fail(j) == phase[j] \in {"running"} \cup Writing /\ Go(j, "failed") /\ UNCHANGED files

Step(j) ==
    \/ Start(j) \/ Succeed(j) \/ Fail(j)
    \/ \E f \in Artifacts : Open(j, f) \/ Fill(j, f)

Next == \E j \in Jobs : Step(j)

Spec == Init /\ [][Next]_vars
=============================================================================
