------------------------- MODULE ProvisioningProofs -------------------------
(***************************************************************************)
(* Proofs about Provisioning for any versions, releases, commands and      *)
(* failures: types, the prover in the runner that a build leaves, the age  *)
(* of the files that .deps-version names, and what a build or a download   *)
(* in which nothing fails repairs.                                         *)
(***************************************************************************)
EXTENDS Provisioning, TLAPS

Places == (RepoSteps \X Repos) \cup {<<s>> : s \in Steps \cup Over}
Commands == [how : {"source", "prebuilt"}, stock : BOOLEAN,
             skip : SUBSET {"prover", "runner"}, version : Versions]
Stamps == [run : 1 .. MaxCommands, version : Versions] \cup {NoStamp}

-----------------------------------------------------------------------------
(* Types.  The low-memory sections do not stack because none is there when   *)
(* the patches are fetched and the section appended.                         *)

Emptied ==
    /\ pc[1] \in {"pins", "append"} => sections = 0
    /\ pc[1] \in RepoSteps /\ pc[2] = "stwo" => sections = 0

TypeInv == TypeOK /\ Emptied

LEMMA StepPlaces ==
    /\ \A s \in Steps \cup Over : <<s>> \in Places /\ <<s>>[1] = s /\ s \notin RepoSteps
    /\ \A s \in RepoSteps, r \in Repos :
           <<s, r>> \in Places /\ <<s, r>>[1] = s /\ <<s, r>>[2] = r
BY DEF Places, Steps, Over, RepoSteps

LEMMA FaultTyped ==
    ASSUME TypeOK, Fault \/ NoFault
    PROVE  faults' \in 0 .. MaxFaults /\ clean' \in BOOLEAN
<1>1. faults \in 0 .. MaxFaults /\ clean \in BOOLEAN
  BY DEF TypeOK
<1>2. faults' \in 0 .. MaxFaults
  BY <1>1, ProvisioningAssumption DEF Fault, NoFault
<1>3. clean' \in BOOLEAN
  BY <1>1 DEF Fault, NoFault
<1> QED
  BY <1>2, <1>3

\* A command in progress has a number.
Counted == n \in Nat /\ (Runs => n > 0)

LEMMA InProgress ==
    ASSUME Source \/ Install \/ Python \/ Verify \/ StepFails
    PROVE  Runs
<1>1. ASSUME NEW s \in (Steps \cup RepoSteps), pc[1] = s PROVE Runs
  BY <1>1 DEF Runs, Steps, RepoSteps, Over
<1>2. ASSUME NEW s \in Steps, At(s) PROVE Runs
  BY <1>1, <1>2, StepPlaces DEF At
<1>3. ASSUME NEW s \in RepoSteps, NEW r \in Repos, AtRepo(s, r) PROVE Runs
  BY <1>1, <1>3, StepPlaces DEF AtRepo
<1>4. CASE StepFails
  BY <1>4 DEF StepFails
<1>5. CASE Source
  <2>1. \/ \E s \in RepoSteps, r \in Repos : AtRepo(s, r)
        \/ \E s \in Steps : At(s)
    BY <1>5 DEF Source, EnsureRepo, AddRemote, Fetch, Checkout, CrashInRepo, RepoSteps, Limits,
                Restore, CheckPins, Append, InstallSierra, BuildProver, CopyProver, BuildRunner,
                CopyBootloader, Steps
  <2> QED
    BY <1>2, <1>3, <2>1
<1>6. CASE Install
  <2>1. \E s \in Steps : At(s)
    BY <1>6 DEF Install, Download, VerifyChecksum, Extract, MoveRunner, CopyRunner, DropTools,
                MoveTools, WriteStamp, FetchRequirements, Steps
  <2> QED
    BY <1>2, <2>1
<1>7. CASE Python \/ Verify
  <2>1. \E s \in Steps : At(s)
    BY <1>7 DEF Python, EnsureVenv, CreateVenv, InstallRequirements, CheckCompile, Verify, Steps
  <2> QED
    BY <1>2, <2>1
<1> QED
  BY <1>4, <1>5, <1>6, <1>7

LEMMA NumberedCommands == Spec => []Counted
<1>1. Init => Counted
  BY DEF Init, Counted, Runs, Over
<1>2. Counted /\ [Next]_vars => Counted'
  <2> SUFFICES ASSUME Counted, [Next]_vars PROVE Counted'
    OBVIOUS
  <2>1. CASE Begin
    BY <2>1 DEF Begin, Counted
  <2>2. CASE (Source \/ Install \/ Python \/ Verify \/ StepFails) /\ Same
    BY <2>2, InProgress DEF Same, Counted
  <2>3. CASE BreakVenv \/ UNCHANGED vars
    BY <2>3 DEF BreakVenv, vars, Counted, Runs
  <2> QED
    BY <2>1, <2>2, <2>3 DEF Next
<1> QED
  BY <1>1, <1>2, PTL DEF Spec

\* A step that moves on and leaves the tree alone.
LEMMA QuietEmptied ==
    ASSUME TypeInv, NEW s \in (Steps \cup Over) \ {"pins", "append"}, Go(s)
    PROVE  pc' \in Places /\ Emptied'
BY StepPlaces DEF Go, Emptied

LEMMA QuietTyped ==
    ASSUME TypeInv, Same, Fault \/ NoFault, UNCHANGED <<repo, pins, sections, reqs, stamp>>,
           edited' \subseteq Tracked, venv' \in {"none", "stale", "fresh", "ready"},
           file' \in [Files -> 0 .. MaxCommands], torn' \subseteq Files,
           linked' \in {"none", "stock", "patched"}, binDir' \in BOOLEAN, pc' \in Places
    PROVE  TypeOK'
<1>1. faults' \in 0 .. MaxFaults /\ clean' \in BOOLEAN
  BY FaultTyped DEF TypeInv
<1> QED
  BY <1>1 DEF TypeInv, TypeOK, Same, history, Places

LEMMA WrittenTyped ==
    ASSUME TypeOK, NEW f \in Files, Written(f) \/ Cut(f)
    PROVE  file' \in [Files -> 0 .. MaxCommands] /\ torn' \subseteq Files
BY DEF TypeOK, Written, Cut

\* A step that changes neither the tree nor a file, and goes on or stops.
LEMMA IdleTyped ==
    ASSUME TypeInv, Same, Fault \/ NoFault, UNCHANGED <<tree, reqs, stack>>,
           venv' \in {"none", "stale", "fresh", "ready"},
           NEW s \in (Steps \cup Over) \ {"pins", "append"}, Go(s)
    PROVE  TypeInv'
<1>1. pc' \in Places /\ Emptied'
  BY QuietEmptied DEF tree
<1>2. TypeOK'
  BY <1>1, QuietTyped DEF tree, stack, TypeInv, TypeOK
<1> QED
  BY <1>1, <1>2 DEF TypeInv

\* The checkouts.
LEMMA RepoStepsTyped ==
    ASSUME TypeInv, Same, NEW r \in Repos,
           EnsureRepo(r) \/ AddRemote(r) \/ Fetch(r) \/ Checkout(r) \/ CrashInRepo(r)
    PROVE  TypeInv'
<1>1. /\ UNCHANGED <<edited, sections, venv, stack>>
      /\ Fault \/ NoFault
  BY DEF EnsureRepo, Cloned, Stop, AddRemote, Fetch, Checkout, CrashInRepo, tree
<1>2. cmd.version \in Versions
  BY DEF TypeInv, TypeOK
<1>3. repo' \in [Repos -> Versions \cup {"none", "bare", "broken", "unborn", "default"}]
  BY <1>2 DEF TypeInv, TypeOK, EnsureRepo, Cloned, AddRemote, Fetch, Checkout, CrashInRepo, tree
<1>4. reqs' \in {"none", "untracked", "torn", "tracked"}
  BY DEF TypeInv, TypeOK, EnsureRepo, Cloned, AddRemote, Fetch, Checkout, CrashInRepo, tree
<1>5. pins' \in BOOLEAN
  <2>1. pins' = TRUE \/ pins' = pins
    BY DEF EnsureRepo, AddRemote, Fetch, Checkout, CrashInRepo, tree
  <2> QED
    BY <2>1 DEF TypeInv, TypeOK
<1>6. pc[1] \in RepoSteps /\ pc[2] = r
  <2>1. \E s \in RepoSteps : pc = <<s, r>>
    BY DEF EnsureRepo, AddRemote, Fetch, Checkout, CrashInRepo, AtRepo, RepoSteps
  <2> QED
    BY <2>1
<1>7. \/ \E s \in RepoSteps : GoRepo(s, r)
      \/ r # "stwo" /\ GoRepo("clone", "sequencer")
      \/ \E s \in {"limits", "failed"} : Go(s)
      \/ r = "stwo" /\ Go("append")
  <2>1. CASE EnsureRepo(r) \/ AddRemote(r)
    BY <2>1 DEF EnsureRepo, Cloned, AddRemote, RepoSteps
  <2>2. CASE Fetch(r) \/ CrashInRepo(r)
    BY <2>2 DEF Fetch, CrashInRepo, Stop, RepoSteps
  <2>3. CASE Checkout(r)
    BY <2>3 DEF Checkout, Stop, RepoSteps, Repos
  <2> QED
    BY <2>1, <2>2, <2>3
<1>8. pc' \in Places /\ Emptied'
  <2>1. CASE \E s \in RepoSteps : GoRepo(s, r)
    <3>1. pc' \in Places /\ pc'[1] \in RepoSteps /\ pc'[2] = r
      BY <2>1, StepPlaces DEF GoRepo
    <3> QED
      BY <3>1, <1>1, <1>6 DEF TypeInv, Emptied, RepoSteps
  <2>2. CASE r # "stwo" /\ GoRepo("clone", "sequencer")
    <3>1. pc' \in Places /\ pc'[1] = "clone" /\ pc'[2] = "sequencer"
      BY <2>2, StepPlaces DEF GoRepo, RepoSteps, Repos
    <3> QED
      BY <3>1 DEF Emptied
  <2>3. CASE \E s \in {"limits", "failed"} : Go(s)
    BY <2>3, QuietEmptied DEF Steps, Over
  <2>4. CASE r = "stwo" /\ Go("append")
    <3>1. pc' \in Places /\ pc'[1] = "append" /\ "append" \notin RepoSteps
      BY <2>4, StepPlaces DEF Go, Steps
    <3> QED
      BY <3>1, <1>1, <1>6, <2>4 DEF TypeInv, Emptied
  <2> QED
    BY <1>7, <2>1, <2>2, <2>3, <2>4
<1>9. faults' \in 0 .. MaxFaults /\ clean' \in BOOLEAN
  BY <1>1, FaultTyped DEF TypeInv
<1> QED
  BY <1>1, <1>3, <1>4, <1>5, <1>8, <1>9 DEF TypeInv, TypeOK, Same, history, stack, Places

\* The sequencer's sources.
LEMMA SourcesTyped ==
    ASSUME TypeInv, Same, Limits \/ Restore \/ CheckPins \/ Append
    PROVE  TypeInv'
<1>1. CASE Limits
  <2>1. edited' \subseteq Tracked
    BY <1>1 DEF Limits, TypeInv, TypeOK, Tracked
  <2>2. pc' \in Places /\ Emptied'
    BY <1>1, QuietEmptied DEF Limits, Steps
  <2> QED
    BY <1>1, <2>1, <2>2, QuietTyped DEF Limits, TypeInv, TypeOK, stack
<1>2. CASE Restore
  <2>1. /\ edited' \subseteq Tracked /\ sections' = 0
        /\ UNCHANGED <<repo, pins, reqs, venv, stack>> /\ NoFault
        /\ \E s \in {"venv", "pins"} : Go(s)
    BY <1>2 DEF Restore, TypeInv, TypeOK
  <2>2. pc' \in Places
    BY <2>1, StepPlaces DEF Go, Steps
  <2>3. faults' \in 0 .. MaxFaults /\ clean' \in BOOLEAN
    BY <2>1, FaultTyped DEF TypeInv
  <2> QED
    BY <2>1, <2>2, <2>3 DEF TypeInv, TypeOK, Emptied, Same, history, stack, Places
<1>3. CASE CheckPins
  <2>1. UNCHANGED <<tree, reqs, venv, stack>> /\ NoFault /\ pc[1] = "pins"
    BY <1>3, StepPlaces DEF CheckPins, At, Steps
  <2>2. GoRepo("clone", "stwo") \/ Go("failed")
    BY <1>3 DEF CheckPins, Stop
  <2>3. pc' \in Places
    BY <2>2, StepPlaces DEF Go, GoRepo, RepoSteps, Repos, Over
  <2>4. sections = 0
    BY <2>1 DEF TypeInv, Emptied
  <2>5. faults' \in 0 .. MaxFaults /\ clean' \in BOOLEAN
    BY <2>1, FaultTyped DEF TypeInv
  <2> QED
    BY <2>1, <2>3, <2>4, <2>5 DEF TypeInv, TypeOK, Emptied, Same, history, stack, tree, Places
<1>4. CASE Append
  <2>1. sections = 0
    BY <1>4, StepPlaces DEF Append, At, Steps, TypeInv, Emptied
  <2>2. /\ edited' \subseteq Tracked /\ sections' \in {0, 1}
        /\ UNCHANGED <<repo, pins, reqs, venv, stack>> /\ (Fault \/ NoFault)
        /\ \E s \in {"venv", "failed"} : Go(s)
    <3>1. edited' \subseteq Tracked
      BY <1>4 DEF Append, TypeInv, TypeOK, Tracked
    <3>2. sections' \in {0, 1}
      BY <1>4, <2>1 DEF Append
    <3> QED
      BY <1>4, <3>1, <3>2 DEF Append, Stop
  <2>3. pc' \in Places /\ Emptied'
    BY <2>2, QuietEmptied DEF Steps, Over
  <2>4. faults' \in 0 .. MaxFaults /\ clean' \in BOOLEAN
    BY <2>2, FaultTyped DEF TypeInv
  <2>5. TypeOK'
    BY <2>2, <2>3, <2>4 DEF TypeInv, TypeOK, Same, history, stack, Places
  <2> QED
    BY <2>3, <2>5 DEF TypeInv
<1> QED
  BY <1>1, <1>2, <1>3, <1>4

\* The builds.
LEMMA BuildsTyped ==
    ASSUME TypeInv, Same,
           InstallSierra \/ BuildProver \/ CopyProver \/ BuildRunner \/ CopyBootloader
    PROVE  TypeInv'
<1>1. file' \in [Files -> 0 .. MaxCommands] /\ torn' \subseteq Files
  <2>1. UNCHANGED <<file, torn>> \/ \E f \in {"tx", "prover", "boot", "tools"} : Written(f) \/ Cut(f)
    <3>1. CASE InstallSierra \/ BuildProver \/ CopyProver
      BY <3>1 DEF InstallSierra, BuildProver, CopyProver
    <3>2. CASE BuildRunner
      BY <3>2 DEF BuildRunner
    <3>3. CASE CopyBootloader
      BY <3>3 DEF CopyBootloader
    <3> QED
      BY <3>1, <3>2, <3>3
  <2> QED
    BY <2>1, WrittenTyped DEF TypeInv, TypeOK, Files, Shipped
<1>2. pc' \in Places /\ pc'[1] \notin {"pins", "append"} \cup RepoSteps
  <2>1. PICK s \in {"buildRunner", "buildProver", "copyProver", "boot", "verify", "failed"} : Go(s)
    BY DEF InstallSierra, BuildProver, CopyProver, BuildRunner, CopyBootloader, Stop
  <2> QED
    BY <2>1, StepPlaces DEF Go, Steps, Over, RepoSteps
<1>3. faults' \in 0 .. MaxFaults /\ clean' \in BOOLEAN
  BY FaultTyped DEF InstallSierra, BuildProver, CopyProver, BuildRunner, CopyBootloader, TypeInv
<1>4. UNCHANGED <<repo, sections, reqs, venv, stamp>>
  BY DEF InstallSierra, BuildProver, CopyProver, BuildRunner, CopyBootloader, tree
<1>5. edited' \subseteq Tracked
  <2>1. edited \subseteq Tracked
    BY DEF TypeInv, TypeOK
  <2>2. CASE BuildRunner
    BY <2>1, <2>2 DEF BuildRunner, Resolve, Tracked
  <2>3. CASE ~BuildRunner
    BY <2>1, <2>3 DEF InstallSierra, BuildProver, CopyProver, CopyBootloader, tree
  <2> QED
    BY <2>2, <2>3
<1>6. pins' \in BOOLEAN
  <2>1. pins' = pins \/ pins' = (sections = 0)
    <3>1. CASE BuildRunner
      BY <3>1, Zenon DEF BuildRunner, Resolve
    <3>2. CASE ~BuildRunner
      BY <3>2 DEF InstallSierra, BuildProver, CopyProver, CopyBootloader, tree
    <3> QED
      BY <3>1, <3>2
  <2> QED
    BY <2>1 DEF TypeInv, TypeOK
<1>7. linked' \in {"none", "stock", "patched"}
  BY DEF InstallSierra, BuildProver, CopyProver, BuildRunner, CopyBootloader, TypeInv, TypeOK
<1>8. binDir' \in BOOLEAN
  <2>1. binDir' = binDir \/ binDir' = TRUE
    BY DEF InstallSierra, BuildProver, CopyProver, BuildRunner, CopyBootloader
  <2> QED
    BY <2>1 DEF TypeInv, TypeOK
<1> QED
  BY <1>1, <1>2, <1>3, <1>4, <1>5, <1>6, <1>7, <1>8
  DEF TypeInv, TypeOK, Emptied, Same, history, Places

\* Names in deps/bin, and what the steps on a downloaded release do to the files.
LEMMA BinNames ==
    /\ DOMAIN Bin = {"tx", "alias", "tools"}
    /\ Bin["tx"] = "bin/tx" /\ Bin["alias"] = "bin/alias" /\ Bin["tools"] = "bin/tools"
    /\ \A f \in DOMAIN Bin : Bin[f] \in Files /\ f \in Files
    /\ \A f \in Files : InBin(f) \in Files
    /\ Shipped \subseteq Files
BY DEF Bin, InBin, Files, Shipped

LEMMA MoveTyped ==
    ASSUME TypeOK, NEW f \in DOMAIN Bin, Move(f)
    PROVE  file' \in [Files -> 0 .. MaxCommands] /\ torn' \subseteq Files
<1>1. Bin[f] \in Files /\ f \in Files
  BY BinNames
<1>2. file[Bin[f]] \in 0 .. MaxCommands /\ 0 \in 0 .. MaxCommands
  BY <1>1, ProvisioningAssumption DEF TypeOK
<1>3. torn' \subseteq Files
  <2>1. CASE Bin[f] \in torn
    BY <1>1, <2>1 DEF Move, TypeOK
  <2>2. CASE Bin[f] \notin torn
    BY <1>1, <2>2 DEF Move, TypeOK
  <2> QED
    BY <2>1, <2>2
<1> QED
  BY <1>1, <1>2, <1>3 DEF Move, TypeOK

LEMMA CopiedTyped ==
    ASSUME TypeOK, NEW f \in Files, NEW g \in Files, Copied(f, g)
    PROVE  file' \in [Files -> 0 .. MaxCommands] /\ torn' \subseteq Files
<1>1. file' = [file EXCEPT ![g] = file[f]]
  BY DEF Copied
<1>2. torn' \in {torn, torn \cup {g}, torn \ {g}}
  BY DEF Copied
<1> QED
  BY <1>1, <1>2 DEF TypeOK

LEMMA ExtractTyped ==
    ASSUME TypeOK, Extract
    PROVE  file' \in [Files -> 0 .. MaxCommands] /\ torn' \subseteq Files
<1>1. Ships[cmd.version] \subseteq Files
  BY ProvisioningAssumption, BinNames DEF TypeOK
<1>2. \A S : Extracted(S) \in [Files -> 0 .. MaxCommands]
  BY DEF Extracted, TypeOK
<1>3. file' \in [Files -> 0 .. MaxCommands]
  BY <1>2 DEF Extract
<1>4. torn' \subseteq Files
  <2>1. CASE torn' = torn \ {InBin(f) : f \in Ships[cmd.version]}
    BY <2>1 DEF TypeOK
  <2>2. CASE \E S \in SUBSET Ships[cmd.version] : \E f \in S :
                 torn' = (torn \ {InBin(g) : g \in S}) \cup {InBin(f)}
    <3>1. PICK S \in SUBSET Ships[cmd.version] : \E f \in S :
              torn' = (torn \ {InBin(g) : g \in S}) \cup {InBin(f)}
      BY <2>2
    <3> PICK f \in S : torn' = (torn \ {InBin(g) : g \in S}) \cup {InBin(f)}
      BY <3>1
    <3>2. InBin(f) \in Files
      BY <1>1, BinNames
    <3> QED
      BY <3>2 DEF TypeOK
  <2> QED
    BY <2>1, <2>2 DEF Extract
<1> QED
  BY <1>3, <1>4

LEMMA InstallTyped ==
    ASSUME TypeInv, Counted, Same, Install
    PROVE  TypeInv'
<1>1. /\ UNCHANGED <<edited, pins, sections, venv, linked>>
      /\ (Fault \/ NoFault)
      /\ binDir' \in BOOLEAN
  <2>1. UNCHANGED <<edited, pins, sections, venv, linked>> /\ (binDir' = binDir \/ binDir' = TRUE)
    BY DEF Install, Download, VerifyChecksum, Extract, MoveRunner, CopyRunner, DropTools,
           MoveTools, WriteStamp, FetchRequirements, tree, stack
  <2>2. Fault \/ NoFault
    BY DEF Install, Download, VerifyChecksum, Extract, MoveRunner, CopyRunner, Copied, DropTools,
           MoveTools, WriteStamp, FetchRequirements
  <2> QED
    BY <2>1, <2>2 DEF TypeInv, TypeOK
<1>2. PICK s \in (Steps \cup Over) \ {"pins", "append"} : Go(s)
  BY DEF Install, Download, VerifyChecksum, Extract, MoveRunner, CopyRunner, Copied, DropTools,
         MoveTools, WriteStamp, FetchRequirements, Stop, Steps, Over
<1>3. pc' \in Places /\ Emptied'
  BY <1>2, QuietEmptied
<1>4. repo' \in [Repos -> Versions \cup {"none", "bare", "broken", "unborn", "default"}]
  <2>1. \/ repo' = repo
        \/ repo' = [repo EXCEPT !["sequencer"] = IF @ = "none" THEN "bare" ELSE @]
    BY DEF Install, Download, VerifyChecksum, Extract, MoveRunner, CopyRunner, DropTools,
           MoveTools, WriteStamp, FetchRequirements, tree
  <2> QED
    BY <2>1 DEF TypeInv, TypeOK
<1>5. reqs' \in {"none", "untracked", "torn", "tracked"}
  BY DEF Install, Download, VerifyChecksum, Extract, MoveRunner, CopyRunner, DropTools,
         MoveTools, WriteStamp, FetchRequirements, TypeInv, TypeOK
<1>6. stamp' \in Stamps
  <2>1. CASE WriteStamp /\ stamp' # NoStamp
    <3>1. stamp' = [run |-> n, version |-> cmd.version]
      BY <2>1 DEF WriteStamp
    <3>2. n \in 1 .. MaxCommands
      BY <2>1, InProgress DEF Counted, TypeInv, TypeOK
    <3> QED
      BY <3>1, <3>2 DEF TypeInv, TypeOK, Stamps
  <2>2. CASE ~(WriteStamp /\ stamp' # NoStamp)
    BY <2>2 DEF Install, Download, VerifyChecksum, Extract, MoveRunner, CopyRunner, DropTools,
                MoveTools, WriteStamp, FetchRequirements, stack, TypeInv, TypeOK, Stamps
  <2> QED
    BY <2>1, <2>2
<1>7. file' \in [Files -> 0 .. MaxCommands] /\ torn' \subseteq Files
  <2>1. CASE UNCHANGED <<file, torn>>
    BY <2>1 DEF TypeInv, TypeOK
  <2>2. CASE Extract
    BY <2>2, ExtractTyped DEF TypeInv
  <2>3. CASE \E f \in DOMAIN Bin : Move(f)
    BY <2>3, MoveTyped DEF TypeInv
  <2>4. CASE Copied("tx", "alias") \/ Copied("alias", "tx")
    BY <2>4, CopiedTyped, BinNames DEF TypeInv
  <2>5. CASE DropTools
    BY <2>5, ProvisioningAssumption DEF DropTools, TypeInv, TypeOK, Files
  <2>6. \/ UNCHANGED <<file, torn>> \/ Extract \/ DropTools
        \/ \E f \in {"tx", "alias", "tools"} : Move(f)
        \/ Copied("tx", "alias") \/ Copied("alias", "tx")
    BY DEF Install, Download, VerifyChecksum, MoveRunner, CopyRunner,
           MoveTools, WriteStamp, FetchRequirements, stack
  <2> QED
    BY <2>1, <2>2, <2>3, <2>4, <2>5, <2>6, BinNames
<1>8. faults' \in 0 .. MaxFaults /\ clean' \in BOOLEAN
  BY <1>1, FaultTyped DEF TypeInv
<1> QED
  BY <1>1, <1>3, <1>4, <1>5, <1>6, <1>7, <1>8
  DEF TypeInv, TypeOK, Same, history, Places, Stamps

\* The Python environment, the last check, and a step that fails by itself.
LEMMA PythonTyped ==
    ASSUME TypeInv, Same, Python \/ Verify \/ StepFails
    PROVE  TypeInv'
<1>1. UNCHANGED <<tree, reqs, stack>> /\ (Fault \/ NoFault)
  BY DEF Python, EnsureVenv, CreateVenv, InstallRequirements, CheckCompile, Verify, StepFails
<1>2. venv' \in {"none", "stale", "fresh", "ready"}
  BY DEF Python, EnsureVenv, CreateVenv, InstallRequirements, CheckCompile, Verify, StepFails,
         TypeInv, TypeOK
<1>3. PICK s \in {"pip", "create", "compile", "verify", "sierra", "failed", "ok"} : Go(s)
  BY DEF Python, EnsureVenv, CreateVenv, InstallRequirements, CheckCompile, Verify, StepFails, Stop
<1> QED
  BY <1>1, <1>2, <1>3, IdleTyped DEF Steps, Over

LEMMA BeginTyped ==
    ASSUME TypeInv, Begin
    PROVE  TypeInv'
<1>1. PICK q \in Requests, v \in Versions :
          cmd' = [how |-> q.how, stock |-> q.stock, skip |-> q.skip, version |-> v]
  BY DEF Begin
<1>2. cmd' \in Commands
  BY <1>1, ProvisioningAssumption DEF Commands
<1>3. again' \in BOOLEAN /\ expected' \in BOOLEAN /\ clean' \in BOOLEAN
  BY DEF Begin, Unobstructed
<1>4. n' \in 0 .. MaxCommands
  BY ProvisioningAssumption DEF Begin, TypeInv, TypeOK
<1>5. pc' \in Places /\ Emptied'
  <2>1. CASE Go("download")
    BY <2>1, QuietEmptied DEF Steps
  <2>2. CASE GoRepo("clone", "provingUtils")
    <3>1. pc' \in Places /\ pc'[1] = "clone" /\ pc'[2] = "provingUtils"
      BY <2>2, StepPlaces DEF GoRepo, RepoSteps, Repos
    <3> QED
      BY <3>1 DEF Emptied
  <2> QED
    BY <2>1, <2>2 DEF Begin
<1> QED
  BY <1>2, <1>3, <1>4, <1>5 DEF Begin, TypeInv, TypeOK, tree, stack, Commands, Places

LEMMA TypeInvariant == Spec => []TypeInv
<1>1. Init => TypeInv
  <2> SUFFICES ASSUME Init PROVE TypeInv
    OBVIOUS
  <2>1. cmd \in Commands
    <3>1. PICK v \in Versions : cmd = [how |-> "source", stock |-> FALSE, skip |-> {}, version |-> v]
      BY DEF Init
    <3>2. {} \in SUBSET {"prover", "runner"}
      OBVIOUS
    <3> QED
      BY <3>1, <3>2 DEF Commands
  <2>2. pc \in Places /\ Emptied
    <3>1. pc = <<"ok">> /\ "ok" \in Steps \cup Over
      BY DEF Init, Over
    <3>2. pc \in Places /\ pc[1] = "ok"
      BY <3>1, StepPlaces
    <3> QED
      BY <3>2 DEF Emptied, RepoSteps
  <2>3. 0 \in 0 .. MaxCommands /\ 0 \in 0 .. MaxFaults
    BY ProvisioningAssumption
  <2> QED
    BY <2>1, <2>2, <2>3 DEF Init, TypeInv, TypeOK, Commands, Places, Tracked
<1>2. TypeInv /\ Counted /\ [Next]_vars => TypeInv'
  <2> SUFFICES ASSUME TypeInv, Counted, [Next]_vars PROVE TypeInv'
    OBVIOUS
  <2>1. CASE Source /\ Same
    BY <2>1, RepoStepsTyped, SourcesTyped, BuildsTyped DEF Source
  <2>2. CASE (Install \/ Python \/ Verify \/ StepFails) /\ Same
    BY <2>2, InstallTyped, PythonTyped
  <2>3. CASE Begin
    BY <2>3, BeginTyped
  <2>4. CASE BreakVenv
    BY <2>4 DEF BreakVenv, TypeInv, TypeOK, Emptied, tree, stack, history
  <2>5. CASE UNCHANGED vars
    BY <2>5 DEF vars, TypeInv, TypeOK, Emptied, tree, stack, history
  <2> QED
    BY <2>1, <2>2, <2>3, <2>4, <2>5 DEF Next
<1> QED
  BY <1>1, <1>2, NumberedCommands, PTL DEF Spec

\* setup.rs: however commands are cut short and repeated, the state is one that
\* the steps know, with at most one low-memory section in the manifest.
THEOREM ProvisioningTypeCorrect == Spec => []TypeOK
<1>1. TypeInv => TypeOK
  BY DEF TypeInv
<1> QED
  BY <1>1, TypeInvariant, PTL

-----------------------------------------------------------------------------
(* The runner of a build has the prover that its flags ask for: the manifest *)
(* has the section from Append on, or has not, and no step in between changes *)
(* that or serves the other kind of command.                                 *)

SourceSteps == RepoSteps \cup {"limits", "restore", "pins", "append", "sierra",
                               "buildProver", "copyProver", "buildRunner", "boot"}
InstallSteps == {"download", "checksum", "extract", "moveTx", "moveAlias", "copyRunner",
                 "dropTools", "moveTools", "stamp", "reqs"}

Ways ==
    /\ pc[1] \in SourceSteps => ~Prebuilt
    /\ pc[1] \in InstallSteps => Prebuilt
Patching ==
    /\ pc[1] \in {"pins", "append"} => ~cmd.stock
    /\ pc[1] \in RepoSteps /\ pc[2] = "stwo" => ~cmd.stock
Sectioned ==
    /\ pc[1] \in {"venv", "create", "pip", "compile", "sierra",
                  "buildProver", "copyProver", "buildRunner"}
    /\ ~Prebuilt
    => sections = IF cmd.stock THEN 0 ELSE 1
Built ==
    /\ pc[1] \in {"boot", "verify", "ok"} /\ n > 0
    /\ ~Prebuilt /\ "runner" \notin cmd.skip
    => file["tx"] = n /\ linked = IF cmd.stock THEN "stock" ELSE "patched"

RunnerInv == Ways /\ Patching /\ Sectioned /\ Built

LEMMA Names ==
    /\ \A s : (Go(s) => pc'[1] = s) /\ (At(s) => pc[1] = s)
    /\ \A s, r : /\ GoRepo(s, r) => pc'[1] = s /\ pc'[2] = r
                 /\ AtRepo(s, r) => pc[1] = s /\ pc[2] = r
BY DEF Go, At, GoRepo, AtRepo

LEMMA RepoStepsKeepRunner ==
    ASSUME TypeInv, RunnerInv, Same, NEW r \in Repos,
           EnsureRepo(r) \/ AddRemote(r) \/ Fetch(r) \/ Checkout(r) \/ CrashInRepo(r)
    PROVE  RunnerInv'
<1>1. pc[1] \in RepoSteps /\ pc[2] = r
  <2>1. \E s \in RepoSteps : AtRepo(s, r)
    BY DEF EnsureRepo, AddRemote, Fetch, Checkout, CrashInRepo, RepoSteps
  <2> QED
    BY <2>1, Names
<1>2. UNCHANGED <<cmd, n, sections>>
  BY DEF Same, EnsureRepo, AddRemote, Fetch, Checkout, CrashInRepo, tree
<1>3. \/ \E s \in RepoSteps : GoRepo(s, r)
      \/ r # "stwo" /\ GoRepo("clone", "sequencer")
      \/ r # "stwo" /\ Go("limits")
      \/ Go("failed")
      \/ r = "stwo" /\ Go("append")
  <2>1. CASE EnsureRepo(r) \/ AddRemote(r)
    BY <2>1 DEF EnsureRepo, Cloned, AddRemote, RepoSteps
  <2>2. CASE Fetch(r) \/ CrashInRepo(r)
    BY <2>2 DEF Fetch, CrashInRepo, Stop, RepoSteps
  <2>3. CASE Checkout(r)
    BY <2>3 DEF Checkout, Stop, Repos
  <2> QED
    BY <2>1, <2>2, <2>3
<1>4. \/ pc'[1] \in RepoSteps /\ (pc'[2] = "stwo" => r = "stwo")
      \/ pc'[1] \in {"limits", "failed"}
      \/ pc'[1] = "append" /\ r = "stwo"
  BY <1>3, Names DEF RepoSteps
<1>5. Ways' /\ Patching'
  BY <1>1, <1>2, <1>4
  DEF RunnerInv, Ways, Patching, Prebuilt, SourceSteps, InstallSteps, RepoSteps
<1>6. Sectioned' /\ Built'
  BY <1>4 DEF Sectioned, Built, RepoSteps
<1> QED
  BY <1>5, <1>6 DEF RunnerInv

LEMMA SourcesKeepRunner ==
    ASSUME TypeInv, RunnerInv, Same, Limits \/ Restore \/ CheckPins \/ Append
    PROVE  RunnerInv'
<1>1. UNCHANGED <<cmd, n>> /\ ~Prebuilt
  <2>1. pc[1] \in SourceSteps
    BY Names DEF Limits, Restore, CheckPins, Append, SourceSteps
  <2> QED
    BY <2>1 DEF Same, RunnerInv, Ways
<1>2. \/ pc'[1] \in {"restore", "failed"}
      \/ pc'[1] = "pins" /\ ~cmd.stock
      \/ pc'[1] = "clone" /\ ~cmd.stock
      \/ pc'[1] = "venv" /\ sections' = IF cmd.stock THEN 0 ELSE 1
  <2>1. CASE Limits
    BY <2>1, Names DEF Limits
  <2>2. CASE Restore
    BY <2>2, Names DEF Restore, TypeInv, TypeOK
  <2>3. CASE CheckPins
    BY <2>3, Names DEF CheckPins, Stop, RunnerInv, Patching
  <2>4. CASE Append
    BY <2>4, Names DEF Append, Stop, RunnerInv, Patching, TypeInv, Emptied
  <2> QED
    BY <2>1, <2>2, <2>3, <2>4
<1>3. Ways' /\ Patching'
  BY <1>1, <1>2 DEF Ways, Patching, Prebuilt, SourceSteps, InstallSteps, RepoSteps
<1>4. Sectioned' /\ Built'
  BY <1>1, <1>2 DEF Sectioned, Built
<1> QED
  BY <1>3, <1>4 DEF RunnerInv

LEMMA BuildsKeepRunner ==
    ASSUME TypeInv, RunnerInv, Same,
           InstallSierra \/ BuildProver \/ CopyProver \/ BuildRunner \/ CopyBootloader
    PROVE  RunnerInv'
<1>1. UNCHANGED <<cmd, n, sections>> /\ ~Prebuilt
  <2>1. pc[1] \in SourceSteps
    BY Names DEF InstallSierra, BuildProver, CopyProver, BuildRunner, CopyBootloader, SourceSteps
  <2> QED
    BY <2>1 DEF Same, RunnerInv, Ways, InstallSierra, BuildProver, CopyProver, BuildRunner,
                CopyBootloader, tree
<1>2. pc'[1] \in {"buildRunner", "buildProver", "copyProver", "boot", "verify", "failed"}
  BY Names DEF InstallSierra, BuildProver, CopyProver, BuildRunner, CopyBootloader, Stop
<1>3. Ways' /\ Patching'
  BY <1>1, <1>2 DEF Ways, Patching, Prebuilt, SourceSteps, InstallSteps, RepoSteps
<1>4. Sectioned'
  <2>1. pc'[1] \in {"buildRunner", "buildProver", "copyProver"} =>
            pc[1] \in {"sierra", "buildProver", "copyProver"}
    BY Names DEF InstallSierra, BuildProver, CopyProver, BuildRunner, CopyBootloader, Stop
  <2> QED
    BY <1>1, <1>2, <2>1 DEF RunnerInv, Sectioned, Prebuilt
<1>5. Built'
  <2>1. CASE BuildRunner
    <3>1. CASE "runner" \in cmd.skip
      BY <1>1, <3>1 DEF Built
    <3>2. CASE Go("boot") /\ Written("tx") /\ linked' = IF sections = 0 THEN "stock" ELSE "patched"
      <4>1. sections = IF cmd.stock THEN 0 ELSE 1
        BY <1>1, <2>1, Names DEF BuildRunner, RunnerInv, Sectioned
      <4>2. file'["tx"] = n
        BY <3>2 DEF Written, TypeInv, TypeOK, Files, Shipped
      <4> QED
        BY <1>1, <3>2, <4>1, <4>2 DEF Built
    <3>3. CASE Stop
      BY <3>3, Names DEF Stop, Built
    <3> QED
      BY <2>1, <3>1, <3>2, <3>3 DEF BuildRunner
  <2>2. CASE CopyBootloader
    <3>1. pc[1] = "boot" /\ UNCHANGED linked
      BY <2>2, Names DEF CopyBootloader
    <3>2. file'["tx"] = file["tx"]
      BY <2>2 DEF CopyBootloader, Written, Cut, TypeInv, TypeOK, Files, Shipped
    <3> QED
      BY <1>1, <3>1, <3>2 DEF RunnerInv, Built, Prebuilt
  <2>3. CASE InstallSierra \/ BuildProver \/ CopyProver
    <3>1. pc'[1] \in {"buildRunner", "buildProver", "copyProver", "failed"}
      BY <2>3, Names DEF InstallSierra, BuildProver, CopyProver, Stop
    <3> QED
      BY <3>1 DEF Built
  <2> QED
    BY <2>1, <2>2, <2>3
<1> QED
  BY <1>3, <1>4, <1>5 DEF RunnerInv

LEMMA OthersKeepRunner ==
    ASSUME TypeInv, RunnerInv, Same, Install \/ Python \/ Verify \/ StepFails
    PROVE  RunnerInv'
<1>1. UNCHANGED <<cmd, n>>
  BY DEF Same
<1>2. CASE Install
  <2>1. pc[1] \in InstallSteps
    BY <1>2, Names DEF Install, Download, VerifyChecksum, Extract, MoveRunner, CopyRunner, DropTools,
                       MoveTools, WriteStamp, FetchRequirements, InstallSteps
  <2>2. pc'[1] \in InstallSteps \cup {"venv", "failed"}
    BY <1>2, Names DEF Install, Download, VerifyChecksum, Extract, MoveRunner, CopyRunner, Copied,
                       DropTools, MoveTools, WriteStamp, FetchRequirements, Stop, InstallSteps
  <2>3. Prebuilt /\ Prebuilt'
    BY <1>1, <2>1 DEF RunnerInv, Ways, Prebuilt
  <2> QED
    BY <2>2, <2>3
    DEF RunnerInv, Ways, Patching, Sectioned, Built, SourceSteps, InstallSteps, RepoSteps
<1>3. CASE Python
  <2>1. /\ pc[1] \in {"venv", "create", "pip", "compile"}
        /\ pc'[1] \in {"create", "pip", "compile", "verify", "sierra", "failed"}
        /\ pc'[1] = "verify" => Prebuilt
        /\ pc'[1] = "sierra" => ~Prebuilt
        /\ UNCHANGED sections
    BY <1>3, Names DEF Python, EnsureVenv, CreateVenv, InstallRequirements, CheckCompile, Stop, tree
  <2>2. Ways' /\ Patching'
    BY <1>1, <2>1 DEF Ways, Patching, Prebuilt, SourceSteps, InstallSteps, RepoSteps
  <2>3. Sectioned' /\ Built'
    BY <1>1, <2>1 DEF RunnerInv, Sectioned, Built, Prebuilt
  <2> QED
    BY <2>2, <2>3 DEF RunnerInv
<1>4. CASE Verify \/ StepFails
  <2>1. /\ pc'[1] \in {"ok", "failed"}
        /\ pc'[1] = "ok" => pc[1] = "verify"
        /\ UNCHANGED <<file, linked>>
    BY <1>4, Names DEF Verify, StepFails, Stop, stack
  <2>2. Ways' /\ Patching' /\ Sectioned'
    BY <2>1 DEF Ways, Patching, Sectioned, SourceSteps, InstallSteps, RepoSteps
  <2>3. Built'
    BY <1>1, <2>1 DEF RunnerInv, Built, Prebuilt
  <2> QED
    BY <2>2, <2>3 DEF RunnerInv
<1> QED
  BY <1>2, <1>3, <1>4

LEMMA RunnerInvariant == Spec => []RunnerInv
<1>1. Init => RunnerInv
  <2> SUFFICES ASSUME Init PROVE RunnerInv
    OBVIOUS
  <2>1. pc[1] = "ok" /\ n = 0
    BY DEF Init
  <2> QED
    BY <2>1 DEF RunnerInv, Ways, Patching, Sectioned, Built, SourceSteps, InstallSteps, RepoSteps
<1>2. TypeInv /\ RunnerInv /\ [Next]_vars => RunnerInv'
  <2> SUFFICES ASSUME TypeInv, RunnerInv, [Next]_vars PROVE RunnerInv'
    OBVIOUS
  <2>1. CASE Source /\ Same
    BY <2>1, RepoStepsKeepRunner, SourcesKeepRunner, BuildsKeepRunner DEF Source
  <2>2. CASE (Install \/ Python \/ Verify \/ StepFails) /\ Same
    BY <2>2, OthersKeepRunner
  <2>3. CASE Begin
    <3>1. \/ pc'[1] = "download" /\ cmd'.how = "prebuilt"
          \/ pc'[1] = "clone" /\ pc'[2] = "provingUtils" /\ cmd'.how # "prebuilt"
      BY <2>3, Names DEF Begin
    <3> QED
      BY <3>1 DEF RunnerInv, Ways, Patching, Sectioned, Built, Prebuilt, SourceSteps, InstallSteps,
                  RepoSteps
  <2>4. CASE BreakVenv \/ UNCHANGED vars
    <3>1. UNCHANGED <<cmd, n, pc, sections, file, linked>>
      BY <2>4 DEF BreakVenv, vars, tree, stack
    <3> QED
      BY <3>1 DEF RunnerInv, Ways, Patching, Sectioned, Built, Prebuilt
  <2> QED
    BY <2>1, <2>2, <2>3, <2>4 DEF Next
<1> QED
  BY <1>1, <1>2, TypeInvariant, PTL DEF Spec

\* setup.rs: whatever was set up before, with whichever prover, and wherever it
\* was cut short, a build leaves the runner with the prover it was asked for.
THEOREM BuildsAsAsked == Spec => []RunnerAsAsked
<1>1. RunnerInv => RunnerAsAsked
  BY DEF RunnerInv, Built, RunnerAsAsked
<1> QED
  BY <1>1, RunnerInvariant, PTL

-----------------------------------------------------------------------------
(* The age of the files.  Between Extract and WriteStamp a file that ships is *)
(* this command's own, in deps/bin or already in its place; a copy under the  *)
(* other name, which may be old, is made only of a runner that does not ship. *)

MovedAt(f) ==
    CASE f = "tx" -> {"moveAlias", "copyRunner", "dropTools", "moveTools", "stamp"}
      [] f = "alias" -> {"copyRunner", "dropTools", "moveTools", "stamp"}
      [] f = "tools" -> {"stamp"}
Unpacked == {"moveTx", "moveAlias", "copyRunner", "dropTools", "moveTools", "stamp"}

\* Where command c, at step s, has put what its release ships.
Placed(c, s) ==
    /\ \A f \in DOMAIN Bin : s \in MovedAt(f) =>
           file[Bin[f]] = 0 /\ (f \in Ships[c.version] => file[f] = n)
    /\ \A f \in DOMAIN Bin : s \in Unpacked \ MovedAt(f) =>
           (f \in Ships[c.version] => file[Bin[f]] = n)
    /\ \A f \in {"prover", "boot"} : s \in Unpacked =>
           (f \in Ships[c.version] => file[f] = n)

\* Only the tools may be missing, and what waits in deps/bin is as young.
NoOlder ==
    stamp # NoStamp =>
        /\ stamp.run <= n
        /\ \A f \in Ships[stamp.version] :
               file[f] >= stamp.run \/ (f = "tools" /\ file[f] = 0)
        /\ \A f \in DOMAIN Bin : file[Bin[f]] = 0 \/ file[Bin[f]] >= stamp.run

AgeInv == Placed(cmd, pc[1]) /\ NoOlder

LEMMA MoveValues ==
    ASSUME TypeOK, NEW f \in DOMAIN Bin, Move(f)
    PROVE  /\ file'[f] = file[Bin[f]] /\ file'[Bin[f]] = 0
           /\ \A g \in Files \ {f, Bin[f]} : file'[g] = file[g]
<1>1. Bin[f] \in Files /\ f \in Files /\ f # Bin[f]
  BY DEF Bin, Files, Shipped
<1>2. file' = [file EXCEPT ![f] = file[Bin[f]], ![Bin[f]] = 0]
  BY DEF Move
<1> QED
  BY <1>1, <1>2 DEF TypeOK

\* What a stamp says, and what the files are.
LEMMA AgeTypes ==
    ASSUME TypeInv, Counted
    PROVE  /\ n \in Nat
           /\ \A f \in Files : file[f] \in Nat
           /\ stamp # NoStamp => stamp.run \in Nat /\ stamp.run > 0 /\ stamp.version \in Versions
           /\ cmd.version \in Versions
           /\ \A v \in Versions : Ships[v] \subseteq Shipped
BY ProvisioningAssumption DEF TypeInv, TypeOK, Counted

\* A step outside the unpacking that writes files of this command, if any.
LEMMA YoungerFiles ==
    ASSUME TypeInv, Counted, AgeInv, UNCHANGED <<stamp, n>>, pc'[1] \notin Unpacked,
           \A f \in Files : file'[f] = file[f] \/ file'[f] = n
    PROVE  AgeInv'
<1>1. \A f \in DOMAIN Bin : f \in Files /\ Bin[f] \in Files
  BY BinNames
<1>2. NoOlder'
  BY <1>1, AgeTypes DEF AgeInv, NoOlder, Files
<1>3. Placed(cmd, pc[1])'
  BY DEF Placed, MovedAt, Unpacked, Bin
<1> QED
  BY <1>2, <1>3 DEF AgeInv

LEMMA ExtractKeepsAge ==
    ASSUME TypeInv, Counted, AgeInv, Same, Extract
    PROVE  AgeInv'
<1>1. UNCHANGED <<stamp, n, cmd>>
  BY DEF Extract, Same
<1>2. \A S, g : g \in Files => Extracted(S)[g] = IF \E f \in S : InBin(f) = g THEN n ELSE file[g]
  BY DEF Extracted
<1>3. \A g \in Files : file'[g] = file[g] \/ file'[g] = n
  BY <1>2 DEF Extract
<1>4. CASE Stop
  <2>1. pc'[1] = "failed"
    BY <1>4, Names DEF Stop
  <2> QED
    BY <1>1, <1>3, <2>1, YoungerFiles DEF Unpacked
<1>5. CASE Go("moveTx") /\ file' = Extracted(Ships[cmd.version])
  <2>1. pc'[1] = "moveTx"
    BY <1>5, Names
  <2>2. \A f \in Ships[cmd.version] : InBin(f) \in Files
    BY AgeTypes, BinNames
  <2>3. \A f \in Ships[cmd.version] : file'[InBin(f)] = n
    BY <1>2, <1>5, <2>2
  <2>4. Placed(cmd, pc[1])'
    BY <1>1, <2>1, <2>3 DEF Placed, MovedAt, Bin, InBin
  <2>5. NoOlder'
    BY <1>1, <1>3, AgeTypes, BinNames DEF AgeInv, NoOlder
  <2> QED
    BY <2>4, <2>5 DEF AgeInv
<1> QED
  BY <1>4, <1>5 DEF Extract

\* A file that leaves deps/bin is as young where it goes.
LEMMA MoveKeepsAge ==
    ASSUME TypeInv, Counted, AgeInv, UNCHANGED <<stamp, n>>, NEW f \in DOMAIN Bin, Move(f),
           file[Bin[f]] # 0 \/ f = "tools"
    PROVE  NoOlder'
<1>1. /\ file'[f] = file[Bin[f]] /\ file'[Bin[f]] = 0
      /\ \A g \in Files \ {f, Bin[f]} : file'[g] = file[g]
  BY MoveValues DEF TypeInv
<1>2. SUFFICES ASSUME stamp # NoStamp PROVE NoOlder'
  BY DEF NoOlder
<1>3. ASSUME NEW g \in Ships[stamp.version]
      PROVE  file'[g] >= stamp.run \/ (g = "tools" /\ file'[g] = 0)
  <2>1. g \in Files /\ g # Bin[f]
    BY <1>2, AgeTypes DEF Bin, Files, Shipped
  <2> QED
    BY <1>1, <1>2, <2>1 DEF AgeInv, NoOlder
<1>4. ASSUME NEW g \in DOMAIN Bin
      PROVE  file'[Bin[g]] = 0 \/ file'[Bin[g]] >= stamp.run
  <2>1. Bin[g] \in Files /\ Bin[g] # f
    BY DEF Bin, Files, Shipped
  <2> QED
    BY <1>1, <1>2, <2>1 DEF AgeInv, NoOlder
<1> QED
  BY <1>2, <1>3, <1>4 DEF AgeInv, NoOlder

LEMMA MoveRunnerKeepsAge ==
    ASSUME TypeInv, Counted, AgeInv, Same, NEW f, NEW step, NEW next, MoveRunner(f, step, next),
           \/ f = "tx" /\ step = "moveTx" /\ next = "moveAlias"
           \/ f = "alias" /\ step = "moveAlias" /\ next = "copyRunner"
    PROVE  AgeInv'
<1>1. UNCHANGED <<stamp, n, cmd>> /\ pc[1] = step /\ pc'[1] = next
  BY Names DEF MoveRunner, Same
<1>2. f \in DOMAIN Bin
  BY BinNames
<1>3. /\ file'[Bin[f]] = 0
      /\ file[Bin[f]] # 0 => file'[f] = file[Bin[f]]
      /\ \A g \in Files \ {f, Bin[f]} : file'[g] = file[g]
  <2>1. CASE file[Bin[f]] # 0
    BY <1>2, <2>1, MoveValues DEF MoveRunner, TypeInv
  <2>2. CASE file[Bin[f]] = 0
    BY <1>2, <2>2 DEF MoveRunner
  <2> QED
    BY <2>1, <2>2
<1>4. NoOlder'
  <2>1. CASE file[Bin[f]] # 0
    BY <1>1, <1>2, <2>1, MoveKeepsAge DEF MoveRunner
  <2>2. CASE file[Bin[f]] = 0
    BY <1>1, <2>2 DEF MoveRunner, AgeInv, NoOlder
  <2> QED
    BY <2>1, <2>2
<1>5. n > 0
  BY <1>1 DEF Counted, Runs, Over
<1>6. Placed(cmd, next)'
  <2>1. f \in Ships[cmd.version] => file'[f] = n
    BY <1>1, <1>2, <1>3, <1>5 DEF AgeInv, Placed, MovedAt, Unpacked
  <2>2. CASE f = "tx"
    BY <1>1, <1>3, <2>1, <2>2 DEF AgeInv, Placed, MovedAt, Unpacked, Bin, Files, Shipped
  <2>3. CASE f = "alias"
    BY <1>1, <1>3, <2>1, <2>3 DEF AgeInv, Placed, MovedAt, Unpacked, Bin, Files, Shipped
  <2> QED
    BY <2>2, <2>3
<1> QED
  BY <1>1, <1>4, <1>6 DEF AgeInv

\* Under the other name only what does not ship is replaced.
LEMMA CopyRunnerKeepsAge ==
    ASSUME TypeInv, Counted, AgeInv, Same, CopyRunner
    PROVE  AgeInv'
<1>1. UNCHANGED <<stamp, n, cmd>> /\ pc[1] = "copyRunner" /\ pc'[1] \in {"dropTools", "failed"}
  BY Names DEF CopyRunner, Copied, Stop, Same
<1>2. n > 0
  BY <1>1 DEF Counted, Runs, Over
<1>3. \/ file' = file
      \/ \E f, g \in {"tx", "alias"} :
             file[f] # 0 /\ file[g] = 0 /\ file' = [file EXCEPT ![g] = file[f]]
  BY DEF CopyRunner, Copied
<1>4. \A g \in Files : file'[g] # file[g] => g \in {"tx", "alias"} /\ file[g] = 0
  BY <1>3 DEF TypeInv, TypeOK
<1>5. NoOlder'
  <2>1. SUFFICES ASSUME stamp # NoStamp PROVE NoOlder'
    BY <1>1 DEF NoOlder
  <2>2. \A g \in Ships[stamp.version] : g \in Files /\ file'[g] = file[g]
    BY <1>4, <2>1, AgeTypes DEF AgeInv, NoOlder, Shipped, Files
  <2>3. \A g \in DOMAIN Bin : Bin[g] \in Files /\ file'[Bin[g]] = file[Bin[g]]
    BY <1>4 DEF Bin, Files, Shipped
  <2> QED
    BY <1>1, <2>2, <2>3 DEF AgeInv, NoOlder
<1>6. Placed(cmd, pc[1])'
  <2>1. CASE pc'[1] = "dropTools"
    <3>1. \A g \in {"tx", "alias"} : g \in Ships[cmd.version] => file'[g] = n
      <4>1. \A g \in {"tx", "alias"} : g \in DOMAIN Bin /\ "copyRunner" \in MovedAt(g)
        BY BinNames DEF MovedAt
      <4>2. \A g \in {"tx", "alias"} : g \in Ships[cmd.version] => file[g] = n /\ g \in Files
        BY <1>1, <4>1, BinNames DEF AgeInv, Placed
      <4> QED
        BY <1>2, <1>4, <4>2
    <3>2. \A g \in {"prover", "boot", "bin/tx", "bin/alias", "bin/tools"} : file'[g] = file[g]
      BY <1>4 DEF Files, Shipped
    <3> QED
      BY <1>1, <2>1, <3>1, <3>2 DEF AgeInv, Placed, MovedAt, Unpacked, Bin
  <2>2. CASE pc'[1] = "failed"
    BY <2>2 DEF Placed, MovedAt, Unpacked, Bin
  <2> QED
    BY <1>1, <2>1, <2>2
<1> QED
  BY <1>5, <1>6 DEF AgeInv

LEMMA ToolsKeepAge ==
    ASSUME TypeInv, Counted, AgeInv, Same, DropTools \/ MoveTools
    PROVE  AgeInv'
<1>1. UNCHANGED <<stamp, n, cmd>>
  BY DEF DropTools, MoveTools, Same
<1>2. n > 0 /\ pc[1] \in {"dropTools", "moveTools"}
  BY Names DEF DropTools, MoveTools, Counted, Runs, Over
<1>3. CASE DropTools /\ file["bin/tools"] # 0
  <2>1. file' = [file EXCEPT !["tools"] = 0] /\ pc[1] = "dropTools" /\ pc'[1] = "moveTools"
    BY <1>3, Names DEF DropTools
  <2>2. \A g \in Files \ {"tools"} : file'[g] = file[g]
    BY <2>1 DEF TypeInv, TypeOK
  <2>3. file'["tools"] = 0
    BY <2>1 DEF TypeInv, TypeOK, Files, Shipped
  <2>4. NoOlder'
    BY <1>1, <2>2, <2>3, AgeTypes DEF AgeInv, NoOlder, Bin, Files, Shipped
  <2>5. Placed(cmd, pc[1])'
    BY <1>1, <2>1, <2>2, <2>3 DEF AgeInv, Placed, MovedAt, Unpacked, Bin, Files, Shipped
  <2> QED
    BY <2>4, <2>5 DEF AgeInv
<1>4. CASE DropTools /\ file["bin/tools"] = 0
  <2>1. file' = file /\ pc[1] = "dropTools" /\ pc'[1] = "stamp"
    BY <1>4, Names DEF DropTools
  <2>2. "tools" \notin Ships[cmd.version]
    <3>1. "dropTools" \in Unpacked \ MovedAt("tools")
      BY DEF MovedAt, Unpacked
    <3> QED
      BY <1>2, <1>4, <2>1, <3>1, BinNames DEF AgeInv, Placed
  <2>3. Placed(cmd, pc[1])'
    <3>1. \A g \in {"tx", "alias"} : g \in DOMAIN Bin /\ "dropTools" \in MovedAt(g)
      BY BinNames DEF MovedAt
    <3>2. \A g \in {"tx", "alias"} :
              file[Bin[g]] = 0 /\ (g \in Ships[cmd.version] => file[g] = n)
      BY <2>1, <3>1 DEF AgeInv, Placed
    <3>3. \A g \in {"prover", "boot"} : g \in Ships[cmd.version] => file[g] = n
      BY <2>1 DEF AgeInv, Placed, Unpacked
    <3>4. \A g \in DOMAIN Bin : "stamp" \in MovedAt(g)
      BY BinNames DEF MovedAt
    <3> QED
      BY <1>1, <1>4, <2>1, <2>2, <3>2, <3>3, <3>4, BinNames DEF Placed
  <2> QED
    BY <1>1, <2>1, <2>3 DEF AgeInv, NoOlder
<1>5. CASE MoveTools
  <2>1. /\ Move("tools") /\ "tools" \in DOMAIN Bin /\ Bin["tools"] = "bin/tools"
        /\ pc[1] = "moveTools" /\ pc'[1] = "stamp"
    BY <1>5, Names, BinNames DEF MoveTools
  <2>2. NoOlder'
    BY <1>1, <2>1, MoveKeepsAge
  <2>3. /\ file'["tools"] = file["bin/tools"] /\ file'["bin/tools"] = 0
        /\ \A g \in Files \ {"tools", "bin/tools"} : file'[g] = file[g]
    BY <2>1, MoveValues DEF TypeInv
  <2>4. Placed(cmd, pc[1])'
    <3>1. \A g \in {"tx", "alias"} : g \in DOMAIN Bin /\ "moveTools" \in MovedAt(g)
      BY BinNames DEF MovedAt
    <3>2. \A g \in {"tx", "alias"} :
              file'[Bin[g]] = 0 /\ (g \in Ships[cmd.version] => file'[g] = n)
      BY <2>1, <2>3, <3>1, BinNames DEF AgeInv, Placed
    <3>3. \A g \in {"prover", "boot"} : g \in Ships[cmd.version] => file'[g] = n
      BY <2>1, <2>3 DEF AgeInv, Placed, Unpacked, Files, Shipped
    <3>4. "moveTools" \in Unpacked \ MovedAt("tools")
      BY DEF MovedAt, Unpacked
    <3>5. "tools" \in Ships[cmd.version] => file'["tools"] = n
      BY <2>1, <2>3, <3>4 DEF AgeInv, Placed
    <3>6. \A g \in DOMAIN Bin : "stamp" \in MovedAt(g)
      BY BinNames DEF MovedAt
    <3> QED
      BY <1>1, <2>1, <2>3, <3>2, <3>3, <3>5, <3>6, BinNames DEF Placed
  <2> QED
    BY <2>2, <2>4 DEF AgeInv
<1> QED
  BY <1>3, <1>4, <1>5

LEMMA InstallKeepsAge ==
    ASSUME TypeInv, Counted, AgeInv, Same, Install
    PROVE  AgeInv'
<1>1. CASE Extract
  BY <1>1, ExtractKeepsAge
<1>2. CASE MoveRunner("tx", "moveTx", "moveAlias") \/ MoveRunner("alias", "moveAlias", "copyRunner")
  BY <1>2, MoveRunnerKeepsAge
<1>3. CASE CopyRunner
  BY <1>3, CopyRunnerKeepsAge
<1>4. CASE DropTools \/ MoveTools
  BY <1>4, ToolsKeepAge
<1>5. CASE Download \/ VerifyChecksum \/ FetchRequirements
  <2>1. pc'[1] \in {"checksum", "extract", "venv", "failed"} /\ UNCHANGED <<stamp, n, file>>
    BY <1>5, Names DEF Download, VerifyChecksum, FetchRequirements, Stop, stack, Same
  <2> QED
    BY <2>1, YoungerFiles DEF Unpacked
<1>6. CASE WriteStamp
  <2>1. UNCHANGED <<n, file, cmd>> /\ pc[1] = "stamp" /\ pc'[1] \in {"reqs", "failed"}
    BY <1>6, Names DEF WriteStamp, Stop, Same
  <2>2. Placed(cmd, pc[1])'
    BY <2>1 DEF Placed, MovedAt, Unpacked, Bin
  <2>3. NoOlder'
    <3>1. CASE stamp' = NoStamp
      BY <3>1 DEF NoOlder
    <3>2. CASE stamp' = [run |-> n, version |-> cmd.version]
      <4>1. \A f \in DOMAIN Bin : "stamp" \in MovedAt(f) /\ f \in {"tx", "alias", "tools"}
        BY BinNames DEF MovedAt
      <4>2. \A f \in DOMAIN Bin : file[Bin[f]] = 0 /\ (f \in Ships[cmd.version] => file[f] = n)
        BY <2>1, <4>1 DEF AgeInv, Placed
      <4>3. \A f \in {"prover", "boot"} : f \in Ships[cmd.version] => file[f] = n
        BY <2>1 DEF AgeInv, Placed, Unpacked
      <4>4. \A f \in Ships[cmd.version] : file[f] = n
        BY <4>2, <4>3, AgeTypes, BinNames DEF Shipped
      <4> QED
        BY <2>1, <3>2, <4>2, <4>4, AgeTypes DEF NoOlder
    <3> QED
      BY <1>6, <3>1, <3>2 DEF WriteStamp
  <2> QED
    BY <2>2, <2>3 DEF AgeInv
<1> QED
  BY <1>1, <1>2, <1>3, <1>4, <1>5, <1>6 DEF Install

LEMMA BuildsKeepAge ==
    ASSUME TypeInv, Counted, AgeInv, Same, Source \/ Python \/ Verify \/ StepFails
    PROVE  AgeInv'
<1>1. UNCHANGED <<stamp, n>>
  BY DEF Same, Source, EnsureRepo, AddRemote, Fetch, Checkout, CrashInRepo, Limits, Restore, CheckPins,
         Append, InstallSierra, BuildProver, CopyProver, BuildRunner, CopyBootloader, Python, EnsureVenv,
         CreateVenv, InstallRequirements, CheckCompile, Verify, StepFails, stack
<1>2. \A f \in Files : file'[f] = file[f] \/ file'[f] = n
  <2>1. \/ UNCHANGED file
        \/ \E g \in {"tx", "prover", "boot", "tools"} : Written(g) \/ Cut(g)
    <3>1. CASE InstallSierra \/ BuildProver \/ CopyProver
      BY <3>1 DEF InstallSierra, BuildProver, CopyProver
    <3>2. CASE BuildRunner \/ CopyBootloader
      BY <3>2 DEF BuildRunner, CopyBootloader
    <3>3. CASE ~(InstallSierra \/ BuildProver \/ CopyProver \/ BuildRunner \/ CopyBootloader)
      BY <3>3 DEF Source, EnsureRepo, AddRemote, Fetch, Checkout, CrashInRepo, Limits, Restore, CheckPins,
         Append, Python, EnsureVenv, CreateVenv, InstallRequirements, CheckCompile, Verify, StepFails, stack
    <3> QED
      BY <3>1, <3>2, <3>3
  <2>2. file' = file \/ \E g : file' = [file EXCEPT ![g] = n]
    BY <2>1 DEF Written, Cut
  <2> QED
    BY <2>2 DEF TypeInv, TypeOK
<1>3. pc'[1] \notin Unpacked
  <2>1. CASE \E r \in Repos : EnsureRepo(r) \/ AddRemote(r) \/ Fetch(r) \/ Checkout(r) \/ CrashInRepo(r)
    <3>1. PICK r \in Repos :
              EnsureRepo(r) \/ AddRemote(r) \/ Fetch(r) \/ Checkout(r) \/ CrashInRepo(r)
      BY <2>1
    <3>2. CASE EnsureRepo(r) \/ AddRemote(r)
      BY <3>2, Names DEF EnsureRepo, Cloned, AddRemote, Unpacked
    <3>3. CASE Fetch(r) \/ CrashInRepo(r)
      BY <3>3, Names DEF Fetch, CrashInRepo, Stop, Unpacked
    <3>4. CASE Checkout(r)
      <4>1. GoRepo("clone", "sequencer") \/ \E s \in {"limits", "append", "failed"} : Go(s)
        BY <3>4 DEF Checkout, Stop, Repos
      <4> QED
        BY <4>1, Names DEF Unpacked
    <3> QED
      BY <3>1, <3>2, <3>3, <3>4
  <2>2. CASE Limits \/ Restore \/ CheckPins \/ Append \/ InstallSierra \/ BuildProver
    BY <2>2, Names DEF Limits, Restore, CheckPins, Append, InstallSierra, BuildProver, Stop, Unpacked
  <2>3. CASE CopyProver \/ BuildRunner \/ CopyBootloader \/ Verify \/ StepFails
    BY <2>3, Names DEF CopyProver, BuildRunner, CopyBootloader, Verify, StepFails, Stop, Unpacked
  <2>4. CASE Python
    BY <2>4, Names DEF Python, EnsureVenv, CreateVenv, InstallRequirements, CheckCompile, Stop, Unpacked
  <2> QED
    BY <2>1, <2>2, <2>3, <2>4 DEF Source
<1> QED
  BY <1>1, <1>2, <1>3, YoungerFiles

LEMMA AgeInvariant == Spec => []AgeInv
<1>1. Init => AgeInv
  <2> SUFFICES ASSUME Init PROVE AgeInv
    OBVIOUS
  <2>1. pc[1] = "ok" /\ stamp = NoStamp
    BY DEF Init
  <2> QED
    BY <2>1 DEF AgeInv, NoOlder, Placed, MovedAt, Unpacked, Bin
<1>2. TypeInv /\ Counted /\ AgeInv /\ [Next]_vars => AgeInv'
  <2> SUFFICES ASSUME TypeInv, Counted, AgeInv, [Next]_vars PROVE AgeInv'
    OBVIOUS
  <2>1. CASE Install /\ Same
    BY <2>1, InstallKeepsAge
  <2>2. CASE (Source \/ Python \/ Verify \/ StepFails) /\ Same
    BY <2>2, BuildsKeepAge
  <2>3. CASE Begin
    <3>1. UNCHANGED <<file, stamp>> /\ n' = n + 1 /\ pc'[1] \in {"download", "clone"}
      BY <2>3, Names DEF Begin, stack
    <3>2. Placed(cmd, pc[1])'
      BY <3>1 DEF Placed, MovedAt, Unpacked, Bin
    <3>3. NoOlder'
      BY <3>1, AgeTypes DEF AgeInv, NoOlder
    <3> QED
      BY <3>2, <3>3 DEF AgeInv
  <2>4. CASE BreakVenv \/ UNCHANGED vars
    <3>1. UNCHANGED <<cmd, n, pc, file, stamp>>
      BY <2>4 DEF BreakVenv, vars, stack
    <3> QED
      BY <3>1 DEF AgeInv, NoOlder, Placed
  <2> QED
    BY <2>1, <2>2, <2>3, <2>4 DEF Next
<1> QED
  BY <1>1, <1>2, TypeInvariant, NumberedCommands, PTL DEF Spec

\* setup.rs: after any commands, complete or cut short, nothing that a release
\* ships is older than the .deps-version that names the release.
THEOREM StampNeverYounger == Spec => []NothingOlderThanStamp
<1>1. TypeInv /\ Counted /\ AgeInv => NothingOlderThanStamp
  <2> SUFFICES ASSUME TypeInv, Counted, AgeInv, stamp # NoStamp,
                      NEW f \in Ships[stamp.version]
               PROVE  file[f] = 0 \/ file[f] >= stamp.run
    BY DEF NothingOlderThanStamp
  <2> QED
    BY DEF AgeInv, NoOlder
<1> QED
  BY <1>1, TypeInvariant, NumberedCommands, AgeInvariant, PTL

-----------------------------------------------------------------------------
(* A build in which nothing fails.  CheckedOut: where the sequencer has been  *)
(* checked out; only there are tracked files edited.                          *)

CheckedOut ==
    \/ pc[1] \in RepoSteps /\ pc[2] = "stwo"
    \/ pc[1] \in {"limits", "restore", "pins", "append"}
    \/ /\ ~Prebuilt
       /\ pc[1] \in {"venv", "create", "pip", "compile", "sierra",
                     "buildProver", "copyProver", "buildRunner"}
ToCheckout == pc[1] \in RepoSteps /\ pc[2] # "stwo"

Committed ==
    /\ CheckedOut => Born("sequencer")
    /\ ~Born("sequencer") => edited = {}
    /\ pc[1] = "remote" => repo[pc[2]] = "broken"

\* What is not in the way of its next steps, up to the end.
Repositories ==
    /\ \A r \in Repos : repo[r] = "broken" => AtRepo("remote", r)
    /\ ToCheckout => IF Born("sequencer")
                     THEN repo["sequencer"] = cmd.version \/ edited \cap Differs = {}
                     ELSE reqs = "none"
Pinned == ToCheckout \/ pc[1] \in {"limits", "restore", "pins"} => cmd.stock \/ pins
Required ==
    /\ CheckedOut => reqs = "tracked"
    /\ pc[1] = "pip" => Healthy
    /\ pc[1] = "compile" => venv = "ready"
Placeable ==
    /\ "prover" \in cmd.skip => binDir
    /\ pc[1] \in {"copyProver", "buildRunner", "boot"} => binDir
    /\ pc[1] \in {"buildProver", "copyProver", "buildRunner", "boot", "verify"} =>
           file["tools"] # 0

Unfailing == ~Prebuilt /\ clean /\ expected
Clear == pc[1] # "failed" /\ Repositories /\ Pinned /\ Required /\ Placeable
ClearInv == Unfailing => Clear

LEMMA BornStates ==
    ASSUME TypeOK
    PROVE  /\ \A r \in Repos : Born(r) <=> repo[r] \notin {"none", "bare", "broken", "unborn"}
           /\ cmd.version \notin {"none", "bare", "broken", "unborn", "default"}
           /\ \A r \in Repos :
                  repo[r] \in Versions \cup {"none", "bare", "broken", "unborn", "default"}
BY ProvisioningAssumption DEF TypeOK, Born


\* What the steps of checkout r do, and where they go.
Outcome(r) ==
    \/ /\ pc[1] = "clone" /\ pc'[1] = "fetch" /\ pc'[2] = r
       /\ repo[r] = "none" /\ repo'[r] = "default" /\ pins' = pins
       /\ reqs' = IF r = "sequencer" THEN "tracked" ELSE reqs
    \/ /\ pc[1] = "clone" /\ pc'[1] = "remote" /\ pc'[2] = r /\ AtRepo("remote", r)'
       /\ repo[r] = "bare" /\ repo'[r] = "broken" /\ pins' = pins /\ reqs' = reqs
    \/ /\ pc[1] = "clone" /\ pc'[1] = "fetch" /\ pc'[2] = r
       /\ repo[r] \notin {"none", "bare"} /\ repo'[r] = repo[r] /\ pins' = pins /\ reqs' = reqs
    \/ /\ pc[1] = "remote" /\ pc'[1] = "fetch" /\ pc'[2] = r
       /\ repo'[r] = "unborn" /\ pins' = pins /\ reqs' = reqs
    \/ /\ pc[1] = "fetch" /\ repo'[r] = repo[r] /\ pins' = pins /\ reqs' = reqs
       /\ \/ repo[r] = "broken" /\ pc'[1] = "failed"
          \/ repo[r] # "broken" /\ pc'[1] = "checkout" /\ pc'[2] = r
    \/ /\ pc[1] = "checkout" /\ pc'[1] = "failed" /\ Refuses(r)
       /\ repo'[r] = repo[r] /\ pins' = pins /\ reqs' = reqs
    \/ /\ pc[1] = "checkout" /\ ~Refuses(r)
       /\ \/ r = "provingUtils" /\ pc'[1] = "clone" /\ pc'[2] = "sequencer"
          \/ r = "sequencer" /\ pc'[1] = "limits"
          \/ r = "stwo" /\ pc'[1] = "append"
       /\ repo'[r] = cmd.version
       /\ reqs' = IF r = "sequencer" THEN "tracked" ELSE reqs
       /\ pins' = IF r = "sequencer" /\ ~Born(r) THEN TRUE ELSE pins
    \/ /\ pc[1] = "clone" /\ pc'[1] = "failed" /\ ~clean'
       /\ repo[r] \in {"none", "bare"} /\ repo'[r] \in {"broken", "unborn"}
       /\ pins' = pins /\ reqs' = reqs

LEMMA RepoOutcomes ==
    ASSUME TypeOK, NEW r \in Repos,
           EnsureRepo(r) \/ AddRemote(r) \/ Fetch(r) \/ Checkout(r) \/ CrashInRepo(r)
    PROVE  /\ Outcome(r) /\ pc[2] = r /\ pc[1] \in RepoSteps
           /\ edited' = edited /\ sections' = sections /\ venv' = venv
           /\ file' = file /\ binDir' = binDir
           /\ \A q \in Repos \ {r} : repo'[q] = repo[q]
<1>1. repo \in [Repos -> Versions \cup {"none", "bare", "broken", "unborn", "default"}]
  BY DEF TypeOK
<1> USE Names DEF Outcome, RepoSteps, stack
<1>2. CASE EnsureRepo(r)
  <2>1. CASE repo[r] = "none"
    BY <1>1, <1>2, <2>1 DEF EnsureRepo, Cloned
  <2>2. CASE repo[r] = "bare"
    BY <1>1, <1>2, <2>2 DEF EnsureRepo, AtRepo, GoRepo
  <2>3. CASE repo[r] \notin {"none", "bare"}
    BY <1>1, <1>2, <2>3 DEF EnsureRepo
  <2> QED
    BY <2>1, <2>2, <2>3
<1>3. CASE AddRemote(r)
  BY <1>1, <1>3 DEF AddRemote
<1>4. CASE Fetch(r)
  BY <1>4 DEF Fetch, tree, Stop
<1>5. CASE Checkout(r)
  <2>1. CASE Refuses(r)
    BY <1>5, <2>1 DEF Checkout, tree, Stop
  <2>2. CASE ~Refuses(r)
    <3>1. /\ AtRepo("checkout", r)
          /\ repo' = [repo EXCEPT ![r] = cmd.version]
          /\ reqs' = IF r = "sequencer" THEN "tracked" ELSE reqs
          /\ pins' = IF r = "sequencer" /\ ~Born(r) THEN TRUE ELSE pins
          /\ UNCHANGED <<edited, sections, venv, stack>>
      BY <1>5, <2>2 DEF Checkout
    <3>2. \/ r = "provingUtils" /\ GoRepo("clone", "sequencer")
          \/ r = "sequencer" /\ Go("limits")
          \/ r = "stwo" /\ Go("append")
      BY <1>5, <2>2 DEF Checkout, Repos
    <3> QED
      BY <1>1, <2>2, <3>1, <3>2
  <2> QED
    BY <2>1, <2>2
<1>6. CASE CrashInRepo(r)
  BY <1>1, <1>6 DEF CrashInRepo, Fault, Stop
<1> QED
  BY <1>2, <1>3, <1>4, <1>5, <1>6

LEMMA RepoStepsCommit ==
    ASSUME TypeInv, Committed, Same, NEW r \in Repos,
           EnsureRepo(r) \/ AddRemote(r) \/ Fetch(r) \/ Checkout(r) \/ CrashInRepo(r)
    PROVE  Committed'
<1>1. /\ Outcome(r) /\ pc[2] = r /\ pc[1] \in RepoSteps
      /\ cmd' = cmd /\ edited' = edited /\ \A q \in Repos \ {r} : repo'[q] = repo[q]
  BY RepoOutcomes DEF Same, TypeInv
<1>2. /\ "sequencer" \in Repos /\ "sequencer" # "stwo" /\ cmd.version \in Versions
      /\ cmd.version \notin {"none", "bare", "broken", "unborn", "default"}
      /\ \A q \in Repos : Born(q) <=> repo[q] \notin {"none", "bare", "broken", "unborn"}
  BY BornStates DEF Repos, TypeInv, TypeOK
<1>3. Born("sequencer") => Born("sequencer")'
  <2>1. CASE r # "sequencer"
    BY <1>1, <1>2, <2>1 DEF Born
  <2>2. CASE r = "sequencer"
    <3>1. pc[1] = "remote" => ~Born(r)
      BY <1>1, <1>2, <2>2 DEF Committed
    <3>2. Born(r) => repo'[r] = repo[r] \/ repo'[r] = cmd.version
      BY <1>1, <1>2, <3>1 DEF Outcome
    <3> QED
      BY <1>2, <2>2, <3>2 DEF Born
  <2> QED
    BY <2>1, <2>2
<1>4. CheckedOut' => Born("sequencer")'
  <2>1. CASE r = "stwo"
    BY <1>1, <1>3, <2>1 DEF Committed, CheckedOut
  <2>2. CASE pc'[1] = "limits"
    BY <1>1, <1>2, <2>2 DEF Outcome, Born
  <2>3. CASE r # "stwo" /\ pc'[1] # "limits"
    BY <1>1, <2>3 DEF Outcome, CheckedOut, RepoSteps
  <2> QED
    BY <2>1, <2>2, <2>3
<1>5. pc'[1] = "remote" => repo'[pc'[2]] = "broken"
  BY <1>1 DEF Outcome
<1> QED
  BY <1>1, <1>3, <1>4, <1>5 DEF Committed

LEMMA RepoStepsClear ==
    ASSUME TypeInv, Committed, Clear, Same, clean', NEW r \in Repos,
           EnsureRepo(r) \/ AddRemote(r) \/ Fetch(r) \/ Checkout(r) \/ CrashInRepo(r)
    PROVE  Clear'
<1>1. /\ Outcome(r) /\ pc[2] = r /\ pc[1] \in RepoSteps
      /\ cmd' = cmd /\ edited' = edited /\ venv' = venv /\ file' = file /\ binDir' = binDir
      /\ \A q \in Repos \ {r} : repo'[q] = repo[q]
  BY RepoOutcomes DEF Same, TypeInv
<1>2. /\ "sequencer" \in Repos /\ "sequencer" # "stwo" /\ cmd.version \in Versions
      /\ cmd.version \notin {"none", "bare", "broken", "unborn", "default"}
      /\ \A q \in Repos : Born(q) <=> repo[q] \notin {"none", "bare", "broken", "unborn"}
  BY BornStates DEF Repos, TypeInv, TypeOK
<1>3. \A q \in Repos : repo[q] = "broken" => q = r /\ pc[1] = "remote"
  BY <1>1, Names DEF Clear, Repositories
<1>4. pc[1] = "checkout" => ~Refuses(r)
  BY <1>1 DEF Refuses, Clear, Repositories, ToCheckout
<1>5. pc'[1] \in RepoSteps \cup {"limits", "append"}
  BY <1>1, <1>2, <1>3, <1>4 DEF Outcome, RepoSteps
<1>6. \A q \in Repos : repo'[q] = "broken" => AtRepo("remote", q)'
  <2>1. repo'[r] = "broken" => AtRepo("remote", r)'
    BY <1>1, <1>2, <1>3 DEF Outcome
  <2> QED
    BY <1>1, <1>3, <2>1
<1>7. ToCheckout' => IF Born("sequencer")'
                     THEN repo'["sequencer"] = cmd.version \/ edited \cap Differs = {}
                     ELSE reqs' = "none"
  <2> SUFFICES ASSUME ToCheckout' PROVE IF Born("sequencer")'
                     THEN repo'["sequencer"] = cmd.version \/ edited \cap Differs = {}
                     ELSE reqs' = "none"
    OBVIOUS
  <2>1. ToCheckout /\ (r = "sequencer" => pc[1] # "checkout")
    BY <1>1 DEF Outcome, ToCheckout, RepoSteps
  <2>2. CASE r # "sequencer"
    <3>1. reqs' = reqs /\ repo'["sequencer"] = repo["sequencer"]
      BY <1>1, <1>2, <2>2 DEF Outcome
    <3> QED
      BY <2>1, <3>1 DEF Clear, Repositories, Born
  <2>3. CASE r = "sequencer" /\ repo[r] = "none" /\ pc[1] = "clone"
    <3>1. edited = {} /\ repo'[r] = "default"
      BY <1>1, <1>2, <2>3 DEF Outcome, Committed
    <3> QED
      BY <2>3, <3>1 DEF Born
  <2>4. CASE r = "sequencer" /\ ~(repo[r] = "none" /\ pc[1] = "clone")
    <3>1. reqs' = reqs
      BY <1>1, <2>1, <2>4 DEF Outcome
    <3>2. CASE Born(r)
      <4>1. repo'[r] = repo[r]
        BY <1>1, <1>2, <2>1, <2>4, <3>2 DEF Outcome, Committed
      <4> QED
        BY <2>1, <2>4, <3>2, <4>1 DEF Clear, Repositories, Born
    <3>3. CASE ~Born(r)
      <4>1. ~Born(r)'
        BY <1>1, <1>2, <2>1, <2>4, <3>3, ProvisioningAssumption DEF Outcome, Born
      <4> QED
        BY <2>1, <2>4, <3>1, <3>3, <4>1 DEF Clear, Repositories
    <3> QED
      BY <3>2, <3>3
  <2> QED
    BY <2>2, <2>3, <2>4
<1>8. Pinned'
  BY <1>1 DEF Outcome, Clear, Pinned, ToCheckout, RepoSteps
<1>9. CheckedOut' => reqs' = "tracked"
  BY <1>1 DEF Outcome, Clear, Required, CheckedOut, RepoSteps
<1>10. Required' /\ Placeable'
  BY <1>1, <1>5, <1>9 DEF Required, Clear, Placeable, RepoSteps
<1> QED
  BY <1>1, <1>5, <1>6, <1>7, <1>8, <1>10 DEF Clear, Repositories, RepoSteps

\* A step that leaves the checkouts alone edits only what is checked out.
LEMMA OthersCommit ==
    ASSUME TypeInv, RunnerInv, Committed, Same,
           \/ Limits \/ Restore \/ CheckPins \/ Append
           \/ InstallSierra \/ BuildProver \/ CopyProver \/ BuildRunner \/ CopyBootloader
           \/ Python \/ Verify \/ StepFails
    PROVE  Committed'
<1>1. cmd' = cmd /\ repo' = repo
  BY DEF Same, Limits, Restore, CheckPins, Append, InstallSierra, BuildProver, CopyProver,
         BuildRunner, CopyBootloader, Python, EnsureVenv, CreateVenv, InstallRequirements,
         CheckCompile, Verify, StepFails, tree
<1>2. CASE Limits \/ Restore \/ CheckPins \/ Append
  <2>1. CheckedOut /\ pc'[1] # "remote"
    BY <1>2, Names DEF Limits, Restore, CheckPins, Append, CheckedOut, Stop
  <2> QED
    BY <1>1, <2>1 DEF Committed, Born
<1>3. CASE InstallSierra \/ BuildProver \/ CopyProver \/ BuildRunner
  <2>1. pc[1] \in {"sierra", "buildProver", "copyProver", "buildRunner"} /\ pc'[1] # "remote"
    BY <1>3, Names DEF InstallSierra, BuildProver, CopyProver, BuildRunner, Stop
  <2>2. CheckedOut
    BY <2>1 DEF CheckedOut, RunnerInv, Ways, SourceSteps
  <2> QED
    BY <1>1, <2>1, <2>2 DEF Committed, Born
<1>4. CASE CopyBootloader \/ Verify \/ StepFails
  <2>1. pc'[1] \in {"verify", "ok", "failed"} /\ edited' = edited
    BY <1>4, Names DEF CopyBootloader, Verify, StepFails, Stop, tree
  <2> QED
    BY <1>1, <2>1 DEF Committed, Born, CheckedOut, RepoSteps
<1>5. CASE Python
  <2>1. /\ pc[1] \in {"venv", "create", "pip", "compile"} /\ edited' = edited
        /\ pc'[1] \in {"create", "pip", "compile", "verify", "sierra", "failed"}
        /\ pc'[1] = "sierra" => ~Prebuilt
    BY <1>5, Names DEF Python, EnsureVenv, CreateVenv, InstallRequirements, CheckCompile, Stop, tree
  <2> QED
    BY <1>1, <2>1 DEF Committed, Born, CheckedOut, RepoSteps, Prebuilt
<1> QED
  BY <1>2, <1>3, <1>4, <1>5

LEMMA InstallCommits ==
    ASSUME TypeInv, RunnerInv, Committed, Same, Install
    PROVE  Committed'
<1>1. pc[1] \in InstallSteps /\ pc'[1] \in InstallSteps \cup {"venv", "failed"}
  BY Names DEF Install, Download, VerifyChecksum, Extract, MoveRunner, CopyRunner, Copied,
               DropTools, MoveTools, WriteStamp, FetchRequirements, Stop, InstallSteps
<1>2. Prebuilt' /\ edited' = edited
  BY <1>1 DEF RunnerInv, Ways, Prebuilt, Same, Install, Download, VerifyChecksum, Extract,
              MoveRunner, CopyRunner, DropTools, MoveTools, WriteStamp, FetchRequirements, tree
<1>3. /\ "sequencer" \in Repos
      /\ repo' = repo \/ (~Born("sequencer") /\ repo'["sequencer"] \in {repo["sequencer"], "bare"})
  <2>1. ASSUME NEW f, NEW s, NEW q, MoveRunner(f, s, q)
        PROVE  repo' = repo
               \/ (~Born("sequencer") /\ repo'["sequencer"] \in {repo["sequencer"], "bare"})
    <3>1. repo' = [repo EXCEPT !["sequencer"] = IF @ = "none" THEN "bare" ELSE @]
      BY <2>1 DEF MoveRunner
    <3>2. CASE repo["sequencer"] = "none"
      BY <3>1, <3>2, BornStates DEF TypeInv, TypeOK, Repos
    <3>3. CASE repo["sequencer"] # "none"
      BY <3>1, <3>3 DEF TypeInv, TypeOK, Repos
    <3> QED
      BY <3>2, <3>3
  <2>2. ~MoveRunner("tx", "moveTx", "moveAlias") /\ ~MoveRunner("alias", "moveAlias", "copyRunner")
        => repo' = repo
    BY DEF Install, Download, VerifyChecksum, Extract, CopyRunner, DropTools, MoveTools,
           WriteStamp, FetchRequirements, tree
  <2> QED
    BY <2>1, <2>2 DEF Repos
<1>4. CheckedOut' => FALSE
  BY <1>1, <1>2 DEF CheckedOut, InstallSteps, RepoSteps
<1>5. ~Born("sequencer")' => ~Born("sequencer")
  BY <1>3 DEF Born
<1> QED
  BY <1>1, <1>2, <1>4, <1>5 DEF Committed, InstallSteps

LEMMA SourcesClear ==
    ASSUME TypeInv, Counted, RunnerInv, Committed, Clear, Unfailing', Same,
           \/ Limits \/ Restore \/ CheckPins \/ Append
           \/ InstallSierra \/ BuildProver \/ CopyProver \/ BuildRunner \/ CopyBootloader
    PROVE  Clear'
<1>1. cmd' = cmd /\ clean' /\ ~Prebuilt
  BY DEF Same, Unfailing, Prebuilt
<1>2. /\ repo' = repo /\ reqs' = reqs /\ venv' = venv
      /\ binDir => binDir'
  BY DEF Limits, Restore, CheckPins, Append, InstallSierra, BuildProver, CopyProver,
         BuildRunner, CopyBootloader, tree, stack
<1>3. pc[1] # "remote" /\ (CheckedOut \/ pc[1] = "boot")
  BY <1>1, Names DEF CheckedOut, Limits, Restore, CheckPins, Append, InstallSierra, BuildProver,
                CopyProver, BuildRunner, CopyBootloader
<1>4. \A q \in Repos : repo'[q] # "broken"
  BY <1>2, <1>3, Names DEF Clear, Repositories
<1>5. CASE Limits \/ Restore \/ CheckPins \/ Append
  <2>1. /\ pc'[1] \in {"restore", "pins", "venv"} \/ (pc'[1] = "clone" /\ pc'[2] = "stwo")
        /\ UNCHANGED <<pins, file, binDir>>
    BY <1>1, <1>5, Names DEF Limits, Restore, CheckPins, Append, Fault, Stop, tree, stack,
                        Clear, Pinned, RunnerInv, Patching
  <2>2. pc'[1] \in {"restore", "pins"} => pc[1] \in {"limits", "restore"}
    <3>1. CASE Limits \/ Restore
      BY <3>1, Names DEF Limits, Restore
    <3>2. CASE CheckPins \/ Append
      BY <3>2, Names DEF CheckPins, Append, Stop
    <3> QED
      BY <1>5, <3>1, <3>2
  <2>3. Pinned'
    BY <1>1, <2>1, <2>2 DEF Clear, Pinned, ToCheckout, RepoSteps
  <2>4. Repositories'
    BY <1>4, <2>1 DEF Repositories, ToCheckout, RepoSteps
  <2>5. Required'
    BY <1>2, <1>3, <1>5, <2>1, Names
    DEF Clear, Required, Limits, Restore, CheckPins, Append
  <2>6. Placeable'
    BY <1>1, <1>2, <2>1 DEF Clear, Placeable
  <2> QED
    BY <2>1, <2>3, <2>4, <2>5, <2>6 DEF Clear
<1>6. CASE InstallSierra \/ BuildProver \/ CopyProver \/ BuildRunner
  <2>1. pc'[1] \in {"buildProver", "copyProver", "buildRunner", "boot"}
    BY <1>1, <1>6, Names DEF InstallSierra, BuildProver, CopyProver, BuildRunner, Fault
  <2>2. pc'[1] \in {"copyProver", "buildRunner", "boot"} => binDir'
    BY <1>1, <1>6, <2>1, Names
    DEF InstallSierra, BuildProver, CopyProver, BuildRunner, Fault, Clear, Placeable
  <2>3. file'["tools"] # 0
    <3>1. n # 0
      BY <1>6, InProgress DEF Source, Counted
    <3> QED
      BY <1>6, <3>1, Names DEF InstallSierra, BuildProver, CopyProver, BuildRunner, Written,
                               Cut, Clear, Placeable, TypeInv, TypeOK, Files, Shipped
  <2>4. Repositories' /\ Pinned'
    BY <1>4, <2>1 DEF Repositories, Pinned, ToCheckout, RepoSteps
  <2>5. Required'
    BY <1>2, <1>3, <1>6, <2>1, Names
    DEF Clear, Required, InstallSierra, BuildProver, CopyProver, BuildRunner
  <2>6. Placeable'
    BY <1>1, <1>2, <2>2, <2>3 DEF Clear, Placeable
  <2> QED
    BY <2>1, <2>4, <2>5, <2>6 DEF Clear
<1>7. CASE CopyBootloader
  <2>1. pc'[1] = "verify" /\ binDir'
    BY <1>1, <1>2, <1>7, Names DEF CopyBootloader, Fault, Clear, Placeable
  <2>2. file'["tools"] # 0
    BY <1>7, Names DEF CopyBootloader, Written, Cut, Clear, Placeable, TypeInv, TypeOK, Files, Shipped
  <2> QED
    BY <1>1, <1>4, <2>1, <2>2
    DEF Clear, Repositories, Pinned, Required, Placeable, ToCheckout, CheckedOut, RepoSteps
<1> QED
  BY <1>5, <1>6, <1>7

LEMMA PythonClear ==
    ASSUME TypeInv, RunnerInv, Clear, Unfailing', Same, Python \/ Verify \/ StepFails
    PROVE  Clear'
<1>1. cmd' = cmd /\ clean' /\ ~Prebuilt /\ ~Prebuilt'
  BY DEF Same, Unfailing, Prebuilt
<1>2. /\ repo' = repo /\ reqs' = reqs /\ binDir' = binDir /\ file' = file
      /\ ~StepFails
  BY <1>1 DEF Python, EnsureVenv, CreateVenv, InstallRequirements, CheckCompile, Verify,
              StepFails, Fault, tree, stack
<1>3. CASE Python
  <2>1. pc[1] \in {"venv", "create", "pip", "compile"}
    BY <1>3, Names DEF Python, EnsureVenv, CreateVenv, InstallRequirements, CheckCompile
  <2>2. CheckedOut /\ reqs = "tracked"
    BY <1>1, <2>1 DEF CheckedOut, Clear, Required
  <2>3. \/ pc'[1] = "create"
        \/ pc'[1] = "pip" /\ Healthy'
        \/ pc'[1] = "compile" /\ venv' = "ready"
        \/ pc'[1] = "sierra"
    <3>1. CASE EnsureVenv
      BY <3>1, Names DEF EnsureVenv, Healthy
    <3>2. CASE CreateVenv
      BY <1>1, <3>2, Names DEF CreateVenv, Healthy, Fault
    <3>3. CASE InstallRequirements
      BY <2>2, <3>3, Names DEF InstallRequirements, Clear, Required
    <3>4. CASE CheckCompile
      BY <1>1, <3>4, Names DEF CheckCompile, Clear, Required
    <3> QED
      BY <1>3, <3>1, <3>2, <3>3, <3>4 DEF Python
  <2>4. \A q \in Repos : repo'[q] # "broken"
    BY <1>2, <2>1, Names DEF Clear, Repositories
  <2>5. Repositories' /\ Pinned'
    BY <2>3, <2>4 DEF Repositories, Pinned, ToCheckout, RepoSteps
  <2>6. Required' /\ Placeable'
    BY <1>1, <1>2, <2>2, <2>3 DEF Required, Clear, Placeable
  <2> QED
    BY <2>3, <2>5, <2>6 DEF Clear
<1>4. CASE Verify
  <2>1. pc[1] = "verify" /\ ~Missing
    BY <1>1, <1>4, Names DEF Verify, Missing, Clear, Placeable
  <2>2. pc'[1] = "ok"
    BY <1>4, <2>1, Names DEF Verify
  <2>3. \A q \in Repos : repo'[q] # "broken"
    BY <1>2, <2>1, Names DEF Clear, Repositories
  <2> QED
    BY <1>1, <1>2, <2>2, <2>3
    DEF Clear, Repositories, Pinned, Required, Placeable, ToCheckout, CheckedOut, RepoSteps
<1> QED
  BY <1>2, <1>3, <1>4

\* A command that begins finds what Unobstructed says.
LEMMA BeginClear ==
    ASSUME TypeInv, Committed, Begin
    PROVE  Committed' /\ (Unfailing' => Clear')
<1>1. UNCHANGED <<repo, edited, pins, reqs, binDir>>
  BY DEF Begin, tree, stack
<1>2. \/ pc'[1] = "download"
      \/ pc'[1] = "clone" /\ pc'[2] = "provingUtils"
  BY Names DEF Begin
<1>3. Committed'
  BY <1>1, <1>2 DEF Committed, CheckedOut, Born, RepoSteps
<1>4. ASSUME Unfailing' PROVE Clear'
  <2>1. PICK c : cmd' = c /\ expected' = Unobstructed(c)
    BY DEF Begin
  <2>2. Unobstructed(c) /\ pc'[1] = "clone" /\ pc'[2] = "provingUtils"
    BY <1>2, <1>4, <2>1, Names DEF Unfailing, Prebuilt, Begin
  <2>3. Born("sequencer")' <=> Born("sequencer")
    BY <1>1 DEF Born
  <2>4. Repositories' /\ Pinned'
    BY <1>1, <2>1, <2>2, <2>3
    DEF Unobstructed, Repositories, Pinned, ToCheckout, Committed, RepoSteps
  <2>5. Required' /\ Placeable'
    BY <1>1, <2>1, <2>2 DEF Unobstructed, Required, Placeable, CheckedOut
  <2> QED
    BY <2>2, <2>4, <2>5 DEF Clear
<1> QED
  BY <1>3, <1>4

LEMMA ClearInvariant == Spec => [](Committed /\ ClearInv)
<1>1. Init => Committed /\ ClearInv
  <2> SUFFICES ASSUME Init PROVE Committed /\ ClearInv
    OBVIOUS
  <2>1. pc[1] = "ok" /\ edited = {} /\ pins /\ \A r \in Repos : repo[r] = "none"
    BY DEF Init
  <2>2. cmd.skip = {}
    BY DEF Init
  <2> QED
    BY <2>1, <2>2 DEF Committed, ClearInv, Clear, Repositories, Pinned, Required, Placeable,
                      ToCheckout, CheckedOut, RepoSteps
<1>2. TypeInv /\ Counted /\ RunnerInv /\ Committed /\ ClearInv /\ [Next]_vars
      => Committed' /\ ClearInv'
  <2> SUFFICES ASSUME TypeInv, Counted, RunnerInv, Committed, ClearInv, [Next]_vars
               PROVE  Committed' /\ ClearInv'
    OBVIOUS
  <2>1. ASSUME Same, Source \/ Install \/ Python \/ Verify \/ StepFails, Unfailing'
        PROVE  Clear /\ clean'
    <3>1. Fault \/ NoFault
      BY <2>1 DEF Source, EnsureRepo, AddRemote, Fetch, Checkout, CrashInRepo, Limits, Restore,
                  CheckPins, Append, InstallSierra, BuildProver, CopyProver, BuildRunner,
                  CopyBootloader, Install, Download, VerifyChecksum, Extract, MoveRunner,
                  CopyRunner, Copied, DropTools, MoveTools, WriteStamp, FetchRequirements,
                  Python, EnsureVenv, CreateVenv, InstallRequirements, CheckCompile, Verify,
                  StepFails
    <3>2. NoFault
      BY <2>1, <3>1 DEF Unfailing, Fault
    <3> QED
      BY <2>1, <3>2 DEF Unfailing, Prebuilt, ClearInv, Same, NoFault, history
  <2>2. CASE Source /\ Same
    BY <2>1, <2>2, RepoStepsCommit, RepoStepsClear, OthersCommit, SourcesClear
    DEF Source, ClearInv
  <2>3. CASE Install /\ Same
    <3>1. pc[1] \in InstallSteps
      BY <2>3, Names DEF Install, Download, VerifyChecksum, Extract, MoveRunner, CopyRunner,
                         DropTools, MoveTools, WriteStamp, FetchRequirements, InstallSteps
    <3>2. ~Unfailing'
      BY <2>3, <3>1 DEF RunnerInv, Ways, Same, Prebuilt, Unfailing
    <3> QED
      BY <2>3, <3>2, InstallCommits DEF ClearInv
  <2>4. CASE (Python \/ Verify \/ StepFails) /\ Same
    BY <2>1, <2>4, OthersCommit, PythonClear DEF ClearInv
  <2>5. CASE Begin
    BY <2>5, BeginClear DEF ClearInv
  <2>6. CASE BreakVenv
    <3>1. /\ UNCHANGED <<cmd, pc, repo, edited, pins, reqs, file, binDir, clean, expected>>
          /\ pc[1] \in {"ok", "failed"}
      BY <2>6 DEF BreakVenv, Runs, Over, tree, stack, history
    <3>2. Born("sequencer")' <=> Born("sequencer")
      BY <3>1 DEF Born
    <3> QED
      BY <3>1, <3>2
      DEF Committed, ClearInv, Unfailing, Clear, Repositories, Pinned, Required, Placeable,
          ToCheckout, CheckedOut, Prebuilt, RepoSteps, AtRepo
  <2>7. CASE UNCHANGED vars
    <3>1. UNCHANGED <<cmd, pc, repo, edited, pins, reqs, venv, file, binDir, clean, expected>>
      BY <2>7 DEF vars, tree, stack, history
    <3> QED
      BY <3>1
      DEF Committed, ClearInv, Unfailing, Clear, Repositories, Pinned, Required, Placeable,
          ToCheckout, CheckedOut, Prebuilt, Born, AtRepo, Healthy
  <2> QED
    BY <2>2, <2>3, <2>4, <2>5, <2>6, <2>7 DEF Next
<1> QED
  BY <1>1, <1>2, TypeInvariant, NumberedCommands, RunnerInvariant, PTL DEF Spec

\* setup.rs: for any pins, flags and earlier commands, a build in which nothing
\* fails succeeds unless it began with one of the obstructions of Unobstructed:
\* the list is complete.
THEOREM BuildsRepair == Spec => []SourceRepairs
<1>1. ClearInv => SourceRepairs
  BY DEF ClearInv, Unfailing, Clear, SourceRepairs
<1> QED
  BY <1>1, ClearInvariant, PTL

-----------------------------------------------------------------------------
(* A complete release in which nothing fails: whatever was there, each of its *)
(* files goes to its place whole, and nothing but requirements that were cut  *)
(* short before can stop it.                                                  *)

Fresh(f) == file[f] = n /\ f \notin torn
Finishing == {"reqs", "venv", "create", "pip", "compile", "verify", "ok"}
Laying == Unpacked \cup Finishing

Laid == pc[1] \in Laying =>
    /\ Fresh("prover") /\ Fresh("boot")
    /\ Fresh(IF pc[1] = "moveTx" THEN "bin/tx" ELSE "tx")
    /\ Fresh(IF pc[1] \in {"moveTx", "moveAlias"} THEN "bin/alias" ELSE "alias")
    /\ Fresh(IF pc[1] \in Unpacked \ {"stamp"} THEN "bin/tools" ELSE "tools")
Named == pc[1] \in Finishing => stamp.version = cmd.version
Provided ==
    /\ pc[1] \in Finishing \ {"reqs"} => reqs # "none"
    /\ pc[1] = "pip" => Healthy
    /\ pc[1] \in {"compile", "verify"} => venv = "ready" \/ reqs = "torn"
    /\ pc[1] = "ok" => venv \in {"ready", "stale"} \/ reqs = "torn"
    /\ pc[1] = "failed" => reqs = "torn"

Complete == Prebuilt /\ clean /\ Ships[cmd.version] = Shipped
Repaired == Laid /\ Named /\ Provided
RepairInv == Complete => Repaired

\* Where the runners and the tools go.
LEMMA FreshMove ==
    ASSUME TypeOK, n' = n, NEW f \in {"tx", "alias", "tools"}, Move(f), Fresh(Bin[f])
    PROVE  Fresh(f)' /\ \A g \in Files \ {f, Bin[f]} : Fresh(g) => Fresh(g)'
<1>1. /\ file'[f] = file[Bin[f]]
      /\ \A g \in Files \ {f, Bin[f]} : file'[g] = file[g]
  BY MoveValues DEF Bin
<1>2. torn' = torn \ {f}
  BY DEF Move, Fresh
<1> QED
  BY <1>1, <1>2 DEF Fresh

LEMMA InstallRepairs ==
    ASSUME TypeInv, Counted, Complete, Complete', Repaired, Same, NoFault, Install
    PROVE  Repaired'
<1>1. n' = n /\ cmd' = cmd /\ n # 0 /\ ~Fault
  BY InProgress DEF Same, Counted, Fault, NoFault, TypeInv, TypeOK
<1>2. Ships[cmd.version] = Shipped
  BY DEF Complete
<1>3. {"tx", "alias", "prover", "boot", "tools", "bin/tx", "bin/alias", "bin/tools"} = Files
      /\ Bin["tx"] = "bin/tx" /\ Bin["alias"] = "bin/alias" /\ Bin["tools"] = "bin/tools"
  BY DEF Files, Shipped, Bin
<1>4. CASE Download \/ VerifyChecksum
  <2>1. pc'[1] \in {"checksum", "extract"}
    BY <1>1, <1>4, Names DEF Download, VerifyChecksum
  <2> QED
    BY <2>1 DEF Repaired, Laid, Named, Provided, Laying, Unpacked, Finishing
<1>5. CASE Extract
  <2>1. /\ file' = Extracted(Shipped)
        /\ torn' = torn \ {InBin(f) : f \in Shipped}
        /\ pc'[1] = "moveTx"
    BY <1>1, <1>2, <1>5, Names DEF Extract
  <2>2. /\ InBin("tx") = "bin/tx" /\ InBin("alias") = "bin/alias" /\ InBin("tools") = "bin/tools"
        /\ InBin("prover") = "prover" /\ InBin("boot") = "boot"
    BY <1>3 DEF InBin, Bin
  <2>3. ASSUME NEW f \in Shipped PROVE Fresh(InBin(f))'
    <3>1. InBin(f) \in Files
      BY <1>3, <2>2 DEF Shipped
    <3> QED
      BY <1>1, <2>1, <3>1 DEF Extracted, Fresh
  <2>4. Laid'
    BY <2>1, <2>2, <2>3 DEF Laid, Shipped, Unpacked, Fresh
  <2> QED
    BY <2>1, <2>4 DEF Repaired, Named, Provided, Finishing
<1>6. CASE MoveRunner("tx", "moveTx", "moveAlias")
  <2>1. pc[1] = "moveTx" /\ pc'[1] = "moveAlias"
    BY <1>6, Names DEF MoveRunner
  <2>2. Fresh("prover") /\ Fresh("boot") /\ Fresh("bin/tx") /\ Fresh("bin/alias") /\ Fresh("bin/tools")
    BY <2>1 DEF Repaired, Laid, Laying, Unpacked
  <2>3. Move("tx")
    BY <1>1, <1>3, <1>6, <2>2 DEF MoveRunner, Fresh
  <2>4. /\ Fresh("prover")' /\ Fresh("boot")' /\ Fresh("tx")'
        /\ Fresh("bin/alias")' /\ Fresh("bin/tools")'
    BY <1>1, <1>3, <2>2, <2>3, FreshMove DEF TypeInv
  <2> QED
    BY <2>1, <2>4 DEF Repaired, Laid, Named, Provided, Laying, Unpacked, Finishing, Fresh
<1>7. CASE MoveRunner("alias", "moveAlias", "copyRunner")
  <2>1. pc[1] = "moveAlias" /\ pc'[1] = "copyRunner"
    BY <1>7, Names DEF MoveRunner
  <2>2. Fresh("prover") /\ Fresh("boot") /\ Fresh("tx") /\ Fresh("bin/alias") /\ Fresh("bin/tools")
    BY <2>1 DEF Repaired, Laid, Laying, Unpacked
  <2>3. Move("alias")
    BY <1>1, <1>3, <1>7, <2>2 DEF MoveRunner, Fresh
  <2>4. /\ Fresh("prover")' /\ Fresh("boot")' /\ Fresh("tx")'
        /\ Fresh("alias")' /\ Fresh("bin/tools")'
    BY <1>1, <1>3, <2>2, <2>3, FreshMove DEF TypeInv
  <2> QED
    BY <2>1, <2>4 DEF Repaired, Laid, Named, Provided, Laying, Unpacked, Finishing, Fresh
<1>8. CASE CopyRunner \/ DropTools
  <2>1. pc[1] \in {"copyRunner", "dropTools"}
    BY <1>8, Names DEF CopyRunner, DropTools
  <2>2. Fresh("prover") /\ Fresh("boot") /\ Fresh("tx") /\ Fresh("alias") /\ Fresh("bin/tools")
    BY <2>1 DEF Repaired, Laid, Laying, Unpacked
  <2>3. /\ pc'[1] \in {"dropTools", "moveTools"}
        /\ \A g \in Files \ {"tools"} : Fresh(g) => Fresh(g)'
    <3>1. CASE CopyRunner
      <4>1. UNCHANGED <<file, torn>> /\ Go("dropTools")
        BY <1>1, <2>2, <3>1 DEF CopyRunner, Fresh
      <4> QED
        BY <1>1, <4>1, Names DEF Fresh
    <3>2. CASE DropTools
      <4>1. /\ file' = [file EXCEPT !["tools"] = 0] /\ torn' = torn \ {"tools"}
            /\ Go("moveTools")
        BY <1>1, <2>2, <3>2 DEF DropTools, Fresh
      <4> QED
        BY <1>1, <4>1, Names DEF Fresh, TypeInv, TypeOK
    <3> QED
      BY <1>8, <3>1, <3>2
  <2>4. /\ Fresh("prover")' /\ Fresh("boot")' /\ Fresh("tx")'
        /\ Fresh("alias")' /\ Fresh("bin/tools")'
    BY <1>3, <2>2, <2>3
  <2> QED
    BY <2>3, <2>4 DEF Repaired, Laid, Named, Provided, Laying, Unpacked, Finishing, Fresh
<1>9. CASE MoveTools
  <2>1. pc[1] = "moveTools" /\ pc'[1] = "stamp"
    BY <1>9, Names DEF MoveTools
  <2>2. Fresh("prover") /\ Fresh("boot") /\ Fresh("tx") /\ Fresh("alias") /\ Fresh("bin/tools")
    BY <2>1 DEF Repaired, Laid, Laying, Unpacked
  <2>3. Move("tools")
    BY <1>9 DEF MoveTools
  <2>4. /\ Fresh("prover")' /\ Fresh("boot")' /\ Fresh("tx")'
        /\ Fresh("alias")' /\ Fresh("tools")'
    BY <1>1, <1>3, <2>2, <2>3, FreshMove DEF TypeInv
  <2> QED
    BY <2>1, <2>4 DEF Repaired, Laid, Named, Provided, Laying, Unpacked, Finishing, Fresh
<1>10. CASE WriteStamp
  <2>1. /\ pc[1] = "stamp" /\ pc'[1] = "reqs" /\ file' = file /\ torn' = torn
        /\ stamp' = [run |-> n, version |-> cmd.version]
    BY <1>1, <1>10, Names DEF WriteStamp
  <2> QED
    BY <1>1, <2>1
    DEF Repaired, Laid, Named, Provided, Laying, Unpacked, Finishing, Fresh
<1>11. CASE FetchRequirements
  <2>1. /\ pc[1] = "reqs" /\ pc'[1] = "venv" /\ file' = file /\ torn' = torn /\ stamp' = stamp
        /\ reqs' # "none"
    BY <1>1, <1>11, Names DEF FetchRequirements, stack
  <2> QED
    BY <1>1, <2>1 DEF Repaired, Laid, Named, Provided, Laying, Unpacked, Finishing, Fresh
<1> QED
  BY <1>4, <1>5, <1>6, <1>7, <1>8, <1>9, <1>10, <1>11 DEF Install

LEMMA PythonRepairs ==
    ASSUME TypeInv, Counted, Complete, Complete', Repaired, Same, NoFault,
           Python \/ Verify \/ StepFails
    PROVE  Repaired'
<1>1. /\ n' = n /\ cmd' = cmd /\ n # 0 /\ ~Fault
      /\ file' = file /\ torn' = torn /\ stamp' = stamp /\ reqs' = reqs
  <2>1. ~Fault
    BY DEF Fault, NoFault, TypeInv, TypeOK
  <2> QED
    BY <2>1, InProgress
    DEF Same, Counted, Python, EnsureVenv, CreateVenv, InstallRequirements, CheckCompile, Verify,
        StepFails, stack
<1>2. ASSUME pc[1] \in Finishing, pc'[1] \in Finishing PROVE Laid' /\ Named'
  <2>1. Laid'
    BY <1>1, <1>2 DEF Repaired, Laid, Laying, Unpacked, Finishing, Fresh
  <2>2. Named'
    BY <1>1, <1>2 DEF Repaired, Named
  <2> QED
    BY <2>1, <2>2
<1>3. CASE Python
  <2>1. pc[1] \in {"venv", "create", "pip", "compile"}
    BY <1>3, Names DEF Python, EnsureVenv, CreateVenv, InstallRequirements, CheckCompile
  <2>2. reqs # "none"
    BY <2>1 DEF Repaired, Provided, Finishing
  <2>3. \/ pc'[1] = "create"
        \/ pc'[1] = "pip" /\ Healthy'
        \/ pc'[1] = "compile" /\ (venv' = "ready" \/ reqs = "torn")
        \/ pc'[1] = "verify" /\ venv' = "ready"
        \/ pc'[1] = "failed" /\ reqs = "torn"
    <3>1. CASE EnsureVenv
      BY <3>1, Names DEF EnsureVenv, Healthy
    <3>2. CASE CreateVenv
      BY <1>1, <3>2, Names DEF CreateVenv, Healthy
    <3>3. CASE InstallRequirements
      BY <2>2, <3>3, Names DEF InstallRequirements, Repaired, Provided
    <3>4. CASE CheckCompile
      BY <3>4, Names DEF CheckCompile, Repaired, Provided, Stop, Complete
    <3> QED
      BY <1>3, <3>1, <3>2, <3>3, <3>4 DEF Python
  <2>4. Provided'
    BY <1>1, <2>2, <2>3 DEF Provided, Finishing
  <2>5. Laid' /\ Named'
    <3>1. CASE pc'[1] = "failed"
      BY <3>1 DEF Laid, Named, Laying, Unpacked, Finishing
    <3>2. CASE pc'[1] # "failed"
      BY <1>2, <2>1, <2>3, <3>2 DEF Finishing
    <3> QED
      BY <3>1, <3>2
  <2> QED
    BY <2>4, <2>5 DEF Repaired
<1>4. CASE Verify
  <2>1. pc[1] = "verify"
    BY <1>4, Names DEF Verify
  <2>2. \A f \in {"tx", "alias", "prover", "boot", "tools"} : file[f] # 0
    BY <1>1, <2>1 DEF Repaired, Laid, Laying, Unpacked, Finishing, Fresh
  <2>3. ~Missing
    BY <2>2 DEF Missing, Runner
  <2>4. pc'[1] = "ok" /\ venv' = venv
    BY <1>4, <2>3, Names DEF Verify
  <2>5. Laid' /\ Named'
    BY <1>2, <2>1, <2>4 DEF Finishing
  <2>6. Provided'
    BY <1>1, <2>1, <2>4 DEF Repaired, Provided, Finishing
  <2> QED
    BY <2>5, <2>6 DEF Repaired
<1>5. ~StepFails
  BY <1>1 DEF StepFails
<1> QED
  BY <1>3, <1>4, <1>5

LEMMA RepairInvariant == Spec => []RepairInv
<1>1. Init => RepairInv
  BY DEF Init, RepairInv, Complete, Prebuilt
<1>2. TypeInv /\ Counted /\ RunnerInv /\ RepairInv /\ [Next]_vars => RepairInv'
  <2> SUFFICES ASSUME TypeInv, Counted, RunnerInv, RepairInv, [Next]_vars, Complete'
               PROVE  Repaired'
    BY DEF RepairInv
  <2>1. ASSUME Same, Source \/ Install \/ Python \/ Verify \/ StepFails
        PROVE  NoFault /\ Complete /\ Repaired
    <3>1. Fault \/ NoFault
      BY <2>1 DEF Source, EnsureRepo, AddRemote, Fetch, Checkout, CrashInRepo, Limits, Restore,
                  CheckPins, Append, InstallSierra, BuildProver, CopyProver, BuildRunner,
                  CopyBootloader, Install, Download, VerifyChecksum, Extract, MoveRunner,
                  CopyRunner, Copied, DropTools, MoveTools, WriteStamp, FetchRequirements,
                  Python, EnsureVenv, CreateVenv, InstallRequirements, CheckCompile, Verify,
                  StepFails
    <3>2. NoFault
      BY <3>1 DEF Complete, Fault
    <3>3. Complete
      BY <2>1, <3>2 DEF Complete, Prebuilt, Same, NoFault
    <3> QED
      BY <3>2, <3>3 DEF RepairInv
  <2>2. CASE Source /\ Same
    <3>1. pc[1] \in SourceSteps
      <4>1. CASE \E r \in Repos : EnsureRepo(r) \/ AddRemote(r) \/ Fetch(r) \/ Checkout(r)
                                  \/ CrashInRepo(r)
        BY <4>1, RepoOutcomes DEF TypeInv, SourceSteps
      <4>2. CASE Limits \/ Restore \/ CheckPins \/ Append \/ InstallSierra \/ BuildProver
                 \/ CopyProver \/ BuildRunner \/ CopyBootloader
        BY <4>2, Names DEF Limits, Restore, CheckPins, Append, InstallSierra, BuildProver,
                           CopyProver, BuildRunner, CopyBootloader, SourceSteps
      <4> QED
        BY <2>2, <4>1, <4>2 DEF Source
    <3> QED
      BY <2>1, <2>2, <3>1 DEF RunnerInv, Ways, Complete
  <2>3. CASE Install /\ Same
    BY <2>1, <2>3, InstallRepairs
  <2>4. CASE (Python \/ Verify \/ StepFails) /\ Same
    BY <2>1, <2>4, PythonRepairs
  <2>5. CASE Begin
    <3>1. pc'[1] = "download"
      BY <2>5, Names DEF Begin, Complete, Prebuilt
    <3> QED
      BY <3>1 DEF Repaired, Laid, Named, Provided, Laying, Unpacked, Finishing
  <2>6. CASE BreakVenv
    <3>1. /\ UNCHANGED <<cmd, n, pc, reqs, file, torn, stamp, clean>> /\ venv' = "stale"
          /\ pc[1] \in {"ok", "failed"}
      BY <2>6 DEF BreakVenv, Runs, Over, stack, tree, history
    <3>2. Repaired
      BY <3>1 DEF RepairInv, Complete, Prebuilt
    <3> QED
      BY <3>1, <3>2 DEF Repaired, Laid, Named, Provided, Fresh, Finishing
  <2>7. CASE UNCHANGED vars
    <3>1. UNCHANGED <<cmd, n, pc, reqs, venv, file, torn, stamp, clean>>
      BY <2>7 DEF vars, stack, tree, history
    <3>2. Repaired
      BY <3>1 DEF RepairInv, Complete, Prebuilt
    <3> QED
      BY <3>1, <3>2 DEF Repaired, Laid, Named, Provided, Fresh, Healthy
  <2> QED
    BY <2>2, <2>3, <2>4, <2>5, <2>6, <2>7 DEF Next
<1> QED
  BY <1>1, <1>2, TypeInvariant, NumberedCommands, RunnerInvariant, PTL DEF Spec

\* setup.rs and doctor.rs: for any earlier commands, complete or cut short, a
\* complete release in which nothing fails is installed whole, and doctor calls
\* the result ready, unless the requirements were cut short before.
THEOREM ReleasesRepair == Spec => []PrebuiltRepairs
<1>1. TypeInv /\ RepairInv => PrebuiltRepairs
  <2> SUFFICES ASSUME TypeInv, RepairInv, ~Runs, n > 0, Prebuilt, clean,
                      Ships[cmd.version] = Shipped, reqs # "torn"
               PROVE  /\ pc = <<"ok">>
                      /\ DoctorReady \/ venv = "stale"
                      /\ ~Mismatch(cmd.version)
                      /\ \A f \in Shipped : file[f] = n
    BY DEF PrebuiltRepairs
  <2>1. Repaired
    BY DEF RepairInv, Complete
  <2>2. pc = <<"ok">> /\ pc[1] = "ok"
    BY <2>1 DEF Runs, Over, Repaired, Provided
  <2>3. /\ Fresh("prover") /\ Fresh("boot") /\ Fresh("tx") /\ Fresh("alias") /\ Fresh("tools")
        /\ stamp.version = cmd.version
        /\ venv \in {"ready", "stale"}
    BY <2>1, <2>2 DEF Repaired, Laid, Named, Provided, Laying, Unpacked, Finishing
  <2>4. n # 0
    BY DEF TypeInv, TypeOK
  <2> QED
    BY <2>2, <2>3, <2>4 DEF DoctorReady, Mismatch, Runner, Fresh, Shipped
<1> QED
  BY <1>1, RepairInvariant, TypeInvariant, PTL
=============================================================================
