---------------------------- MODULE Provisioning ----------------------------
(***************************************************************************)
(* `snip36 setup` (src/crates/snip36-cli/src/commands/setup.rs), from      *)
(* source and with --prebuilt, run again and again on one deps directory   *)
(* by builds of the CLI with different pins; what `snip36 doctor` says of  *)
(* the result (doctor.rs), and the runner that `snip36 prove` then starts  *)
(* (Config::runner_bin).  A command is a sequence of steps, and any of     *)
(* them may fail or be cut short.                                          *)
(***************************************************************************)
EXTENDS Naturals

CONSTANTS
    Versions,    \* builds of the CLI: each pins a sequencer and names a release
    Requests,    \* the commands a user gives, each [how, stock, skip]
    Ships,       \* Ships[v]: the files in the release that v downloads
    Differs,     \* files of the sequencer that differ between the pins
    OnMac,       \* whether the limits are patched, see Limits
    NoStamp,     \* stands for a missing .deps-version
    MaxCommands, \* bound on commands
    MaxFaults    \* bound on failures: see Fault

Shipped == {"tx", "alias", "prover", "boot", "tools"}
Tracked == {"manifest", "lock", "limits"}

ASSUME ProvisioningAssumption ==
    /\ Requests \subseteq [how : {"source", "prebuilt"}, stock : BOOLEAN,
                           skip : SUBSET {"prover", "runner"}]
    /\ Ships \in [Versions -> SUBSET Shipped]
    /\ Differs \subseteq Tracked
    /\ OnMac \in BOOLEAN
    /\ {"none", "bare", "broken", "unborn", "default"} \cap Versions = {}
    /\ MaxCommands \in Nat \ {0}
    /\ MaxFaults \in Nat

VARIABLES
    cmd,      \* the command: a request, and the version that runs it
    n,        \* its number: commands are counted from 1
    pc,       \* its next step
    repo,     \* repo[r]: what is at the path of checkout r
    edited,   \* tracked files of the sequencer with local changes
    pins,     \* whether the sequencer's Cargo.lock names the pinned revisions
    sections, \* low-memory sections in the sequencer's Cargo.toml
    reqs,     \* the sequencer's requirements.txt
    venv,     \* the Python environment
    file,     \* file[f]: the command that f is from, 0 when there is no f
    torn,     \* files of which only a part was written
    linked,   \* the prover inside the runner that was built last
    binDir,   \* whether deps/bin exists
    stamp,    \* the command and the release that .deps-version names
    clean,    \* history: nothing has failed in this command
    again,    \* history: the command before was the same, and ended well
    expected, \* history: the command found nothing in its way
    faults

tree == <<repo, edited, pins, sections>>
stack == <<file, torn, linked, binDir, stamp>>
history == <<again, expected>>
vars == <<cmd, n, pc, tree, reqs, venv, stack, clean, history, faults>>

\* "stwo" stands for the four repositories of LOW_MEMORY_PROVER.
Repos == {"provingUtils", "sequencer", "stwo"}
Bin == [f \in {"tx", "alias", "tools"} |->
            CASE f = "tx" -> "bin/tx" [] f = "alias" -> "bin/alias" [] f = "tools" -> "bin/tools"]
Files == Shipped \cup {"bin/tx", "bin/alias", "bin/tools"}
RepoSteps == {"clone", "remote", "fetch", "checkout"}
Steps == {"limits", "restore", "pins", "append", "venv", "create", "pip", "compile", "sierra",
          "buildProver", "copyProver", "buildRunner", "boot", "download", "checksum", "extract", "moveTx",
          "moveAlias", "copyRunner", "dropTools", "moveTools", "stamp", "reqs", "verify"}
Over == {"ok", "failed"}
Prebuilt == cmd.how = "prebuilt"
Runs == pc \notin {<<o>> : o \in Over}

Init ==
    /\ cmd \in {[how |-> "source", stock |-> FALSE, skip |-> {}, version |-> v] : v \in Versions}
    /\ n = 0 /\ pc = <<"ok">>
    /\ repo = [r \in Repos |-> "none"]
    /\ edited = {} /\ pins = TRUE /\ sections = 0 /\ reqs = "none"
    /\ venv = "none"
    /\ file = [f \in Files |-> 0] /\ torn = {} /\ linked = "none" /\ binDir = FALSE
    /\ stamp = NoStamp
    /\ clean = TRUE /\ again = FALSE /\ expected = TRUE /\ faults = 0

\* A failure: of a process, a download, a write or the machine.
Fault == faults < MaxFaults /\ faults' = faults + 1 /\ clean' = FALSE
NoFault == UNCHANGED <<faults, clean>>

Go(step) == pc' = <<step>>
GoRepo(step, r) == pc' = <<step, r>>
At(step) == pc = <<step>>
AtRepo(step, r) == pc = <<step, r>>
Same == UNCHANGED <<cmd, n, history>>

\* f is written whole, or only the beginning of it.
Written(f) == file' = [file EXCEPT ![f] = n] /\ torn' = torn \ {f}
Cut(f) == file' = [file EXCEPT ![f] = n] /\ torn' = torn \cup {f}

-----------------------------------------------------------------------------
(* A command begins. *)

\* A commit is checked out; after a clone it is that of the default branch.
Born(r) == repo[r] \in Versions \cup {"default"}

\* Nothing that an earlier command left is in the way of source command c.
\* This is a statement about the steps below, and no step reads it.
Unobstructed(c) ==
    /\ \A r \in Repos : repo[r] # "broken"
    /\ Born("sequencer") \/ reqs = "none"
    /\ repo["sequencer"] = c.version \/ ~Born("sequencer") \/ edited \cap Differs = {}
    /\ c.stock \/ pins
    /\ "prover" \in c.skip => binDir

Begin ==
    /\ ~Runs
    /\ n < MaxCommands
    /\ n' = n + 1
    /\ \E q \in Requests, v \in Versions :
           LET c == [how |-> q.how, stock |-> q.stock, skip |-> q.skip, version |-> v]
           IN  /\ cmd' = c
               /\ again' = (n > 0 /\ pc = <<"ok">> /\ c = cmd)
               /\ expected' = Unobstructed(c)
               /\ IF c.how = "prebuilt" THEN Go("download") ELSE GoRepo("clone", "provingUtils")
    /\ clean' = TRUE
    /\ UNCHANGED <<tree, reqs, venv, stack, faults>>

Stop == Go("failed")

\* A step fails by itself and leaves everything as it was.
StepFails ==
    /\ Runs
    /\ Fault
    /\ Stop
    /\ UNCHANGED <<tree, reqs, venv, stack>>

-----------------------------------------------------------------------------
(* The checkouts: ensure_repo, git fetch and git checkout. *)

Cloned(r) ==
    /\ repo' = [repo EXCEPT ![r] = "default"]
    /\ reqs' = IF r = "sequencer" THEN "tracked" ELSE reqs
    /\ GoRepo("fetch", r)

\* Mutant of EnsureRepo: it always clones, also into a directory that is there.
EnsureRepo_Clones(r) ==
    /\ AtRepo("clone", r)
    /\ CASE repo[r] = "none" -> Cloned(r)
         [] repo[r] = "bare" -> Stop /\ UNCHANGED <<repo, reqs>>
         [] OTHER -> GoRepo("fetch", r) /\ UNCHANGED <<repo, reqs>>
    /\ NoFault
    /\ UNCHANGED <<edited, pins, sections, venv, stack>>

\* A directory without .git is made a repository.
EnsureRepo(r) ==
    /\ AtRepo("clone", r)
    /\ CASE repo[r] = "none" -> Cloned(r)
         [] repo[r] = "bare" ->
                repo' = [repo EXCEPT ![r] = "broken"] /\ GoRepo("remote", r) /\ UNCHANGED reqs
         [] OTHER -> GoRepo("fetch", r) /\ UNCHANGED <<repo, reqs>>
    /\ NoFault
    /\ UNCHANGED <<edited, pins, sections, venv, stack>>

AddRemote(r) ==
    /\ AtRepo("remote", r)
    /\ repo' = [repo EXCEPT ![r] = "unborn"]
    /\ GoRepo("fetch", r)
    /\ NoFault
    /\ UNCHANGED <<edited, pins, sections, reqs, venv, stack>>

\* "broken" is a repository whose making was cut short: git init without its
\* remote, or a clone that was killed.
Fetch(r) ==
    /\ AtRepo("fetch", r)
    /\ IF repo[r] = "broken" THEN Stop ELSE GoRepo("checkout", r)
    /\ NoFault
    /\ UNCHANGED <<tree, reqs, venv, stack>>

\* git refuses to overwrite a file that is not tracked, or one with local
\* changes that differs between the two commits.
Refuses(r) ==
    /\ r = "sequencer"
    /\ IF Born(r) THEN repo[r] # cmd.version /\ edited \cap Differs # {} ELSE reqs # "none"

\* For "stwo" this is fetch, reset --hard, clean and apply of each patch.
Checkout(r) ==
    /\ AtRepo("checkout", r)
    /\ IF Refuses(r)
       THEN Stop /\ UNCHANGED <<tree, reqs>>
       ELSE /\ repo' = [repo EXCEPT ![r] = cmd.version]
            /\ reqs' = IF r = "sequencer" THEN "tracked" ELSE reqs
            /\ pins' = IF r = "sequencer" /\ ~Born(r) THEN TRUE ELSE pins
            /\ UNCHANGED <<edited, sections>>
            /\ CASE r = "provingUtils" -> GoRepo("clone", "sequencer")
                 [] r = "sequencer" -> Go("limits")
                 [] r = "stwo" -> Go("append")
    /\ NoFault
    /\ UNCHANGED <<venv, stack>>

\* Killed in git init, or in a clone.
CrashInRepo(r) ==
    /\ AtRepo("clone", r)
    /\ repo[r] \in {"none", "bare"}
    /\ Fault
    /\ \/ repo' = [repo EXCEPT ![r] = "broken"]
       \/ repo[r] = "none" /\ repo' = [repo EXCEPT ![r] = "unborn"]
    /\ Stop
    /\ UNCHANGED <<edited, pins, sections, reqs, venv, stack>>

-----------------------------------------------------------------------------
(* The sequencer's sources: apply_macos_patch, apply_low_memory_prover. *)

Limits ==
    /\ At("limits")
    /\ edited' = IF OnMac THEN edited \cup {"limits"} ELSE edited
    /\ Go("restore")
    /\ NoFault
    /\ UNCHANGED <<repo, pins, sections, reqs, venv, stack>>

\* Mutant of Restore: the tag's manifest is not fetched back first.
Restore_NotAgain ==
    /\ At("restore")
    /\ Go(IF cmd.stock THEN "venv" ELSE "pins")
    /\ NoFault
    /\ UNCHANGED <<tree, reqs, venv, stack>>

\* Mutant of Restore: --stock-prover returns before it.
Restore_NotForStock ==
    /\ At("restore")
    /\ IF cmd.stock
       THEN Go("venv") /\ UNCHANGED <<sections, edited>>
       ELSE Go("pins") /\ sections' = 0 /\ edited' = edited \ {"manifest"}
    /\ NoFault
    /\ UNCHANGED <<repo, pins, reqs, venv, stack>>

\* git checkout -- Cargo.toml
Restore ==
    /\ At("restore")
    /\ sections' = 0
    /\ edited' = edited \ {"manifest"}
    /\ Go(IF cmd.stock THEN "venv" ELSE "pins")
    /\ NoFault
    /\ UNCHANGED <<repo, pins, reqs, venv, stack>>

\* The patches are made for exact commits: Cargo.lock must name them.
CheckPins ==
    /\ At("pins")
    /\ IF pins THEN GoRepo("clone", "stwo") ELSE Stop
    /\ NoFault
    /\ UNCHANGED <<tree, reqs, venv, stack>>

\* Whole or cut short, the manifest has local changes.
Append ==
    /\ At("append")
    /\ edited' = edited \cup {"manifest"}
    /\ \/ sections' = sections + 1 /\ Go("venv") /\ NoFault
       \/ sections' \in {sections, sections + 1} /\ Stop /\ Fault
    /\ UNCHANGED <<repo, pins, reqs, venv, stack>>

-----------------------------------------------------------------------------
(* Building. *)

\* The installer (external) may leave a compiler that is there alone.
InstallSierra ==
    /\ At("sierra")
    /\ \/ Written("tools")
       \/ file["tools"] # 0 /\ UNCHANGED <<file, torn>>
    /\ Go(IF "prover" \in cmd.skip THEN "buildRunner" ELSE "buildProver")
    /\ NoFault
    /\ UNCHANGED <<tree, reqs, venv, linked, binDir, stamp>>

BuildProver ==
    /\ At("buildProver")
    /\ binDir' = TRUE
    /\ Go("copyProver")
    /\ NoFault
    /\ UNCHANGED <<tree, reqs, venv, file, torn, linked, stamp>>

CopyProver ==
    /\ At("copyProver")
    /\ \/ Written("prover") /\ Go("buildRunner") /\ NoFault
       \/ Cut("prover") /\ Stop /\ Fault
    /\ UNCHANGED <<tree, reqs, venv, linked, binDir, stamp>>

\* Cargo resolves first: with the section the patched packages lose their git
\* revisions in Cargo.lock, without it they get them back.
Resolve ==
    /\ pins' = (sections = 0)
    /\ IF sections # 0 THEN edited' = edited \cup {"lock"}
       ELSE edited' \in {edited, edited \ {"lock"}}

BuildRunner ==
    /\ At("buildRunner")
    /\ IF "runner" \in cmd.skip
       THEN Go("boot") /\ NoFault /\ UNCHANGED <<pins, edited, file, torn, linked>>
       ELSE /\ Resolve
            /\ \/ /\ Written("tx")
                  /\ linked' = IF sections = 0 THEN "stock" ELSE "patched"
                  /\ Go("boot") /\ NoFault
               \/ Stop /\ Fault /\ UNCHANGED <<file, torn, linked>>
    /\ UNCHANGED <<repo, sections, reqs, venv, binDir, stamp>>

\* When no bootloader is found there is only a warning.
CopyBootloader ==
    /\ At("boot")
    /\ \/ UNCHANGED <<file, torn>> /\ Go("verify") /\ NoFault
       \/ binDir /\ Written("boot") /\ Go("verify") /\ NoFault
       \/ binDir /\ Cut("boot") /\ Stop /\ Fault
       \/ ~binDir /\ UNCHANGED <<file, torn>> /\ Stop /\ NoFault
    /\ UNCHANGED <<tree, reqs, venv, linked, binDir, stamp>>

-----------------------------------------------------------------------------
(* Downloading: run_prebuilt and layout_prebuilt. *)

\* The archive goes to a temporary directory of its own.
Download ==
    /\ At("download")
    /\ binDir' = TRUE
    /\ Go("checksum")
    /\ NoFault
    /\ UNCHANGED <<tree, reqs, venv, file, torn, linked, stamp>>

\* An archive with the wrong checksum is refused; one without any is taken.
VerifyChecksum ==
    /\ At("checksum")
    /\ \/ Go("extract") /\ NoFault
       \/ Stop /\ Fault
    /\ UNCHANGED <<tree, reqs, venv, stack>>

InBin(f) == IF f \in DOMAIN Bin THEN Bin[f] ELSE f
Extracted(S) == [g \in Files |-> IF \E f \in S : InBin(f) = g THEN n ELSE file[g]]

\* tar writes the shipped files, or some and the beginning of one more.
Extract ==
    /\ At("extract")
    /\ \/ /\ file' = Extracted(Ships[cmd.version])
          /\ torn' = torn \ {InBin(f) : f \in Ships[cmd.version]}
          /\ Go("moveTx") /\ NoFault
       \/ \E S \in SUBSET Ships[cmd.version] : \E f \in S :
              /\ file' = Extracted(S)
              /\ torn' = (torn \ {InBin(g) : g \in S}) \cup {InBin(f)}
              /\ Stop /\ Fault
    /\ UNCHANGED <<tree, reqs, venv, linked, binDir, stamp>>

\* rename: f leaves deps/bin, torn or not.
Move(f) ==
    /\ file' = [file EXCEPT ![f] = file[Bin[f]], ![Bin[f]] = 0]
    /\ torn' = IF Bin[f] \in torn THEN (torn \ {Bin[f]}) \cup {f} ELSE torn \ {f}

MoveRunner(f, step, next) ==
    /\ At(step)
    /\ IF file[Bin[f]] # 0 THEN Move(f) ELSE UNCHANGED <<file, torn>>
    /\ repo' = [repo EXCEPT !["sequencer"] = IF @ = "none" THEN "bare" ELSE @]
    /\ Go(next)
    /\ NoFault
    /\ UNCHANGED <<edited, pins, sections, reqs, venv, linked, binDir, stamp>>

\* A copy of f as g, or the beginning of one.
Copied(f, g) ==
    \/ /\ file' = [file EXCEPT ![g] = file[f]]
       /\ torn' = IF f \in torn THEN torn \cup {g} ELSE torn \ {g}
       /\ Go("dropTools") /\ NoFault
    \/ /\ file' = [file EXCEPT ![g] = file[f]]
       /\ torn' = torn \cup {g}
       /\ Stop /\ Fault

\* Under the other name too, but only where that name is missing.
CopyRunner ==
    /\ At("copyRunner")
    /\ CASE file["tx"] # 0 /\ file["alias"] = 0 -> Copied("tx", "alias")
         [] file["tx"] = 0 /\ file["alias"] # 0 -> Copied("alias", "tx")
         [] OTHER -> Go("dropTools") /\ NoFault /\ UNCHANGED <<file, torn>>
    /\ UNCHANGED <<tree, reqs, venv, linked, binDir, stamp>>

\* Mutant of DropTools: tools that are there are kept.
DropTools_KeepsOld ==
    /\ At("dropTools")
    /\ UNCHANGED <<file, torn>>
    /\ Go(IF file["bin/tools"] # 0 /\ file["tools"] = 0 THEN "moveTools" ELSE "stamp")
    /\ NoFault
    /\ UNCHANGED <<tree, reqs, venv, linked, binDir, stamp>>

DropTools ==
    /\ At("dropTools")
    /\ IF file["bin/tools"] # 0
       THEN /\ file' = [file EXCEPT !["tools"] = 0]
            /\ torn' = torn \ {"tools"}
            /\ Go("moveTools")
       ELSE Go("stamp") /\ UNCHANGED <<file, torn>>
    /\ NoFault
    /\ UNCHANGED <<tree, reqs, venv, linked, binDir, stamp>>

MoveTools ==
    /\ At("moveTools")
    /\ Move("tools")
    /\ Go("stamp")
    /\ NoFault
    /\ UNCHANGED <<tree, reqs, venv, linked, binDir, stamp>>

\* A stamp that was cut short is empty, which nothing compares: NoStamp.
WriteStamp ==
    /\ At("stamp")
    /\ \/ stamp' = [run |-> n, version |-> cmd.version] /\ Go("reqs") /\ NoFault
       \/ stamp' = NoStamp /\ Stop /\ Fault
    /\ UNCHANGED <<tree, reqs, venv, file, torn, linked, binDir>>

\* The requirements are fetched unless there are some.
FetchRequirements ==
    /\ At("reqs")
    /\ \/ reqs' = (IF reqs = "none" THEN "untracked" ELSE reqs) /\ Go("venv") /\ NoFault
       \/ reqs = "none" /\ reqs' = "torn" /\ Stop /\ Fault
    /\ UNCHANGED <<tree, venv, stack>>

-----------------------------------------------------------------------------
(* The Python environment: ensure_venv. *)

Healthy == venv \in {"fresh", "ready"}

\* Mutant of EnsureVenv: the files are trusted, and pip is not run.
EnsureVenv_TrustsFiles ==
    /\ At("venv")
    /\ venv' = IF venv = "none" THEN "none" ELSE venv
    /\ Go(IF venv = "none" THEN "create" ELSE "pip")
    /\ NoFault
    /\ UNCHANGED <<tree, reqs, stack>>

\* One that is not healthy is removed.
EnsureVenv ==
    /\ At("venv")
    /\ venv' = IF Healthy THEN venv ELSE "none"
    /\ Go(IF Healthy THEN "pip" ELSE "create")
    /\ NoFault
    /\ UNCHANGED <<tree, reqs, stack>>

CreateVenv ==
    /\ At("create")
    /\ \/ venv' = "fresh" /\ Go("pip") /\ NoFault
       \/ venv' = "stale" /\ Stop /\ Fault
    /\ UNCHANGED <<tree, reqs, stack>>

\* Requirements that were cut short may install without cairo-lang.
InstallRequirements ==
    /\ At("pip")
    /\ \/ Healthy /\ reqs # "none" /\ venv' = "ready" /\ Go("compile")
       \/ Healthy /\ reqs \in {"none", "torn"} /\ Go("compile") /\ UNCHANGED venv
       \/ ~Healthy /\ Stop /\ UNCHANGED venv
    /\ NoFault
    /\ UNCHANGED <<tree, reqs, stack>>

CheckCompile ==
    /\ At("compile")
    /\ IF venv = "ready" THEN Go(IF Prebuilt THEN "verify" ELSE "sierra") ELSE Stop
    /\ NoFault
    /\ UNCHANGED <<tree, reqs, venv, stack>>

-----------------------------------------------------------------------------
(* The result. *)

\* The name that `snip36 prove` starts: Config::runner_bin.
Runner == IF file["alias"] # 0 THEN "alias" ELSE "tx"

\* A source build is not checked for more than its compiler; what --help
\* says of a binary is a warning.
Missing ==
    \/ file["tools"] = 0
    \/ Prebuilt /\ \E f \in {"prover", Runner, "boot"} : file[f] = 0

Verify ==
    /\ At("verify")
    /\ Go(IF Missing THEN "failed" ELSE "ok")
    /\ NoFault
    /\ UNCHANGED <<tree, reqs, venv, stack>>

\* The project is moved, or its Python upgraded.
BreakVenv ==
    /\ ~Runs
    /\ Healthy
    /\ venv' = "stale"
    /\ UNCHANGED <<cmd, n, pc, tree, reqs, stack, clean, history, faults>>

\* What `snip36 doctor` calls ready.
DoctorReady ==
    /\ \A f \in {"prover", Runner} : file[f] # 0 /\ f \notin torn
    /\ file["tools"] # 0
    /\ file["boot"] # 0
    /\ venv = "ready"

\* The warning of doctor, and of `snip36 prove`, run by version v.
Mismatch(v) == stamp # NoStamp /\ stamp.version # v

-----------------------------------------------------------------------------
Source ==
    \/ \E r \in Repos : EnsureRepo(r) \/ AddRemote(r) \/ Fetch(r) \/ Checkout(r) \/ CrashInRepo(r)
    \/ Limits \/ Restore \/ CheckPins \/ Append
    \/ InstallSierra \/ BuildProver \/ CopyProver \/ BuildRunner \/ CopyBootloader

Install ==
    \/ Download \/ VerifyChecksum \/ Extract
    \/ MoveRunner("tx", "moveTx", "moveAlias") \/ MoveRunner("alias", "moveAlias", "copyRunner")
    \/ CopyRunner \/ DropTools \/ MoveTools \/ WriteStamp \/ FetchRequirements

Python == EnsureVenv \/ CreateVenv \/ InstallRequirements \/ CheckCompile

Next ==
    \/ (Source \/ Install \/ Python \/ Verify \/ StepFails) /\ Same
    \/ Begin
    \/ BreakVenv

Spec == Init /\ [][Next]_vars

-----------------------------------------------------------------------------
\* The low-memory sections never stack: there is at most one.
TypeOK ==
    /\ cmd \in [how : {"source", "prebuilt"}, stock : BOOLEAN,
                skip : SUBSET {"prover", "runner"}, version : Versions]
    /\ n \in 0 .. MaxCommands
    /\ pc \in (RepoSteps \X Repos) \cup {<<s>> : s \in Steps \cup Over}
    /\ repo \in [Repos -> Versions \cup {"none", "bare", "broken", "unborn", "default"}]
    /\ edited \subseteq Tracked
    /\ pins \in BOOLEAN
    /\ sections \in {0, 1}
    /\ reqs \in {"none", "untracked", "torn", "tracked"}
    /\ venv \in {"none", "stale", "fresh", "ready"}
    /\ file \in [Files -> 0 .. MaxCommands]
    /\ torn \subseteq Files
    /\ linked \in {"none", "stock", "patched"}
    /\ binDir \in BOOLEAN
    /\ stamp \in [run : 1 .. MaxCommands, version : Versions] \cup {NoStamp}
    /\ clean \in BOOLEAN /\ again \in BOOLEAN /\ expected \in BOOLEAN
    /\ faults \in 0 .. MaxFaults

\* doctor.rs advises `snip36 setup --prebuilt` for whatever it finds wrong.
\* Whatever earlier commands left, one in which nothing fails and whose release
\* is complete succeeds and makes the stack that release, unless the
\* requirements were cut short: they are never fetched again.
PrebuiltRepairs ==
    /\ ~Runs /\ n > 0 /\ Prebuilt /\ clean
    /\ Ships[cmd.version] = Shipped
    /\ reqs # "torn"
    => /\ pc = <<"ok">>
       /\ DoctorReady \/ venv = "stale"
       /\ ~Mismatch(cmd.version)
       /\ \A f \in Shipped : file[f] = n

\* setup.rs: nothing that a release ships is older than the stamp naming it.
NothingOlderThanStamp ==
    stamp # NoStamp /\ ~Runs =>
        \A f \in Ships[stamp.version] : file[f] = 0 \/ file[f] >= stamp.run

\* setup.rs: a build that succeeds leaves the runner with the prover that its
\* flags ask for, and at the path the build writes.
RunnerAsAsked ==
    pc = <<"ok">> /\ n > 0 /\ ~Prebuilt /\ "runner" \notin cmd.skip =>
        /\ file["tx"] = n
        /\ linked = IF cmd.stock THEN "stock" ELSE "patched"

\* setup.rs: a build from source in which nothing fails succeeds, unless it
\* found one of the obstructions that are listed in Unobstructed.
SourceRepairs ==
    pc = <<"failed">> /\ ~Prebuilt /\ clean => ~expected

\* setup.rs:968 and 1002: setup can be run again with the same flags.
RerunSucceeds == again /\ clean => pc # <<"failed">>

\* config.rs:100: the runner that is started is the canonical one that
\* `snip36 setup` has just built.
BuiltRunnerIsStarted ==
    pc = <<"ok">> /\ n > 0 /\ ~Prebuilt /\ "runner" \notin cmd.skip => file[Runner] = n
=============================================================================
