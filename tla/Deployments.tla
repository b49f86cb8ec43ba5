---------------------------- MODULE Deployments ----------------------------
(***************************************************************************)
(* The contracts the CoinFlip server plays with: deploy_coinflip and       *)
(* deploy_bank of src/apps/coinflip/src/routes.rs, the two registries and  *)
(* output/deployments.json of state.rs, and the sessions that look the     *)
(* bank up each time they need it.                                         *)
(*                                                                         *)
(* A request deploys at most one contract, so the contract has the         *)
(* request's name.  Handlers run on several threads: they interleave at    *)
(* every await and at the system calls that write the file.                *)
(***************************************************************************)
EXTENDS Naturals

CONSTANTS
    Games,      \* deploy_coinflip requests
    Banks,      \* deploy_bank requests
    Sessions,   \* sessions that stake in a bank
    None,       \* no deployment, no request
    MaxFaults   \* bound on failures: see Fault

Tasks == Games \cup Banks

ASSUME DeploymentsAssumption ==
    /\ Games \cap Banks = {}
    /\ None \notin Tasks
    /\ MaxFaults \in Nat

VARIABLES
    memory,      \* CoinFlipAppState.coinflip and .bank
    file,        \* what load_deployments would read now
    pc,          \* pc[t]: where request t is
    lock,        \* sncast_lock
    snap,        \* snap[t]: what the save of t has read of memory
    overwritten, \* saves that truncated the file before another one wrote it
    approved,    \* banks that may move the owner's tokens
    play,        \* play[s]: where session s is
    staked,      \* staked[s]: the bank that holds the stake of s
    overlapped,  \* history: requests already deploying the same kind when t was stored
    dirty,       \* history: the last save overlapped another, failed or was cut short
    faults

requests == <<pc, lock, snap, overwritten, approved>>
sessions == <<play, staked>>
vars == <<memory, file, requests, sessions, overlapped, dirty, faults>>

Registry == [coinflip : Games \cup {None}, bank : Banks \cup {None}]
NoDeployments == [coinflip |-> None, bank |-> None]

NeedsLock == {"deploy", "approve", "fund"}
Saving == {"readCoinflip", "readBank", "truncate", "write"}
PastCheck == NeedsLock \cup {"store"}
Ended == {"existing", "done", "failed"}

Init ==
    /\ memory = NoDeployments
    /\ file = NoDeployments
    /\ pc = [t \in Tasks |-> "new"]
    /\ lock = None
    /\ snap = [t \in Tasks |-> NoDeployments]
    /\ overwritten = {}
    /\ approved = {}
    /\ play = [s \in Sessions |-> "new"]
    /\ staked = [s \in Sessions |-> None]
    /\ overlapped = [t \in Tasks |-> {}]
    /\ dirty = FALSE
    /\ faults = 0

\* A failure the code handles or ignores: a failed process, RPC call or file
\* write, a timeout, a dropped connection, a restart.
Fault == faults < MaxFaults /\ faults' = faults + 1

Go(t, to) == pc' = [pc EXCEPT ![t] = to]
Kind(t) == IF t \in Games THEN Games ELSE Banks
Deployed(t) == IF t \in Games THEN memory.coinflip ELSE memory.bank
IsSaving(t) == pc[t] \in Saving

-----------------------------------------------------------------------------
(* deploy_coinflip and deploy_bank. *)

\* Mutant of Check: the lookup of an existing deployment is left out.
Check_Always(t) ==
    /\ pc[t] = "new"
    /\ Go(t, "deploy")
    /\ UNCHANGED <<memory, file, lock, snap, overwritten, approved, sessions,
                   overlapped, dirty, faults>>

\* An existing deployment is returned.  The lock is taken only afterwards, and
\* the registry is not looked at again.
Check(t) ==
    /\ pc[t] = "new"
    /\ Go(t, IF Deployed(t) # None THEN "existing" ELSE "deploy")
    /\ UNCHANGED <<memory, file, lock, snap, overwritten, approved, sessions,
                   overlapped, dirty, faults>>

Acquire(t) ==
    /\ pc[t] \in NeedsLock
    /\ lock = None
    /\ lock' = t
    /\ UNCHANGED <<memory, file, pc, snap, overwritten, approved, sessions,
                   overlapped, dirty, faults>>

\* Mutant of Release: an error return keeps the lock.
Release_OnSuccess(t) == lock' = IF pc'[t] = "failed" THEN lock ELSE None

\* The guard is dropped, on success and on every error return.
Release(t) == lock' = None

\* sncast declares and deploys, and the receipt arrives; or one of them fails.
Deploy(t) ==
    /\ pc[t] = "deploy" /\ lock = t
    /\ \/ Go(t, IF t \in Games THEN "store" ELSE "approve") /\ UNCHANGED faults
       \/ Go(t, "failed") /\ Fault
    /\ Release(t)
    /\ UNCHANGED <<memory, file, snap, overwritten, approved, sessions,
                   overlapped, dirty>>

\* sncast_invoke of approve.  A transaction that is not sent, reverts or is
\* not confirmed is no error to sncast_invoke; a process that cannot be
\* started is.
ApproveBank(b) ==
    /\ pc[b] = "approve" /\ lock = b
    /\ \/ Go(b, "fund") /\ approved' = approved \cup {b} /\ UNCHANGED faults
       \/ Go(b, "fund") /\ UNCHANGED approved /\ Fault
       \/ Go(b, "failed") /\ UNCHANGED approved /\ Fault
    /\ Release(b)
    /\ UNCHANGED <<memory, file, snap, overwritten, sessions, overlapped, dirty>>

\* The same for the transfer that prefunds the bank, whose tokens no session needs.
FundBank(b) ==
    /\ pc[b] = "fund" /\ lock = b
    /\ \/ Go(b, "store") /\ UNCHANGED faults
       \/ Go(b, "store") /\ Fault
       \/ Go(b, "failed") /\ Fault
    /\ Release(b)
    /\ UNCHANGED <<memory, file, snap, overwritten, approved, sessions,
                   overlapped, dirty>>

\* Mutant of Store: both handlers store in the bank's registry.
Store_InBank(t) ==
    /\ pc[t] = "store"
    /\ memory' = [memory EXCEPT !.bank = t]
    /\ Go(t, "readCoinflip")
    /\ overlapped' = [overlapped EXCEPT
                         ![t] = {u \in Kind(t) \ {t} : pc[u] \in PastCheck}]
    /\ dirty' = (\E u \in Tasks : IsSaving(u))
    /\ UNCHANGED <<file, lock, snap, overwritten, approved, sessions, faults>>

Store(t) ==
    /\ pc[t] = "store"
    /\ memory' = IF t \in Games THEN [memory EXCEPT !.coinflip = t]
                                ELSE [memory EXCEPT !.bank = t]
    /\ Go(t, "readCoinflip")
    /\ overlapped' = [overlapped EXCEPT
                         ![t] = {u \in Kind(t) \ {t} : pc[u] \in PastCheck}]
    /\ dirty' = (\E u \in Tasks : IsSaving(u))
    /\ UNCHANGED <<file, lock, snap, overwritten, approved, sessions, faults>>

-----------------------------------------------------------------------------
(* save_deployments. *)

ReadCoinflip(t) ==
    /\ pc[t] = "readCoinflip"
    /\ snap' = [snap EXCEPT ![t].coinflip = memory.coinflip]
    /\ Go(t, "readBank")
    /\ UNCHANGED <<memory, file, lock, overwritten, approved, sessions,
                   overlapped, dirty, faults>>

\* Mutant of ReadBank: a deployment of the game does not touch the bank's entry.
ReadBank_OwnKind(t) ==
    /\ pc[t] = "readBank"
    /\ snap' = IF t \in Banks THEN [snap EXCEPT ![t].bank = memory.bank] ELSE snap
    /\ Go(t, "truncate")
    /\ UNCHANGED <<memory, file, lock, overwritten, approved, sessions,
                   overlapped, dirty, faults>>

ReadBank(t) ==
    /\ pc[t] = "readBank"
    /\ snap' = [snap EXCEPT ![t].bank = memory.bank]
    /\ Go(t, "truncate")
    /\ UNCHANGED <<memory, file, lock, overwritten, approved, sessions,
                   overlapped, dirty, faults>>

\* fs::write opens the file, which empties it.  An error is ignored.
Truncate(t) ==
    /\ pc[t] = "truncate"
    /\ \/ Go(t, "write") /\ file' = NoDeployments /\ UNCHANGED <<dirty, faults>>
       \/ Go(t, "done") /\ dirty' = TRUE /\ UNCHANGED file /\ Fault
    /\ UNCHANGED <<memory, lock, snap, overwritten, approved, sessions, overlapped>>

\* It then writes from the start.  What another save has written meanwhile
\* may be longer, and its tail makes the file unreadable.  A write that fails,
\* with nothing or a part written, is an error that is ignored.
Write(t) ==
    /\ pc[t] = "write"
    /\ Go(t, "done")
    /\ \/ /\ file' = snap[t] \/ (t \in overwritten /\ file' = NoDeployments)
          /\ UNCHANGED <<dirty, faults>>
       \/ file' \in {file, NoDeployments} /\ dirty' = TRUE /\ Fault
    /\ overwritten' = {u \in Tasks \ {t} : pc[u] = "write"}
    /\ snap' = [snap EXCEPT ![t] = NoDeployments]
    /\ UNCHANGED <<memory, lock, approved, sessions, overlapped>>

-----------------------------------------------------------------------------
(* Sessions: the player's deposit, confirm_deposit and the settlement. *)

Seated(s, at) == play' = [play EXCEPT ![s] = at]

\* deposit_info names the bank the player deposits into.
DepositInfo(s) ==
    /\ play[s] = "new"
    /\ memory.bank # None
    /\ staked' = [staked EXCEPT ![s] = memory.bank]
    /\ Seated(s, "staked")
    /\ UNCHANGED <<memory, file, requests, overlapped, dirty, faults>>

\* The bank of the moment is asked to match: it has the stake, or reverts.
ConfirmDeposit(s) ==
    /\ play[s] = "staked"
    /\ Seated(s, IF memory.bank = staked[s] /\ staked[s] \in approved
                 THEN "matched" ELSE "stranded")
    /\ UNCHANGED <<memory, file, requests, staked, overlapped, dirty, faults>>

\* The bank of the moment is asked to settle.
Settle(s) ==
    /\ play[s] = "matched"
    /\ Seated(s, IF memory.bank = staked[s] THEN "paid" ELSE "stranded")
    /\ UNCHANGED <<memory, file, requests, staked, overlapped, dirty, faults>>

-----------------------------------------------------------------------------
(* Lost requests. *)

\* The client closes its connection and the handler is dropped at an await.
Disconnect(t) ==
    /\ pc[t] \in PastCheck \cup {"readCoinflip", "readBank"}
    /\ Fault
    /\ Go(t, "failed")
    /\ lock' = IF lock = t THEN None ELSE lock
    /\ dirty' = (dirty \/ IsSaving(t))
    /\ UNCHANGED <<memory, file, snap, overwritten, approved, sessions, overlapped>>

\* The server restarts and loads the file.  Commitments are gone.
Restart ==
    /\ Fault
    /\ memory' = file
    /\ pc' = [t \in Tasks |-> IF pc[t] \in Ended \cup {"new"} THEN pc[t] ELSE "failed"]
    /\ lock' = None
    /\ overwritten' = {}
    /\ play' = [s \in Sessions |-> IF play[s] \in {"staked", "matched"} THEN "lost"
                                                                        ELSE play[s]]
    /\ dirty' = FALSE
    /\ UNCHANGED <<file, snap, approved, staked, overlapped>>

-----------------------------------------------------------------------------
Work(t) ==
    \/ Acquire(t) \/ Deploy(t) \/ Store(t)
    \/ t \in Banks /\ (ApproveBank(t) \/ FundBank(t))
    \/ ReadCoinflip(t) \/ ReadBank(t) \/ Truncate(t) \/ Write(t)

Next ==
    \/ \E t \in Tasks : Check(t) \/ Work(t) \/ Disconnect(t)
    \/ \E s \in Sessions : DepositInfo(s) \/ ConfirmDeposit(s) \/ Settle(s)
    \/ Restart

Spec == Init /\ [][Next]_vars

\* The runtime polls a request that can go on, and the lock's queue is fair.
\* Every step of Work is progress, so one weak fairness is enough for all.
Fairness == WF_vars(\E t \in Tasks : Work(t))

FairSpec == Spec /\ Fairness

-----------------------------------------------------------------------------
TypeOK ==
    /\ memory \in Registry
    /\ file \in Registry
    /\ pc \in [Tasks -> {"new"} \cup PastCheck \cup Saving \cup Ended]
    /\ lock \in Tasks \cup {None}
    /\ snap \in [Tasks -> Registry]
    /\ overwritten \subseteq Tasks
    /\ approved \subseteq Banks
    /\ play \in [Sessions -> {"new", "staked", "matched", "paid", "stranded", "lost"}]
    /\ staked \in [Sessions -> Banks \cup {None}]
    /\ overlapped \in [Tasks -> SUBSET Tasks]
    /\ dirty \in BOOLEAN
    /\ faults \in 0 .. MaxFaults

\* When no save is under way the file holds what the server holds, so that a
\* restart changes nothing, unless the last save ran beside another one, failed
\* or was cut short.
RestartKeepsDeployments ==
    ~dirty /\ (\A t \in Tasks : ~IsSaving(t)) => file = memory

\* A deployment that the server has told of is replaced only by a request that
\* was already deploying when it was stored, or by a restart.
ReplacedOnlyByOverlap ==
    [][/\ memory.coinflip # None /\ memory'.coinflip # memory.coinflip =>
              Restart \/ memory'.coinflip \in overlapped[memory.coinflip]
       /\ memory.bank # None /\ memory'.bank # memory.bank =>
              Restart \/ memory'.bank \in overlapped[memory.bank]]_vars

\* A stake is stranded in its bank, by a match or a settlement sent to another
\* one, only if a second bank was being deployed when its own was stored, or
\* if the bank's approval failed unnoticed.
StrandedOnlyByOverlap ==
    \A s \in Sessions :
        play[s] = "stranded" =>
            overlapped[staked[s]] # {} \/ staked[s] \notin approved

\* Every deploy request is answered, whatever happens to those before it.
EveryDeployEnds ==
    \A t \in Tasks : pc[t] \notin Ended \cup {"new"} ~> pc[t] \in Ended
=============================================================================
