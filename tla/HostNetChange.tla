--------------------------- MODULE HostNetChange ---------------------------
(***************************************************************************)
(* Confirmable host network changes (internal/hostnet/manager.go): a       *)
(* change is applied only after the state it replaces was written to disk, *)
(* and it is rolled back unless it is confirmed in time, across crashes of *)
(* App Runner.  The manager's mutex is held for a whole operation; `at'    *)
(* names the step an operation has reached, so that a crash, a timer or a  *)
(* VM request can come between any two.                                    *)
(*                                                                         *)
(* The host network is one bridge.  What a rollback does to addresses and  *)
(* routes is the subject of module LinuxLinks.                             *)
(***************************************************************************)
EXTENDS Naturals

CONSTANTS
    Ids,        \* identifiers newID can return; the bound on changes
    NoId,
    Faults,     \* subset of FaultKinds: what the host may refuse
    MaxCrashes  \* bound on crashes of App Runner

(***************************************************************************)
(* "apply" and "restore": the provider fails, possibly half way.  "save"   *)
(* and "remove": writing or removing pending-network-change.json fails.    *)
(***************************************************************************)
FaultKinds == {"apply", "restore", "save", "remove"}

ASSUME HostNetAssumption ==
    /\ NoId \notin Ids
    /\ Faults \subseteq FaultKinds
    /\ MaxCrashes \in Nat

VARIABLES
    net,       \* the bridge
    workload,  \* the VM that is assigned to the bridge, if any
    pending,   \* Manager.pending
    file,      \* pending-network-change.json
    at,        \* the next step of the operation that holds the mutex
    change,    \* the change Apply is working on
    timers,    \* armed confirmation timers
    due,       \* fired timers whose rollbackAfterTimeout has not run yet
    used,      \* identifiers already given out
    committed, \* the network the operator last accepted
    crashes

stores == <<pending, file>>
clocks == <<timers, due>>
vars == <<net, workload, stores, at, change, clocks, used, committed, crashes>>

Nets == {"absent", "down", "up"}
ChangeTypes == {"create", "delete", "setUp", "setDown"}
Pending == [id : Ids, type : ChangeTypes, snapshot : Nets]
None == [id |-> NoId, type |-> "none", snapshot |-> "none"]
Steps == {"snapshot", "apply", "undo", "revert", "clear"}

TypeOK ==
    /\ net \in Nets
    /\ workload \in {"none", "stopped", "running"}
    /\ pending \in Pending \cup {None}
    /\ file \in Pending \cup {None}
    /\ at \in Steps \cup {"idle", "exited", "recovered"}
    /\ change \in ChangeTypes \cup {"none"}
    /\ timers \subseteq Ids
    /\ due \subseteq Ids
    /\ used \subseteq Ids
    /\ committed \in Nets
    /\ crashes \in 0..MaxCrashes

Init ==
    /\ net \in Nets
    /\ workload \in {"none", "stopped"}
    /\ pending = None
    /\ file = None
    /\ at = "idle"
    /\ change = "none"
    /\ timers = {}
    /\ due = {}
    /\ used = {}
    /\ committed = net
    /\ crashes = 0

Outcomes(fault) == IF fault \in Faults THEN BOOLEAN ELSE {TRUE}
-----------------------------------------------------------------------------
Target(type) ==
    CASE type = "delete" -> "absent"
      [] type = "setDown" -> "down"
      [] OTHER -> "up"

(***************************************************************************)
(* Provider.Snapshot refuses a change that does not fit.                   *)
(***************************************************************************)
Fits(type) == (type = "create") <=> (net = "absent")

(***************************************************************************)
(* A bridge is created down and brought up by a second call.               *)
(***************************************************************************)
HalfWay(target) == IF net = "absent" /\ target = "up" THEN {"down"} ELSE {}

Reach(ok, target) ==
    IF ok THEN net' = target ELSE net' \in {net} \cup HalfWay(target)

(***************************************************************************)
(* validateWorkloadSafety asks the VM manager, whose lock it does not keep.*)
(***************************************************************************)
WorkloadSafe(type) ==
    /\ type = "delete" => workload = "none"
    /\ type = "setDown" => workload # "running"

Apply(type) ==
    /\ at = "idle"
    /\ pending = None
    /\ used # Ids
    /\ WorkloadSafe(type)
    /\ at' = "snapshot"
    /\ change' = type
    /\ UNCHANGED <<net, workload, stores, clocks, used, committed, crashes>>

Refused ==
    /\ at = "snapshot"
    /\ ~Fits(change)
    /\ at' = "idle"
    /\ change' = "none"
    /\ UNCHANGED <<net, workload, stores, clocks, used, committed, crashes>>

\* Mutant: the rollback data stays in memory.
FileAfterUnsaved(saved, p) == file
FileAfter(saved, p) == IF saved THEN p ELSE file

SavePending(i, saved) ==
    /\ at = "snapshot"
    /\ Fits(change)
    /\ i \notin used
    /\ used' = used \cup {i}
    /\ LET p == [id |-> i, type |-> change, snapshot |-> net] IN
        /\ file' = FileAfter(saved, p)
        /\ pending' = IF saved THEN p ELSE None
    /\ at' = IF saved THEN "apply" ELSE "idle"
    /\ change' = IF saved THEN change ELSE "none"
    /\ UNCHANGED <<net, workload, clocks, committed, crashes>>

\* Mutant: the confirmation window never ends.
ArmedNever(ok) == timers
Armed(ok) == IF ok THEN timers \cup {pending.id} ELSE timers

ProviderApply(ok) ==
    /\ at = "apply"
    /\ Reach(ok, Target(change))
    /\ timers' = Armed(ok)
    /\ at' = IF ok THEN "idle" ELSE "undo"
    /\ change' = "none"
    /\ UNCHANGED <<workload, stores, due, used, committed, crashes>>

(***************************************************************************)
(* The rollback of a failed Apply drops the pending change whether or not  *)
(* the snapshot could be restored.                                         *)
(***************************************************************************)
UndoApply(ok) ==
    /\ at = "undo"
    /\ Reach(ok, pending.snapshot)
    /\ at' = "clear"
    /\ UNCHANGED <<workload, stores, change, clocks, used, committed, crashes>>

ClearedPending == None

(***************************************************************************)
(* clearPendingLocked, at the end of every rollback.                       *)
(***************************************************************************)
Clear(removed) ==
    /\ at = "clear"
    /\ at' = "idle"
    /\ IF removed THEN /\ file' = None
                       /\ pending' = ClearedPending
                       /\ timers' = {}
                  ELSE UNCHANGED <<stores, timers>>
    /\ UNCHANGED <<net, workload, change, due, used, committed, crashes>>

Confirm(i, removed) ==
    /\ at = "idle"
    /\ pending.id = i
    /\ IF removed THEN /\ file' = None
                       /\ pending' = None
                       /\ timers' = {}
                       /\ committed' = net
                  ELSE UNCHANGED <<stores, timers, committed>>
    /\ UNCHANGED <<net, workload, at, change, due, used, crashes>>

Revert(i) ==
    /\ at = "idle"
    /\ pending.id = i
    /\ at' = "revert"
    /\ UNCHANGED <<net, workload, stores, change, clocks, used, committed,
                   crashes>>

(***************************************************************************)
(* The confirmation window ends.                                           *)
(***************************************************************************)
TimerFires(i) ==
    /\ i \in timers
    /\ timers' = timers \ {i}
    /\ due' = due \cup {i}
    /\ UNCHANGED <<net, workload, stores, at, change, used, committed, crashes>>

\* Mutant: the callback rolls back whatever change is pending.
StillPendingAny(i) == pending # None
StillPending(i) == pending.id = i

RollbackAfterTimeout(i) ==
    /\ at = "idle"
    /\ i \in due
    /\ due' = due \ {i}
    /\ at' = IF StillPending(i) THEN "revert" ELSE "idle"
    /\ UNCHANGED <<net, workload, stores, change, timers, used, committed,
                   crashes>>

Restore(ok) ==
    /\ at = "revert"
    /\ Reach(ok, pending.snapshot)
    /\ at' = IF ok THEN "clear" ELSE "idle"
    /\ UNCHANGED <<workload, stores, change, clocks, used, committed, crashes>>
-----------------------------------------------------------------------------
(***************************************************************************)
(* App Runner dies, perhaps in the middle of a provider call.  On the next *)
(* start recoverPendingChange runs before anything else, and App Runner    *)
(* exits again when that fails.                                            *)
(***************************************************************************)
Goal ==
    CASE at = "apply" -> Target(change)
      [] at \in {"undo", "revert"} -> pending.snapshot
      [] OTHER -> net

Crash ==
    /\ at # "exited"
    /\ crashes < MaxCrashes
    /\ crashes' = crashes + 1
    /\ net' \in {net} \cup HalfWay(Goal)
    /\ at' = "exited"
    /\ pending' = None
    /\ change' = "none"
    /\ timers' = {}
    /\ due' = {}
    /\ UNCHANGED <<workload, file, used, committed>>

\* Mutant: a start that finds rollback data ignores it.
RecoveredNetIgnored(ok) == net' = net
RecoveredNet(ok) == Reach(ok, file.snapshot)

Recover(ok) ==
    /\ at = "exited"
    /\ IF file = None THEN at' = "idle" /\ UNCHANGED net
       ELSE /\ RecoveredNet(ok)
            /\ at' = IF ok THEN "recovered" ELSE "exited"
    /\ UNCHANGED <<workload, stores, change, clocks, used, committed, crashes>>

FinishRecover(removed) ==
    /\ at = "recovered"
    /\ file' = IF removed THEN None ELSE file
    /\ at' = IF removed THEN "idle" ELSE "exited"
    /\ UNCHANGED <<net, workload, pending, change, clocks, used, committed,
                   crashes>>

(***************************************************************************)
(* The VM manager: definitions come and go, and a VM can be started        *)
(* whenever its bridge is there.  Guests may power off at any time.        *)
(***************************************************************************)
WorkloadRequest ==
    /\ at \notin {"exited", "recovered"}
    /\ \/ workload = "none" /\ workload' = "stopped"
       \/ workload = "stopped" /\ workload' = "none"
       \/ workload = "stopped" /\ net # "absent" /\ workload' = "running"
    /\ UNCHANGED <<net, stores, at, change, clocks, used, committed, crashes>>

WorkloadStops ==
    /\ workload = "running"
    /\ workload' = "stopped"
    /\ UNCHANGED <<net, stores, at, change, clocks, used, committed, crashes>>

Proceed ==
    \/ Refused
    \/ \E saved \in Outcomes("save"), i \in Ids : SavePending(i, saved)
    \/ \E ok \in Outcomes("apply") : ProviderApply(ok)
    \/ \E ok \in Outcomes("restore") : UndoApply(ok) \/ Restore(ok)
    \/ \E removed \in Outcomes("remove") : Clear(removed)

Startup ==
    \/ \E ok \in Outcomes("restore") : Recover(ok)
    \/ \E removed \in Outcomes("remove") : FinishRecover(removed)

Next ==
    \/ \E type \in ChangeTypes : Apply(type)
    \/ Proceed
    \/ \E i \in Ids, removed \in Outcomes("remove") : Confirm(i, removed)
    \/ \E i \in Ids : Revert(i) \/ TimerFires(i) \/ RollbackAfterTimeout(i)
    \/ Crash
    \/ Startup
    \/ WorkloadRequest
    \/ WorkloadStops

Spec == Init /\ [][Next]_vars

(***************************************************************************)
(* Operations that hold the mutex finish, timers fire, their callbacks get *)
(* the mutex in the end although others compete for it, and App Runner is  *)
(* started again.  No operator is obliged to confirm or revert.            *)
(***************************************************************************)
FairSpec ==
    /\ Spec
    /\ WF_vars(Proceed)
    /\ WF_vars(Startup)
    /\ WF_vars(\E i \in Ids : TimerFires(i))
    /\ \A i \in Ids : SF_vars(RollbackAfterTimeout(i))
-----------------------------------------------------------------------------
(***************************************************************************)
(* Whenever the host network differs from what the operator last accepted, *)
(* the state to return to is on disk: a crash at any moment can be undone. *)
(***************************************************************************)
ChangeIsRecoverable ==
    net # committed => file # None /\ file.snapshot = committed

(***************************************************************************)
(* When no change is in progress or pending, the host network is the one   *)
(* the operator last accepted: timeouts, rollbacks and restarts leave      *)
(* nothing half done behind.                                               *)
(***************************************************************************)
SettledIsAccepted == at = "idle" /\ pending = None => net = committed

(***************************************************************************)
(* A timeout that comes late rolls back its own change or nothing: the     *)
(* next change keeps its own confirmation window.                          *)
(***************************************************************************)
TimeoutHitsItsOwnChange ==
    [][\A i \in due \ due' : at' = "revert" => pending.id = i]_vars

(***************************************************************************)
(* A change whose confirmation succeeded is in effect.                     *)
(***************************************************************************)
ConfirmedIsInEffect ==
    [][at = "idle" /\ at' = "idle" /\ pending # None /\ pending' = None =>
        net' = Target(pending.type)]_vars

(***************************************************************************)
(* If the provider can restore the snapshot, a change nobody confirms is   *)
(* reverted after the window, or on the next start of App Runner.          *)
(***************************************************************************)
UnconfirmedIsReverted == net # committed ~> net = committed

(***************************************************************************)
(* The bridge of a running VM is not taken down or removed.                *)
(***************************************************************************)
RunningWorkloadKeepsBridge ==
    [][workload = "running" /\ net = "up" => net' = "up"]_vars

(***************************************************************************)
(* The manager implements confirmable transactions: one is open as long as *)
(* there is rollback data on disk.                                         *)
(***************************************************************************)
T == INSTANCE NetTransaction WITH
        Networks <- Nets, current <- net, accepted <- committed,
        open <- file # None

IsTransactional == T!Spec
=============================================================================
