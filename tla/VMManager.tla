----------------------------- MODULE VMManager -----------------------------
(***************************************************************************)
(* The lifecycle half of the VM manager (internal/vm/vm.go) with the part  *)
(* of the QEMU driver it depends on (internal/qemu/qemu.go): starting,     *)
(* stopping, forcing off and deleting virtual machines, the exit callbacks *)
(* of their processes, shutdown deadlines, and restarts of App Runner.     *)
(*                                                                         *)
(* Every handler holds m.mu for its whole body, so one handler is one      *)
(* action, except forceStopLocked, which releases the mutex while it waits *)
(* for the killed process: Kill is its first half, FinishForceStop its     *)
(* second.  Handlers that begin with reconcileLocked are written over the  *)
(* reconciled values RVm, RDisk, RExits, RTimers and RNet.                 *)
(***************************************************************************)
EXTENDS FiniteSets, Naturals

CONSTANTS
    VMs,          \* identities of the defined virtual machines
    Pids,         \* processes that can be spawned; the bound on starts
    NoPid,        \* PID 0, a nil channel, a missing map entry
    Callers,      \* API requests in flight; one request per caller
    TimerThreads, \* goroutines running escalateStop; bound on overlap
    NoVM,         \* no virtual machine
    Deadlines,    \* whether a graceful stop may carry a timeout
    Faults,       \* host failures that may happen, see FaultKinds
    MaxRestarts   \* bound on crashes and restarts of App Runner

(***************************************************************************)
(* "save": writing vms.json fails.  "kill": a forced stop may not signal   *)
(* the process.  "prepare": Prepare fails while network services are       *)
(* restored after a restart.  "slowExit": a killed process is not reaped   *)
(* within forceStopTimeout.                                                *)
(***************************************************************************)
FaultKinds == {"save", "kill", "prepare", "slowExit"}

Threads == Callers \cup TimerThreads
MaybePid == Pids \cup {NoPid}
Waits == [vm : VMs, chan : MaybePid]
Idle == [vm |-> NoVM, chan |-> NoPid]

ASSUME ConstantsAssumption ==
    /\ NoPid \notin Pids
    /\ NoVM \notin VMs
    /\ Callers \cap TimerThreads = {}
    /\ Deadlines \subseteq BOOLEAN
    /\ Faults \subseteq FaultKinds
    /\ MaxRestarts \in Nat

VARIABLES
    vm,         \* Manager.vms: status and PID of every definition
    disk,       \* the contents of vms.json
    exits,      \* Manager.exits; a channel is named by the run it belongs to
    stopTimers, \* Manager.stopTimers: the PID the pending timer captured
    callbacks,  \* PIDs whose escalateStop is due and cannot be cancelled
    wait,       \* per goroutine: where forceStopLocked waits, or Idle
    netUsers,   \* VMs that hold managed network services (Prepare/Release)
    proc,       \* what the kernel knows of each process
    owner,      \* the VM a process was spawned for
    watch,      \* the goroutine of qemu.Start that waits for the process
    sock,       \* whose runtime sockets lie at the VM's socket paths
    restarts,   \* restarts of App Runner so far
    superseded  \* history: flips when a Stop replaces an earlier one's deadline

managerVars == <<vm, disk, exits, stopTimers, callbacks, wait, netUsers>>
hostVars == <<proc, owner, watch, sock, restarts, superseded>>
vars == <<managerVars, hostVars>>

Record == [status : {"absent", "stopped", "running", "stopping", "error"},
           pid : MaybePid]

TypeOK ==
    /\ vm \in [VMs -> Record]
    /\ disk \in [VMs -> Record]
    /\ exits \in [VMs -> MaybePid]
    /\ stopTimers \in [VMs -> MaybePid]
    /\ callbacks \subseteq Pids
    /\ wait \in [Threads -> Waits \cup {Idle}]
    /\ netUsers \subseteq VMs
    /\ proc \in [Pids -> {"unused", "alive", "killed", "dead"}]
    /\ owner \in [Pids -> VMs \cup {NoVM}]
    /\ watch \in [Pids -> {"none", "waiting", "cleaned"}]
    /\ sock \in [VMs -> MaybePid]
    /\ restarts \in 0..MaxRestarts
    /\ superseded \in [VMs -> BOOLEAN]

Stopped == [status |-> "stopped", pid |-> NoPid]
Absent == [status |-> "absent", pid |-> NoPid]

(***************************************************************************)
(* The definitions exist and are stopped, as Create leaves them.           *)
(***************************************************************************)
Init ==
    /\ vm = [v \in VMs |-> Stopped]
    /\ disk = vm
    /\ exits = [v \in VMs |-> NoPid]
    /\ stopTimers = [v \in VMs |-> NoPid]
    /\ callbacks = {}
    /\ wait = [t \in Threads |-> Idle]
    /\ netUsers = {}
    /\ proc = [p \in Pids |-> "unused"]
    /\ owner = [p \in Pids |-> NoVM]
    /\ watch = [p \in Pids |-> "none"]
    /\ sock = [v \in VMs |-> NoPid]
    /\ restarts = 0
    /\ superseded = [v \in VMs |-> FALSE]
-----------------------------------------------------------------------------
IsActive(machine) == machine.status \in {"running", "stopping"}

(***************************************************************************)
(* IsRunning reads /proc/<pid>/cmdline, which a killed process that is not *)
(* dead yet still has and a zombie no longer has.                          *)
(***************************************************************************)
Living == {"alive", "killed"}
IsRunning(machine, v, processes, owners) ==
    /\ machine.pid # NoPid
    /\ processes[machine.pid] \in Living
    /\ owners[machine.pid] = v

(***************************************************************************)
(* Store.Save: the outcomes a host can produce.  WriteFileAtomic replaces  *)
(* the whole file or leaves it as it was.                                  *)
(***************************************************************************)
SaveResults == IF "save" \in Faults THEN BOOLEAN ELSE {TRUE}
Save(saved, machines, file) == disk' = IF saved THEN machines ELSE file

(***************************************************************************)
(* reconcileLocked: active definitions whose process is gone are marked    *)
(* stopped, their exit is signalled, their timer cancelled and their       *)
(* network released; the file is written only when something changed.      *)
(***************************************************************************)
\* Mutant: reconciliation puts every living VM back to running.
ReconciledToRunning(machines, processes, owners) ==
    [v \in VMs |->
        IF ~IsActive(machines[v]) THEN machines[v]
        ELSE IF IsRunning(machines[v], v, processes, owners)
        THEN [machines[v] EXCEPT !.status = "running"] ELSE Stopped]

Reconciled(machines, processes, owners) ==
    [v \in VMs |->
        IF IsActive(machines[v]) /\ ~IsRunning(machines[v], v, processes, owners)
        THEN Stopped ELSE machines[v]]

Gone == {v \in VMs : IsActive(vm[v]) /\ ~IsRunning(vm[v], v, proc, owner)}
Without(f, S) == [v \in VMs |-> IF v \in S THEN NoPid ELSE f[v]]
RVm == Reconciled(vm, proc, owner)
\* Mutants: reconciliation forgets one of its effects.
RDiskUnsaved == disk
RExitsKept == exits
RTimersKept == stopTimers
RNetKept == netUsers

RDisk == IF Gone = {} THEN disk ELSE RVm
RExits == Without(exits, Gone)
RTimers == Without(stopTimers, Gone)
RNet == netUsers \ Gone

(***************************************************************************)
(* List, Get, ConsoleSocket, Reboot and every request that is refused      *)
(* after reconcileLocked, or because its Save failed.                      *)
(***************************************************************************)
Refresh(g) ==
    /\ wait[g] = Idle
    /\ vm' = RVm
    /\ exits' = RExits
    /\ stopTimers' = RTimers
    /\ netUsers' = RNet
    /\ \E saved \in SaveResults : Save(saved, RDisk, disk)
    /\ UNCHANGED <<callbacks, wait, hostVars>>

\* Mutant: only a running VM counts as already running.
CanStartWhileStopping(v) == RVm[v].status \in {"stopped", "error", "stopping"}
CanStart(v) == RVm[v].status \in {"stopped", "error"}

(***************************************************************************)
(* Start, up to a spawned QEMU.  When the definitions cannot be saved the  *)
(* new process is killed and the network released again, while the record  *)
(* keeps saying running until the exit is noticed.                         *)
(***************************************************************************)
\* Mutant: Start leaves a guest running that it could not record.
SpawnedStateUnkilled(saved) == "alive"
SpawnedState(saved) == IF saved THEN "alive" ELSE "killed"

Start(g, v, p) ==
    /\ wait[g] = Idle
    /\ CanStart(v)
    /\ proc[p] = "unused"
    /\ vm' = [RVm EXCEPT ![v] = [status |-> "running", pid |-> p]]
    /\ exits' = [RExits EXCEPT ![v] = p]
    /\ stopTimers' = RTimers
    /\ owner' = [owner EXCEPT ![p] = v]
    /\ watch' = [watch EXCEPT ![p] = "waiting"]
    /\ sock' = [sock EXCEPT ![v] = p]
    /\ \E saved \in SaveResults :
        /\ Save(saved, vm', RDisk)
        /\ proc' = [proc EXCEPT ![p] = SpawnedState(saved)]
        /\ netUsers' = IF saved THEN RNet \cup {v} ELSE RNet \ {v}
    /\ UNCHANGED <<callbacks, wait, restarts, superseded>>

(***************************************************************************)
(* Start when hypervisor.Start fails: QEMU cannot be spawned, or it is     *)
(* killed and reaped because its serial console cannot be connected.       *)
(***************************************************************************)
StartFails(g, v) ==
    /\ wait[g] = Idle
    /\ CanStart(v)
    /\ vm' = [RVm EXCEPT ![v].status = "error"]
    /\ exits' = [RExits EXCEPT ![v] = NoPid]
    /\ stopTimers' = RTimers
    /\ netUsers' = RNet \ {v}
    /\ sock' = [sock EXCEPT ![v] = NoPid]
    /\ \E saved \in SaveResults : Save(saved, vm', RDisk)
    /\ UNCHANGED <<callbacks, wait, proc, owner, watch, restarts, superseded>>

(***************************************************************************)
(* Stop without force.  system_powerdown needs the QMP socket; the guest   *)
(* may ignore it.  A failed Save returns before the old deadline is        *)
(* cancelled and before a new one is set.  A Stop of a VM that is stopping *)
(* already replaces the deadline, or cancels it if it carries none.        *)
(***************************************************************************)
StopGraceful(g, v, deadline) ==
    /\ wait[g] = Idle
    /\ IsActive(RVm[v])
    /\ sock[v] = RVm[v].pid
    /\ vm' = [RVm EXCEPT ![v].status = "stopping"]
    /\ exits' = RExits
    /\ netUsers' = RNet
    /\ \E saved \in SaveResults :
        /\ Save(saved, vm', RDisk)
        /\ stopTimers' =
            IF ~saved THEN RTimers
            ELSE [RTimers EXCEPT ![v] = IF deadline THEN RVm[v].pid ELSE NoPid]
        /\ superseded' =
            IF ~saved THEN superseded
            ELSE [superseded EXCEPT ![v] = RVm[v].status = "stopping" /\ ~@]
    /\ UNCHANGED <<callbacks, wait, proc, owner, watch, sock, restarts>>

(***************************************************************************)
(* forceStopLocked up to the point where it unlocks: cancel the deadline,  *)
(* SIGKILL, save the stopping status, and remember the exit channel.       *)
(***************************************************************************)
Kill(t, v, machines, file, channels, timers) ==
    /\ proc' = [proc EXCEPT ![machines[v].pid] =
                    IF @ = "alive" THEN "killed" ELSE @]
    /\ vm' = [machines EXCEPT ![v].status = "stopping"]
    /\ exits' = channels
    /\ stopTimers' = [timers EXCEPT ![v] = NoPid]
    /\ \E saved \in SaveResults :
        /\ Save(saved, vm', file)
        /\ wait' = IF ~saved THEN wait
                   ELSE [wait EXCEPT ![t] = [vm |-> v, chan |-> channels[v]]]

(***************************************************************************)
(* kill(2) fails: forceStopLocked returns, with the deadline cancelled.    *)
(***************************************************************************)
KillRefused(v, machines, file, channels, timers) ==
    /\ "kill" \in Faults
    /\ vm' = machines
    /\ disk' = file
    /\ exits' = channels
    /\ stopTimers' = [timers EXCEPT ![v] = NoPid]
    /\ UNCHANGED <<wait, proc>>

StopForce(g, v) ==
    /\ wait[g] = Idle
    /\ IsActive(RVm[v])
    /\ \/ Kill(g, v, RVm, RDisk, RExits, RTimers)
       \/ KillRefused(v, RVm, RDisk, RExits, RTimers)
    /\ netUsers' = RNet
    /\ UNCHANGED <<callbacks, owner, watch, sock, restarts, superseded>>

(***************************************************************************)
(* forceStopLocked once it holds the lock again: the channel was nil, is   *)
(* closed, or forceStopTimeout passed.                                     *)
(***************************************************************************)
\* Mutant: the forced stop does not wait for the exit.
ForceStopDoesNotWait(t) == TRUE
ForceStopWakes(t) ==
    \/ wait[t].chan = NoPid
    \/ exits[wait[t].vm] # wait[t].chan
    \/ "slowExit" \in Faults

FinishForceStop(t) ==
    /\ wait[t] # Idle
    /\ ForceStopWakes(t)
    /\ wait' = [wait EXCEPT ![t] = Idle]
    /\ LET v == wait[t].vm IN
       \/ /\ vm[v].status \in {"absent", "stopped"}
          /\ UNCHANGED <<vm, disk, exits, stopTimers, netUsers>>
       \/ /\ vm[v].status \notin {"absent", "stopped"}
          /\ vm' = [vm EXCEPT ![v] = Stopped]
          /\ exits' = [exits EXCEPT ![v] = NoPid]
          /\ stopTimers' = [stopTimers EXCEPT ![v] = NoPid]
          /\ netUsers' = netUsers \ {v}
          /\ \E saved \in SaveResults : Save(saved, vm', disk)
    /\ UNCHANGED <<callbacks, hostVars>>

(***************************************************************************)
(* A stop timer expires.  From here on timer.Stop comes too late.  Two     *)
(* callbacks of one process are never due at once (a scheduling bound).    *)
(***************************************************************************)
TimerFires(v) ==
    /\ stopTimers[v] # NoPid
    /\ stopTimers[v] \notin callbacks
    /\ callbacks' = callbacks \cup {stopTimers[v]}
    /\ stopTimers' = [stopTimers EXCEPT ![v] = NoPid]
    /\ UNCHANGED <<vm, disk, exits, wait, netUsers, hostVars>>

(***************************************************************************)
(* escalateStop first deletes the VM's map entry, whichever timer is in    *)
(* it: a newer timer keeps running but can no longer be cancelled.         *)
(***************************************************************************)
CallbacksAfter(p) ==
    (callbacks \ {p}) \cup ({stopTimers[owner[p]]} \ {NoPid})

\* Mutants: the captured PID is not compared, the wrong status is tested.
OverdueAnyRun(p) == vm[owner[p]].status = "stopping"
OverdueRunning(p) == vm[owner[p]].status = "running" /\ vm[owner[p]].pid = p

Overdue(p) ==
    /\ vm[owner[p]].status = "stopping"
    /\ vm[owner[p]].pid = p

EscalateStop(t, p) ==
    /\ p \in callbacks
    /\ wait[t] = Idle
    /\ Overdue(p)
    /\ callbacks' = CallbacksAfter(p)
    /\ \/ Kill(t, owner[p], vm, disk, exits, stopTimers)
       \/ KillRefused(owner[p], vm, disk, exits, stopTimers)
    /\ UNCHANGED <<netUsers, owner, watch, sock, restarts, superseded>>

EscalateTooLate(p) ==
    /\ p \in callbacks
    /\ ~Overdue(p)
    /\ callbacks' = CallbacksAfter(p)
    /\ stopTimers' = [stopTimers EXCEPT ![owner[p]] = NoPid]
    /\ UNCHANGED <<vm, disk, exits, wait, netUsers, hostVars>>

(***************************************************************************)
(* Delete removes the files and sockets of a stopped VM, then the record.  *)
(* When the last Save fails the record is gone from memory only.           *)
(***************************************************************************)
Delete(g, v) ==
    /\ wait[g] = Idle
    /\ RVm[v].status \in {"stopped", "error"}
    /\ vm' = [RVm EXCEPT ![v] = Absent]
    /\ exits' = RExits
    /\ stopTimers' = RTimers
    /\ netUsers' = RNet
    /\ sock' = [sock EXCEPT ![v] = NoPid]
    /\ \E saved \in SaveResults : Save(saved, vm', RDisk)
    /\ UNCHANGED <<callbacks, wait, proc, owner, watch, restarts, superseded>>
-----------------------------------------------------------------------------
(***************************************************************************)
(* The processes.  A guest may power off or crash at any time; a killed    *)
(* process dies in its own time.                                           *)
(***************************************************************************)
ProcessDies(p) ==
    /\ proc[p] \in Living
    /\ proc' = [proc EXCEPT ![p] = "dead"]
    /\ UNCHANGED <<managerVars, owner, watch, sock, restarts, superseded>>

(***************************************************************************)
(* The goroutine started by qemu.Start: Wait returns, the serial session   *)
(* and whatever lies at the VM's socket paths are removed, then onExit.    *)
(***************************************************************************)
WatcherCleans(p) ==
    /\ watch[p] = "waiting"
    /\ proc[p] = "dead"
    /\ watch' = [watch EXCEPT ![p] = "cleaned"]
    /\ sock' = [sock EXCEPT ![owner[p]] = NoPid]
    /\ UNCHANGED <<managerVars, proc, owner, restarts, superseded>>

\* Mutants: the PID is not compared, exits outside a stop are ignored.
ExitConcernsAnyRun(v, p) == vm[v].pid # NoPid
ExitConcernsIfStopping(v, p) == vm[v].pid = p /\ vm[v].status = "stopping"
ExitConcerns(v, p) == vm[v].pid = p

ProcessExited(p) ==
    /\ watch[p] = "cleaned"
    /\ watch' = [watch EXCEPT ![p] = "none"]
    /\ LET v == owner[p] IN
       \/ /\ ~ExitConcerns(v, p)
          /\ UNCHANGED <<vm, disk, exits, stopTimers, netUsers>>
       \/ /\ ExitConcerns(v, p)
          /\ vm' = [vm EXCEPT ![v] = Stopped]
          /\ exits' = [exits EXCEPT ![v] = NoPid]
          /\ stopTimers' = [stopTimers EXCEPT ![v] = NoPid]
          /\ netUsers' = netUsers \ {v}
          /\ \E saved \in SaveResults : Save(saved, vm', disk)
    /\ UNCHANGED <<callbacks, wait, proc, owner, sock, restarts, superseded>>
-----------------------------------------------------------------------------
(***************************************************************************)
(* App Runner ends (crash, signal, host reboot) and starts again: all that *)
(* was in memory is lost, QEMU processes live on without a watcher,        *)
(* NewManager loads and reconciles vms.json, and server.Run prepares the   *)
(* network of every active VM, only logging failures.                      *)
(***************************************************************************)
NewManager ==
    /\ restarts < MaxRestarts
    /\ restarts' = restarts + 1
    /\ superseded' = [v \in VMs |-> FALSE]
    /\ vm' = Reconciled(disk, proc', owner')
    /\ disk' = vm'
    /\ exits' = [v \in VMs |-> NoPid]
    /\ stopTimers' = [v \in VMs |-> NoPid]
    /\ callbacks' = {}
    /\ wait' = [t \in Threads |-> Idle]
    /\ watch' = [p \in Pids |-> "none"]
    /\ LET active == {v \in VMs : IsActive(vm'[v])} IN
       \E failed \in IF "prepare" \in Faults THEN SUBSET active ELSE {{}} :
          netUsers' = active \ failed

Restart ==
    /\ UNCHANGED <<proc, owner, sock>>
    /\ NewManager

(***************************************************************************)
(* The crash hits Start after QEMU was spawned and before it was saved.    *)
(***************************************************************************)
CrashDuringStart(v, p) ==
    /\ CanStart(v)
    /\ proc[p] = "unused"
    /\ proc' = [proc EXCEPT ![p] = "alive"]
    /\ owner' = [owner EXCEPT ![p] = v]
    /\ sock' = [sock EXCEPT ![v] = p]
    /\ NewManager

(***************************************************************************)
(* The crash hits forceStopLocked after SIGKILL and before it was saved.   *)
(***************************************************************************)
CrashDuringKill(v) ==
    /\ IsActive(RVm[v])
    /\ proc' = [proc EXCEPT ![RVm[v].pid] = IF @ = "alive" THEN "killed" ELSE @]
    /\ UNCHANGED <<owner, sock>>
    /\ NewManager

Request(g) ==
    \/ Refresh(g)
    \/ \E v \in VMs :
        \/ \E p \in Pids : Start(g, v, p)
        \/ StartFails(g, v)
        \/ \E deadline \in Deadlines : StopGraceful(g, v, deadline)
        \/ StopForce(g, v)
        \/ Delete(g, v)

Crash ==
    \/ Restart
    \/ \E v \in VMs, p \in Pids : CrashDuringStart(v, p)
    \/ \E v \in VMs : CrashDuringKill(v)

Next ==
    \/ \E g \in Callers : Request(g)
    \/ \E t \in Threads : FinishForceStop(t)
    \/ \E v \in VMs : TimerFires(v)
    \/ \E t \in TimerThreads, p \in Pids : EscalateStop(t, p)
    \/ \E p \in Pids : EscalateTooLate(p)
    \/ \E p \in Pids : ProcessDies(p)
    \/ \E p \in Pids : WatcherCleans(p)
    \/ \E p \in Pids : ProcessExited(p)
    \/ Crash

Spec == Init /\ [][Next]_vars

(***************************************************************************)
(* What the runtime and the kernel guarantee: a killed process dies, the   *)
(* goroutines that wait for it go on, a timer that nobody replaces fires.  *)
(* No request is fair and no guest is obliged to power off.                *)
(***************************************************************************)
KilledProcessDies(p) == proc[p] = "killed" /\ ProcessDies(p)

Fairness ==
    /\ \A p \in Pids :
        /\ WF_vars(KilledProcessDies(p))
        /\ WF_vars(WatcherCleans(p))
        /\ WF_vars(ProcessExited(p))
        /\ WF_vars(\E t \in TimerThreads : EscalateStop(t, p))
        /\ WF_vars(EscalateTooLate(p))
    /\ \A t \in Threads : WF_vars(FinishForceStop(t))
    /\ \A v \in VMs, s \in BOOLEAN :
        WF_vars(superseded[v] = s /\ TimerFires(v))

FairSpec == Spec /\ Fairness
-----------------------------------------------------------------------------
(***************************************************************************)
(* Whatever requests, exits, failed saves and restarts interleave, the     *)
(* manager's four views of a run agree: a definition has a PID exactly     *)
(* when it is active, the PID is a process of that VM, an open exit        *)
(* channel belongs to that run, and a shutdown deadline is pending only    *)
(* for the run that is being stopped.                                      *)
(***************************************************************************)
RecordsAgree ==
    \A v \in VMs :
        /\ IsActive(vm[v]) <=> vm[v].pid # NoPid
        /\ vm[v].pid # NoPid =>
            proc[vm[v].pid] # "unused" /\ owner[vm[v].pid] = v
        /\ exits[v] # NoPid => exits[v] = vm[v].pid
        /\ stopTimers[v] # NoPid =>
            stopTimers[v] = vm[v].pid /\ vm[v].status = "stopping"

(***************************************************************************)
(* Managed network services are never held by a VM that is not active:     *)
(* every way a run can end (exit callback, reconciliation, forced stop,    *)
(* failed start, restart) reaches Release.                                 *)
(***************************************************************************)
NetworkFollowsWorkload == \A v \in netUsers : IsActive(vm[v])

(***************************************************************************)
(* An exit channel that is open has a goroutine that will still deliver    *)
(* the exit: nobody in forceStopLocked waits for a wake-up that was lost.  *)
(***************************************************************************)
NoLostWakeup == \A v \in VMs : exits[v] # NoPid => watch[exits[v]] # "none"

(***************************************************************************)
(* A guest that runs and was not killed is also recorded in vms.json, so   *)
(* that a crash of App Runner at any moment does not lose track of it.     *)
(* This is what Start's kill on a failed Save is for.                      *)
(***************************************************************************)
GuestSurvivesCrash ==
    \A v \in VMs :
        vm[v].pid # NoPid /\ proc[vm[v].pid] = "alive" =>
            disk[v].pid = vm[v].pid

(***************************************************************************)
(* A shutdown deadline that comes late (its timer had already fired when   *)
(* the run it was set for ended) never kills a later run of the VM.        *)
(***************************************************************************)
StaleDeadlineSparesLaterRun ==
    [][restarts' = restarts =>
        \A p \in callbacks \ callbacks' : \A q \in Pids \ {p} :
            proc'[q] = "killed" => proc[q] = "killed"]_vars

(***************************************************************************)
(* A forced stop that waits for another run than the one the record names: *)
(* the VM was started again meanwhile, or App Runner restarted and there   *)
(* is no channel to wait for.                                              *)
(***************************************************************************)
StaleStop(v) == \E t \in Threads : wait[t].vm = v /\ wait[t].chan # vm[v].pid

(***************************************************************************)
(* No handler, failure or crash makes a record give up a guest that nobody *)
(* killed; the one exception is a stale forced stop.                       *)
(***************************************************************************)
OnlyStaleStopsForgetGuests ==
    [][\A v \in VMs :
        vm[v].pid # NoPid /\ vm'[v].pid # vm[v].pid
            /\ proc'[vm[v].pid] = "alive" => StaleStop(v)]_vars

(***************************************************************************)
(* While App Runner runs, a guest that nobody killed loses its managed     *)
(* network services to nothing but a stale forced stop: late exit          *)
(* callbacks and deadlines of earlier runs leave them alone.               *)
(***************************************************************************)
NetworkOutlastsGuest ==
    [][restarts' = restarts =>
        \A v \in netUsers \ netUsers' :
            proc'[vm[v].pid] = "alive" => StaleStop(v)]_vars

(***************************************************************************)
(* If killed processes are reaped in time, a VM reads stopped, or runs     *)
(* again, only once the process of its last run is dead, so that a Start   *)
(* cannot meet the sockets, ports or disk locks of the earlier run.  Again *)
(* the stale forced stop is the one exception.                             *)
(***************************************************************************)
RunEndsWithItsProcess ==
    [][\A v \in VMs :
        vm[v].pid # NoPid /\ vm'[v].pid # vm[v].pid =>
            proc[vm[v].pid] = "dead" \/ StaleStop(v)]_vars

(***************************************************************************)
(* A guest that nobody killed keeps its managed network services.          *)
(***************************************************************************)
GuestKeepsNetwork ==
    \A p \in Pids : proc[p] = "alive" => owner[p] \in netUsers

(***************************************************************************)
(* While saves succeed, every change of the definitions is in vms.json     *)
(* before the handler that made it returns.                                *)
(***************************************************************************)
SavedStateIsCurrent == disk = vm

(***************************************************************************)
(* Once a stop was accepted, the run it was accepted for never reads       *)
(* running again, across restarts too.                                     *)
(***************************************************************************)
StopIsFinal ==
    [][\A v \in VMs :
        vm[v].status = "stopping" /\ vm'[v].status = "running" =>
            vm'[v].pid # vm[v].pid]_vars

(***************************************************************************)
(* A forced stop always returns to its caller.                             *)
(***************************************************************************)
ForcedStopReturns ==
    \A t \in Threads : wait[t] # Idle ~> wait[t] = Idle

(***************************************************************************)
(* A graceful stop with a deadline ends the run even if the guest ignores  *)
(* the request, unless App Runner is restarted, which drops the deadline,  *)
(* or another graceful stop of the run is accepted before it has passed:   *)
(* that one's deadline counts then, if it has one (Stop, escalateStop).    *)
(***************************************************************************)
DeadlineIsEnforced ==
    \A v \in VMs, p \in Pids, r \in 0..MaxRestarts, s \in BOOLEAN :
        stopTimers[v] = p /\ restarts = r /\ superseded[v] = s
            ~> vm[v].pid # p \/ restarts # r \/ superseded[v] # s

(***************************************************************************)
(* The manager notices by itself, without any request, that a guest it     *)
(* started, and has watched since, has exited.                             *)
(***************************************************************************)
ExitIsNoticed ==
    \A v \in VMs, p \in Pids :
        vm[v].pid = p /\ proc[p] = "dead" /\ watch[p] # "none" ~> vm[v].pid # p
=============================================================================
