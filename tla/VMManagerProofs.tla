-------------------------- MODULE VMManagerProofs --------------------------
(***************************************************************************)
(* Safety of the VM lifecycle for every number of VMs, processes, requests *)
(* and restarts, and every combination of host failures.                   *)
(***************************************************************************)
EXTENDS VMManager, TLAPS

(***************************************************************************)
(* A record, in memory or in vms.json, that names a process names one that *)
(* was spawned for this VM, and it names one exactly when it is active.    *)
(***************************************************************************)
Sound(machine, v) ==
    /\ IsActive(machine) <=> machine.pid # NoPid
    /\ machine.pid # NoPid =>
        proc[machine.pid] # "unused" /\ owner[machine.pid] = v

(***************************************************************************)
(* The manager's tables agree with each other and with the file.  Stated   *)
(* over its arguments so that it can be asked of the tables themselves and *)
(* of the reconciled ones a handler works on.                              *)
(***************************************************************************)
Agree(machines, file, channels, timers, users) ==
    /\ machines \in [VMs -> Record]
    /\ file \in [VMs -> Record]
    /\ channels \in [VMs -> MaybePid]
    /\ timers \in [VMs -> MaybePid]
    /\ users \subseteq VMs
    /\ \A v \in VMs :
        /\ Sound(machines[v], v)
        /\ Sound(file[v], v)
        /\ channels[v] # NoPid =>
            channels[v] = machines[v].pid /\ watch[channels[v]] # "none"
        /\ timers[v] # NoPid =>
            timers[v] = machines[v].pid /\ machines[v].status = "stopping"
        /\ v \in users => IsActive(machines[v])
        /\ machines[v].pid # NoPid /\ proc[machines[v].pid] = "alive" =>
            file[v].pid = machines[v].pid

(***************************************************************************)
(* Types of the remaining variables; everything that refers to a process   *)
(* refers to one that was spawned.                                         *)
(***************************************************************************)
HostOK ==
    /\ callbacks \subseteq Pids
    /\ wait \in [Threads -> Waits \cup {Idle}]
    /\ proc \in [Pids -> {"unused", "alive", "killed", "dead"}]
    /\ owner \in [Pids -> VMs \cup {NoVM}]
    /\ watch \in [Pids -> {"none", "waiting", "cleaned"}]
    /\ sock \in [VMs -> MaybePid]
    /\ restarts \in 0..MaxRestarts
    /\ superseded \in [VMs -> BOOLEAN]
    /\ \A p \in Pids :
        /\ proc[p] # "unused" => owner[p] \in VMs
        /\ p \in callbacks => proc[p] # "unused"
        /\ watch[p] # "none" => proc[p] # "unused"

IInv == HostOK /\ Agree(vm, disk, exits, stopTimers, netUsers)

(***************************************************************************)
(* The inductive invariant contains the safety invariants.                 *)
(***************************************************************************)
LEMMA InvariantImplies ==
    IInv => TypeOK /\ RecordsAgree /\ NetworkFollowsWorkload
                   /\ NoLostWakeup /\ GuestSurvivesCrash
BY DEF IInv, HostOK, Agree, Sound, TypeOK, RecordsAgree,
       NetworkFollowsWorkload, NoLostWakeup, GuestSurvivesCrash

(***************************************************************************)
(* Stopped definitions without processes establish it.                     *)
(***************************************************************************)
LEMMA InitEstablishes == Init => IInv
BY ConstantsAssumption
DEF Init, IInv, HostOK, Agree, Sound, Stopped, Record, MaybePid, IsActive,
    Waits, Idle, Threads

(***************************************************************************)
(* reconcileLocked preserves the agreement, in memory and in the file.     *)
(***************************************************************************)
LEMMA ReconcileAgrees ==
    ASSUME IInv
    PROVE  Agree(RVm, RDisk, RExits, RTimers, RNet)
<1>1. RVm \in [VMs -> Record] /\ RDisk \in [VMs -> Record]
  BY DEF IInv, Agree, RVm, RDisk, Reconciled, Stopped, Record, MaybePid
<1>2. /\ RExits \in [VMs -> MaybePid]
      /\ RTimers \in [VMs -> MaybePid]
      /\ RNet \subseteq VMs
  BY DEF IInv, Agree, RExits, RTimers, RNet, Without, MaybePid
<1>3. ASSUME NEW v \in VMs
      PROVE  /\ Sound(RVm[v], v)
             /\ v \in Gone <=> RVm[v] # vm[v]
             /\ v \in Gone => RVm[v] = Stopped
             /\ v \notin Gone => RVm[v] = vm[v]
  BY DEF IInv, Agree, RVm, Gone, Reconciled, Stopped, Sound, IsActive
<1>4. ASSUME NEW v \in VMs
      PROVE  /\ Sound(RDisk[v], v)
             /\ RExits[v] # NoPid =>
                 RExits[v] = RVm[v].pid /\ watch[RExits[v]] # "none"
             /\ RTimers[v] # NoPid =>
                 RTimers[v] = RVm[v].pid /\ RVm[v].status = "stopping"
             /\ v \in RNet => IsActive(RVm[v])
             /\ RVm[v].pid # NoPid /\ proc[RVm[v].pid] = "alive" =>
                 RDisk[v].pid = RVm[v].pid
  BY <1>3 DEF IInv, Agree, RDisk, RExits, RTimers, RNet, Without, Stopped
<1>5. QED
  BY <1>1, <1>2, <1>3, <1>4 DEF Agree

(***************************************************************************)
(* The first half of forceStopLocked, from the tables it is called with.   *)
(***************************************************************************)
LEMMA KillPreserves ==
    ASSUME IInv, NEW t \in Threads, NEW v \in VMs,
           NEW machines, NEW file, NEW channels, NEW timers,
           Agree(machines, file, channels, timers, netUsers'),
           IsActive(machines[v]),
           \/ Kill(t, v, machines, file, channels, timers)
           \/ KillRefused(v, machines, file, channels, timers),
           callbacks' \subseteq Pids,
           \A q \in callbacks' : proc[q] # "unused",
           UNCHANGED <<owner, watch, sock, restarts, superseded>>
    PROVE  IInv'
<1> USE ConstantsAssumption
<1>1. machines[v].pid \in Pids
  BY DEF Agree, Sound, Record, MaybePid
<1>2. /\ proc' \in [Pids -> {"unused", "alive", "killed", "dead"}]
      /\ \A q \in Pids : /\ proc'[q] = "unused" <=> proc[q] = "unused"
                         /\ proc'[q] = "alive" => proc[q] = "alive"
  BY <1>1 DEF IInv, HostOK, Kill, KillRefused
<1>3. wait' \in [Threads -> Waits \cup {Idle}]
  <2>1. [vm |-> v, chan |-> channels[v]] \in Waits
    BY DEF Agree, Waits
  <2>2. wait' = wait \/ wait' = [wait EXCEPT ![t] = [vm |-> v, chan |-> channels[v]]]
    BY DEF Kill, KillRefused
  <2>3. QED BY <2>1, <2>2 DEF IInv, HostOK
<1>4. HostOK'
  BY <1>2, <1>3 DEF IInv, HostOK
<1>5. /\ vm' \in [VMs -> Record]
      /\ \A u \in VMs : /\ vm'[u].pid = machines[u].pid
                        /\ IsActive(vm'[u]) <=> IsActive(machines[u])
                        /\ u # v => vm'[u] = machines[u]
  BY DEF Kill, KillRefused, Agree, Record, IsActive
<1>6. disk' = vm' \/ disk' = file
  BY DEF Kill, KillRefused, Save, SaveResults
<1>7. \A u \in VMs : Sound(machines[u], u)' /\ Sound(file[u], u)'
  BY <1>2 DEF Agree, Sound, Record, MaybePid
<1>8. \A u \in VMs : Sound(vm[u], u)' /\ Sound(disk[u], u)'
  BY <1>5, <1>6, <1>7 DEF Sound
<1>9. /\ exits' = channels
      /\ stopTimers' \in [VMs -> MaybePid]
      /\ \A u \in VMs : stopTimers'[u] # NoPid =>
            u # v /\ stopTimers'[u] = timers[u]
  BY DEF Kill, KillRefused, Agree, MaybePid
<1>10. ASSUME NEW u \in VMs, vm'[u].pid # NoPid, proc'[vm'[u].pid] = "alive"
       PROVE  disk'[u].pid = vm'[u].pid
  <2>1. vm'[u].pid = machines[u].pid
    BY <1>5
  <2>2. machines[u].pid \in Pids
    BY <2>1, <1>10 DEF Agree, Record, MaybePid
  <2>3. proc[machines[u].pid] = "alive"
    BY <2>1, <2>2, <1>2, <1>10
  <2>4. file[u].pid = machines[u].pid
    BY <2>1, <2>3, <1>10 DEF Agree
  <2>5. QED BY <2>1, <2>4, <1>6

<1>11. Agree(vm, disk, exits, stopTimers, netUsers)'
  BY <1>5, <1>6, <1>8, <1>9, <1>10 DEF Agree
<1>12. QED BY <1>4, <1>11 DEF IInv

(***************************************************************************)
(* The end of a run, as forceStopLocked and processExited record it.       *)
(***************************************************************************)
LEMMA EndOfRunAgrees ==
    ASSUME IInv, NEW v \in VMs,
           vm' = [vm EXCEPT ![v] = Stopped],
           exits' = [exits EXCEPT ![v] = NoPid],
           stopTimers' = [stopTimers EXCEPT ![v] = NoPid],
           netUsers' = netUsers \ {v},
           disk' = vm' \/ disk' = disk,
           UNCHANGED <<proc, owner>>,
           \A q \in Pids : watch'[q] = watch[q] \/ exits[v] = q
                           \/ \A u \in VMs : exits[u] # q
    PROVE  Agree(vm, disk, exits, stopTimers, netUsers)'
<1> USE ConstantsAssumption
<1>1. /\ vm' \in [VMs -> Record]
      /\ exits' \in [VMs -> MaybePid]
      /\ stopTimers' \in [VMs -> MaybePid]
      /\ netUsers' \subseteq VMs
  BY DEF IInv, Agree, Stopped, Record, MaybePid
<1>2. vm'[v] = Stopped /\ exits'[v] = NoPid /\ stopTimers'[v] = NoPid
      /\ v \notin netUsers'
  BY DEF IInv, Agree
<1>3. ASSUME NEW u \in VMs, u # v
      PROVE  /\ vm'[u] = vm[u] /\ exits'[u] = exits[u]
             /\ stopTimers'[u] = stopTimers[u]
             /\ u \in netUsers' <=> u \in netUsers
  BY <1>3 DEF IInv, Agree
<1>4. \A u \in VMs : Sound(vm[u], u)'
  BY <1>2, <1>3 DEF IInv, Agree, Sound, Stopped, IsActive
<1>5. \A u \in VMs : Sound(disk[u], u)'
  BY <1>4 DEF IInv, Agree, Sound
<1>6. ASSUME NEW u \in VMs, exits'[u] # NoPid
      PROVE  exits'[u] = vm'[u].pid /\ watch'[exits'[u]] # "none"
  <2>1. u # v /\ exits[u] # NoPid /\ exits[u] \in Pids
    BY <1>2, <1>3, <1>6 DEF IInv, Agree, MaybePid
  <2>2. exits[u] = vm[u].pid /\ owner[exits[u]] = u /\ watch[exits[u]] # "none"
    BY <2>1 DEF IInv, Agree, Sound
  <2>3. exits[v] # exits[u]
    BY <2>1, <2>2 DEF IInv, Agree, Sound
  <2>4. QED BY <1>3, <2>1, <2>2, <2>3
<1>7. QED
  BY <1>1, <1>2, <1>3, <1>4, <1>5, <1>6 DEF IInv, Agree, Stopped

(***************************************************************************)
(* Every step preserves the invariant, one lemma per group of handlers.    *)
(***************************************************************************)
LEMMA RequestPreserves ==
    ASSUME IInv, NEW g \in Callers, Request(g)
    PROVE  IInv'
<1> USE ConstantsAssumption DEF Save, SaveResults
<1>0. Agree(RVm, RDisk, RExits, RTimers, RNet)
  BY ReconcileAgrees
<1>1. CASE Refresh(g)
  <2>1. HostOK'
    BY <1>1 DEF IInv, HostOK, Refresh, hostVars
  <2>2. /\ vm' = RVm /\ exits' = RExits /\ stopTimers' = RTimers
        /\ netUsers' = RNet /\ (disk' = RDisk \/ disk' = disk)
        /\ UNCHANGED <<proc, owner, watch>>
    BY <1>1 DEF Refresh, hostVars
  <2>3. \A v \in VMs :
          /\ Sound(disk[v], v)
          /\ RVm[v].pid # NoPid /\ proc[RVm[v].pid] = "alive" =>
                disk[v].pid = RVm[v].pid
    BY DEF IInv, Agree, RVm, Reconciled, Stopped
  <2>4. Agree(vm, disk, exits, stopTimers, netUsers)'
    BY <1>0, <2>2, <2>3 DEF IInv, Agree, Sound
  <2>5. QED BY <2>1, <2>4 DEF IInv
<1>2. ASSUME NEW v \in VMs, NEW p \in Pids, Start(g, v, p)
      PROVE  IInv'
  <2>1. HostOK'
    BY <1>2 DEF IInv, HostOK, Start, SpawnedState, MaybePid
  <2>2. Agree(vm, disk, exits, stopTimers, netUsers)'
    BY <1>0, <1>2 DEF IInv, HostOK, Agree, Sound, Start, SpawnedState,
                      CanStart, Record, MaybePid, IsActive
  <2>3. QED BY <2>1, <2>2 DEF IInv
<1>3. ASSUME NEW v \in VMs, StartFails(g, v)
      PROVE  IInv'
  <2>1. HostOK'
    BY <1>3 DEF IInv, HostOK, StartFails, MaybePid
  <2>2. Agree(vm, disk, exits, stopTimers, netUsers)'
    BY <1>0, <1>3 DEF Agree, Sound, StartFails, CanStart, Record, MaybePid,
                      IsActive
  <2>3. QED BY <2>1, <2>2 DEF IInv
<1>4. ASSUME NEW v \in VMs, NEW d \in Deadlines, StopGraceful(g, v, d)
      PROVE  IInv'
  <2>1. HostOK'
    BY <1>4 DEF IInv, HostOK, StopGraceful, hostVars
  <2>2. Agree(vm, disk, exits, stopTimers, netUsers)'
    BY <1>0, <1>4 DEF Agree, Sound, StopGraceful, hostVars, Record, MaybePid,
                      IsActive
  <2>3. QED BY <2>1, <2>2 DEF IInv
<1>5. ASSUME NEW v \in VMs, StopForce(g, v)
      PROVE  IInv'
  <2>1. /\ callbacks' = callbacks /\ netUsers' = RNet
        /\ UNCHANGED <<owner, watch, sock, restarts, superseded>>
        /\ IsActive(RVm[v])
        /\ \/ Kill(g, v, RVm, RDisk, RExits, RTimers)
           \/ KillRefused(v, RVm, RDisk, RExits, RTimers)
    BY <1>5 DEF StopForce
  <2>2. callbacks' \subseteq Pids /\ \A q \in callbacks' : proc[q] # "unused"
    BY <2>1 DEF IInv, HostOK
  <2>3. Agree(RVm, RDisk, RExits, RTimers, netUsers') /\ g \in Threads
    BY <1>0, <2>1 DEF Threads
  <2>4. QED BY <2>1, <2>2, <2>3, KillPreserves
<1>6. ASSUME NEW v \in VMs, Delete(g, v)
      PROVE  IInv'
  <2>1. HostOK'
    BY <1>6 DEF IInv, HostOK, Delete, MaybePid
  <2>2. Agree(vm, disk, exits, stopTimers, netUsers)'
    BY <1>0, <1>6 DEF Agree, Sound, Delete, Absent, Record, MaybePid, IsActive
  <2>3. QED BY <2>1, <2>2 DEF IInv
<1>7. QED
  BY <1>1, <1>2, <1>3, <1>4, <1>5, <1>6 DEF Request

(***************************************************************************)
(* The steps of forced stops and shutdown deadlines preserve it.           *)
(***************************************************************************)
LEMMA StopMachineryPreserves ==
    ASSUME IInv,
           \/ \E t \in Threads : FinishForceStop(t)
           \/ \E v \in VMs : TimerFires(v)
           \/ \E t \in TimerThreads, p \in Pids : EscalateStop(t, p)
           \/ \E p \in Pids : EscalateTooLate(p)
    PROVE  IInv'
<1> USE ConstantsAssumption DEF Save, SaveResults, Sound, IsActive, MaybePid
<1>1. ASSUME NEW t \in Threads, FinishForceStop(t)
      PROVE  IInv'
  <2>1. HostOK'
    BY <1>1 DEF IInv, HostOK, FinishForceStop, hostVars
  <2>2. wait[t].vm \in VMs
    BY <1>1 DEF IInv, HostOK, FinishForceStop, Waits
  <2>3. Agree(vm, disk, exits, stopTimers, netUsers)'
    <3>1. CASE vm[wait[t].vm].status \in {"absent", "stopped"}
      <4>1. UNCHANGED <<vm, disk, exits, stopTimers, netUsers,
                        proc, owner, watch>>
        BY <1>1, <3>1 DEF FinishForceStop, hostVars
      <4>2. QED BY <4>1 DEF IInv, Agree
    <3>2. CASE vm[wait[t].vm].status \notin {"absent", "stopped"}
      <4>1. UNCHANGED <<proc, owner, watch>>
        BY <1>1 DEF FinishForceStop, hostVars
      <4>2. disk' = vm' \/ disk' = disk
        BY <1>1, <3>2 DEF FinishForceStop
      <4>3. QED
        BY <1>1, <2>2, <3>2, <4>1, <4>2, EndOfRunAgrees DEF FinishForceStop
    <3>3. QED BY <3>1, <3>2
  <2>4. QED BY <2>1, <2>3 DEF IInv
<1>2. ASSUME NEW v \in VMs, TimerFires(v)
      PROVE  IInv'
  BY <1>2 DEF IInv, HostOK, Agree, TimerFires, hostVars
<1>3. ASSUME NEW t \in TimerThreads, NEW p \in Pids, EscalateStop(t, p)
      PROVE  IInv'
  <2>1. /\ owner[p] \in VMs /\ IsActive(vm[owner[p]]) /\ t \in Threads
        /\ UNCHANGED <<netUsers, owner, watch, sock, restarts, superseded>>
        /\ \/ Kill(t, owner[p], vm, disk, exits, stopTimers)
           \/ KillRefused(owner[p], vm, disk, exits, stopTimers)
    BY <1>3 DEF IInv, HostOK, EscalateStop, Overdue, Threads
  <2>2. callbacks' \subseteq Pids /\ \A q \in callbacks' : proc[q] # "unused"
    BY <1>3, <2>1 DEF IInv, HostOK, Agree, EscalateStop, CallbacksAfter
  <2>3. Agree(vm, disk, exits, stopTimers, netUsers')
    BY <2>1 DEF IInv
  <2>4. QED BY <2>1, <2>2, <2>3, KillPreserves
<1>4. ASSUME NEW p \in Pids, EscalateTooLate(p)
      PROVE  IInv'
  BY <1>4 DEF IInv, HostOK, Agree, EscalateTooLate, CallbacksAfter, hostVars
<1>5. QED
  BY <1>1, <1>2, <1>3, <1>4

(***************************************************************************)
(* The death of a process, its watcher and its exit callback preserve it.  *)
(***************************************************************************)
LEMMA ProcessPreserves ==
    ASSUME IInv, NEW p \in Pids,
           ProcessDies(p) \/ WatcherCleans(p) \/ ProcessExited(p)
    PROVE  IInv'
<1> USE ConstantsAssumption DEF Sound, MaybePid
<1>1. CASE ProcessDies(p)
  BY <1>1 DEF IInv, HostOK, Agree, ProcessDies, managerVars, Living
<1>2. CASE WatcherCleans(p)
  BY <1>2 DEF IInv, HostOK, Agree, WatcherCleans, managerVars
<1>3. CASE ProcessExited(p)
  <2>1. HostOK'
    BY <1>3 DEF IInv, HostOK, ProcessExited
  <2>2. Agree(vm, disk, exits, stopTimers, netUsers)'
    <3>1. owner[p] \in VMs
      BY <1>3 DEF IInv, HostOK, ProcessExited
    <3>2. \A q \in Pids : watch'[q] = watch[q] \/ q = p
      BY <1>3 DEF IInv, HostOK, ProcessExited
    <3>3. \A u \in VMs : exits[u] = p => u = owner[p] /\ vm[u].pid = p
      BY DEF IInv, Agree
    <3>4. CASE ExitConcerns(owner[p], p)
      <4>1. \A q \in Pids : watch'[q] = watch[q] \/ exits[owner[p]] = q
                            \/ \A u \in VMs : exits[u] # q
        BY <3>2, <3>3
      <4>2. disk' = vm' \/ disk' = disk
        BY <1>3, <3>4 DEF ProcessExited, Save, SaveResults
      <4>3. QED
        BY <1>3, <3>1, <3>4, <4>1, <4>2, EndOfRunAgrees DEF ProcessExited
    <3>5. CASE ~ExitConcerns(owner[p], p)
      <4>1. \A u \in VMs : exits[u] # p
        BY <3>3, <3>5 DEF ExitConcerns
      <4>2. QED
        BY <1>3, <3>2, <3>5, <4>1 DEF ProcessExited, IInv, HostOK, Agree
    <3>6. QED BY <3>4, <3>5
  <2>3. QED BY <2>1, <2>2 DEF IInv
<1>4. QED BY <1>1, <1>2, <1>3

(***************************************************************************)
(* A restart rebuilds everything from vms.json, whose records are sound.   *)
(***************************************************************************)
LEMMA NewManagerPreserves ==
    ASSUME IInv, NewManager,
           proc' \in [Pids -> {"unused", "alive", "killed", "dead"}],
           owner' \in [Pids -> VMs \cup {NoVM}],
           sock' \in [VMs -> MaybePid],
           \A q \in Pids : proc'[q] # "unused" => owner'[q] \in VMs,
           \A q \in Pids : proc[q] # "unused" =>
                proc'[q] # "unused" /\ owner'[q] = owner[q]
    PROVE  IInv'
<1> USE ConstantsAssumption
<1>1. HostOK'
  BY DEF IInv, HostOK, NewManager, Idle, Threads
<1>2. vm' \in [VMs -> Record]
  BY DEF IInv, Agree, NewManager, Reconciled, Stopped, Record, MaybePid
<1>3. ASSUME NEW v \in VMs
      PROVE  vm'[v] = disk[v] \/ vm'[v] = Stopped
  BY DEF NewManager, Reconciled
<1>4. \A v \in VMs : Sound(vm[v], v)'
  BY SMTT(30), <1>3
  DEF IInv, Agree, Sound, Stopped, IsActive, Record, MaybePid
<1>5. netUsers' \subseteq VMs /\ \A v \in netUsers' : IsActive(vm'[v])
  BY DEF NewManager
<1>6. Agree(vm, disk, exits, stopTimers, netUsers)'
  BY <1>2, <1>4, <1>5 DEF Agree, NewManager, MaybePid
<1>7. QED BY <1>1, <1>6 DEF IInv

(***************************************************************************)
(* A crash of App Runner, in the middle of Start or of a kill too, and the *)
(* restart preserve it.                                                    *)
(***************************************************************************)
LEMMA CrashPreserves == IInv /\ Crash => IInv'
<1> SUFFICES ASSUME IInv, Crash PROVE IInv'
  OBVIOUS
<1> USE ConstantsAssumption
<1>1. CASE Restart
  BY <1>1, NewManagerPreserves DEF Restart, IInv, HostOK
<1>2. ASSUME NEW v \in VMs, NEW p \in Pids, CrashDuringStart(v, p)
      PROVE  IInv'
  BY <1>2, NewManagerPreserves DEF CrashDuringStart, IInv, HostOK, MaybePid
<1>3. ASSUME NEW v \in VMs, CrashDuringKill(v)
      PROVE  IInv'
  BY <1>3, NewManagerPreserves DEF CrashDuringKill, IInv, HostOK
<1>4. QED BY <1>1, <1>2, <1>3 DEF Crash

(***************************************************************************)
(* Every step preserves the invariant.                                     *)
(***************************************************************************)
LEMMA NextPreserves == IInv /\ [Next]_vars => IInv'
<1> SUFFICES ASSUME IInv, [Next]_vars PROVE IInv'
  OBVIOUS
<1>1. CASE UNCHANGED vars
  BY <1>1 DEF vars, managerVars, hostVars, IInv, HostOK, Agree, Sound
<1>2. CASE Next
  BY <1>2, RequestPreserves, StopMachineryPreserves, ProcessPreserves,
     CrashPreserves DEF Next
<1>3. QED BY <1>1, <1>2

(***************************************************************************)
(* The inductive invariant holds in every reachable state.                 *)
(***************************************************************************)
THEOREM InvariantHolds == Spec => []IInv
<1>1. QED BY InitEstablishes, NextPreserves, PTL DEF Spec

(***************************************************************************)
(* Every variable keeps its type.                                          *)
(***************************************************************************)
THEOREM TypeCorrect == Spec => []TypeOK
<1>1. QED BY InvariantHolds, InvariantImplies, PTL

(***************************************************************************)
(* Status, PID, exit channel and deadline of a VM always describe the same *)
(* run.                                                                    *)
(***************************************************************************)
THEOREM RecordsAlwaysAgree == Spec => []RecordsAgree
<1>1. QED BY InvariantHolds, InvariantImplies, PTL

(***************************************************************************)
(* No VM holds managed network services when it is not active.             *)
(***************************************************************************)
THEOREM NetworkReleased == Spec => []NetworkFollowsWorkload
<1>1. QED BY InvariantHolds, InvariantImplies, PTL

(***************************************************************************)
(* An open exit channel always has a goroutine that will close it.         *)
(***************************************************************************)
THEOREM WakeupsDelivered == Spec => []NoLostWakeup
<1>1. QED BY InvariantHolds, InvariantImplies, PTL

(***************************************************************************)
(* A live guest the manager tracks is in vms.json, whichever saves failed. *)
(***************************************************************************)
THEOREM GuestsSurviveCrashes == Spec => []GuestSurvivesCrash
<1>1. QED BY InvariantHolds, InvariantImplies, PTL

(***************************************************************************)
(* A deadline that fires late never kills a later run: escalateStop acts   *)
(* only on the PID it captured.                                            *)
(***************************************************************************)
THEOREM StaleDeadlinesHarmless == Spec => StaleDeadlineSparesLaterRun
<1> DEFINE Spares ==
      restarts' = restarts =>
        \A p \in callbacks \ callbacks' : \A q \in Pids \ {p} :
            proc'[q] = "killed" => proc[q] = "killed"
<1>1. ASSUME IInv, [Next]_vars PROVE [Spares]_vars
  <2>1. CASE UNCHANGED vars
    BY <2>1
  <2>2. ASSUME NEW g \in Callers, Request(g) PROVE callbacks' = callbacks
    BY <2>2 DEF Request, Refresh, Start, StartFails, StopGraceful, StopForce,
                Delete
  <2>3. ASSUME NEW t \in Threads, FinishForceStop(t)
        PROVE  callbacks' = callbacks
    BY <2>3 DEF FinishForceStop
  <2>4. ASSUME NEW v \in VMs, TimerFires(v) PROVE proc' = proc
    BY <2>4 DEF TimerFires, hostVars
  <2>5. ASSUME NEW t \in TimerThreads, NEW p \in Pids, EscalateStop(t, p)
        PROVE  Spares
    <3>1. callbacks \ callbacks' \subseteq {p}
      BY <2>5 DEF EscalateStop, CallbacksAfter
    <3>2. \A q \in Pids \ {p} : proc'[q] = proc[q]
      BY <1>1, <2>5 DEF EscalateStop, Overdue, Kill, KillRefused, IInv, HostOK
    <3>3. QED BY <3>1, <3>2
  <2>6. ASSUME NEW p \in Pids, EscalateTooLate(p) PROVE proc' = proc
    BY <2>6 DEF EscalateTooLate, hostVars
  <2>7. ASSUME NEW p \in Pids,
               ProcessDies(p) \/ WatcherCleans(p) \/ ProcessExited(p)
        PROVE  callbacks' = callbacks
    BY <2>7 DEF ProcessDies, WatcherCleans, ProcessExited, managerVars
  <2>8. ASSUME Crash PROVE restarts' # restarts
    BY <2>8, <1>1 DEF Crash, Restart, CrashDuringStart, CrashDuringKill,
                NewManager, IInv, HostOK
  <2>9. QED
    BY <1>1, <2>1, <2>2, <2>3, <2>4, <2>5, <2>6, <2>7, <2>8 DEF Next
<1>2. QED
  BY <1>1, InvariantHolds, PTL DEF Spec, StaleDeadlineSparesLaterRun
(***************************************************************************)
(* What is over is over: a forced stop waits only for a process it killed, *)
(* and a watcher cleans up only after a dead one.                          *)
(***************************************************************************)
Ended ==
    /\ \A t \in Threads : wait[t].chan # NoPid =>
        proc[wait[t].chan] \in {"killed", "dead"}
    /\ \A p \in Pids : watch[p] = "cleaned" => proc[p] = "dead"

(***************************************************************************)
(* SIGKILL hits the process whose exit channel is waited for.              *)
(***************************************************************************)
LEMMA KillEnds ==
    ASSUME IInv, Ended, NEW t \in Threads, NEW v \in VMs,
           NEW machines, NEW file, NEW channels, NEW timers, NEW users,
           Agree(machines, file, channels, timers, users),
           IsActive(machines[v]), watch' = watch,
           \/ Kill(t, v, machines, file, channels, timers)
           \/ KillRefused(v, machines, file, channels, timers)
    PROVE  Ended'
<1>1. CASE KillRefused(v, machines, file, channels, timers)
  BY <1>1 DEF KillRefused, Ended
<1>2. CASE Kill(t, v, machines, file, channels, timers)
  <2>1. machines[v].pid \in Pids
    BY DEF Agree, Sound, Record, MaybePid
  <2>2. proc'[machines[v].pid] # "alive" /\ proc'[machines[v].pid] # "unused"
    BY <1>2, <2>1 DEF Kill, IInv, HostOK, Agree, Sound
  <2>3. \A p \in Pids : proc[p] \in {"killed", "dead"} => proc'[p] = proc[p]
    BY <1>2, <2>1 DEF Kill, IInv, HostOK
  <2>4. channels[v] # NoPid => channels[v] = machines[v].pid
    BY DEF Agree
  <2>5. proc' \in [Pids -> {"unused", "alive", "killed", "dead"}]
    BY <1>2 DEF Kill, IInv, HostOK
  <2>6. \A u \in Threads : wait[u].chan \in MaybePid
    BY DEF IInv, HostOK, Waits, Idle, MaybePid
  <2>7. \A u \in Threads :
          wait'[u] = wait[u] \/ wait'[u] = [vm |-> v, chan |-> channels[v]]
    BY <1>2 DEF Kill, IInv, HostOK
  <2>8. ASSUME NEW u \in Threads, wait'[u].chan # NoPid
        PROVE  proc'[wait'[u].chan] \in {"killed", "dead"}
    <3>1. CASE wait'[u] = wait[u]
      BY <3>1, <2>8, <2>3, <2>6 DEF Ended, MaybePid
    <3>2. CASE wait'[u] = [vm |-> v, chan |-> channels[v]]
      BY <3>2, <2>8, <2>1, <2>2, <2>4, <2>5
    <3>3. QED BY <3>1, <3>2, <2>7
  <2>9. QED BY <2>8, <2>3 DEF Ended
<1>3. QED BY <1>1, <1>2

(***************************************************************************)
(* Ended is an invariant, given the inductive one.                         *)
(***************************************************************************)
LEMMA EndedPreserved == IInv /\ Ended /\ [Next]_vars => Ended'
<1> SUFFICES ASSUME IInv, Ended, [Next]_vars PROVE Ended'
  OBVIOUS
<1>0. /\ proc \in [Pids -> {"unused", "alive", "killed", "dead"}]
      /\ watch \in [Pids -> {"none", "waiting", "cleaned"}]
      /\ wait \in [Threads -> Waits \cup {Idle}]
      /\ \A t \in Threads : wait[t].chan \in MaybePid
  BY DEF IInv, HostOK, Waits, Idle, MaybePid
<1>1. CASE UNCHANGED vars
  BY <1>1 DEF vars, managerVars, hostVars, Ended
<1>2. ASSUME NEW g \in Callers, Request(g) PROVE Ended'
  <2>1. CASE Refresh(g) \/ \E v \in VMs : \/ StartFails(g, v) \/ Delete(g, v)
                          \/ \E d \in Deadlines : StopGraceful(g, v, d)
    BY <2>1 DEF Refresh, StartFails, Delete, StopGraceful, hostVars, Ended
  <2>2. ASSUME NEW v \in VMs, NEW p \in Pids, Start(g, v, p) PROVE Ended'
    BY <1>0, <2>2 DEF Start, Ended, MaybePid
  <2>3. ASSUME NEW v \in VMs, StopForce(g, v) PROVE Ended'
    BY <2>3, KillEnds, ReconcileAgrees DEF StopForce, Threads
  <2>4. QED BY <1>2, <2>1, <2>2, <2>3 DEF Request
<1>3. ASSUME NEW t \in Threads, FinishForceStop(t) PROVE Ended'
  BY <1>0, <1>3 DEF FinishForceStop, hostVars, Ended, Idle
<1>4. ASSUME NEW v \in VMs, TimerFires(v) PROVE Ended'
  BY <1>4 DEF TimerFires, hostVars, Ended
<1>5. ASSUME NEW t \in TimerThreads, NEW p \in Pids, EscalateStop(t, p)
      PROVE  Ended'
  <2>1. owner[p] \in VMs /\ IsActive(vm[owner[p]])
    BY <1>5 DEF EscalateStop, Overdue, IsActive, IInv, HostOK
  <2>2. Agree(vm, disk, exits, stopTimers, netUsers)
    BY DEF IInv
  <2>3. QED BY <1>5, <2>1, <2>2, KillEnds DEF EscalateStop, Threads
<1>6. ASSUME NEW p \in Pids, EscalateTooLate(p) PROVE Ended'
  BY <1>6 DEF EscalateTooLate, hostVars, Ended
<1>7. ASSUME NEW p \in Pids,
             ProcessDies(p) \/ WatcherCleans(p) \/ ProcessExited(p)
      PROVE  Ended'
  BY <1>0, <1>7 DEF ProcessDies, WatcherCleans, ProcessExited, managerVars,
                    Ended, Living, MaybePid
<1>8. ASSUME Crash PROVE Ended'
  <2>1. NewManager
    BY <1>8 DEF Crash, Restart, CrashDuringStart, CrashDuringKill
  <2>2. QED BY <2>1 DEF NewManager, Ended, Idle
<1>9. QED
  BY <1>1, <1>2, <1>3, <1>4, <1>5, <1>6, <1>7, <1>8 DEF Next
(***************************************************************************)
(* What a step of the manager does to the records and network users of     *)
(* living guests, one fact per way a record can change.                    *)
(***************************************************************************)
Kept(v) ==
    vm[v].pid # NoPid /\ proc'[vm[v].pid] = "alive" =>
        /\ vm'[v].pid = vm[v].pid
        /\ v \in netUsers => v \in netUsers' \/ restarts' # restarts

(***************************************************************************)
(* reconcileLocked gives up only records whose process is gone.            *)
(***************************************************************************)
LEMMA ReconcileKeeps ==
    ASSUME IInv, NEW v \in VMs, vm[v].pid # NoPid,
           proc[vm[v].pid] \in Living
    PROVE  RVm[v] = vm[v] /\ v \notin Gone
BY DEF IInv, Agree, Sound, RVm, Reconciled, Gone, IsRunning

(***************************************************************************)
(* Every step keeps the record and the network of a guest that is still    *)
(* alive after it, unless a forced stop waits for another run of the VM.   *)
(***************************************************************************)
LEMMA StepKeepsGuests ==
    ASSUME IInv, Ended, [Next]_vars, NEW v \in VMs, ~StaleStop(v)
    PROVE  Kept(v)
<1> SUFFICES ASSUME vm[v].pid # NoPid, proc'[vm[v].pid] = "alive"
             PROVE  /\ vm'[v].pid = vm[v].pid
                    /\ v \in netUsers =>
                        v \in netUsers' \/ restarts' # restarts
  BY DEF Kept
<1> DEFINE q == vm[v].pid
<1>0. /\ q \in Pids
      /\ proc[q] # "unused" /\ owner[q] = v
      /\ IsActive(vm[v])
      /\ vm \in [VMs -> Record]
      /\ proc \in [Pids -> {"unused", "alive", "killed", "dead"}]
      /\ wait \in [Threads -> Waits \cup {Idle}]
  BY DEF IInv, HostOK, Agree, Sound, Record, MaybePid
<1>1. CASE UNCHANGED vars
  BY <1>1 DEF vars, managerVars
<1>2. ASSUME NEW g \in Callers, Request(g)
      PROVE  vm'[v].pid = q /\ (v \in netUsers => v \in netUsers')
  <2>1. proc[q] = "alive"
    <3>1. CASE \E w \in VMs : StopForce(g, w)
      BY <3>1, <1>0 DEF StopForce, Kill, KillRefused
    <3>2. CASE \E w \in VMs, p \in Pids : Start(g, w, p)
      BY <3>2, <1>0 DEF Start
    <3>3. CASE proc' = proc
      BY <3>3
    <3>4. QED
      BY <1>2, <3>1, <3>2, <3>3 DEF Request, Refresh, StartFails,
         StopGraceful, Delete, hostVars
  <2>2. RVm[v] = vm[v] /\ v \notin Gone
    BY <2>1, ReconcileKeeps DEF Living
  <2>3. RVm \in [VMs -> Record]
    BY ReconcileAgrees DEF Agree
  <2>4. ASSUME NEW w \in VMs, CanStart(w) \/ RVm[w].status \in {"stopped", "error"}
        PROVE  w # v
    BY <2>2, <2>4, <1>0 DEF CanStart, IsActive
  <2>5. CASE Refresh(g)
    BY <2>5, <2>2 DEF Refresh, RNet
  <2>6. ASSUME NEW w \in VMs, NEW p \in Pids, Start(g, w, p)
        PROVE  vm'[v].pid = q /\ (v \in netUsers => v \in netUsers')
    <3>1. w # v
      BY <2>4, <2>6 DEF Start
    <3>2. QED BY <2>6, <3>1, <2>2, <2>3 DEF Start, RNet
  <2>7. ASSUME NEW w \in VMs, StartFails(g, w) \/ Delete(g, w)
        PROVE  vm'[v].pid = q /\ (v \in netUsers => v \in netUsers')
    <3>1. w # v
      BY <2>4, <2>7 DEF StartFails, Delete
    <3>2. QED BY <2>7, <3>1, <2>2, <2>3 DEF StartFails, Delete, RNet
  <2>8. ASSUME NEW w \in VMs, NEW d \in Deadlines, StopGraceful(g, w, d)
        PROVE  vm'[v].pid = q /\ (v \in netUsers => v \in netUsers')
    BY <2>8, <2>2, <2>3 DEF StopGraceful, RNet, Record
  <2>9. ASSUME NEW w \in VMs, StopForce(g, w)
        PROVE  vm'[v].pid = q /\ (v \in netUsers => v \in netUsers')
    BY <2>9, <2>2, <2>3 DEF StopForce, Kill, KillRefused, RNet, Record
  <2>10. QED
    BY <1>2, <2>5, <2>6, <2>7, <2>8, <2>9 DEF Request
<1>3. ASSUME NEW t \in Threads, FinishForceStop(t)
      PROVE  vm'[v] = vm[v] /\ (v \in netUsers => v \in netUsers')
  <2>1. proc[q] = "alive"
    BY <1>3 DEF FinishForceStop, hostVars
  <2>2. wait[t].vm # v
    <3>1. SUFFICES ASSUME wait[t].vm = v PROVE FALSE
      OBVIOUS
    <3>2. wait[t].chan = q
      BY <3>1 DEF StaleStop
    <3>3. QED BY <3>2, <2>1 DEF Ended
  <2>3. QED BY <1>3, <2>2, <1>0 DEF FinishForceStop
<1>4. ASSUME NEW w \in VMs, TimerFires(w)
      PROVE  vm' = vm /\ netUsers' = netUsers
  BY <1>4 DEF TimerFires
<1>5. ASSUME NEW t \in TimerThreads, NEW p \in Pids, EscalateStop(t, p)
      PROVE  vm'[v].pid = q /\ netUsers' = netUsers
  BY <1>5, <1>0 DEF EscalateStop, Kill, KillRefused, Record
<1>6. ASSUME NEW p \in Pids,
             EscalateTooLate(p) \/ ProcessDies(p) \/ WatcherCleans(p)
      PROVE  vm' = vm /\ netUsers' = netUsers
  BY <1>6 DEF EscalateTooLate, ProcessDies, WatcherCleans, managerVars
<1>7. ASSUME NEW p \in Pids, ProcessExited(p)
      PROVE  vm'[v] = vm[v] /\ (v \in netUsers => v \in netUsers')
  <2>1. p # q
    BY <1>7 DEF ProcessExited, Ended
  <2>2. ExitConcerns(owner[p], p) => owner[p] # v
    BY <2>1 DEF ExitConcerns
  <2>3. QED BY <1>7, <2>2, <1>0 DEF ProcessExited
<1>8. ASSUME Crash PROVE vm'[v].pid = q /\ restarts' # restarts
  <2>1. NewManager
    BY <1>8 DEF Crash, Restart, CrashDuringStart, CrashDuringKill
  <2>2. restarts' # restarts
    BY <2>1 DEF NewManager, IInv, HostOK
  <2>3. proc[q] = "alive" /\ owner'[q] = owner[q]
    BY <1>0, <1>8 DEF Crash, Restart, CrashDuringStart, CrashDuringKill,
                      IInv, HostOK
  <2>4. disk[v].pid = q /\ IsActive(disk[v])
    BY <2>3 DEF IInv, Agree, Sound
  <2>5. Reconciled(disk, proc', owner')[v] = disk[v]
    BY <2>3, <2>4, <1>0 DEF Reconciled, IsRunning, Living
  <2>6. QED BY <2>1, <2>2, <2>4, <2>5 DEF NewManager
<1>9. QED
  BY <1>1, <1>2, <1>3, <1>4, <1>5, <1>6, <1>7, <1>8 DEF Next

(***************************************************************************)
(* A record gives up a guest nobody killed only to a stale forced stop:    *)
(* every other handler, late callback, failed save and crash keeps it.     *)
(***************************************************************************)
THEOREM GuestsAreNotForgotten == Spec => OnlyStaleStopsForgetGuests
<1> DEFINE Keeps == \A v \in VMs :
      vm[v].pid # NoPid /\ vm'[v].pid # vm[v].pid
          /\ proc'[vm[v].pid] = "alive" => StaleStop(v)
<1>1. IInv /\ Ended /\ [Next]_vars => [Keeps]_vars
  BY StepKeepsGuests DEF Kept
<1>2. Init => Ended
  BY DEF Init, Ended, Idle
<1>3. QED
  BY <1>1, <1>2, EndedPreserved, InvariantHolds, PTL
  DEF Spec, OnlyStaleStopsForgetGuests

(***************************************************************************)
(* While App Runner runs, a guest nobody killed loses its network services *)
(* only to a stale forced stop.                                            *)
(***************************************************************************)
THEOREM NetworkServicesLast == Spec => NetworkOutlastsGuest
<1> DEFINE Lasts == restarts' = restarts =>
      \A v \in netUsers \ netUsers' :
          proc'[vm[v].pid] = "alive" => StaleStop(v)
<1>1. ASSUME IInv, Ended, [Next]_vars PROVE [Lasts]_vars
  <2>1. \A v \in netUsers : v \in VMs /\ vm[v].pid # NoPid
    BY <1>1 DEF IInv, Agree, Sound
  <2>2. QED BY <1>1, <2>1, StepKeepsGuests DEF Kept
<1>2. Init => Ended
  BY DEF Init, Ended, Idle
<1>3. QED
  BY <1>1, <1>2, EndedPreserved, InvariantHolds, PTL
  DEF Spec, NetworkOutlastsGuest

(***************************************************************************)
(* While saves succeed, memory and vms.json never differ between two       *)
(* critical sections of the manager.                                       *)
(***************************************************************************)
LEMMA SavesKeepUp ==
    ASSUME IInv, SavedStateIsCurrent, [Next]_vars, "save" \notin Faults
    PROVE  SavedStateIsCurrent'
<1> USE DEF SavedStateIsCurrent, Save, SaveResults
<1>0. RDisk = RVm
  <2>1. CASE Gone = {}
    <3>1. \A v \in VMs : RVm[v] = vm[v]
      BY <2>1 DEF RVm, Reconciled, Gone
    <3>2. RVm = vm
      BY <3>1 DEF RVm, Reconciled, IInv, Agree
    <3>3. QED BY <2>1, <3>2 DEF RDisk
  <2>2. CASE Gone # {}
    BY <2>2 DEF RDisk
  <2>3. QED BY <2>1, <2>2
<1>1. CASE UNCHANGED vars
  BY <1>1 DEF vars, managerVars
<1>2. ASSUME NEW g \in Callers, Request(g) PROVE disk' = vm'
  <2>1. CASE \/ Refresh(g)
             \/ \E v \in VMs : \/ \E p \in Pids : Start(g, v, p)
                               \/ StartFails(g, v) \/ Delete(g, v)
                               \/ \E d \in Deadlines : StopGraceful(g, v, d)
    BY <1>0, <2>1 DEF Refresh, Start, StartFails, Delete, StopGraceful
  <2>2. ASSUME NEW v \in VMs, StopForce(g, v) PROVE disk' = vm'
    BY <1>0, <2>2 DEF StopForce, Kill, KillRefused
  <2>3. QED BY <1>2, <2>1, <2>2 DEF Request
<1>3. ASSUME NEW t \in Threads, FinishForceStop(t) PROVE disk' = vm'
  BY <1>3 DEF FinishForceStop
<1>4. ASSUME NEW t \in TimerThreads, NEW p \in Pids, EscalateStop(t, p)
      PROVE  disk' = vm'
  BY <1>4 DEF EscalateStop, Kill, KillRefused
<1>5. ASSUME NEW p \in Pids, ProcessExited(p) PROVE disk' = vm'
  BY <1>5 DEF ProcessExited
<1>6. ASSUME Crash PROVE disk' = vm'
  BY <1>6 DEF Crash, Restart, CrashDuringStart, CrashDuringKill, NewManager
<1>7. CASE \/ \E v \in VMs : TimerFires(v)
           \/ \E p \in Pids :
                 EscalateTooLate(p) \/ ProcessDies(p) \/ WatcherCleans(p)
  BY <1>7 DEF TimerFires, EscalateTooLate, ProcessDies, WatcherCleans,
              managerVars
<1>8. QED
  BY <1>1, <1>2, <1>3, <1>4, <1>5, <1>6, <1>7 DEF Next

(***************************************************************************)
(* On a host where vms.json can be written, the file holds every change of *)
(* the definitions before the handler that made it returns, whatever kills *)
(* are refused and whenever App Runner crashes.                            *)
(***************************************************************************)
THEOREM SavesAreCurrent ==
    ASSUME "save" \notin Faults
    PROVE  Spec => []SavedStateIsCurrent
<1>1. Init => SavedStateIsCurrent
  BY DEF Init, SavedStateIsCurrent
<1>2. IInv /\ SavedStateIsCurrent /\ [Next]_vars => SavedStateIsCurrent'
  BY SavesKeepUp
<1>3. QED BY <1>1, <1>2, InvariantHolds, PTL DEF Spec

(***************************************************************************)
(* Only Start and a restart make a record read running; Start does so for  *)
(* a process that did not exist before, a restart as the file says.        *)
(***************************************************************************)
LEMMA OnlyStartRuns ==
    ASSUME IInv, SavedStateIsCurrent, Next, NEW v \in VMs,
           vm[v].status = "stopping", vm'[v].status = "running"
    PROVE  vm'[v].pid # vm[v].pid
<1>0. /\ RVm \in [VMs -> Record]
      /\ vm \in [VMs -> Record]
      /\ RVm[v].status \in {"stopping", "stopped"}
  BY ReconcileAgrees DEF Agree, IInv, RVm, Reconciled, Stopped
<1>1. ASSUME NEW g \in Callers, Request(g) PROVE vm'[v].pid # vm[v].pid
  <2>1. ASSUME NEW w \in VMs, NEW p \in Pids, Start(g, w, p)
        PROVE  vm'[v].pid # vm[v].pid
    <3>1. w = v
      BY <1>0, <2>1 DEF Start
    <3>2. vm'[v].pid = p /\ proc[p] = "unused"
      BY <1>0, <2>1, <3>1 DEF Start
    <3>3. QED
      BY <2>1, <3>2, ConstantsAssumption DEF IInv, Agree, Sound
  <2>2. CASE \/ Refresh(g)
             \/ \E w \in VMs : \/ StartFails(g, w) \/ Delete(g, w)
                               \/ \E d \in Deadlines : StopGraceful(g, w, d)
    BY <1>0, <2>2 DEF Refresh, StartFails, Delete, StopGraceful, Absent, Record
  <2>3. ASSUME NEW w \in VMs, StopForce(g, w) PROVE FALSE
    BY <1>0, <2>3 DEF StopForce, Kill, KillRefused, Record
  <2>4. QED BY <1>1, <2>1, <2>2, <2>3 DEF Request
<1>2. ASSUME NEW t \in Threads, FinishForceStop(t) PROVE FALSE
  BY <1>0, <1>2 DEF FinishForceStop, Stopped
<1>3. ASSUME NEW t \in TimerThreads, NEW p \in Pids, EscalateStop(t, p)
      PROVE  FALSE
  BY <1>0, <1>3 DEF EscalateStop, Kill, KillRefused, Record
<1>4. ASSUME NEW p \in Pids, ProcessExited(p) PROVE FALSE
  BY <1>0, <1>4 DEF ProcessExited, Stopped
<1>5. ASSUME Crash PROVE FALSE
  <2>1. vm' = Reconciled(disk, proc', owner')
    BY <1>5 DEF Crash, Restart, CrashDuringStart, CrashDuringKill, NewManager
  <2>2. QED BY <2>1 DEF Reconciled, Stopped, SavedStateIsCurrent
<1>6. CASE \/ \E w \in VMs : TimerFires(w)
           \/ \E p \in Pids :
                 EscalateTooLate(p) \/ ProcessDies(p) \/ WatcherCleans(p)
  BY <1>6 DEF TimerFires, EscalateTooLate, ProcessDies, WatcherCleans,
              managerVars
<1>7. QED BY <1>1, <1>2, <1>3, <1>4, <1>5, <1>6 DEF Next

(***************************************************************************)
(* Once a stop was accepted and saved, no handler, refused kill, crash or  *)
(* restart makes the same run read running again.                          *)
(***************************************************************************)
THEOREM StopsAreFinal ==
    ASSUME "save" \notin Faults
    PROVE  Spec => StopIsFinal
<1> DEFINE Final == \A v \in VMs :
      vm[v].status = "stopping" /\ vm'[v].status = "running" =>
          vm'[v].pid # vm[v].pid
<1>1. ASSUME IInv, SavedStateIsCurrent, [Next]_vars PROVE [Final]_vars
  BY <1>1, OnlyStartRuns
<1>2. QED
  BY <1>1, InvariantHolds, SavesAreCurrent, PTL DEF Spec, StopIsFinal

(***************************************************************************)
(* A forced stop that waits for the run its VM still has waits on the open *)
(* exit channel of that run.                                               *)
(***************************************************************************)
WaitsForRun ==
    \A t \in Threads :
        /\ wait[t].chan \in MaybePid
        /\ wait[t] # Idle => wait[t].vm \in VMs
        /\ wait[t] # Idle /\ wait[t].chan # NoPid
           /\ wait[t].chan = vm[wait[t].vm].pid =>
              exits[wait[t].vm] = wait[t].chan

(***************************************************************************)
(* An exit channel that is forgotten was that of a run which is over: the  *)
(* record no longer names its process.                                     *)
(***************************************************************************)
LEMMA ChannelsLast ==
    ASSUME IInv, Next, restarts' = restarts, NEW v \in VMs
    PROVE  \/ exits'[v] = exits[v]
           \/ vm'[v].pid # vm[v].pid
           \/ vm[v].pid = NoPid
<1>1. vm'[v].pid # NoPid /\ vm'[v].pid = vm[v].pid => exits'[v] = exits[v]
  <2> SUFFICES ASSUME vm'[v].pid # NoPid, vm'[v].pid = vm[v].pid
               PROVE  exits'[v] = exits[v]
    OBVIOUS
  <2>0. /\ RVm \in [VMs -> Record] /\ vm \in [VMs -> Record]
        /\ RExits \in [VMs -> MaybePid] /\ exits \in [VMs -> MaybePid]
        /\ RVm[v].pid = NoPid \/ v \notin Gone
        /\ v \notin Gone => RExits[v] = exits[v]
        /\ proc[vm[v].pid] # "unused"
    BY ReconcileAgrees
    DEF Agree, IInv, RVm, RExits, Without, Reconciled, Gone, Stopped, Sound
  <2>1. ASSUME NEW g \in Callers, Request(g) PROVE exits'[v] = exits[v]
    <3>1. CASE Refresh(g)
      BY <2>0, <3>1 DEF Refresh
    <3>2. ASSUME NEW w \in VMs, NEW p \in Pids, Start(g, w, p)
          PROVE  exits'[v] = exits[v]
      <4>1. w # v
        BY <2>0, <3>2 DEF Start
      <4>2. QED BY <2>0, <3>2, <4>1 DEF Start
    <3>3. ASSUME NEW w \in VMs, StartFails(g, w)
          PROVE  exits'[v] = exits[v]
      <4>1. vm'[v].pid = RVm[v].pid /\ Sound(RVm[v], v)
        BY <2>0, <3>3, ReconcileAgrees DEF StartFails, Agree, Record
      <4>2. w # v
        BY <3>3, <4>1 DEF StartFails, CanStart, Sound, IsActive
      <4>3. QED BY <2>0, <3>3, <4>1, <4>2 DEF StartFails
    <3>4. ASSUME NEW w \in VMs, Delete(g, w) PROVE exits'[v] = exits[v]
      BY <2>0, <3>4 DEF Delete, Absent
    <3>5. ASSUME NEW w \in VMs, NEW d \in Deadlines, StopGraceful(g, w, d)
          PROVE  exits'[v] = exits[v]
      BY <2>0, <3>5 DEF StopGraceful, Record
    <3>6. ASSUME NEW w \in VMs, StopForce(g, w) PROVE exits'[v] = exits[v]
      BY <2>0, <3>6 DEF StopForce, Kill, KillRefused, Record
    <3>7. QED BY <2>1, <3>1, <3>2, <3>3, <3>4, <3>5, <3>6 DEF Request
  <2>2. ASSUME NEW t \in Threads, FinishForceStop(t)
        PROVE  exits'[v] = exits[v]
    BY <2>0, <2>2 DEF FinishForceStop, Stopped
  <2>3. ASSUME NEW t \in TimerThreads, NEW p \in Pids, EscalateStop(t, p)
        PROVE  exits'[v] = exits[v]
    BY <2>3 DEF EscalateStop, Kill, KillRefused
  <2>4. ASSUME NEW p \in Pids, ProcessExited(p) PROVE exits'[v] = exits[v]
    BY <2>0, <2>4 DEF ProcessExited, Stopped
  <2>5. CASE Crash
    BY <2>5 DEF Crash, Restart, CrashDuringStart, CrashDuringKill, NewManager,
                IInv, HostOK
  <2>6. CASE \/ \E w \in VMs : TimerFires(w)
             \/ \E p \in Pids :
                   EscalateTooLate(p) \/ ProcessDies(p) \/ WatcherCleans(p)
    BY <2>6 DEF TimerFires, EscalateTooLate, ProcessDies, WatcherCleans,
                managerVars
  <2>7. QED BY <2>1, <2>2, <2>3, <2>4, <2>5, <2>6 DEF Next
<1>2. QED BY <1>1

(***************************************************************************)
(* A record changes its process only to none or to a new one.              *)
(***************************************************************************)
LEMMA NewRunsAreNew ==
    ASSUME IInv, Next, restarts' = restarts, NEW v \in VMs,
           vm'[v].pid # vm[v].pid, vm'[v].pid # NoPid
    PROVE  proc[vm'[v].pid] = "unused"
<1>0. /\ RVm \in [VMs -> Record] /\ vm \in [VMs -> Record]
      /\ RVm[v].pid \in {vm[v].pid, NoPid}
  BY ReconcileAgrees DEF Agree, IInv, RVm, Reconciled, Stopped
<1>1. ASSUME NEW g \in Callers, Request(g)
      PROVE  proc[vm'[v].pid] = "unused"
  <2>1. ASSUME NEW w \in VMs, NEW p \in Pids, Start(g, w, p)
        PROVE  proc[vm'[v].pid] = "unused"
    BY <1>0, <2>1 DEF Start
  <2>2. ASSUME NEW w \in VMs, \/ Refresh(g) \/ StartFails(g, w)
                              \/ Delete(g, w) \/ StopForce(g, w)
                              \/ \E d \in Deadlines : StopGraceful(g, w, d)
        PROVE  vm'[v].pid \in {RVm[v].pid, NoPid}
    BY <1>0, <2>2 DEF Refresh, StartFails, Delete, StopGraceful, StopForce,
                      Kill, KillRefused, Absent, Record
  <2>3. QED BY <1>0, <1>1, <2>1, <2>2 DEF Request
<1>2. ASSUME NEW t \in Threads, FinishForceStop(t)
      PROVE  vm'[v].pid \in {vm[v].pid, NoPid}
  BY <1>0, <1>2 DEF FinishForceStop, Stopped
<1>3. ASSUME NEW t \in TimerThreads, NEW p \in Pids, EscalateStop(t, p)
      PROVE  vm'[v].pid = vm[v].pid
  BY <1>0, <1>3 DEF EscalateStop, Kill, KillRefused, Record
<1>4. ASSUME NEW p \in Pids, ProcessExited(p)
      PROVE  vm'[v].pid \in {vm[v].pid, NoPid}
  BY <1>0, <1>4 DEF ProcessExited, Stopped
<1>5. CASE Crash
  BY <1>5 DEF Crash, Restart, CrashDuringStart, CrashDuringKill, NewManager,
              IInv, HostOK
<1>6. CASE \/ \E w \in VMs : TimerFires(w)
           \/ \E p \in Pids :
                 EscalateTooLate(p) \/ ProcessDies(p) \/ WatcherCleans(p)
  BY <1>6 DEF TimerFires, EscalateTooLate, ProcessDies, WatcherCleans,
              managerVars
<1>7. QED BY <1>0, <1>1, <1>2, <1>3, <1>4, <1>5, <1>6 DEF Next

(***************************************************************************)
(* What a step does to the goroutines inside forceStopLocked.              *)
(***************************************************************************)
LEMMA WaitsChange ==
    ASSUME IInv, Next, NEW t \in Threads
    PROVE  \/ wait'[t] = wait[t]
           \/ wait'[t] = Idle
           \/ \E v \in VMs : wait'[t] = [vm |-> v, chan |-> exits'[v]]
<1>0. wait \in [Threads -> Waits \cup {Idle}]
  BY DEF IInv, HostOK
<1>1. ASSUME NEW g \in Callers, Request(g)
      PROVE  \/ wait'[t] = wait[t]
             \/ \E v \in VMs : wait'[t] = [vm |-> v, chan |-> exits'[v]]
  <2>1. ASSUME NEW v \in VMs, StopForce(g, v)
        PROVE  \/ wait'[t] = wait[t]
               \/ wait'[t] = [vm |-> v, chan |-> exits'[v]]
    BY <1>0, <2>1 DEF StopForce, Kill, KillRefused
  <2>2. CASE ~ \E v \in VMs : StopForce(g, v)
    BY <1>1, <2>2 DEF Request, Refresh, Start, StartFails, Delete, StopGraceful
  <2>3. QED BY <2>1, <2>2
<1>2. ASSUME NEW u \in Threads, FinishForceStop(u)
      PROVE  wait'[t] = wait[t] \/ wait'[t] = Idle
  BY <1>0, <1>2 DEF FinishForceStop
<1>3. ASSUME NEW u \in TimerThreads, NEW p \in Pids, EscalateStop(u, p)
      PROVE  \/ wait'[t] = wait[t]
             \/ \E v \in VMs : wait'[t] = [vm |-> v, chan |-> exits'[v]]
  <2>1. owner[p] \in VMs
    BY <1>3 DEF EscalateStop, IInv, HostOK
  <2>2. \/ wait'[t] = wait[t]
        \/ wait'[t] = [vm |-> owner[p], chan |-> exits'[owner[p]]]
    BY <1>0, <1>3 DEF EscalateStop, Kill, KillRefused
  <2>3. QED BY <2>1, <2>2
<1>4. CASE Crash
  BY <1>4 DEF Crash, Restart, CrashDuringStart, CrashDuringKill, NewManager
<1>5. CASE \/ \E w \in VMs : TimerFires(w)
           \/ \E p \in Pids : \/ EscalateTooLate(p) \/ ProcessDies(p)
                              \/ WatcherCleans(p) \/ ProcessExited(p)
  BY <1>5 DEF TimerFires, EscalateTooLate, ProcessDies, WatcherCleans,
              ProcessExited, managerVars
<1>6. QED BY <1>1, <1>2, <1>3, <1>4, <1>5 DEF Next

(***************************************************************************)
(* WaitsForRun is an invariant, given the inductive one.                   *)
(***************************************************************************)
LEMMA WaitsForRunPreserved ==
    ASSUME IInv, Ended, WaitsForRun, [Next]_vars
    PROVE  WaitsForRun'
<1>1. CASE UNCHANGED vars
  BY <1>1 DEF vars, managerVars, WaitsForRun
<1>2. ASSUME Next, NEW t \in Threads
      PROVE  /\ wait'[t].chan \in MaybePid
             /\ wait'[t] # Idle => wait'[t].vm \in VMs
             /\ wait'[t] # Idle /\ wait'[t].chan # NoPid
                /\ wait'[t].chan = vm'[wait'[t].vm].pid =>
                   exits'[wait'[t].vm] = wait'[t].chan
  <2>0. exits' \in [VMs -> MaybePid]
    BY <1>2, NextPreserves DEF IInv, Agree
  <2>1. CASE wait'[t] = Idle
    BY <2>1 DEF Idle, MaybePid
  <2>2. ASSUME NEW v \in VMs, wait'[t] = [vm |-> v, chan |-> exits'[v]]
        PROVE  /\ wait'[t].chan \in MaybePid /\ wait'[t].vm = v
               /\ exits'[wait'[t].vm] = wait'[t].chan
    BY <2>0, <2>2
  <2>3. CASE wait'[t] = wait[t] /\ wait[t] # Idle
    <3>1. /\ wait[t].chan \in MaybePid /\ wait[t].vm \in VMs
      BY <2>3 DEF WaitsForRun
    <3>2. ASSUME wait[t].chan # NoPid, wait[t].chan = vm'[wait[t].vm].pid
          PROVE  exits'[wait[t].vm] = wait[t].chan
      <4>1. restarts' = restarts
        <5>1. SUFFICES ASSUME Crash PROVE FALSE
          BY <1>2 DEF Next, Request, Refresh, Start, StartFails, Delete,
             StopGraceful, StopForce, FinishForceStop, TimerFires, EscalateStop,
             EscalateTooLate, ProcessDies, WatcherCleans, ProcessExited,
             hostVars
        <5>2. wait'[t] = Idle
          BY <5>1 DEF Crash, Restart, CrashDuringStart, CrashDuringKill,
                      NewManager
        <5>3. QED BY <2>3, <5>2
      <4>2. proc[wait[t].chan] # "unused"
        BY <3>2 DEF Ended
      <4>3. vm'[wait[t].vm].pid = vm[wait[t].vm].pid
        BY <1>2, <3>1, <3>2, <4>1, <4>2, NewRunsAreNew
      <4>4. exits[wait[t].vm] = wait[t].chan
        BY <2>3, <3>2, <4>3 DEF WaitsForRun
      <4>5. QED BY <1>2, <3>1, <3>2, <4>1, <4>3, <4>4, ChannelsLast
    <3>3. QED BY <2>3, <3>1, <3>2
  <2>4. QED BY <1>2, <2>1, <2>2, <2>3, WaitsChange
<1>3. QED BY <1>1, <1>2 DEF WaitsForRun

(***************************************************************************)
(* If killed processes are reaped in time and saves succeed, a record      *)
(* gives up a process that has not died yet only to a stale forced stop.   *)
(***************************************************************************)
LEMMA RecordsOutlastProcesses ==
    ASSUME IInv, Ended, WaitsForRun, SavedStateIsCurrent, Next,
           "slowExit" \notin Faults,
           NEW v \in VMs, vm[v].pid # NoPid, vm'[v].pid # vm[v].pid,
           ~StaleStop(v)
    PROVE  proc[vm[v].pid] = "dead"
<1> DEFINE q == vm[v].pid
<1>0. /\ q \in Pids
      /\ proc[q] # "unused" /\ owner[q] = v
      /\ IsActive(vm[v])
      /\ vm \in [VMs -> Record] /\ RVm \in [VMs -> Record]
      /\ proc \in [Pids -> {"unused", "alive", "killed", "dead"}]
  BY ReconcileAgrees DEF IInv, HostOK, Agree, Sound, Record, MaybePid
<1>1. SUFFICES ASSUME proc[q] \in Living PROVE FALSE
  BY <1>0 DEF Living
<1>2. RVm[v] = vm[v]
  BY <1>1, ReconcileKeeps
<1>3. ASSUME NEW g \in Callers, Request(g) PROVE FALSE
  <2>1. ASSUME NEW w \in VMs, \/ \E p \in Pids : Start(g, w, p)
                              \/ StartFails(g, w) \/ Delete(g, w)
        PROVE  FALSE
    <3>1. w # v
      BY <1>0, <1>2, <2>1 DEF Start, StartFails, Delete, CanStart, IsActive
    <3>2. QED
      BY <1>0, <1>2, <2>1, <3>1 DEF Start, StartFails, Delete, Record
  <2>2. ASSUME NEW w \in VMs, \/ Refresh(g) \/ StopForce(g, w)
                              \/ \E d \in Deadlines : StopGraceful(g, w, d)
        PROVE  FALSE
    BY <1>0, <1>2, <2>2 DEF Refresh, StopGraceful, StopForce, Kill,
                            KillRefused, Record
  <2>3. QED BY <1>2, <1>3, <2>1, <2>2 DEF Request, Refresh
<1>4. ASSUME NEW t \in Threads, FinishForceStop(t) PROVE FALSE
  <2>1. wait[t].vm = v /\ wait[t] # Idle
    BY <1>0, <1>4 DEF FinishForceStop
  <2>2. wait[t].chan = q
    BY <2>1 DEF StaleStop
  <2>3. exits[v] = q
    BY <2>1, <2>2 DEF WaitsForRun
  <2>4. QED BY <1>4, <2>1, <2>2, <2>3 DEF FinishForceStop, ForceStopWakes
<1>5. ASSUME NEW t \in TimerThreads, NEW p \in Pids, EscalateStop(t, p)
      PROVE  FALSE
  BY <1>0, <1>5 DEF EscalateStop, Kill, KillRefused, Record
<1>6. ASSUME NEW p \in Pids, ProcessExited(p) PROVE FALSE
  <2>1. p # q
    BY <1>1, <1>6 DEF ProcessExited, Ended, Living
  <2>2. QED BY <1>0, <1>6, <2>1 DEF ProcessExited, ExitConcerns
<1>7. ASSUME Crash PROVE FALSE
  <2>1. proc'[q] \in Living /\ owner'[q] = v
    BY <1>0, <1>1, <1>7 DEF Crash, Restart, CrashDuringStart, CrashDuringKill,
                            Living, IInv, HostOK
  <2>2. vm'[v] = vm[v]
    BY <1>0, <1>7, <2>1 DEF Crash, Restart, CrashDuringStart, CrashDuringKill,
       NewManager, Reconciled, IsRunning, SavedStateIsCurrent
  <2>3. QED BY <2>2
<1>8. CASE \/ \E w \in VMs : TimerFires(w)
           \/ \E p \in Pids :
                 EscalateTooLate(p) \/ ProcessDies(p) \/ WatcherCleans(p)
  BY <1>8 DEF TimerFires, EscalateTooLate, ProcessDies, WatcherCleans,
              managerVars
<1>9. QED BY <1>3, <1>4, <1>5, <1>6, <1>7, <1>8 DEF Next

(***************************************************************************)
(* On a host that reaps killed processes in time and can write vms.json, a *)
(* VM reads stopped, or runs again, only once the process of its last run  *)
(* is dead; refused kills and crashes at any moment included.              *)
(***************************************************************************)
THEOREM RunsEndWithTheirProcess ==
    ASSUME "save" \notin Faults, "slowExit" \notin Faults
    PROVE  Spec => RunEndsWithItsProcess
<1> DEFINE Ends == \A v \in VMs :
      vm[v].pid # NoPid /\ vm'[v].pid # vm[v].pid =>
          proc[vm[v].pid] = "dead" \/ StaleStop(v)
<1>1. ASSUME IInv, Ended, WaitsForRun, SavedStateIsCurrent, [Next]_vars
      PROVE  [Ends]_vars
  BY <1>1, RecordsOutlastProcesses
<1>2. Init => Ended /\ WaitsForRun
  BY DEF Init, Ended, WaitsForRun, Idle, MaybePid
<1>3. QED
  BY <1>1, <1>2, EndedPreserved, WaitsForRunPreserved, InvariantHolds,
     SavesAreCurrent, PTL
  DEF Spec, RunEndsWithItsProcess
=============================================================================
