------------------------ MODULE BridgeServicesProofs ------------------------
(***************************************************************************)
(* The NAT manager can always undo what it did to the host, for any number *)
(* of bridges, whatever fails and wherever it crashes (first part).  The   *)
(* bridge services drive it only the way NatForwarding allows, so what is  *)
(* proved of NAT alone holds of the composition, for any number of bridges *)
(* and machines (second part).                                             *)
(***************************************************************************)
EXTENDS BridgeServices, SequenceTheorems, TLAPS

(***************************************************************************)
(* Forwarding: the manager's copy of the host's setting is right whenever  *)
(* it may be used, and a changed kernel is known in memory and on disk.    *)
(***************************************************************************)
ForwardingInv ==
    /\ owned => file # NoFile
    /\ file # NoFile => file.orig = host
    /\ owned \/ recovering \/ at # "idle" => state.orig = host
    /\ ~owned => forwarding = host
    /\ forwarding # host =>
        host = "0" /\ state.changed = "yes" /\ file.changed = "yes"
    /\ at = "saveOrig" => ~owned
    /\ at = "saveChanged" => state.changed = "yes"
    /\ at = "enable" => state.changed = "yes" /\ file.changed = "yes"
    /\ at = "remove" => state.changed = "no"

(***************************************************************************)
(* Rules: where an operation stands tells which bridges can be active, and *)
(* the active ones have their rules except while they are being installed. *)
(***************************************************************************)
WithBridge == {"saveOrig", "saveChanged", "enable", "rules", "saveStarted",
               "undoRules", "stopRules"}

RulesInv ==
    /\ at \in WithBridge => arg \in Bridges
    /\ at \in WithBridge \ {"saveOrig"} => owned
    /\ active # {} => owned /\ forwarding = "1"
    /\ rules # {} => file # NoFile
    /\ at \in {"saveOrig", "saveChanged", "enable"} =>
        first /\ active = {}
    /\ at \in {"rules", "saveStarted"} => arg \in active
    /\ at \in {"rules", "saveStarted"} /\ first =>
        active = {arg}
    /\ at = "undoRules" /\ first => active = {}
    /\ at = "stopRules" => arg \in rules /\ forwarding = "1"
    /\ at \in {"restore", "cleanRules", "cleanRestore", "remove"} =>
        active = {}
    /\ at \in {"restore", "remove"} => rules = {}
    /\ at = "cleanRestore" /\ ~failed => rules = {}
    /\ IF at = "rules" THEN active \ {arg} \subseteq rules
                       ELSE active \subseteq rules

(***************************************************************************)
(* If nothing has failed, a file between operations means bridges to serve or *)
(* a recovery to finish.                                                   *)
(***************************************************************************)
CleanInv ==
    smooth =>
        /\ at # "undoRules"
        /\ ~failed
        /\ at = "save" => active # {}
        /\ at = "idle" /\ file # NoFile => active # {} \/ recovering

IInv == TypeOK /\ ForwardingInv /\ RulesInv /\ CleanInv

(***************************************************************************)
(* What the history records of a step.                                     *)
(***************************************************************************)
Observed(ok) == smooth' = (smooth /\ ok)

USE DEF Goto, Return, call, Settings, Saved, NoFile, Steps

(***************************************************************************)
(* Contents of the recovery file are told apart from its absence.          *)
(***************************************************************************)
LEMMA SavedIsFile == ASSUME NEW s \in Saved PROVE s # NoFile
  OBVIOUS

(***************************************************************************)
(* A first start on a host establishes the invariant.                      *)
(***************************************************************************)
LEMMA InitInv == Init => IInv
<1> SUFFICES ASSUME Init PROVE IInv
  OBVIOUS
<1> USE DEF Init, Zero
<1>1. TypeOK
  <2>1. restarts \in 0..MaxRestarts
    BY NatAssumption
  <2>2. owned \in BOOLEAN /\ recovering \in BOOLEAN /\ failed \in BOOLEAN
    OBVIOUS
  <2>3. QED BY <2>1, <2>2 DEF TypeOK
<1>2. ForwardingInv
  BY DEF ForwardingInv
<1>3. RulesInv
  BY DEF RulesInv, WithBridge
<1>4. CleanInv
  BY DEF CleanInv
<1>5. QED BY <1>1, <1>2, <1>3, <1>4 DEF IInv

(***************************************************************************)
(* Start, up to its first kernel or file operation.                        *)
(***************************************************************************)
LEMMA StartInv ==
  ASSUME IInv, NEW b \in Bridges, Start(b), UNCHANGED smooth PROVE IInv'
<1> USE DEF Start, EnableThenRules, kernel
<1>1. TypeOK'
  BY DEF IInv, TypeOK
<1>2. ForwardingInv'
  BY DEF IInv, TypeOK, ForwardingInv, RulesInv
<1>3. RulesInv'
  BY DEF IInv, TypeOK, ForwardingInv, RulesInv, WithBridge
<1>4. CleanInv'
  BY DEF IInv, CleanInv
<1>5. QED BY <1>1, <1>2, <1>3, <1>4 DEF IInv

(***************************************************************************)
(* Stop takes the bridge out and goes on to the rules.                     *)
(***************************************************************************)
LEMMA StopInv ==
  ASSUME IInv, NEW b \in Bridges, Stop(b), UNCHANGED smooth PROVE IInv'
  BY DEF Stop, kernel, IInv, TypeOK, ForwardingInv, RulesInv, CleanInv,
         WithBridge

(***************************************************************************)
(* The file writes of Start, Stop and the cleanup, successful or not.      *)
(***************************************************************************)
LEMMA SavesInv ==
  ASSUME IInv, NEW ok \in BOOLEAN, Observed(ok),
         \/ SaveOriginal(ok) \/ SaveChanged(ok) \/ SaveStarted(ok)
         \/ SaveAndReturn(ok)
  PROVE  IInv'
<1> USE DEF kernel
<1>0. /\ ok \in BOOLEAN
      /\ smooth' \in BOOLEAN
      /\ smooth' => smooth /\ ok
  BY DEF Observed, IInv, TypeOK
<1>1. CASE SaveOriginal(ok)
  <2> USE <1>1 DEF SaveOriginal, EnableThenRules
  <2>1. TypeOK'
    BY <1>0, NatAssumption DEF IInv, TypeOK, RulesInv, WithBridge
  <2>0. state # NoFile
    BY SavedIsFile DEF IInv, TypeOK
  <2>2. ForwardingInv'
    <3>1. CASE ok
      BY <3>1, <2>0 DEF IInv, TypeOK, ForwardingInv, RulesInv
    <3>2. CASE ~ok
      BY <3>2 DEF IInv, TypeOK, ForwardingInv, RulesInv
    <3>3. QED BY <3>1, <3>2, <1>0
  <2>3. RulesInv'
    <3>1. CASE ok
      BY <3>1, <2>0 DEF IInv, TypeOK, ForwardingInv, RulesInv, WithBridge
    <3>2. CASE ~ok
      BY <3>2 DEF IInv, TypeOK, ForwardingInv, RulesInv, WithBridge
    <3>3. QED BY <3>1, <3>2, <1>0
  <2>4. CleanInv'
    BY <1>0 DEF IInv, CleanInv, RulesInv
  <2>5. QED BY <2>1, <2>2, <2>3, <2>4 DEF IInv
<1>2. CASE SaveChanged(ok)
  <2> USE <1>0, <1>2 DEF SaveChanged
  <2>1. TypeOK'
    BY NatAssumption DEF IInv, TypeOK, RulesInv, WithBridge
  <2>0. state # NoFile
    BY SavedIsFile DEF IInv, TypeOK
  <2>2. ForwardingInv'
    BY <2>0 DEF IInv, TypeOK, ForwardingInv, RulesInv
  <2>3. RulesInv'
    BY <2>0 DEF IInv, TypeOK, ForwardingInv, RulesInv, WithBridge
  <2>4. CleanInv'
    BY DEF IInv, CleanInv, RulesInv
  <2>5. QED BY <2>1, <2>2, <2>3, <2>4 DEF IInv
<1>3. CASE SaveStarted(ok)
  <2> USE <1>0, <1>3 DEF SaveStarted
  <2>1. TypeOK'
    BY NatAssumption DEF IInv, TypeOK, RulesInv, WithBridge
  <2>2. ForwardingInv'
    BY DEF IInv, TypeOK, ForwardingInv, RulesInv
  <2>3. RulesInv'
    BY DEF IInv, TypeOK, ForwardingInv, RulesInv, WithBridge
  <2>4. CleanInv'
    BY DEF IInv, CleanInv, RulesInv
  <2>5. QED BY <2>1, <2>2, <2>3, <2>4 DEF IInv
<1>4. CASE SaveAndReturn(ok)
  <2> USE <1>0, <1>4 DEF SaveAndReturn
  <2>1. TypeOK'
    BY NatAssumption DEF IInv, TypeOK, RulesInv, WithBridge
  <2>2. ForwardingInv'
    BY DEF IInv, TypeOK, ForwardingInv, RulesInv
  <2>3. RulesInv'
    BY DEF IInv, TypeOK, ForwardingInv, RulesInv, WithBridge
  <2>4. CleanInv'
    BY DEF IInv, CleanInv, RulesInv
  <2>5. QED BY <2>1, <2>2, <2>3, <2>4 DEF IInv
<1>5. QED BY <1>1, <1>2, <1>3, <1>4

(***************************************************************************)
(* The writes to the kernel in Start and Stop, successful or not.          *)
(***************************************************************************)
LEMMA KernelInv ==
  ASSUME IInv, NEW ok \in BOOLEAN, Observed(ok),
         \/ EnableForwarding(ok) \/ InstallRules(ok) \/ UndoRules(ok)
         \/ StopRules(ok) \/ StopRestore(ok)
  PROVE  IInv'
<1>0. /\ ok \in BOOLEAN
      /\ smooth' \in BOOLEAN
      /\ smooth' => smooth /\ ok
  BY DEF Observed, IInv, TypeOK
<1> USE DEF IInv, TypeOK, ForwardingInv, RulesInv, CleanInv, WithBridge
<1>1. CASE EnableForwarding(ok)
  BY <1>0, <1>1 DEF EnableForwarding
<1>2. CASE InstallRules(ok)
  BY <1>0, <1>2 DEF InstallRules
<1>3. CASE UndoRules(ok)
  BY <1>0, <1>3 DEF UndoRules
<1>4. CASE StopRules(ok)
  <2> USE <1>4 DEF StopRules
  <2>1. CASE ok
    BY <1>0, <2>1
  <2>2. CASE ~ok
    <3>1. /\ active' = active \cup {arg}
          /\ Return
          /\ UNCHANGED <<rules, state, owned, recovering, file, forwarding,
                         host, restarts>>
      BY <2>2
    <3>2. TypeOK'
      BY <1>0, <3>1
    <3>3. ForwardingInv'
      BY <3>1
    <3>4. RulesInv'
      BY <3>1
    <3>5. QED BY <1>0, <2>2, <3>2, <3>3, <3>4
  <2>3. QED BY <1>0, <2>1, <2>2
<1>5. CASE StopRestore(ok)
  BY <1>0, <1>5 DEF StopRestore, RestoreForwarding
<1>6. QED BY <1>1, <1>2, <1>3, <1>4, <1>5

(***************************************************************************)
(* cleanupLocked and removeStateLocked, successful or not.                 *)
(***************************************************************************)
LEMMA CleanupInv ==
  ASSUME IInv, NEW ok \in BOOLEAN, Observed(ok),
         CleanRules(ok) \/ CleanRestore(ok) \/ RemoveState(ok)
  PROVE  IInv'
<1>0. /\ ok \in BOOLEAN
      /\ smooth' \in BOOLEAN
      /\ smooth' => smooth /\ ok
  BY DEF Observed, IInv, TypeOK
<1> USE DEF IInv, TypeOK, ForwardingInv, RulesInv, CleanInv, WithBridge
<1>1. CASE CleanRules(ok)
  BY ZenonT(60), <1>0, <1>1 DEF CleanRules
<1>2. CASE CleanRestore(ok)
  BY <1>0, <1>2 DEF CleanRestore, RestoreForwarding
<1>3. CASE RemoveState(ok)
  BY <1>0, <1>3, NatAssumption DEF RemoveState, kernel
<1>4. QED BY <1>1, <1>2, <1>3

(***************************************************************************)
(* A restart between any two steps, and the end of the recovery.           *)
(***************************************************************************)
LEMMA RecoveryInv ==
  ASSUME IInv, FinishRecovery \/ Restart \/ HostReboot, UNCHANGED smooth
  PROVE  IInv'
<1>1. CASE FinishRecovery
  BY ZenonT(60), <1>1
  DEF FinishRecovery, kernel, IInv, TypeOK, ForwardingInv, RulesInv, CleanInv,
      WithBridge
<1>2. CASE Restart \/ HostReboot
  <2>1. /\ NewManager
        /\ \/ forwarding' = forwarding /\ rules' = rules
           \/ forwarding' = host /\ rules' = {}
    BY <1>2 DEF Restart, HostReboot, kernel
  <2> USE DEF NewManager, Zero
  <2>2. restarts' \in 0..MaxRestarts
    BY <2>1, NatAssumption DEF IInv, TypeOK
  <2>3. TypeOK'
    <3>1. owned' \in BOOLEAN /\ recovering' \in BOOLEAN
      BY <2>1
    <3>2. QED BY <2>1, <2>2, <3>1 DEF IInv, TypeOK, kernel
  <2>4. CASE file = NoFile
    <3>1. ~owned' /\ ~recovering' /\ state' = Zero
      BY <2>1, <2>4
    <3>2. QED
      BY <2>1, <2>3, <2>4, <3>1 DEF kernel, IInv, TypeOK, ForwardingInv,
         RulesInv, CleanInv, WithBridge
  <2>5. CASE file # NoFile
    <3>1. owned' /\ recovering' /\ state' = file
      BY <2>1, <2>5
    <3>2. QED
      BY <2>1, <2>3, <2>5, <3>1 DEF kernel, IInv, TypeOK, ForwardingInv,
         RulesInv, CleanInv, WithBridge
  <2>6. QED BY <2>4, <2>5
<1>3. QED BY <1>1, <1>2

(***************************************************************************)
(* Every step keeps the invariant.                                         *)
(***************************************************************************)
LEMMA StepInv == IInv /\ [Next]_vars => IInv'
<1> SUFFICES ASSUME IInv, [Next]_vars PROVE IInv'
  OBVIOUS
<1>1. CASE Operation /\ UNCHANGED smooth
  BY <1>1, StartInv, StopInv DEF Operation
<1>2. CASE (FinishRecovery \/ Restart \/ HostReboot) /\ UNCHANGED smooth
  BY <1>2, RecoveryInv
<1>3. CASE \E ok \in BOOLEAN : Step(ok) /\ Observed(ok)
  BY <1>3, SavesInv, KernelInv, CleanupInv DEF Step
<1>4. CASE UNCHANGED vars
  BY <1>4 DEF vars, memory, kernel, IInv, TypeOK, ForwardingInv, RulesInv,
              CleanInv
<1>5. QED BY <1>1, <1>2, <1>3, <1>4 DEF Next, Observed

(***************************************************************************)
(* The invariant holds in every state of every behaviour.                  *)
(***************************************************************************)
THEOREM InvariantHolds == Spec => []IInv
  BY InitInv, StepInv, PTL DEF Spec

(***************************************************************************)
(* After a crash anywhere, and whatever failed, the recovery file lets the *)
(* next start restore the host's forwarding setting.                       *)
(***************************************************************************)
THEOREM ForwardingIsRecoverable == Spec => []ForwardingRecoverable
<1>1. IInv => ForwardingRecoverable
  BY DEF IInv, ForwardingInv, ForwardingRecoverable
<1>2. QED BY <1>1, InvariantHolds, PTL

(***************************************************************************)
(* App Runner's nftables rules never outlive its recovery file.            *)
(***************************************************************************)
THEOREM RulesAreRecoverable == Spec => []RulesRecoverable
<1>1. IInv => RulesRecoverable
  BY DEF IInv, RulesInv, RulesRecoverable
<1>2. QED BY <1>1, InvariantHolds, PTL

(***************************************************************************)
(* A bridge the manager reports as active has its rules and forwarding.    *)
(***************************************************************************)
THEOREM ActiveBridgesServed == Spec => []ActiveBridgesAreServed
<1>1. IInv => ActiveBridgesAreServed
  BY DEF IInv, RulesInv, ActiveBridgesAreServed
<1>2. QED BY <1>1, InvariantHolds, PTL

(***************************************************************************)
(* As long as nothing has failed, nothing is left on the host after the    *)
(* last bridge, however often App Runner crashed in between.               *)
(***************************************************************************)
THEOREM HostLeftClean == Spec => []NothingLeftBehind
<1>1. IInv => NothingLeftBehind
  BY DEF IInv, ForwardingInv, RulesInv, CleanInv, NothingLeftBehind
<1>2. QED BY <1>1, InvariantHolds, PTL

-----------------------------------------------------------------------------
(***************************************************************************)
(* The bridge services around it: the record of a call in progress.        *)
(***************************************************************************)
Fields == {"pc", "kind", "vm", "todo", "done", "stopping", "natStarted",
           "dnsStarted"}

(***************************************************************************)
(* The call in progress works through bridges of the machine it is for,    *)
(* and is about one of them whenever it is not between two.                *)
(***************************************************************************)
ProgInv ==
    prog # Idle =>
        /\ DOMAIN prog = Fields
        /\ prog.vm \in VMs
        /\ prog.todo \in Seq(Bridges)
        /\ prog.done \in Seq(Bridges)
        /\ prog.pc # "next" => prog.todo # <<>>

(***************************************************************************)
(* Starting a call, moving to the next bridge and giving up keep the       *)
(* invariant.                                                              *)
(***************************************************************************)
LEMMA CallKeepsInv ==
    ASSUME NEW kind, NEW v \in VMs, NEW bridges \in Seq(Bridges),
           Call(kind, v, bridges)
    PROVE  ProgInv'
  BY DEF Call, ProgInv, Fields

LEMMA AdvanceKeepsInv ==
    ASSUME ProgInv, prog # Idle, prog.todo # <<>>, Advance
    PROVE  ProgInv'
<1>1. /\ DOMAIN prog' = Fields
      /\ prog'.vm = prog.vm
      /\ prog'.todo = Tail(prog.todo)
      /\ prog'.done = Append(prog.done, Bridge)
      /\ prog'.pc = "next"
  BY DEF Advance, ProgInv, Fields
<1>2. Tail(prog.todo) \in Seq(Bridges) /\ Bridge \in Bridges
  BY HeadTailProperties DEF ProgInv, Bridge
<1>3. Append(prog.done, Bridge) \in Seq(Bridges)
  BY <1>2 DEF ProgInv
<1> QED
  BY <1>1, <1>2, <1>3 DEF ProgInv

LEMMA GiveUpKeepsInv ==
    ASSUME ProgInv, prog # Idle, GiveUp
    PROVE  ProgInv'
<1>1. prog.vm \in VMs /\ prog.done \in Seq(Bridges)
  BY DEF ProgInv
<1> QED
  BY <1>1, CallKeepsInv DEF GiveUp

(***************************************************************************)
(* A call in progress is not the idle one.                                 *)
(***************************************************************************)
LEMMA BusyIsNotIdle == ASSUME prog.pc # "idle" PROVE prog # Idle
  BY DEF Idle

(***************************************************************************)
(* Every step keeps the invariant.                                         *)
(***************************************************************************)
LEMMA ProgStep ==
    ASSUME ProgInv, [BridgeNext]_allVars
    PROVE  ProgInv'
<1> USE BridgeAssumption
<1>1. CASE UNCHANGED prog
  BY <1>1 DEF ProgInv, Idle
<1>2. CASE prog' = Idle
  BY <1>2 DEF ProgInv, Idle
<1>3. ASSUME NEW v \in VMs, StartVM(v) \/ StopVM(v) \/ Reconcile(v)
      PROVE  ProgInv'
  <2>1. Uses[v] \in Seq(Bridges)
    OBVIOUS
  <2> QED
    BY <1>3, <2>1, CallKeepsInv DEF StartVM, StopVM, Reconcile
<1>4. CASE PrepareUnmanaged
  BY <1>4, BusyIsNotIdle, AdvanceKeepsInv DEF PrepareUnmanaged, Preparing
<1>5. CASE PrepareRunning
  BY <1>5, BusyIsNotIdle, AdvanceKeepsInv, GiveUpKeepsInv
     DEF PrepareRunning, Preparing, Join
<1>6. CASE PrepareStopped
  <2>1. prog # Idle /\ prog.todo # <<>>
    BY <1>6, BusyIsNotIdle DEF PrepareStopped, Preparing
  <2>2. CASE GiveUp
    BY <2>1, <2>2, GiveUpKeepsInv
  <2>3. CASE prog' = [prog EXCEPT !.pc = "nat",
                                  !.natStarted = NatStarted(Bridge)]
    BY <2>1, <2>3 DEF ProgInv, Fields
  <2>4. CASE prog' = [prog EXCEPT !.pc = "dns",
                                  !.natStarted = NatStarted(Bridge)]
    BY <2>1, <2>4 DEF ProgInv, Fields
  <2>5. CASE prog' = [prog EXCEPT !.pc = "dns"]
    BY <2>1, <2>5 DEF ProgInv, Fields
  <2> QED
    BY <1>6, <2>2, <2>3, <2>4, <2>5 DEF PrepareStopped
<1>7. CASE NatReturned
  <2>1. prog # Idle /\ prog.todo # <<>>
    BY <1>7, BusyIsNotIdle DEF NatReturned, ProgInv
  <2>2. CASE GiveUp
    BY <2>1, <2>2, GiveUpKeepsInv
  <2>3. CASE prog' = [prog EXCEPT !.pc = "dns"]
    BY <2>1, <2>3 DEF ProgInv, Fields
  <2> QED
    BY <1>7, <2>2, <2>3 DEF NatReturned
<1>8. CASE StartDNS \/ Listen
  <2>1. prog # Idle /\ prog.todo # <<>>
    BY <1>8, BusyIsNotIdle DEF StartDNS, Listen, ProgInv
  <2>2. CASE UndoNat
    <3>1. CASE GiveUp
      BY <2>1, <3>1, GiveUpKeepsInv
    <3>2. CASE prog' = [prog EXCEPT !.pc = "undo"]
      BY <2>1, <3>2 DEF ProgInv, Fields
    <3> QED
      BY <2>2, <3>1, <3>2 DEF UndoNat
  <2>3. CASE Advance
    BY <2>1, <2>3, AdvanceKeepsInv
  <2>4. ASSUME NEW started,
               prog' = [prog EXCEPT !.pc = "listen", !.dnsStarted = started]
        PROVE  ProgInv'
    BY <2>1, <2>4 DEF ProgInv, Fields
  <2>5. CASE StartDNS
    <3>1. \/ UndoNat
          \/ prog' = [prog EXCEPT !.pc = "listen",
                        !.dnsStarted = Wanted.dns /\ dns[Bridge] # "running"]
      BY <2>5 DEF StartDNS
    <3> QED
      BY <2>2, <2>4, <3>1
  <2>6. CASE Listen
    BY <2>2, <2>3, <2>6 DEF Listen, Join
  <2> QED
    BY <1>8, <2>5, <2>6
<1>9. CASE NatUndone
  BY <1>9, BusyIsNotIdle, GiveUpKeepsInv DEF NatUndone
<1>10. CASE Prepared
  <2>1. CASE prog' = Idle
    BY <1>2, <2>1
  <2>2. CASE prog' # Idle
    <3>1. Call("stop", prog.vm, Uses[prog.vm])
      BY <1>10, <2>2 DEF Prepared
    <3>2. prog.vm \in VMs
      BY <1>10, BusyIsNotIdle DEF Prepared, Preparing, ProgInv
    <3>3. Uses[prog.vm] \in Seq(Bridges)
      BY <3>2
    <3> QED
      BY <3>1, <3>2, <3>3, CallKeepsInv
  <2> QED
    BY <2>1, <2>2
<1>11. CASE ReleaseBridge
  <2>1. prog # Idle /\ prog.todo # <<>>
    BY <1>11, BusyIsNotIdle DEF ReleaseBridge, Releasing
  <2>2. CASE Advance
    BY <2>1, <2>2, AdvanceKeepsInv
  <2>3. CASE prog' = [prog EXCEPT !.pc = "closing",
                                  !.stopping = runtime[Bridge]]
    BY <2>1, <2>3 DEF ProgInv, Fields
  <2> QED
    BY <1>11, <2>2, <2>3 DEF ReleaseBridge
<1>12. CASE StopDNS
  <2>1. prog # Idle /\ prog.todo # <<>>
    BY <1>12, BusyIsNotIdle DEF StopDNS, ProgInv
  <2>2. prog' = [prog EXCEPT !.pc = "stopNat"]
    BY <1>12 DEF StopDNS
  <2> QED
    BY <2>1, <2>2 DEF ProgInv, Fields
<1>13. CASE StopNat
  <2>1. prog # Idle /\ prog.todo # <<>>
    BY <1>13, BusyIsNotIdle DEF StopNat, ProgInv
  <2>2. CASE Advance
    BY <2>1, <2>2, AdvanceKeepsInv
  <2>3. CASE prog' = [prog EXCEPT !.pc = "stopping"]
    BY <2>1, <2>3 DEF ProgInv, Fields
  <2> QED
    BY <1>13, <2>2, <2>3 DEF StopNat
<1>14. CASE NatStopped
  <2>1. prog # Idle /\ prog.todo # <<>>
    BY <1>14, BusyIsNotIdle DEF NatStopped, ProgInv
  <2> QED
    BY <1>14, <2>1, AdvanceKeepsInv DEF NatStopped
<1>15. CASE Released \/ BridgeRestart \/ BridgeHostReboot
  BY <1>2, <1>15 DEF Released, BridgeRestart, BridgeHostReboot, Reboot
<1>16. CASE \/ \E b \in Bridges : DHCPDies(b) \/ DNSDies(b)
            \/ \E b \in Bridges, new \in Choices : Configure(b, new)
            \/ NatStep \/ ReconcileEnds
  BY <1>1, <1>16 DEF DHCPDies, DNSDies, Configure, NatStep, ReconcileEnds
<1>17. CASE UNCHANGED allVars
  BY <1>1, <1>17 DEF allVars, bridgeVars
<1> QED
  BY <1>3, <1>4, <1>5, <1>6, <1>7, <1>8, <1>9, <1>10, <1>11, <1>12, <1>13,
     <1>14, <1>15, <1>16, <1>17 DEF BridgeNext

(***************************************************************************)
(* Every step of the composition is a step of the NAT manager or leaves it *)
(* alone.                                                                  *)
(***************************************************************************)
LEMMA BridgeStepIsNatStep ==
    ASSUME TypeOK, ProgInv, [BridgeNext]_allVars
    PROVE  [Next]_vars
<1>1. CASE UNCHANGED vars
  BY <1>1
<1>2. ASSUME NatCalled(Stop(Bridge))
      PROVE  Next
  <2>1. Bridge \in Bridges
    BY <1>2 DEF NatCalled, Stop, TypeOK
  <2> QED
    BY <1>2, <2>1 DEF NatCalled, Next, Operation
<1>3. CASE \/ \E v \in VMs : StartVM(v) \/ StopVM(v) \/ Reconcile(v)
           \/ PrepareUnmanaged \/ PrepareRunning \/ NatReturned
           \/ NatUndone \/ Prepared \/ ReleaseBridge \/ StopDNS
           \/ NatStopped \/ Released
           \/ \E b \in Bridges : DHCPDies(b) \/ DNSDies(b)
           \/ \E b \in Bridges, new \in Choices : Configure(b, new)
  BY <1>1, <1>3 DEF StartVM, StopVM, Reconcile, PrepareUnmanaged,
     PrepareRunning, NatReturned, NatUndone, Prepared, ReleaseBridge,
     StopDNS, NatStopped, Released, DHCPDies, DNSDies, Configure
<1>4. CASE PrepareStopped
  <2>1. ASSUME NatCalled(Start(Bridge))
        PROVE  Next
    <3>1. prog # Idle /\ prog.todo # <<>>
      BY <1>4, BusyIsNotIdle DEF PrepareStopped, Preparing
    <3>2. Bridge \in Bridges
      BY <3>1, HeadTailProperties DEF ProgInv, Bridge
    <3> QED
      BY <2>1, <3>2 DEF NatCalled, Next, Operation
  <2>2. NatCalled(Start(Bridge)) \/ UNCHANGED vars
    BY <1>4 DEF PrepareStopped
  <2> QED
    BY <1>1, <2>1, <2>2
<1>5. CASE StartDNS \/ Listen
  <2>1. UndoNat \/ UNCHANGED vars
    BY <1>5 DEF StartDNS, Listen
  <2> QED
    BY <1>1, <1>2, <2>1 DEF UndoNat
<1>6. CASE StopNat
  BY <1>1, <1>2, <1>6 DEF StopNat
<1>7. CASE NatStep
  BY <1>7 DEF NatStep, Next
<1>8. CASE BridgeRestart \/ BridgeHostReboot
  BY <1>8 DEF BridgeRestart, BridgeHostReboot, Reboot, Next
<1>9. CASE ReconcileEnds
  BY <1>1, <1>9 DEF ReconcileEnds, NatCalled, Next
<1>10. CASE UNCHANGED allVars
  BY <1>10 DEF allVars
<1> QED
  BY <1>3, <1>4, <1>5, <1>6, <1>7, <1>8, <1>9, <1>10 DEF BridgeNext

(***************************************************************************)
(* Together with the NAT manager's own invariant, the two lemmas give an   *)
(* invariant of the composition.                                           *)
(***************************************************************************)
LEMMA CompositionInvariant == BridgeSpec => [](IInv /\ ProgInv)
<1>1. BridgeInit => IInv /\ ProgInv
  BY InitInv DEF BridgeInit, ProgInv
<1>2. IInv /\ ProgInv /\ [BridgeNext]_allVars => (IInv /\ ProgInv)'
  <2> SUFFICES ASSUME IInv, ProgInv, [BridgeNext]_allVars
               PROVE  IInv' /\ ProgInv'
    OBVIOUS
  <2>1. [Next]_vars
    BY BridgeStepIsNatStep DEF IInv
  <2>2. IInv'
    BY <2>1, StepInv
  <2> QED
    BY <2>2, ProgStep
<1> QED
  BY <1>1, <1>2, PTL DEF BridgeSpec

(***************************************************************************)
(* The composition implements the NAT manager's specification.             *)
(***************************************************************************)
THEOREM BridgesDriveNat == BridgeSpec => Spec
<1>1. BridgeInit => Init
  BY DEF BridgeInit
<1>2. IInv /\ ProgInv /\ [BridgeNext]_allVars => [Next]_vars
  BY BridgeStepIsNatStep DEF IInv
<1> QED
  BY <1>1, <1>2, CompositionInvariant, PTL DEF BridgeSpec, Spec

(***************************************************************************)
(* Whatever machines start, stop and fail to start on the managed bridges, *)
(* and wherever App Runner dies meanwhile, the host's forwarding setting   *)
(* and its nftables rules can be put back by the next start.               *)
(***************************************************************************)
THEOREM BridgesForwardingIsRecoverable ==
    BridgeSpec => [](ForwardingRecoverable /\ RulesRecoverable)
  BY BridgesDriveNat, ForwardingIsRecoverable, RulesAreRecoverable, PTL

(***************************************************************************)
(* A bridge that NAT counts as active is translated, and nothing is left   *)
(* on the host after the last one unless an operation failed.              *)
(***************************************************************************)
THEOREM BridgesLeaveHostClean ==
    BridgeSpec => [](ActiveBridgesAreServed /\ NothingLeftBehind)
  BY BridgesDriveNat, ActiveBridgesServed, HostLeftClean, PTL
-----------------------------------------------------------------------------
(***************************************************************************)
(* What the promises to guests rest on.  The services of a bridge are      *)
(* accounted for at every moment: by its entry, by NAT that could not be   *)
(* stopped, or by the call that has just started or is about to stop them. *)
(***************************************************************************)
InSeq(x, s) == \E i \in DOMAIN s : s[i] = x

Stages == {"next", "nat", "dns", "listen", "undo", "closing", "stopNat",
           "stopping"}
Taking == {"start", "boot"}
Giving == {"unwind", "stop"}

Midway(b, stages) == prog.pc \in stages /\ Bridge = b

ServiceTypes ==
    /\ settings \in [Bridges -> Choices \cup {Off}]
    /\ runtime \in [Bridges -> Entry \cup {None}]
    /\ DOMAIN dns = Bridges /\ DOMAIN natRange = Bridges
    /\ DOMAIN machine = VMs
    /\ prog # Idle => prog.pc \in Stages /\ prog.kind \in Taking \cup Giving

(***************************************************************************)
(* The users of a bridge: active machines, a machine being prepared, and   *)
(* one that is about to be released.                                       *)
(***************************************************************************)
Owed == IF prog.kind \in Taking THEN prog.done ELSE prog.todo

UsersInv ==
    /\ \A b \in Bridges : runtime[b] # None =>
          /\ runtime[b].users # {}
          /\ \A u \in runtime[b].users :
                /\ InSeq(b, Uses[u])
                /\ machine[u] = "active"
                   \/ (prog # Idle /\ prog.vm = u /\ InSeq(b, Owed))
    /\ prog # Idle /\ prog.kind \in Taking =>
          \A b \in Bridges : InSeq(b, prog.todo) => InSeq(b, Uses[prog.vm])

(***************************************************************************)
(* The entry of a bridge has users, so its settings stay what they were.   *)
(***************************************************************************)
EntryInv ==
    \A b \in Bridges : runtime[b] # None =>
        /\ settings[b] # Off
        /\ runtime[b].nat = settings[b].nat /\ runtime[b].dns = settings[b].dns
        /\ runtime[b].nat => b \in active /\ natRange[b] = settings[b].range
        /\ runtime[b].dns /\ runtime[b].running => dns[b] # "none"

AccountInv ==
    \A b \in Bridges :
        /\ dns[b] # "none" =>
              \/ runtime[b] # None /\ runtime[b].dns
              \/ Midway(b, {"listen"}) /\ prog.dnsStarted
              \/ Midway(b, {"closing"}) /\ prog.stopping.dns
        /\ b \in active =>
              \/ b \in leftover
              \/ runtime[b] # None /\ runtime[b].nat
              \/ Midway(b, {"nat", "undo", "stopping"})
              \/ Midway(b, {"dns", "listen"}) /\ prog.natStarted
              \/ Midway(b, {"closing", "stopNat"}) /\ prog.stopping.nat

(***************************************************************************)
(* What a call in the middle of a bridge has found or done there.          *)
(***************************************************************************)
StageInv ==
    /\ prog.pc = "next" => ~prog.natStarted
    /\ prog.pc \in {"nat", "dns", "listen", "undo"} =>
          prog.kind \in Taking /\ ~IsServed(Bridge)
    /\ prog.pc \in {"nat", "dns", "listen"} => Wanted # Off
    /\ prog.pc = "nat" => prog.natStarted
    /\ prog.pc \in {"nat", "dns", "listen"} /\ prog.natStarted =>
          Wanted.nat /\ runtime[Bridge] = None
    /\ prog.pc \in {"nat", "dns", "listen"} /\ Wanted.nat =>
          natRange[Bridge] = Wanted.range
    /\ prog.pc \in {"dns", "listen"} /\ Wanted.nat => Bridge \in active
    /\ prog.pc = "listen" => /\ Wanted.dns => dns[Bridge] # "none"
                             /\ prog.dnsStarted => Wanted.dns
    /\ prog.pc = "undo" => runtime[Bridge] = None
    /\ prog.pc \in {"closing", "stopNat", "stopping"} =>
          prog.kind \in Giving /\ runtime[Bridge] = None

\* The NAT manager works on the bridge that the call is about.
ArgInv == at \in WithBridge =>
              prog.pc \in {"nat", "undo", "stopping"} /\ arg = Bridge

PromiseInv ==
    \A v \in VMs, b \in Bridges : <<v, b>> \in promised =>
        /\ runtime[b] # None /\ v \in runtime[b].users
        /\ prog # Idle /\ prog.kind \in Giving => prog.vm # v

ServiceInv == /\ ServiceTypes /\ UsersInv /\ EntryInv /\ AccountInv
              /\ StageInv /\ ArgInv /\ PromiseInv
-----------------------------------------------------------------------------
(***************************************************************************)
(* How the call in progress moves on.                                      *)
(***************************************************************************)
LEMMA InSeqHeadTail ==
    ASSUME NEW s \in Seq(Bridges), s # <<>>, NEW x
    PROVE  InSeq(x, s) <=> x = Head(s) \/ InSeq(x, Tail(s))
<1>1. Len(s) \in Nat \ {0} /\ DOMAIN s = 1..Len(s) /\ Head(s) = s[1]
  BY EmptySeq, LenProperties
<1>2. /\ DOMAIN Tail(s) = 1..(Len(s) - 1)
      /\ \A i \in 1..(Len(s) - 1) : Tail(s)[i] = s[i + 1]
  BY <1>1, HeadTailProperties, LenProperties
<1>3. ASSUME NEW i \in DOMAIN s, s[i] = x
      PROVE  x = Head(s) \/ InSeq(x, Tail(s))
  <2>1. CASE i = 1
    BY <1>1, <1>3, <2>1
  <2>2. CASE i # 1
    <3>1. PICK j \in 1..(Len(s) - 1) : j + 1 = i
      BY <1>1, <2>2
    <3>2. Tail(s)[j] = s[i]
      BY <1>2, <3>1
    <3> QED
      BY <1>2, <1>3, <3>1, <3>2 DEF InSeq
  <2> QED
    BY <2>1, <2>2
<1>4. ASSUME NEW i \in DOMAIN Tail(s), Tail(s)[i] = x
      PROVE  InSeq(x, s)
  <2>1. i + 1 \in DOMAIN s /\ s[i + 1] = x
    BY <1>1, <1>2, <1>4
  <2> QED
    BY <2>1 DEF InSeq
<1>5. x = Head(s) => InSeq(x, s)
  BY <1>1 DEF InSeq
<1> QED
  BY <1>3, <1>4, <1>5 DEF InSeq

LEMMA InSeqAppend ==
    ASSUME NEW s \in Seq(Bridges), NEW b \in Bridges, NEW x
    PROVE  InSeq(x, Append(s, b)) <=> InSeq(x, s) \/ x = b
<1>1. /\ Len(s) \in Nat /\ DOMAIN s = 1..Len(s)
      /\ DOMAIN Append(s, b) = 1..(Len(s) + 1)
      /\ \A i \in 1..Len(s) : Append(s, b)[i] = s[i]
      /\ Append(s, b)[Len(s) + 1] = b
  BY AppendProperties, LenProperties
<1>2. InSeq(x, s) => InSeq(x, Append(s, b))
  BY <1>1 DEF InSeq
<1>3. x = b => InSeq(x, Append(s, b))
  BY <1>1 DEF InSeq
<1>4. InSeq(x, Append(s, b)) => InSeq(x, s) \/ x = b
  BY <1>1 DEF InSeq
<1> QED
  BY <1>2, <1>3, <1>4

LEMMA CallFacts ==
    ASSUME NEW kind, NEW v, NEW bridges, Call(kind, v, bridges)
    PROVE  /\ prog'.pc = "next" /\ prog'.kind = kind /\ prog'.vm = v
           /\ prog'.todo = bridges /\ prog'.done = <<>> /\ prog' # Idle
           /\ ~prog'.natStarted
<1>1. prog'.pc = "next" /\ Idle.pc = "idle"
  BY DEF Call, Idle
<1> QED
  BY <1>1 DEF Call

LEMMA AdvanceFacts ==
    ASSUME ProgInv, prog # Idle, prog.todo # <<>>, Advance
    PROVE  /\ prog'.pc = "next" /\ prog'.kind = prog.kind /\ prog'.vm = prog.vm
           /\ prog' # Idle /\ ~prog'.natStarted
           /\ \A x : InSeq(x, prog.todo) <=> x = Bridge \/ InSeq(x, prog'.todo)
           /\ \A x : InSeq(x, prog'.done) <=> InSeq(x, prog.done) \/ x = Bridge
<1>1. /\ prog'.pc = "next" /\ prog'.kind = prog.kind /\ prog'.vm = prog.vm
      /\ prog'.todo = Tail(prog.todo) /\ prog'.done = Append(prog.done, Bridge)
      /\ Idle.pc = "idle" /\ ~prog'.natStarted
  BY DEF Advance, ProgInv, Fields, Idle
<1>2. prog.todo \in Seq(Bridges) /\ prog.done \in Seq(Bridges)
  BY DEF ProgInv
<1>3. Bridge = Head(prog.todo) /\ Bridge \in Bridges
  BY <1>2, HeadTailProperties DEF Bridge
<1> QED
  BY <1>1, <1>2, <1>3, InSeqHeadTail, InSeqAppend

(***************************************************************************)
(* The call goes on with the same bridge.                                  *)
(***************************************************************************)
SameCall == /\ prog # Idle /\ prog' # Idle
            /\ prog'.kind = prog.kind /\ prog'.vm = prog.vm
            /\ prog'.todo = prog.todo /\ prog'.done = prog.done

LEMMA SameCallKeeps ==
    ASSUME UsersInv, PromiseInv, UNCHANGED <<runtime, machine, promised>>, SameCall
    PROVE  UsersInv' /\ PromiseInv' /\ Bridge' = Bridge
<1>1. Bridge' = Bridge /\ Owed' = Owed
  BY DEF SameCall, Bridge, Owed
<1>2. UsersInv'
  BY <1>1 DEF UsersInv, SameCall
<1>3. PromiseInv'
  BY DEF PromiseInv, SameCall
<1> QED
  BY <1>1, <1>2, <1>3

\* Between two bridges nothing is said about the stage.
LEMMA BetweenBridges ==
    ASSUME prog'.pc \in {"next", "idle"}, at' \notin WithBridge,
           prog'.pc = "next" => ~prog'.natStarted
    PROVE  StageInv' /\ ArgInv'
BY DEF StageInv, ArgInv

LEMMA EntryKept ==
    ASSUME EntryInv, UNCHANGED <<runtime, settings, natRange>>,
           active \subseteq active',
           \A b \in Bridges : dns[b] # "none" => dns'[b] # "none"
    PROVE  EntryInv'
BY DEF EntryInv

\* Nobody is in the middle of a bridge.
LEMMA AccountKept ==
    ASSUME AccountInv, UNCHANGED <<runtime, dns, active, leftover>>,
           prog.pc \in {"next", "idle"}
    PROVE  AccountInv'
BY DEF AccountInv, Midway

LEMMA CurrentBridge ==
    ASSUME ProgInv, prog.pc \in Stages, prog.pc = "next" => prog.todo # <<>>
    PROVE  /\ prog # Idle /\ prog.vm \in VMs /\ prog.todo # <<>> /\ Bridge \in Bridges
           /\ InSeq(Bridge, prog.todo)
<1>1. prog # Idle
  BY DEF Stages, Idle
<1>2. prog.vm \in VMs /\ prog.todo # <<>> /\ prog.todo \in Seq(Bridges)
  BY <1>1 DEF ProgInv
<1>3. Bridge \in Bridges /\ InSeq(Bridge, prog.todo)
  BY <1>2, HeadTailProperties, InSeqHeadTail DEF Bridge
<1> QED
  BY <1>1, <1>2, <1>3

(***************************************************************************)
(* Steps of the NAT manager touch the bridge it is called for only.        *)
(***************************************************************************)
LEMMA NatTouches ==
    ASSUME TypeOK, NEW ok \in BOOLEAN, Step(ok)
    PROVE  /\ \A b \in Bridges \ {arg} : b \in active' <=> b \in active
           /\ at \notin WithBridge => active' = active
           /\ at' \in WithBridge => at \in WithBridge /\ arg' = arg
BY DEF Step, SaveOriginal, SaveChanged, EnableForwarding, InstallRules,
       SaveStarted, UndoRules, StopRules, StopRestore, SaveAndReturn,
       CleanRules, CleanRestore, RemoveState, EnableThenRules, WithBridge,
       Goto, Return, call

LEMMA ServiceNatStep ==
    ASSUME TypeOK, ProgInv, ServiceInv, NatStep
    PROVE  ServiceInv'
<1>1. PICK ok \in BOOLEAN : Step(ok)
  BY DEF NatStep
<1>2. UNCHANGED <<settings, runtime, dns, natRange, machine, prog, promised, leftover>>
  BY DEF NatStep, services, history
<1>3. Bridge' = Bridge /\ Owed' = Owed /\ Wanted' = Wanted
  BY <1>2 DEF Bridge, Owed, Wanted
<1>4. ServiceTypes' /\ UsersInv' /\ PromiseInv'
  BY <1>2, <1>3 DEF ServiceInv, ServiceTypes, UsersInv, PromiseInv
<1>5. ArgInv'
  BY <1>1, <1>2, <1>3, NatTouches DEF ServiceInv, ArgInv
<1>6. CASE at \notin WithBridge
  <2>1. active' = active
    BY <1>1, <1>6, NatTouches
  <2> QED
    BY <1>2, <1>3, <1>4, <1>5, <2>1
    DEF ServiceInv, EntryInv, AccountInv, StageInv, Midway, IsServed
<1>7. CASE at \in WithBridge
  <2>1. prog.pc \in {"nat", "undo", "stopping"} /\ arg = Bridge
    BY <1>7 DEF ServiceInv, ArgInv
  <2>2. runtime[Bridge] = None
    BY <2>1 DEF ServiceInv, StageInv
  <2>3. \A b \in Bridges : b # Bridge => (b \in active' <=> b \in active)
    BY <1>1, <2>1, NatTouches
  <2>4. EntryInv'
    BY <1>2, <2>2, <2>3 DEF ServiceInv, EntryInv
  <2>5. AccountInv'
    BY <1>2, <1>3, <2>1, <2>3 DEF ServiceInv, AccountInv, Midway
  <2>6. StageInv'
    BY <1>2, <1>3, <2>1 DEF ServiceInv, StageInv, IsServed
  <2> QED
    BY <1>4, <1>5, <2>4, <2>5, <2>6 DEF ServiceInv
<1> QED
  BY <1>6, <1>7

(***************************************************************************)
(* The callers: a call begins or ends.                                     *)
(***************************************************************************)
LEMMA NatIdle ==
    ASSUME ArgInv, prog.pc \in {"next", "idle"}
    PROVE  at \notin WithBridge
BY DEF ArgInv

LEMMA ServiceCallBegins ==
    ASSUME ServiceInv, ProgInv, NEW v \in VMs,
           StartVM(v) \/ StopVM(v) \/ Reconcile(v)
    PROVE  ServiceInv'
<1> USE BridgeAssumption
<1>1. /\ prog = Idle /\ UNCHANGED <<settings, runtime, dns, natRange, active, at, leftover>>
      /\ \E kind \in {"start", "stop", "boot"} : Call(kind, v, Uses[v])
  BY DEF StartVM, StopVM, Reconcile, Ready, services, history, vars, memory
<1>2. /\ prog'.pc = "next" /\ prog'.kind \in {"start", "stop", "boot"}
      /\ prog'.vm = v /\ prog'.todo = Uses[v] /\ prog' # Idle
      /\ ~prog'.natStarted
  BY <1>1, CallFacts
<1>3. prog.pc = "idle"
  BY <1>1 DEF Idle
<1>4. StageInv' /\ ArgInv' /\ AccountInv'
  BY <1>1, <1>2, <1>3, NatIdle, BetweenBridges, AccountKept DEF ServiceInv
<1>5. EntryInv'
  BY <1>1, EntryKept DEF ServiceInv
<1>6. ServiceTypes'
  BY <1>1, <1>2 DEF ServiceInv, ServiceTypes, Stages, Taking, Giving, StartVM,
                    StopVM, Reconcile
<1>7. CASE StopVM(v)
  <2>1. /\ prog'.kind = "stop" /\ \A u \in VMs \ {v} : machine'[u] = machine[u]
        /\ promised' = {p \in promised : p[1] # v}
    BY <1>7, CallFacts DEF StopVM, Forget, ServiceInv, ServiceTypes
  <2>2. Owed' = Uses[v] /\ prog'.kind \notin Taking
    BY <1>2, <2>1 DEF Owed, Taking
  <2>3. \A b \in Bridges : runtime[b] # None => runtime[b].users \subseteq VMs
    BY DEF ServiceInv, ServiceTypes, Entry
  <2>4. UsersInv'
    BY <1>1, <1>2, <2>1, <2>2, <2>3 DEF ServiceInv, UsersInv
  <2>5. PromiseInv'
    BY <1>1, <1>2, <2>1 DEF ServiceInv, PromiseInv
  <2> QED
    BY <1>4, <1>5, <1>6, <2>4, <2>5 DEF ServiceInv
<1>8. CASE StartVM(v) \/ Reconcile(v)
  <2>1. prog'.kind \in {"start", "boot"} /\ UNCHANGED <<machine, promised>>
    BY <1>8, CallFacts DEF StartVM, Reconcile, history
  <2>2. UsersInv'
    BY <1>1, <1>2, <2>1 DEF ServiceInv, UsersInv
  <2>3. PromiseInv'
    BY <1>1, <2>1 DEF ServiceInv, PromiseInv, Giving
  <2> QED
    BY <1>4, <1>5, <1>6, <2>2, <2>3 DEF ServiceInv
<1> QED
  BY <1>7, <1>8

LEMMA ServiceCallEnds ==
    ASSUME ServiceInv, ProgInv, Prepared \/ Released
    PROVE  ServiceInv'
<1> USE BridgeAssumption
<1>1. /\ prog.pc = "next" /\ prog.todo = <<>>
      /\ UNCHANGED <<settings, runtime, dns, natRange, active, at, leftover>>
  BY DEF Prepared, Released, Preparing, Releasing, services, history, vars, memory
<1>2. prog # Idle /\ prog.vm \in VMs /\ Idle.pc = "idle"
  BY <1>1 DEF Idle, ProgInv
<1>3. \A x : ~InSeq(x, prog.todo)
  BY <1>1 DEF InSeq
<1>4. EntryInv' /\ AccountInv'
  BY <1>1, EntryKept, AccountKept DEF ServiceInv
<1>5. CASE Released
  <2>1. prog' = Idle /\ UNCHANGED <<machine, promised>> /\ prog.kind \in Giving
    BY <1>5 DEF Released, Releasing, history, Giving
  <2>2. Owed = prog.todo
    BY <2>1 DEF Owed, Giving, Taking
  <2>3. UsersInv' /\ PromiseInv'
    BY <1>1, <1>3, <2>1, <2>2 DEF ServiceInv, UsersInv, PromiseInv
  <2>4. StageInv' /\ ArgInv'
    BY <1>1, <1>2, <2>1, NatIdle, BetweenBridges DEF ServiceInv
  <2> QED
    BY <1>1, <1>4, <2>1, <2>3, <2>4 DEF ServiceInv, ServiceTypes
<1>6. CASE /\ Prepared /\ prog' = Idle /\ UNCHANGED promised
           /\ machine' = [machine EXCEPT ![prog.vm] = "active"]
  <2>1. /\ machine'[prog.vm] = "active"
        /\ \A u \in VMs \ {prog.vm} : machine'[u] = machine[u]
        /\ DOMAIN machine' = VMs
    BY <1>2, <1>6 DEF ServiceInv, ServiceTypes
  <2>2. \A b \in Bridges : runtime[b] # None => runtime[b].users \subseteq VMs
    BY DEF ServiceInv, ServiceTypes, Entry
  <2>3. UsersInv' /\ PromiseInv'
    BY <1>1, <1>6, <2>1, <2>2 DEF ServiceInv, UsersInv, PromiseInv
  <2>4. StageInv' /\ ArgInv'
    BY <1>1, <1>2, <1>6, NatIdle, BetweenBridges DEF ServiceInv
  <2> QED
    BY <1>1, <1>4, <1>6, <2>1, <2>3, <2>4 DEF ServiceInv, ServiceTypes
<1>7. CASE /\ Call("stop", prog.vm, Uses[prog.vm]) /\ Forget(prog.vm)
           /\ UNCHANGED machine
  <2>1. /\ prog'.pc = "next" /\ prog'.kind = "stop" /\ prog'.vm = prog.vm
        /\ prog'.todo = Uses[prog.vm] /\ prog' # Idle /\ ~prog'.natStarted
    BY <1>7, CallFacts
  <2>2. Owed' = Uses[prog.vm] /\ prog'.kind \notin Taking /\ prog'.kind \in Giving
    BY <2>1 DEF Owed, Taking, Giving
  <2>3. UsersInv'
    BY <1>1, <1>7, <2>1, <2>2 DEF ServiceInv, UsersInv
  <2>4. PromiseInv'
    BY <1>1, <1>7, <2>1 DEF ServiceInv, PromiseInv, Forget
  <2>5. StageInv' /\ ArgInv'
    BY <1>1, <2>1, NatIdle, BetweenBridges DEF ServiceInv
  <2> QED
    BY <1>1, <1>4, <1>7, <2>1, <2>2, <2>3, <2>4, <2>5
    DEF ServiceInv, ServiceTypes, Stages
<1> QED
  BY <1>5, <1>6, <1>7 DEF Prepared

(***************************************************************************)
(* A step between bridges that only moves on.                              *)
(***************************************************************************)
LEMMA ServiceUnmanaged ==
    ASSUME ServiceInv, ProgInv, PrepareUnmanaged
    PROVE  ServiceInv'
<1>1. /\ prog.pc = "next" /\ prog.kind \in Taking /\ prog.todo # <<>> /\ Advance
      /\ UNCHANGED <<settings, runtime, dns, natRange, active, at, leftover,
                     machine, promised>>
  BY DEF PrepareUnmanaged, Preparing, Taking, services, history, vars, memory
<1>2. prog # Idle
  BY <1>1 DEF Idle
<1>3. /\ prog'.pc = "next" /\ prog'.kind = prog.kind /\ prog'.vm = prog.vm
      /\ prog' # Idle /\ ~prog'.natStarted
      /\ \A x : InSeq(x, prog'.todo) => InSeq(x, prog.todo)
      /\ \A x : InSeq(x, prog.done) => InSeq(x, prog'.done)
  BY <1>1, <1>2, AdvanceFacts
<1>4. Owed = prog.done /\ Owed' = prog'.done
  BY <1>1, <1>3 DEF Owed
<1>5. UsersInv'
  BY <1>1, <1>2, <1>3, <1>4 DEF ServiceInv, UsersInv
<1>6. PromiseInv'
  BY <1>1, <1>2, <1>3 DEF ServiceInv, PromiseInv
<1>7. EntryInv' /\ AccountInv' /\ StageInv' /\ ArgInv'
  BY <1>1, <1>3, EntryKept, AccountKept, NatIdle, BetweenBridges DEF ServiceInv
<1>8. ServiceTypes'
  BY <1>1, <1>2, <1>3 DEF ServiceInv, ServiceTypes, Stages
<1> QED
  BY <1>5, <1>6, <1>7, <1>8 DEF ServiceInv

(***************************************************************************)
(* Prepare gives up: the machine owes what it has prepared.                *)
(***************************************************************************)
LEMMA ServiceGivesUp ==
    ASSUME ServiceInv, ProgInv, prog # Idle, prog.kind \in Taking, GiveUp,
           UNCHANGED <<settings, runtime, natRange, machine>>,
           DOMAIN dns' = Bridges, at' \notin WithBridge, EntryInv', AccountInv'
    PROVE  ServiceInv'
<1>1. /\ prog'.pc = "next" /\ prog'.kind = "unwind" /\ prog'.vm = prog.vm
      /\ prog'.todo = prog.done /\ prog' # Idle /\ ~prog'.natStarted
      /\ promised' = {p \in promised : p[1] # prog.vm}
  BY CallFacts DEF GiveUp
<1>2. Owed = prog.done /\ Owed' = prog.done /\ prog'.kind \notin Taking
      /\ prog'.kind \in Giving
  BY <1>1 DEF Owed, Taking, Giving
<1>3. UsersInv'
  BY <1>1, <1>2 DEF ServiceInv, UsersInv
<1>4. PromiseInv'
  BY <1>1 DEF ServiceInv, PromiseInv
<1>5. StageInv' /\ ArgInv'
  BY <1>1, BetweenBridges
<1>6. ServiceTypes'
  BY <1>1, <1>2 DEF ServiceInv, ServiceTypes, Stages
<1> QED
  BY <1>3, <1>4, <1>5, <1>6 DEF ServiceInv

(***************************************************************************)
(* The machine becomes a user of the bridge, whose services are up.        *)
(***************************************************************************)
LEMMA ServiceJoins ==
    ASSUME ServiceInv, ProgInv, prog # Idle, prog.pc \in Stages,
           prog.todo # <<>>, prog.kind \in Taking,
           NEW entry \in Entry, Join(entry),
           UNCHANGED <<settings, natRange, machine, leftover, active, at>>,
           Wanted # Off, entry.nat = Wanted.nat, entry.dns = Wanted.dns,
           \A u \in entry.users : runtime[Bridge] # None /\ u \in runtime[Bridge].users,
           runtime[Bridge] # None => runtime[Bridge].users \subseteq entry.users,
           entry.nat => Bridge \in active /\ natRange[Bridge] = Wanted.range,
           Bridge \in active => Bridge \in leftover \/ entry.nat,
           entry.dns <=> dns'[Bridge] # "none",
           DOMAIN dns' = Bridges,
           \A b \in Bridges : b # Bridge => dns'[b] = dns[b],
           at \notin WithBridge
    PROVE  ServiceInv'
<1> DEFINE new == [entry EXCEPT !.users = entry.users \cup {prog.vm}]
<1>1. Bridge \in Bridges /\ prog.vm \in VMs /\ InSeq(Bridge, prog.todo)
  BY CurrentBridge
<1>2. /\ new \in Entry /\ new.users = entry.users \cup {prog.vm}
      /\ new.nat = entry.nat /\ new.dns = entry.dns /\ new.running = entry.running
  BY <1>1 DEF Entry
<1>3. new # None
  BY <1>2, NoneIsDistinct
<1>4. /\ runtime' = [runtime EXCEPT ![Bridge] = new] /\ Advance
      /\ promised' = promised \cup {<<prog.vm, Bridge>>}
  BY DEF Join
<1> HIDE DEF new
<1>5. /\ runtime'[Bridge] = new /\ runtime' \in [Bridges -> Entry \cup {None}]
      /\ \A b \in Bridges : b # Bridge => runtime'[b] = runtime[b]
  BY <1>1, <1>2, <1>4 DEF ServiceInv, ServiceTypes
<1>6. /\ prog'.pc = "next" /\ prog'.kind = prog.kind /\ prog'.vm = prog.vm
      /\ prog' # Idle /\ ~prog'.natStarted
      /\ \A x : InSeq(x, prog'.todo) => InSeq(x, prog.todo)
      /\ \A x : InSeq(x, prog'.done) <=> InSeq(x, prog.done) \/ x = Bridge
  BY <1>4, AdvanceFacts
<1>7. Owed = prog.done /\ Owed' = prog'.done
  BY <1>6 DEF Owed
<1>8. UsersInv'
  <2>1. InSeq(Bridge, Uses[prog.vm])
    BY <1>1 DEF ServiceInv, UsersInv
  <2>2. ASSUME NEW u \in new.users
        PROVE  /\ InSeq(Bridge, Uses[u])
               /\ machine'[u] = "active"
                  \/ (prog' # Idle /\ prog'.vm = u /\ InSeq(Bridge, Owed'))
    <3>1. CASE u = prog.vm
      BY <1>6, <1>7, <2>1, <3>1
    <3>2. CASE u \in entry.users
      BY <1>1, <1>6, <1>7, <3>2 DEF ServiceInv, UsersInv
    <3> QED
      BY <1>2, <3>1, <3>2
  <2>3. new.users # {}
    BY <1>2
  <2>4. ASSUME NEW b \in Bridges, b # Bridge, runtime'[b] # None
        PROVE  /\ runtime'[b].users # {}
               /\ \A u \in runtime'[b].users :
                     /\ InSeq(b, Uses[u])
                     /\ machine'[u] = "active"
                        \/ (prog' # Idle /\ prog'.vm = u /\ InSeq(b, Owed'))
    BY <1>5, <1>6, <1>7, <2>4 DEF ServiceInv, UsersInv
  <2>5. \A b \in Bridges : InSeq(b, prog'.todo) => InSeq(b, Uses[prog'.vm])
    BY <1>6 DEF ServiceInv, UsersInv
  <2> QED
    BY <1>5, <2>2, <2>3, <2>4, <2>5 DEF UsersInv
<1>9. EntryInv'
  <2>1. /\ settings'[Bridge] = Wanted /\ natRange'[Bridge] = natRange[Bridge]
    BY DEF Wanted
  <2> QED
    BY <1>2, <1>5, <2>1 DEF ServiceInv, EntryInv
<1>10. AccountInv'
  <2>1. ASSUME NEW b \in Bridges, b # Bridge
        PROVE  ~Midway(b, {"nat", "undo", "stopping", "dns", "listen", "closing",
                           "stopNat"})
    BY <2>1 DEF Midway
  <2>2. ASSUME NEW b \in Bridges, b # Bridge
        PROVE  /\ dns[b] # "none" => runtime[b] # None /\ runtime[b].dns
               /\ b \in active => \/ b \in leftover
                                  \/ runtime[b] # None /\ runtime[b].nat
    BY <2>1, <2>2 DEF ServiceInv, AccountInv, Midway
  <2> QED
    BY <1>2, <1>3, <1>5, <2>2 DEF AccountInv
<1>11. PromiseInv'
  <2>1. \A v, b : <<v, b>> \in promised' =>
            <<v, b>> \in promised \/ (v = prog.vm /\ b = Bridge)
    BY <1>4
  <2>2. prog'.kind \notin Giving
    BY <1>6 DEF Taking, Giving
  <2>3. \A v \in VMs, b \in Bridges : <<v, b>> \in promised =>
            runtime[b] # None /\ v \in runtime[b].users
    BY DEF ServiceInv, PromiseInv
  <2> QED
    BY <1>2, <1>3, <1>5, <2>1, <2>2, <2>3 DEF PromiseInv
<1>12. ServiceTypes'
  BY <1>5, <1>6 DEF ServiceInv, ServiceTypes, Stages
<1> QED
  BY <1>6, <1>8, <1>9, <1>10, <1>11, <1>12, BetweenBridges DEF ServiceInv

LEMMA ServicePrepareRunning ==
    ASSUME ServiceInv, ProgInv, PrepareRunning
    PROVE  ServiceInv'
<1>1. /\ prog.pc = "next" /\ prog.kind \in Taking /\ prog.todo # <<>>
      /\ Wanted # Off /\ runtime[Bridge] # None
      /\ UNCHANGED <<settings, natRange, machine, leftover, active, at>>
  BY DEF PrepareRunning, Preparing, Taking, IsServed, vars, memory
<1>2. prog # Idle /\ Bridge \in Bridges /\ at \notin WithBridge /\ prog.pc \in Stages
  BY <1>1, CurrentBridge, NatIdle DEF Stages, ServiceInv
<1>3. runtime[Bridge] \in Entry
  BY <1>1, <1>2 DEF ServiceInv, ServiceTypes
<1>4. /\ runtime[Bridge].nat = Wanted.nat /\ runtime[Bridge].dns = Wanted.dns
      /\ runtime[Bridge].nat =>
            Bridge \in active /\ natRange[Bridge] = Wanted.range
      /\ Bridge \in active => Bridge \in leftover \/ runtime[Bridge].nat
      /\ dns[Bridge] # "none" => runtime[Bridge].dns
      /\ runtime[Bridge].dns => dns[Bridge] # "none" \/ ~runtime[Bridge].running
  BY <1>1, <1>2 DEF ServiceInv, EntryInv, AccountInv, Midway, Wanted
<1>5. CASE /\ Join(runtime[Bridge])
           /\ dns' = IF Wanted.dns THEN [dns EXCEPT ![Bridge] = "running"] ELSE dns
  <2>1. /\ runtime[Bridge].dns <=> dns'[Bridge] # "none"
        /\ DOMAIN dns' = Bridges
        /\ \A b \in Bridges : b # Bridge => dns'[b] = dns[b]
    BY <1>2, <1>3, <1>4, <1>5 DEF ServiceInv, ServiceTypes, Entry
  <2> QED
    BY <1>1, <1>2, <1>3, <1>4, <1>5, <2>1, ServiceJoins
<1>6. CASE GiveUp /\ UNCHANGED <<runtime, dns>>
  <2>1. EntryInv' /\ AccountInv' /\ DOMAIN dns' = Bridges
    BY <1>1, <1>6, EntryKept, AccountKept DEF ServiceInv, ServiceTypes
  <2> QED
    BY <1>1, <1>2, <1>6, <2>1, ServiceGivesUp
<1> QED
  BY <1>5, <1>6 DEF PrepareRunning

(***************************************************************************)
(* Starting the services one after the other.                              *)
(***************************************************************************)
LEMMA NatStarts ==
    ASSUME NEW b \in Bridges, Start(b)
    PROVE  /\ arg' = b
           /\ active' = active \/ active' = active \cup {b}
BY DEF Start, EnableThenRules

LEMMA ServicePrepareStopped ==
    ASSUME ServiceInv, ProgInv, PrepareStopped
    PROVE  ServiceInv'
<1>1. /\ prog.pc = "next" /\ prog.kind \in Taking /\ prog.todo # <<>>
      /\ Wanted # Off /\ ~IsServed(Bridge)
      /\ UNCHANGED <<settings, runtime, dns, machine, leftover>>
  BY DEF PrepareStopped, Preparing, Taking
<1>2. /\ prog # Idle /\ Bridge \in Bridges /\ at \notin WithBridge
      /\ prog.pc \in Stages /\ DOMAIN prog = Fields /\ Idle.pc = "idle"
  BY <1>1, CurrentBridge, NatIdle DEF Stages, ServiceInv, ProgInv, Idle
<1>3. ~prog.natStarted
  BY <1>1 DEF ServiceInv, StageInv
<1>4. \A b \in Bridges :
          /\ dns[b] # "none" => runtime[b] # None /\ runtime[b].dns
          /\ b \in active => b \in leftover \/ (runtime[b] # None /\ runtime[b].nat)
  BY <1>1 DEF ServiceInv, AccountInv, Midway
<1>5. CASE GiveUp /\ UNCHANGED <<vars, natRange>>
  <2>1. EntryInv' /\ AccountInv' /\ DOMAIN dns' = Bridges /\ at' = at
    BY <1>1, <1>5, EntryKept, AccountKept
    DEF ServiceInv, ServiceTypes, vars, memory
  <2> QED
    BY <1>1, <1>2, <1>5, <2>1, ServiceGivesUp
<1>6. CASE /\ Wanted.nat /\ Bridge \notin active /\ Start(Bridge)
           /\ natRange' = [natRange EXCEPT ![Bridge] = Wanted.range]
           /\ prog' = [prog EXCEPT !.pc = "nat", !.natStarted = NatStarted(Bridge)]
           /\ UNCHANGED promised
  <2>1. /\ prog'.pc = "nat" /\ prog'.natStarted /\ SameCall
    BY <1>2, <1>6 DEF SameCall, Fields, NatStarted
  <2>2. UsersInv' /\ PromiseInv' /\ Bridge' = Bridge
    BY <1>1, <1>6, <2>1, SameCallKeeps DEF ServiceInv
  <2>3. runtime[Bridge] = None
    BY <1>2, <1>6 DEF ServiceInv, EntryInv, Wanted
  <2>4. /\ natRange'[Bridge] = Wanted.range /\ DOMAIN natRange' = Bridges
        /\ \A b \in Bridges : b # Bridge => natRange'[b] = natRange[b]
    BY <1>2, <1>6 DEF ServiceInv, ServiceTypes
  <2>5. arg' = Bridge /\ (active' = active \/ active' = active \cup {Bridge})
    BY <1>2, <1>6, NatStarts
  <2>6. EntryInv'
    BY <1>1, <2>3, <2>4, <2>5 DEF ServiceInv, EntryInv
  <2>7. AccountInv'
    BY <1>1, <1>4, <2>1, <2>2, <2>5 DEF AccountInv, Midway
  <2>8. Wanted' = Wanted
    BY <1>1, <2>2 DEF Wanted
  <2>9. StageInv' /\ ArgInv'
    BY <1>1, <1>6, <2>1, <2>2, <2>3, <2>4, <2>5, <2>8
    DEF StageInv, ArgInv, SameCall, IsServed
  <2>10. ServiceTypes'
    BY <1>1, <1>2, <2>1, <2>4 DEF ServiceInv, ServiceTypes, SameCall, Stages
  <2> QED
    BY <2>2, <2>6, <2>7, <2>9, <2>10 DEF ServiceInv
<1>7. CASE /\ prog'.pc = "dns" /\ SameCall /\ ~prog'.natStarted
           /\ Wanted.nat => Bridge \in active /\ natRange[Bridge] = Wanted.range
           /\ UNCHANGED <<vars, natRange, promised>>
  <2>1. UNCHANGED <<active, at, arg>>
    BY <1>7 DEF vars, memory, call
  <2>2. UsersInv' /\ PromiseInv' /\ Bridge' = Bridge
    BY <1>1, <1>7, SameCallKeeps DEF ServiceInv
  <2>3. EntryInv'
    BY <1>1, <1>7, <2>1, EntryKept DEF ServiceInv
  <2>4. AccountInv'
    BY <1>1, <1>4, <2>1 DEF AccountInv
  <2>5. Wanted' = Wanted
    BY <1>1, <2>2 DEF Wanted
  <2>6. StageInv' /\ ArgInv'
    BY <1>1, <1>2, <1>7, <2>1, <2>2, <2>5
    DEF StageInv, ArgInv, SameCall, IsServed
  <2>7. ServiceTypes'
    BY <1>1, <1>7 DEF ServiceInv, ServiceTypes, SameCall, Stages
  <2> QED
    BY <2>2, <2>3, <2>4, <2>6, <2>7 DEF ServiceInv
<1>8. ASSUME /\ Wanted.nat /\ Bridge \in active /\ natRange[Bridge] = Wanted.range
             /\ prog' = [prog EXCEPT !.pc = "dns", !.natStarted = NatStarted(Bridge)]
      PROVE  prog'.pc = "dns" /\ SameCall /\ ~prog'.natStarted
  BY <1>2, <1>8 DEF SameCall, Fields, NatStarted
<1>9. ASSUME prog' = [prog EXCEPT !.pc = "dns"]
      PROVE  prog'.pc = "dns" /\ SameCall /\ ~prog'.natStarted
  BY <1>2, <1>3, <1>9 DEF SameCall, Fields
<1> QED
  BY <1>5, <1>6, <1>7, <1>8, <1>9 DEF PrepareStopped, NatCalled

LEMMA ServiceNatReturned ==
    ASSUME ServiceInv, ProgInv, NatReturned
    PROVE  ServiceInv'
<1>1. /\ prog.pc = "nat" /\ at = "idle"
      /\ UNCHANGED <<settings, runtime, dns, natRange, machine, leftover, active,
                     at, arg>>
  BY DEF NatReturned, services, vars, memory, call
<1>2. /\ prog # Idle /\ Bridge \in Bridges /\ at \notin WithBridge
      /\ DOMAIN prog = Fields /\ prog.kind \in Taking /\ Idle.pc = "idle"
  BY <1>1, CurrentBridge
  DEF Stages, ServiceInv, StageInv, ProgInv, Idle, WithBridge
<1>3. EntryInv'
  BY <1>1, EntryKept DEF ServiceInv
<1>4. CASE Bridge \notin active /\ GiveUp
  <2>1. AccountInv'
    BY <1>1, <1>4 DEF ServiceInv, AccountInv, Midway
  <2> QED
    BY <1>1, <1>2, <1>3, <1>4, <2>1, ServiceGivesUp DEF ServiceInv, ServiceTypes
<1>5. CASE Bridge \in active /\ prog' = [prog EXCEPT !.pc = "dns"] /\ UNCHANGED promised
  <2>1. prog'.pc = "dns" /\ SameCall /\ prog'.natStarted = prog.natStarted
    BY <1>2, <1>5 DEF SameCall, Fields
  <2>2. UsersInv' /\ PromiseInv' /\ Bridge' = Bridge
    BY <1>1, <1>5, <2>1, SameCallKeeps DEF ServiceInv
  <2>3. Wanted' = Wanted
    BY <1>1, <2>2 DEF Wanted
  <2>4. AccountInv'
    BY <1>1, <2>1, <2>2 DEF ServiceInv, AccountInv, StageInv, Midway
  <2>5. StageInv' /\ ArgInv'
    BY <1>1, <1>2, <1>5, <2>1, <2>2, <2>3
    DEF ServiceInv, StageInv, ArgInv, SameCall, IsServed
  <2>6. ServiceTypes'
    BY <1>1, <2>1 DEF ServiceInv, ServiceTypes, SameCall, Stages
  <2> QED
    BY <1>3, <2>2, <2>4, <2>5, <2>6 DEF ServiceInv
<1> QED
  BY <1>4, <1>5 DEF NatReturned

(***************************************************************************)
(* A service failed after NAT: what is left of the bridge is accounted for *)
(* whether this call started NAT or found it running.                      *)
(***************************************************************************)
LEMMA ServiceUndoes ==
    ASSUME ServiceInv, ProgInv, prog.pc \in {"dns", "listen"}, UndoNat,
           UNCHANGED <<settings, runtime, natRange, machine, leftover>>,
           DOMAIN dns' = Bridges,
           \A b \in Bridges : b # Bridge => dns'[b] = dns[b],
           dns'[Bridge] # "none" => runtime[Bridge] # None /\ runtime[Bridge].dns
    PROVE  ServiceInv'
<1>1. /\ prog # Idle /\ Bridge \in Bridges /\ at \notin WithBridge
      /\ DOMAIN prog = Fields /\ prog.kind \in Taking /\ Idle.pc = "idle"
      /\ ~IsServed(Bridge)
  BY CurrentBridge DEF Stages, ServiceInv, StageInv, ArgInv, ProgInv, Idle
<1>2. ASSUME NEW b \in Bridges
      PROVE  dns'[b] # "none" => runtime[b] # None /\ runtime[b].dns
  BY <1>2 DEF ServiceInv, AccountInv, Midway
<1>3. CASE prog.natStarted
  <2>1. /\ Stop(Bridge) /\ prog' = [prog EXCEPT !.pc = "undo"] /\ UNCHANGED promised
    BY <1>3 DEF UndoNat, NatCalled
  <2>2. /\ prog'.pc = "undo" /\ SameCall
    BY <1>1, <2>1 DEF SameCall, Fields
  <2>3. active' = active \ {Bridge} /\ arg' = Bridge
    BY <2>1 DEF Stop
  <2>4. runtime[Bridge] = None
    BY <1>3 DEF ServiceInv, StageInv
  <2>5. UsersInv' /\ PromiseInv' /\ Bridge' = Bridge
    BY <2>1, <2>2, SameCallKeeps DEF ServiceInv
  <2>6. EntryInv'
    BY <2>3, <2>4 DEF ServiceInv, EntryInv
  <2>7. AccountInv'
    BY <1>2, <2>2, <2>3, <2>5 DEF ServiceInv, AccountInv, Midway
  <2>8. StageInv' /\ ArgInv'
    BY <1>1, <2>2, <2>3, <2>4, <2>5 DEF StageInv, ArgInv, SameCall, IsServed
  <2>9. ServiceTypes'
    BY <2>2 DEF ServiceInv, ServiceTypes, SameCall, Stages
  <2> QED
    BY <2>5, <2>6, <2>7, <2>8, <2>9 DEF ServiceInv
<1>4. CASE ~prog.natStarted
  <2>1. GiveUp /\ UNCHANGED <<active, at>>
    BY <1>4 DEF UndoNat, vars, memory
  <2>2. EntryInv'
    BY <1>1, <2>1 DEF ServiceInv, EntryInv, IsServed
  <2>3. AccountInv'
    BY <1>2, <1>4, <2>1 DEF ServiceInv, AccountInv, Midway
  <2> QED
    BY <1>1, <2>1, <2>2, <2>3, ServiceGivesUp
<1> QED
  BY <1>3, <1>4

LEMMA ServiceStartDNS ==
    ASSUME ServiceInv, ProgInv, StartDNS
    PROVE  ServiceInv'
<1>1. /\ prog.pc = "dns"
      /\ UNCHANGED <<settings, runtime, natRange, machine, leftover>>
  BY DEF StartDNS
<1>2. /\ prog # Idle /\ Bridge \in Bridges
      /\ DOMAIN prog = Fields /\ prog.kind \in Taking /\ Idle.pc = "idle"
      /\ Wanted # Off /\ ~IsServed(Bridge) /\ DOMAIN dns = Bridges
  BY <1>1, CurrentBridge
  DEF Stages, ServiceInv, ServiceTypes, StageInv, ProgInv, Idle
<1>3. \A b \in Bridges : dns[b] # "none" => runtime[b] # None /\ runtime[b].dns
  BY <1>1 DEF ServiceInv, AccountInv, Midway
<1>4. CASE /\ dns' = IF Wanted.dns THEN [dns EXCEPT ![Bridge] = "running"] ELSE dns
           /\ prog' = [prog EXCEPT !.pc = "listen",
                          !.dnsStarted = Wanted.dns /\ dns[Bridge] # "running"]
           /\ UNCHANGED <<vars, promised>>
  <2>1. /\ prog'.pc = "listen" /\ SameCall /\ prog'.natStarted = prog.natStarted
        /\ prog'.dnsStarted = (Wanted.dns /\ dns[Bridge] # "running")
    BY <1>2, <1>4 DEF SameCall, Fields
  <2>2. UsersInv' /\ PromiseInv' /\ Bridge' = Bridge
    BY <1>1, <1>4, <2>1, SameCallKeeps DEF ServiceInv
  <2>3. Wanted' = Wanted /\ UNCHANGED <<active, at, arg>>
    BY <1>1, <1>4, <2>2 DEF Wanted, vars, memory, call
  <2>4. /\ DOMAIN dns' = Bridges
        /\ \A b \in Bridges : b # Bridge => dns'[b] = dns[b]
        /\ Wanted.dns => dns'[Bridge] = "running"
        /\ ~Wanted.dns => dns' = dns
    BY <1>2, <1>4
  <2>5. EntryInv'
    BY <1>1, <2>3, <2>4 DEF ServiceInv, EntryInv
  <2>6. AccountInv'
    BY <1>1, <1>3, <2>1, <2>2, <2>3, <2>4 DEF ServiceInv, AccountInv, Midway
  <2>7. StageInv' /\ ArgInv'
    BY <1>1, <1>2, <2>1, <2>2, <2>3, <2>4
    DEF ServiceInv, StageInv, ArgInv, SameCall, IsServed
  <2>8. ServiceTypes'
    BY <1>1, <2>1, <2>4 DEF ServiceInv, ServiceTypes, SameCall, Stages
  <2> QED
    BY <2>2, <2>5, <2>6, <2>7, <2>8 DEF ServiceInv
<1>5. CASE UndoNat /\ UNCHANGED dns
  BY <1>1, <1>2, <1>3, <1>5, ServiceUndoes
<1> QED
  BY <1>4, <1>5 DEF StartDNS

LEMMA ServiceListen ==
    ASSUME ServiceInv, ProgInv, Listen
    PROVE  ServiceInv'
<1> USE BridgeAssumption
<1>1. /\ prog.pc = "listen"
      /\ UNCHANGED <<settings, natRange, machine, leftover>>
  BY DEF Listen
<1>2. /\ prog # Idle /\ Bridge \in Bridges /\ at \notin WithBridge
      /\ prog.kind \in Taking /\ Wanted # Off /\ DOMAIN dns = Bridges
      /\ prog.todo # <<>> /\ prog.pc \in Stages
  BY <1>1, CurrentBridge DEF Stages, ServiceInv, ServiceTypes, StageInv, ArgInv
<1>3. /\ Wanted.nat \in BOOLEAN /\ Wanted.dns \in BOOLEAN
      /\ runtime[Bridge] # None => /\ runtime[Bridge].users \subseteq VMs
                                   /\ runtime[Bridge].nat = Wanted.nat
                                   /\ runtime[Bridge].dns = Wanted.dns
  BY <1>2 DEF ServiceInv, ServiceTypes, EntryInv, Entry, Wanted
<1>4. /\ Wanted.nat => Bridge \in active /\ natRange[Bridge] = Wanted.range
      /\ Bridge \in active => Bridge \in leftover \/ Wanted.nat
      /\ Wanted.dns <=> dns[Bridge] # "none"
  BY <1>1, <1>2, <1>3 DEF ServiceInv, StageInv, AccountInv, Midway
<1>5. ASSUME NEW users \in SUBSET VMs,
             users = IF runtime[Bridge] = None THEN {} ELSE runtime[Bridge].users,
             Join([users |-> users, running |-> TRUE,
                   nat |-> Wanted.nat, dns |-> Wanted.dns]),
             UNCHANGED <<vars, dns>>
      PROVE  ServiceInv'
  <2> DEFINE entry == [users |-> users, running |-> TRUE,
                       nat |-> Wanted.nat, dns |-> Wanted.dns]
  <2>1. /\ entry \in Entry /\ entry.users = users
        /\ entry.nat = Wanted.nat /\ entry.dns = Wanted.dns /\ Join(entry)
    BY <1>3, <1>5 DEF Entry
  <2>2. UNCHANGED <<active, at>>
    BY <1>5 DEF vars, memory
  <2> HIDE DEF entry
  <2> QED
    BY <1>1, <1>2, <1>4, <1>5, <2>1, <2>2, ServiceJoins
<1>6. CASE /\ dns' = IF prog.dnsStarted THEN [dns EXCEPT ![Bridge] = "none"] ELSE dns
           /\ UndoNat /\ UNCHANGED runtime
  <2>1. /\ DOMAIN dns' = Bridges
        /\ \A b \in Bridges : b # Bridge => dns'[b] = dns[b]
    BY <1>2, <1>6
  <2>2. dns'[Bridge] # "none" => runtime[Bridge] # None /\ runtime[Bridge].dns
    BY <1>1, <1>2, <1>6 DEF ServiceInv, AccountInv, Midway
  <2> QED
    BY <1>1, <1>6, <2>1, <2>2, ServiceUndoes
<1> QED
  BY <1>3, <1>5, <1>6 DEF Listen

LEMMA ServiceNatUndone ==
    ASSUME ServiceInv, ProgInv, NatUndone
    PROVE  ServiceInv'
<1>1. /\ prog.pc = "undo" /\ at = "idle" /\ GiveUp /\ leftover' = KeptOrGone(Bridge)
      /\ UNCHANGED <<settings, runtime, dns, natRange, machine, active, at>>
  BY DEF NatUndone, services, vars, memory
<1>2. prog # Idle /\ prog.kind \in Taking /\ at \notin WithBridge
  BY <1>1 DEF ServiceInv, StageInv, Idle, WithBridge
<1>3. EntryInv'
  BY <1>1, EntryKept DEF ServiceInv
<1>4. AccountInv'
  BY <1>1 DEF ServiceInv, AccountInv, Midway, KeptOrGone
<1> QED
  BY <1>1, <1>2, <1>3, <1>4, ServiceGivesUp DEF ServiceInv, ServiceTypes

(***************************************************************************)
(* Releasing a bridge.                                                     *)
(***************************************************************************)
LEMMA ServiceAdvances ==
    ASSUME ServiceInv, ProgInv, prog # Idle, prog.todo # <<>>,
           prog.kind \in Giving, Advance, at \notin WithBridge,
           UNCHANGED <<settings, natRange, machine, promised, dns, at>>,
           ServiceTypes', EntryInv', AccountInv',
           \A b \in Bridges : b # Bridge => runtime'[b] = runtime[b],
           \/ runtime'[Bridge] = None /\ runtime[Bridge] = None
           \/ /\ runtime[Bridge] # None /\ runtime'[Bridge] # None
              /\ runtime'[Bridge].users = runtime[Bridge].users \ {prog.vm}
              /\ runtime'[Bridge].users # {}
    PROVE  ServiceInv'
<1>1. /\ prog'.pc = "next" /\ prog'.kind = prog.kind /\ prog'.vm = prog.vm
      /\ prog' # Idle /\ ~prog'.natStarted
      /\ \A x : InSeq(x, prog.todo) => x = Bridge \/ InSeq(x, prog'.todo)
  BY AdvanceFacts
<1>2. Owed = prog.todo /\ Owed' = prog'.todo /\ prog'.kind \notin Taking
  BY <1>1 DEF Owed, Taking, Giving
<1>3. UsersInv'
  <2>1. ASSUME NEW b \in Bridges, runtime'[b] # None
        PROVE  /\ runtime[b] # None /\ runtime'[b].users # {}
               /\ runtime'[b].users \subseteq runtime[b].users
               /\ b = Bridge => prog.vm \notin runtime'[b].users
    <3>1. CASE b = Bridge
      BY <2>1, <3>1
    <3>2. CASE b # Bridge
      BY <2>1, <3>2 DEF ServiceInv, UsersInv
    <3> QED
      BY <3>1, <3>2
  <2>2. ASSUME NEW b \in Bridges, runtime'[b] # None, NEW u \in runtime'[b].users
        PROVE  /\ InSeq(b, Uses[u])
               /\ machine'[u] = "active"
                  \/ (prog' # Idle /\ prog'.vm = u /\ InSeq(b, Owed'))
    <3>1. /\ InSeq(b, Uses[u])
          /\ machine[u] = "active" \/ (prog.vm = u /\ InSeq(b, prog.todo))
      BY <1>2, <2>1, <2>2 DEF ServiceInv, UsersInv
    <3> QED
      BY <1>1, <1>2, <2>1, <2>2, <3>1
  <2> QED
    BY <1>2, <2>1, <2>2 DEF UsersInv
<1>4. PromiseInv'
  <2>1. ASSUME NEW v \in VMs, NEW b \in Bridges, <<v, b>> \in promised
        PROVE  runtime'[b] # None /\ v \in runtime'[b].users /\ prog.vm # v
    <3>1. runtime[b] # None /\ v \in runtime[b].users /\ prog.vm # v
      BY <2>1 DEF ServiceInv, PromiseInv
    <3>2. CASE b = Bridge
      BY <3>1, <3>2
    <3>3. CASE b # Bridge
      BY <3>1, <3>3
    <3> QED
      BY <3>2, <3>3
  <2> QED
    BY <1>1, <2>1 DEF PromiseInv
<1> QED
  BY <1>1, <1>3, <1>4, BetweenBridges DEF ServiceInv

LEMMA ServiceRelease ==
    ASSUME ServiceInv, ProgInv, ReleaseBridge
    PROVE  ServiceInv'
<1>1. /\ prog.pc = "next" /\ prog.kind \in Giving /\ prog.todo # <<>>
      /\ UNCHANGED <<settings, dns, natRange, machine, promised, leftover,
                     active, at, arg>>
  BY DEF ReleaseBridge, Releasing, Giving, history, vars, memory, call
<1>2. /\ prog # Idle /\ Bridge \in Bridges /\ prog.vm \in VMs /\ at \notin WithBridge
      /\ DOMAIN prog = Fields /\ Idle.pc = "idle"
  BY <1>1, CurrentBridge, NatIdle DEF Stages, ServiceInv, ProgInv, Idle
<1>3. \A b \in Bridges :
          /\ dns[b] # "none" => runtime[b] # None /\ runtime[b].dns
          /\ b \in active => b \in leftover \/ (runtime[b] # None /\ runtime[b].nat)
  BY <1>1 DEF ServiceInv, AccountInv, Midway
<1>4. CASE runtime[Bridge] = None /\ Advance /\ UNCHANGED runtime
  <2>1. EntryInv' /\ AccountInv'
    BY <1>1, <1>4, EntryKept, AccountKept DEF ServiceInv
  <2>2. ServiceTypes'
    BY <1>1, <1>2, <1>4, AdvanceFacts DEF ServiceInv, ServiceTypes, Stages
  <2> QED
    BY <1>1, <1>2, <1>4, <2>1, <2>2, ServiceAdvances
<1>5. ASSUME NEW users, users = runtime[Bridge].users \ {prog.vm}, users # {},
             runtime[Bridge] # None, Advance,
             runtime' = [runtime EXCEPT ![Bridge].users = users]
      PROVE  ServiceInv'
  <2> DEFINE new == [runtime[Bridge] EXCEPT !.users = users]
  <2>1. runtime[Bridge] \in Entry
    BY <1>2, <1>5 DEF ServiceInv, ServiceTypes
  <2>2. /\ new \in Entry /\ new.users = users /\ new.nat = runtime[Bridge].nat
        /\ new.dns = runtime[Bridge].dns /\ new.running = runtime[Bridge].running
    BY <1>5, <2>1 DEF Entry
  <2>3. new # None /\ runtime' = [runtime EXCEPT ![Bridge] = new]
    BY <1>5, <2>2, NoneIsDistinct
  <2> HIDE DEF new
  <2>4. /\ runtime' \in [Bridges -> Entry \cup {None}] /\ runtime'[Bridge] = new
        /\ \A b \in Bridges : b # Bridge => runtime'[b] = runtime[b]
    BY <1>2, <2>2, <2>3 DEF ServiceInv, ServiceTypes
  <2>5. EntryInv'
    BY <1>1, <1>2, <1>5, <2>2, <2>4 DEF ServiceInv, EntryInv
  <2>6. AccountInv'
    BY <1>1, <1>3, <2>2, <2>3, <2>4 DEF AccountInv
  <2>7. ServiceTypes'
    BY <1>1, <1>2, <1>5, <2>4, AdvanceFacts DEF ServiceInv, ServiceTypes, Stages
  <2> QED
    BY <1>1, <1>2, <1>5, <2>2, <2>3, <2>4, <2>5, <2>6, <2>7, ServiceAdvances
<1>6. CASE /\ runtime[Bridge] # None /\ runtime[Bridge].users \ {prog.vm} = {}
           /\ runtime' = [runtime EXCEPT ![Bridge] = None]
           /\ prog' = [prog EXCEPT !.pc = "closing", !.stopping = runtime[Bridge]]
  <2>1. /\ prog'.pc = "closing" /\ prog'.stopping = runtime[Bridge] /\ SameCall
    BY <1>2, <1>6 DEF SameCall, Fields
  <2>2. /\ runtime' \in [Bridges -> Entry \cup {None}] /\ runtime'[Bridge] = None
        /\ \A b \in Bridges : b # Bridge => runtime'[b] = runtime[b]
    BY <1>2, <1>6 DEF ServiceInv, ServiceTypes
  <2>3. Bridge' = Bridge /\ Owed' = Owed /\ prog'.kind \notin Taking
    BY <1>1, <2>1 DEF SameCall, Bridge, Owed, Taking, Giving
  <2>4. UsersInv'
    BY <1>1, <2>1, <2>2, <2>3 DEF ServiceInv, UsersInv, SameCall
  <2>5. EntryInv'
    BY <1>1, <2>2 DEF ServiceInv, EntryInv
  <2>6. AccountInv'
    BY <1>1, <1>3, <2>1, <2>2, <2>3 DEF AccountInv, Midway
  <2>7. PromiseInv'
    <3>1. ASSUME NEW v \in VMs, NEW b \in Bridges, <<v, b>> \in promised
          PROVE  b # Bridge /\ runtime[b] # None /\ v \in runtime[b].users
                 /\ prog.vm # v
      BY <1>1, <1>2, <1>6, <3>1 DEF ServiceInv, PromiseInv
    <3> QED
      BY <1>1, <2>1, <2>2, <3>1 DEF PromiseInv, SameCall
  <2>8. StageInv' /\ ArgInv'
    BY <1>1, <1>2, <2>1, <2>2, <2>3 DEF StageInv, ArgInv, SameCall
  <2>9. ServiceTypes'
    BY <1>1, <2>1, <2>2 DEF ServiceInv, ServiceTypes, SameCall, Stages
  <2> QED
    BY <2>4, <2>5, <2>6, <2>7, <2>8, <2>9 DEF ServiceInv
<1> QED
  BY <1>4, <1>5, <1>6 DEF ReleaseBridge

LEMMA ServiceStopDNS ==
    ASSUME ServiceInv, ProgInv, StopDNS
    PROVE  ServiceInv'
<1>1. /\ prog.pc = "closing"
      /\ UNCHANGED <<settings, runtime, natRange, machine, promised, leftover,
                     active, at, arg>>
      /\ prog' = [prog EXCEPT !.pc = "stopNat"]
      /\ dns' = IF prog.stopping.dns THEN [dns EXCEPT ![Bridge] = "none"] ELSE dns
  BY DEF StopDNS, history, vars, memory, call
<1>2. /\ prog # Idle /\ Bridge \in Bridges /\ at \notin WithBridge
      /\ DOMAIN prog = Fields /\ Idle.pc = "idle" /\ prog.kind \in Giving
      /\ runtime[Bridge] = None /\ DOMAIN dns = Bridges
  BY <1>1, CurrentBridge
  DEF Stages, ServiceInv, ServiceTypes, StageInv, ArgInv, ProgInv, Idle
<1>3. /\ prog'.pc = "stopNat" /\ SameCall /\ prog'.stopping = prog.stopping
  BY <1>1, <1>2 DEF SameCall, Fields
<1>4. UsersInv' /\ PromiseInv' /\ Bridge' = Bridge
  BY <1>1, <1>3, SameCallKeeps DEF ServiceInv
<1>5. /\ DOMAIN dns' = Bridges
      /\ \A b \in Bridges : b # Bridge => dns'[b] = dns[b]
      /\ prog.stopping.dns => dns'[Bridge] = "none"
      /\ ~prog.stopping.dns => dns' = dns
  BY <1>1, <1>2
<1>6. EntryInv'
  BY <1>1, <1>2, <1>5 DEF ServiceInv, EntryInv
<1>7. AccountInv'
  BY <1>1, <1>2, <1>3, <1>4, <1>5 DEF ServiceInv, AccountInv, Midway
<1>8. StageInv' /\ ArgInv'
  BY <1>1, <1>2, <1>3, <1>4 DEF StageInv, ArgInv, SameCall
<1>9. ServiceTypes'
  BY <1>1, <1>3, <1>5 DEF ServiceInv, ServiceTypes, SameCall, Stages
<1> QED
  BY <1>4, <1>6, <1>7, <1>8, <1>9 DEF ServiceInv

LEMMA ServiceStopNat ==
    ASSUME ServiceInv, ProgInv, StopNat
    PROVE  ServiceInv'
<1>1. /\ prog.pc = "stopNat"
      /\ UNCHANGED <<settings, runtime, dns, natRange, machine, promised, leftover>>
  BY DEF StopNat, services, history
<1>2. /\ prog # Idle /\ Bridge \in Bridges /\ at \notin WithBridge
      /\ DOMAIN prog = Fields /\ Idle.pc = "idle" /\ prog.kind \in Giving
      /\ runtime[Bridge] = None /\ prog.todo # <<>>
  BY <1>1, CurrentBridge DEF Stages, ServiceInv, StageInv, ArgInv, ProgInv, Idle
<1>3. CASE /\ Stop(Bridge) /\ prog' = [prog EXCEPT !.pc = "stopping"]
  <2>1. prog'.pc = "stopping" /\ SameCall
    BY <1>2, <1>3 DEF SameCall, Fields
  <2>2. active' = active \ {Bridge} /\ arg' = Bridge
    BY <1>3 DEF Stop
  <2>3. UsersInv' /\ PromiseInv' /\ Bridge' = Bridge
    BY <1>1, <2>1, SameCallKeeps DEF ServiceInv
  <2>4. EntryInv'
    BY <1>1, <1>2, <2>2 DEF ServiceInv, EntryInv
  <2>5. AccountInv'
    BY <1>1, <2>1, <2>2, <2>3 DEF ServiceInv, AccountInv, Midway
  <2>6. StageInv' /\ ArgInv'
    BY <1>1, <1>2, <2>1, <2>2, <2>3 DEF StageInv, ArgInv, SameCall
  <2>7. ServiceTypes'
    BY <1>1, <2>1 DEF ServiceInv, ServiceTypes, SameCall, Stages
  <2> QED
    BY <2>3, <2>4, <2>5, <2>6, <2>7 DEF ServiceInv
<1>4. CASE ~(prog.stopping.nat /\ Bridge \in active) /\ Advance /\ UNCHANGED vars
  <2>1. UNCHANGED <<active, at>>
    BY <1>4 DEF vars, memory
  <2>2. EntryInv'
    BY <1>1, <2>1, EntryKept DEF ServiceInv
  <2>3. AccountInv'
    BY <1>1, <1>4, <2>1 DEF ServiceInv, AccountInv, Midway
  <2>4. ServiceTypes'
    BY <1>1, <1>2, <1>4, AdvanceFacts DEF ServiceInv, ServiceTypes, Stages
  <2> QED
    BY <1>1, <1>2, <1>4, <2>1, <2>2, <2>3, <2>4, ServiceAdvances
<1> QED
  BY <1>3, <1>4 DEF StopNat, StopsNat, NatCalled

LEMMA ServiceNatStopped ==
    ASSUME ServiceInv, ProgInv, NatStopped
    PROVE  ServiceInv'
<1>1. /\ prog.pc = "stopping" /\ at = "idle" /\ Advance
      /\ leftover' = KeptOrGone(Bridge)
      /\ UNCHANGED <<settings, runtime, dns, natRange, machine, promised,
                     active, at>>
  BY DEF NatStopped, services, vars, memory
<1>2. /\ prog # Idle /\ Bridge \in Bridges /\ at \notin WithBridge
      /\ prog.kind \in Giving /\ runtime[Bridge] = None /\ prog.todo # <<>>
  BY <1>1, CurrentBridge DEF Stages, ServiceInv, StageInv, WithBridge
<1>3. EntryInv'
  BY <1>1, EntryKept DEF ServiceInv
<1>4. AccountInv'
  BY <1>1 DEF ServiceInv, AccountInv, Midway, KeptOrGone
<1>5. ServiceTypes'
  BY <1>1, <1>2, AdvanceFacts DEF ServiceInv, ServiceTypes, Stages
<1> QED
  BY <1>1, <1>2, <1>3, <1>4, <1>5, ServiceAdvances

(***************************************************************************)
(* What comes in between: an administrator, a server that ends, and the    *)
(* end of App Runner.                                                      *)
(***************************************************************************)
LEMMA ServiceConfigure ==
    ASSUME ServiceInv, ProgInv, NEW b \in Bridges, NEW new \in Choices,
           Configure(b, new)
    PROVE  ServiceInv'
<1>1. /\ prog.pc \notin {"nat", "dns", "listen", "undo"} /\ CanConfigure(b)
      /\ settings' = [settings EXCEPT ![b] = new]
      /\ UNCHANGED <<runtime, dns, natRange, machine, prog, promised, leftover,
                     active, at, arg>>
  BY DEF Configure, Locked, history, vars, memory, call
<1>2. runtime[b] = None
  BY <1>1 DEF CanConfigure, ServiceInv, UsersInv
<1>3. /\ settings' \in [Bridges -> Choices \cup {Off}]
      /\ \A c \in Bridges : c # b => settings'[c] = settings[c]
  BY <1>1 DEF ServiceInv, ServiceTypes
<1>4. Bridge' = Bridge /\ Owed' = Owed
  BY <1>1 DEF Bridge, Owed
<1>5. UsersInv' /\ PromiseInv'
  BY <1>1, <1>4 DEF ServiceInv, UsersInv, PromiseInv
<1>6. EntryInv'
  BY <1>1, <1>2, <1>3 DEF ServiceInv, EntryInv
<1>7. AccountInv'
  BY <1>1, <1>4 DEF ServiceInv, AccountInv, Midway
<1>8. StageInv' /\ ArgInv'
  BY <1>1, <1>4 DEF ServiceInv, StageInv, ArgInv
<1> QED
  BY <1>1, <1>3, <1>5, <1>6, <1>7, <1>8 DEF ServiceInv, ServiceTypes

LEMMA ServiceDHCPDies ==
    ASSUME ServiceInv, ProgInv, NEW b \in Bridges, DHCPDies(b)
    PROVE  ServiceInv'
<1> DEFINE new == [runtime[b] EXCEPT !.running = FALSE]
<1>1. /\ prog.pc \notin {"nat", "dns", "listen", "undo"} /\ runtime[b] # None
      /\ runtime' = [runtime EXCEPT ![b] = new]
      /\ UNCHANGED <<settings, dns, natRange, machine, prog, promised, leftover,
                     active, at, arg>>
  BY DEF DHCPDies, Locked, IsServed, history, vars, memory, call
<1>2. runtime[b] \in Entry
  BY <1>1 DEF ServiceInv, ServiceTypes
<1>3. /\ new \in Entry /\ new.users = runtime[b].users /\ new.nat = runtime[b].nat
      /\ new.dns = runtime[b].dns /\ ~new.running
  BY <1>2 DEF Entry
<1>4. new # None
  BY <1>3, NoneIsDistinct
<1> HIDE DEF new
<1>5. /\ runtime' \in [Bridges -> Entry \cup {None}] /\ runtime'[b] = new
      /\ \A c \in Bridges : c # b => runtime'[c] = runtime[c]
  BY <1>1, <1>3 DEF ServiceInv, ServiceTypes
<1>6. Bridge' = Bridge /\ Owed' = Owed
  BY <1>1 DEF Bridge, Owed
<1>7. UsersInv'
  BY <1>1, <1>3, <1>5, <1>6 DEF ServiceInv, UsersInv
<1>8. PromiseInv'
  BY <1>1, <1>3, <1>4, <1>5 DEF ServiceInv, PromiseInv
<1>9. EntryInv'
  BY <1>1, <1>3, <1>5 DEF ServiceInv, EntryInv
<1>10. AccountInv'
  BY <1>1, <1>3, <1>4, <1>5, <1>6 DEF ServiceInv, AccountInv, Midway
<1>11. prog.pc \in {"closing", "stopNat", "stopping"} =>
           Bridge \in Bridges /\ Bridge # b
  BY <1>1, CurrentBridge DEF ServiceInv, StageInv, Stages
<1>12. StageInv' /\ ArgInv'
  BY <1>1, <1>5, <1>6, <1>11 DEF ServiceInv, StageInv, ArgInv
<1> QED
  BY <1>1, <1>5, <1>7, <1>8, <1>9, <1>10, <1>12 DEF ServiceInv, ServiceTypes

LEMMA ServiceDNSDies ==
    ASSUME ServiceInv, ProgInv, NEW b \in Bridges, DNSDies(b)
    PROVE  ServiceInv'
<1>1. /\ dns[b] = "running" /\ dns' = [dns EXCEPT ![b] = "dead"]
      /\ UNCHANGED <<settings, runtime, natRange, machine, prog, promised,
                     leftover, active, at, arg>>
  BY DEF DNSDies, history, vars, memory, call
<1>2. /\ DOMAIN dns' = Bridges
      /\ \A c \in Bridges : dns'[c] # "none" <=> dns[c] # "none"
  BY <1>1 DEF ServiceInv, ServiceTypes
<1>3. Bridge' = Bridge /\ Owed' = Owed /\ Wanted' = Wanted
  BY <1>1 DEF Bridge, Owed, Wanted
<1>4. UsersInv' /\ PromiseInv'
  BY <1>1, <1>3 DEF ServiceInv, UsersInv, PromiseInv
<1>5. EntryInv' /\ AccountInv'
  BY <1>1, <1>2, <1>3 DEF ServiceInv, EntryInv, AccountInv, Midway
<1>6. prog.pc = "listen" => Bridge \in Bridges
  BY CurrentBridge DEF Stages
<1>7. StageInv' /\ ArgInv'
  BY <1>1, <1>2, <1>3, <1>6 DEF ServiceInv, StageInv, ArgInv, IsServed
<1> QED
  BY <1>1, <1>2, <1>4, <1>5, <1>7 DEF ServiceInv, ServiceTypes

LEMMA ServiceReboot ==
    ASSUME ServiceInv, BridgeRestart \/ BridgeHostReboot
    PROVE  ServiceInv'
<1>1. /\ prog' = Idle /\ promised' = {} /\ active' = {} /\ at' = "idle"
      /\ UNCHANGED settings /\ DOMAIN machine' = VMs
      /\ runtime' = [b \in Bridges |-> None] /\ dns' = [b \in Bridges |-> "none"]
      /\ natRange' = [b \in Bridges |-> None]
  BY DEF BridgeRestart, BridgeHostReboot, Reboot, Restart, HostReboot, NewManager,
         Return
<1>2. prog'.pc = "idle" /\ at' \notin WithBridge
  BY <1>1 DEF Idle, WithBridge
<1> QED
  BY <1>1, <1>2, BetweenBridges
  DEF ServiceInv, ServiceTypes, UsersInv, EntryInv, AccountInv, PromiseInv

LEMMA ServiceReconcileEnds ==
    ASSUME ServiceInv, ReconcileEnds
    PROVE  ServiceInv'
<1>1. /\ prog = Idle
      /\ UNCHANGED <<settings, runtime, dns, natRange, machine, prog, promised,
                     leftover, active>>
      /\ at' = at \/ at' \notin WithBridge
  BY DEF ReconcileEnds, services, history, vars, memory, NatCalled,
         FinishRecovery, WithBridge, Goto
<1>2. prog.pc = "idle" /\ at \notin WithBridge
  BY <1>1 DEF Idle, ServiceInv, ArgInv
<1>3. UsersInv' /\ PromiseInv'
  BY <1>1 DEF ServiceInv, UsersInv, PromiseInv
<1> QED
  BY <1>1, <1>2, <1>3, EntryKept, AccountKept, BetweenBridges
  DEF ServiceInv, ServiceTypes

LEMMA ServiceStep ==
    ASSUME TypeOK, ProgInv, ServiceInv, [BridgeNext]_allVars
    PROVE  ServiceInv'
<1>1. CASE UNCHANGED allVars
  <2>1. UNCHANGED <<settings, runtime, dns, natRange, machine, prog, promised,
                    leftover, active, at, arg>>
    BY <1>1 DEF allVars, bridgeVars, services, history, vars, memory, call
  <2>2. Bridge' = Bridge /\ Owed' = Owed /\ Wanted' = Wanted
    BY <2>1 DEF Bridge, Owed, Wanted
  <2> QED
    BY <2>1, <2>2
    DEF ServiceInv, ServiceTypes, UsersInv, EntryInv, AccountInv, StageInv,
        ArgInv, PromiseInv, Midway, IsServed
<1>2. CASE BridgeNext
  BY <1>2, ServiceCallBegins, ServiceCallEnds, ServiceUnmanaged,
     ServicePrepareRunning, ServicePrepareStopped, ServiceNatReturned,
     ServiceStartDNS, ServiceListen, ServiceNatUndone, ServiceRelease,
     ServiceStopDNS, ServiceStopNat, ServiceNatStopped, ServiceConfigure,
     ServiceDHCPDies, ServiceDNSDies, ServiceReboot, ServiceReconcileEnds,
     ServiceNatStep DEF BridgeNext
<1> QED
  BY <1>1, <1>2

LEMMA ServicesInvariant == BridgeSpec => []ServiceInv
<1>1. BridgeInit => ServiceInv
  <2> SUFFICES ASSUME BridgeInit
               PROVE  ServiceInv
    OBVIOUS
  <2>1. prog = Idle /\ prog.pc = "idle" /\ active = {} /\ at = "idle"
    BY DEF BridgeInit, Init, Idle
  <2> QED
    BY <2>1
    DEF BridgeInit, ServiceInv, ServiceTypes, UsersInv, EntryInv, AccountInv,
        StageInv, ArgInv, PromiseInv, WithBridge
<1>2. IInv /\ ProgInv /\ ServiceInv /\ [BridgeNext]_allVars => ServiceInv'
  BY ServiceStep DEF IInv
<1> QED
  BY <1>1, <1>2, CompositionInvariant, PTL DEF BridgeSpec

(***************************************************************************)
(* A guest keeps the services it was started with, for every number of     *)
(* machines and bridges: Prepare, Release, Reconcile and Configure of      *)
(* internal/dhcp/dhcp.go, with servers and calls that fail anywhere.       *)
(***************************************************************************)
THEOREM GuestsKeepTheirServices == BridgeSpec => []PreparedGuestsAreServed
<1>1. ServiceInv => PreparedGuestsAreServed
  BY DEF ServiceInv, PromiseInv, EntryInv, PreparedGuestsAreServed
<1> QED
  BY <1>1, ServicesInvariant, PTL

(***************************************************************************)
(* Between calls nothing is served to nobody, but for NAT that could not   *)
(* be stopped: prepareBridge's undoing of what it started and              *)
(* releaseBridge's stops after the unlock.                                 *)
(***************************************************************************)
THEOREM NothingIsServedToNobody == BridgeSpec => []ServicesHaveUsers
<1>1. ServiceInv => ServicesHaveUsers
  <2> SUFFICES ASSUME ServiceInv, Ready
               PROVE  \A b \in Bridges :
                         /\ runtime[b] # None =>
                               /\ runtime[b].users # {}
                               /\ \A v \in runtime[b].users : machine[v] = "active"
                         /\ dns[b] # "none" => runtime[b] # None
                         /\ b \in active =>
                               b \in leftover \/ (runtime[b] # None /\ runtime[b].nat)
    BY DEF ServicesHaveUsers
  <2>1. prog = Idle /\ prog.pc = "idle"
    BY DEF Ready, Idle
  <2> QED
    BY <2>1 DEF ServiceInv, UsersInv, AccountInv, Midway
<1> QED
  BY <1>1, ServicesInvariant, PTL
=============================================================================
