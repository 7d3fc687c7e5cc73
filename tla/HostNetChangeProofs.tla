------------------------ MODULE HostNetChangeProofs ------------------------
(***************************************************************************)
(* Network changes are transactions, for any number of changes and         *)
(* crashes, as long as the host carries out the rollbacks it is asked for. *)
(***************************************************************************)
EXTENDS HostNetChange, TLAPS

(***************************************************************************)
(* The pending change and its file are the same while App Runner runs.     *)
(***************************************************************************)
StoresAgree ==
    /\ at \in {"exited", "recovered"} => pending = None
    /\ at \notin {"exited", "recovered"} => pending = file
    /\ at \in {"snapshot"} => pending = None /\ change \in ChangeTypes
    /\ at \in {"apply", "undo", "revert", "clear"} => pending # None
    /\ at = "apply" => change = pending.type

(***************************************************************************)
(* Given that rollbacks succeed, the file always holds the accepted        *)
(* network, and the network is the accepted one when there is no file or   *)
(* the rollback is over.                                                   *)
(***************************************************************************)
Transactional ==
    "restore" \notin Faults =>
        /\ file # None => file.snapshot = committed
        /\ file = None => net = committed
        /\ at \in {"clear", "recovered"} => net = committed

(***************************************************************************)
(* If files can be removed, too, a change that is pending is in effect.    *)
(***************************************************************************)
InEffect ==
    "restore" \notin Faults /\ "remove" \notin Faults =>
        (at = "idle" /\ pending # None => net = Target(pending.type))

IInv == TypeOK /\ StoresAgree /\ Transactional /\ InEffect

USE DEF Nets, ChangeTypes, Pending, None, Steps

(***************************************************************************)
(* Every change leads to a network.                                        *)
(***************************************************************************)
LEMMA TargetType == ASSUME NEW type PROVE Target(type) \in Nets
  BY DEF Target

(***************************************************************************)
(* A step that cannot fail succeeds.                                       *)
(***************************************************************************)
LEMMA OutcomeType ==
  ASSUME NEW fault, NEW ok \in Outcomes(fault)
  PROVE  ok \in BOOLEAN /\ (fault \notin Faults => ok)
  BY DEF Outcomes

(***************************************************************************)
(* A pending change is told apart from none.                               *)
(***************************************************************************)
LEMMA PendingIsSome == ASSUME NEW p \in Pending PROVE p # None /\ p.id # NoId
  BY HostNetAssumption

(***************************************************************************)
(* A provider call leaves a network behind.                                *)
(***************************************************************************)
LEMMA ReachType ==
  ASSUME NEW ok \in BOOLEAN, NEW target \in Nets, net \in Nets,
         Reach(ok, target)
  PROVE  net' \in Nets /\ (ok => net' = target)
  BY DEF Reach, HalfWay

(***************************************************************************)
(* A network without a pending change establishes the invariant.           *)
(***************************************************************************)
LEMMA InitInv == Init => IInv
<1> SUFFICES ASSUME Init PROVE IInv
  OBVIOUS
<1>1. crashes \in 0..MaxCrashes
  BY HostNetAssumption DEF Init
<1>2. TypeOK
  BY <1>1 DEF Init, TypeOK
<1>3. QED
  BY <1>2 DEF Init, IInv, StoresAgree, Transactional, InEffect

(***************************************************************************)
(* Requests, timers and the VM manager preserve the invariant.             *)
(***************************************************************************)
LEMMA RequestInv ==
  ASSUME IInv,
         \/ \E type \in ChangeTypes : Apply(type)
         \/ \E i \in Ids, removed \in Outcomes("remove") : Confirm(i, removed)
         \/ \E i \in Ids : Revert(i) \/ TimerFires(i) \/ RollbackAfterTimeout(i)
         \/ WorkloadRequest
         \/ WorkloadStops
  PROVE  IInv'
<1> USE DEF stores, clocks
<1> USE DEF IInv, TypeOK, StoresAgree, Transactional, InEffect
<1>1. ASSUME NEW type \in ChangeTypes, Apply(type) PROVE IInv'
  BY <1>1 DEF Apply
<1>2. ASSUME NEW i \in Ids, NEW removed \in Outcomes("remove"),
             Confirm(i, removed)
      PROVE  IInv'
  BY <1>2, OutcomeType DEF Confirm
<1>3. ASSUME NEW i \in Ids, Revert(i) PROVE IInv'
  BY <1>3, HostNetAssumption DEF Revert
<1>4. ASSUME NEW i \in Ids, TimerFires(i) PROVE IInv'
  BY <1>4 DEF TimerFires
<1>5. ASSUME NEW i \in Ids, RollbackAfterTimeout(i) PROVE IInv'
  BY <1>5, HostNetAssumption DEF RollbackAfterTimeout, StillPending
<1>6. CASE WorkloadRequest
  BY <1>6 DEF WorkloadRequest
<1>7. CASE WorkloadStops
  BY <1>7 DEF WorkloadStops
<1>8. QED BY <1>1, <1>2, <1>3, <1>4, <1>5, <1>6, <1>7

(***************************************************************************)
(* Every step of an operation that holds the mutex preserves it.           *)
(***************************************************************************)
LEMMA ProceedInv == ASSUME IInv, Proceed PROVE IInv'
<1> USE DEF stores, clocks
<1>1. CASE Refused
  BY <1>1 DEF Refused, IInv, TypeOK, StoresAgree, Transactional, InEffect
<1>2. ASSUME NEW saved \in Outcomes("save"), NEW i \in Ids,
             SavePending(i, saved)
      PROVE  IInv'
  <2> DEFINE p == [id |-> i, type |-> change, snapshot |-> net]
  <2>1. p \in Pending /\ p # None
    BY <1>2, PendingIsSome DEF SavePending, IInv, TypeOK, StoresAgree
  <2>2. saved \in BOOLEAN
    BY OutcomeType
  <2>3. CASE saved
    BY <1>2, <2>1, <2>3 DEF SavePending, FileAfter, IInv, TypeOK, StoresAgree,
       Transactional, InEffect
  <2>4. CASE ~saved
    BY <1>2, <2>4 DEF SavePending, FileAfter, IInv, TypeOK, StoresAgree,
       Transactional, InEffect
  <2>5. QED BY <2>2, <2>3, <2>4
<1>3. ASSUME NEW ok \in Outcomes("apply"), ProviderApply(ok) PROVE IInv'
  <2>1. ok \in BOOLEAN /\ Target(change) \in Nets
    BY OutcomeType, TargetType
  <2>2. net' \in Nets /\ (ok => net' = Target(change))
    BY <1>3, <2>1, ReachType DEF ProviderApply, IInv, TypeOK
  <2>3. pending \in Pending
    BY <1>3 DEF ProviderApply, IInv, TypeOK, StoresAgree
  <2>4. QED
    BY <1>3, <2>1, <2>2, <2>3 DEF ProviderApply, Armed, IInv, TypeOK,
       StoresAgree, Transactional, InEffect
<1>4. ASSUME NEW ok \in Outcomes("restore"), UndoApply(ok) \/ Restore(ok)
      PROVE  IInv'
  <2>1. ok \in BOOLEAN /\ ("restore" \notin Faults => ok)
    BY OutcomeType
  <2>2. pending \in Pending
    BY <1>4 DEF UndoApply, Restore, IInv, TypeOK, StoresAgree
  <2>3. net' \in Nets /\ (ok => net' = pending.snapshot)
    BY <1>4, <2>1, <2>2, ReachType DEF UndoApply, Restore, IInv, TypeOK
  <2>4. QED
    BY <1>4, <2>1, <2>2, <2>3 DEF UndoApply, Restore, IInv, TypeOK,
       StoresAgree, Transactional, InEffect
<1>5. ASSUME NEW removed \in Outcomes("remove"), Clear(removed) PROVE IInv'
  BY <1>5, OutcomeType DEF Clear, ClearedPending, IInv, TypeOK, StoresAgree,
     Transactional, InEffect
<1>6. QED BY <1>1, <1>2, <1>3, <1>4, <1>5 DEF Proceed

(***************************************************************************)
(* A crash between any two steps and the recovery preserve it.             *)
(***************************************************************************)
LEMMA CrashInv == ASSUME IInv, Crash \/ Startup PROVE IInv'
<1> USE DEF stores, clocks
<1>1. CASE Crash
  <2>1. crashes' \in 0..MaxCrashes
    BY <1>1, HostNetAssumption DEF Crash, IInv, TypeOK
  <2>2. net' \in Nets
    BY <1>1 DEF Crash, HalfWay, IInv, TypeOK
  <2>3. at \notin {"apply", "undo", "revert"} => net' = net
    BY <1>1 DEF Crash, Goal, HalfWay, IInv, TypeOK
  <2>4. at \in {"apply", "undo", "revert"} => file # None
    BY DEF IInv, StoresAgree
  <2>5. QED
    BY <1>1, <2>1, <2>2, <2>3, <2>4 DEF Crash, IInv, TypeOK, StoresAgree,
       Transactional, InEffect
<1>2. ASSUME NEW ok \in Outcomes("restore"), Recover(ok) PROVE IInv'
  <2>1. ok \in BOOLEAN /\ ("restore" \notin Faults => ok)
    BY OutcomeType
  <2>2. CASE file = None
    BY <1>2, <2>2 DEF Recover, IInv, TypeOK, StoresAgree, Transactional,
       InEffect
  <2>3. CASE file # None
    <3>1. net' \in Nets /\ (ok => net' = file.snapshot)
      BY <1>2, <2>1, <2>3, ReachType DEF Recover, RecoveredNet, IInv, TypeOK
    <3>2. QED
      BY <1>2, <2>1, <2>3, <3>1 DEF Recover, IInv, TypeOK, StoresAgree,
         Transactional, InEffect
  <2>4. QED BY <2>2, <2>3
<1>3. ASSUME NEW removed \in Outcomes("remove"), FinishRecover(removed)
      PROVE  IInv'
  BY <1>3, OutcomeType DEF FinishRecover, IInv, TypeOK, StoresAgree,
     Transactional, InEffect
<1>4. QED BY <1>1, <1>2, <1>3 DEF Startup

(***************************************************************************)
(* The invariant holds in every state of every behaviour.                  *)
(***************************************************************************)
THEOREM InvariantHolds == Spec => []IInv
<1>1. IInv /\ [Next]_vars => IInv'
  <2> SUFFICES ASSUME IInv, [Next]_vars PROVE IInv'
    OBVIOUS
  <2>1. CASE Next
    BY <2>1, RequestInv, ProceedInv, CrashInv DEF Next
  <2>2. CASE UNCHANGED vars
    BY <2>2 DEF vars, stores, clocks, IInv, TypeOK, StoresAgree,
       Transactional, InEffect
  <2>3. QED BY <2>1, <2>2
<1>2. QED BY InitInv, <1>1, PTL DEF Spec

(***************************************************************************)
(* As long as rollbacks succeed, a crash anywhere can be undone.           *)
(***************************************************************************)
THEOREM ChangesAreRecoverable ==
  ASSUME "restore" \notin Faults PROVE Spec => []ChangeIsRecoverable
<1>1. IInv => ChangeIsRecoverable
  BY DEF IInv, Transactional, ChangeIsRecoverable
<1>2. QED BY <1>1, InvariantHolds, PTL

(***************************************************************************)
(* As long as rollbacks succeed, an idle host has the accepted network.    *)
(***************************************************************************)
THEOREM SettledIsAlwaysAccepted ==
  ASSUME "restore" \notin Faults PROVE Spec => []SettledIsAccepted
<1>1. IInv => SettledIsAccepted
  BY DEF IInv, StoresAgree, Transactional, SettledIsAccepted
<1>2. QED BY <1>1, InvariantHolds, PTL

(***************************************************************************)
(* A confirmed change is in effect if rollbacks and removals succeed.      *)
(***************************************************************************)
THEOREM ConfirmedChangesAreInEffect ==
  ASSUME "restore" \notin Faults, "remove" \notin Faults
  PROVE  Spec => ConfirmedIsInEffect
<1> DEFINE Effective ==
      at = "idle" /\ at' = "idle" /\ pending # None /\ pending' = None =>
        net' = Target(pending.type)
<1>1. ASSUME IInv, [Next]_vars PROVE [Effective]_vars
  <2>1. ASSUME NEW i \in Ids, NEW removed \in Outcomes("remove"),
               Confirm(i, removed)
        PROVE  net' = net
    BY <2>1 DEF Confirm
  <2>2. CASE \/ \E type \in ChangeTypes : Apply(type)
             \/ \E i \in Ids : \/ Revert(i) \/ TimerFires(i)
                               \/ RollbackAfterTimeout(i)
             \/ WorkloadRequest \/ WorkloadStops \/ UNCHANGED vars
    BY <2>2 DEF Apply, Revert, TimerFires, RollbackAfterTimeout,
       WorkloadRequest, WorkloadStops, vars, stores
  <2>3. CASE Proceed \/ Crash \/ Startup
    BY <2>3 DEF Proceed, Refused, SavePending, ProviderApply, UndoApply,
       Restore, Clear, Crash, Startup, Recover, FinishRecover
  <2>4. QED BY <1>1, <2>1, <2>2, <2>3 DEF Next, IInv, InEffect
<1>2. QED BY <1>1, InvariantHolds, PTL DEF Spec, ConfirmedIsInEffect

(***************************************************************************)
(* A timeout never rolls back a later change, whatever fails.              *)
(***************************************************************************)
THEOREM TimeoutsHitTheirOwnChange == Spec => TimeoutHitsItsOwnChange
<1> DEFINE Own == \A i \in due \ due' : at' = "revert" => pending.id = i
<1>1. ASSUME IInv, [Next]_vars PROVE [Own]_vars
  <2>1. ASSUME NEW i \in Ids, RollbackAfterTimeout(i) PROVE Own
    BY <2>1 DEF RollbackAfterTimeout, StillPending
  <2>2. CASE \/ \E type \in ChangeTypes : Apply(type)
             \/ \E i \in Ids, removed \in Outcomes("remove") :
                    Confirm(i, removed)
             \/ \E i \in Ids : Revert(i) \/ TimerFires(i)
             \/ WorkloadRequest \/ WorkloadStops \/ UNCHANGED vars
    BY <2>2 DEF Apply, Confirm, Revert, TimerFires, WorkloadRequest,
       WorkloadStops, vars, clocks
  <2>3. CASE Proceed \/ Startup
    BY <2>3 DEF Proceed, Refused, SavePending, ProviderApply, UndoApply,
       Restore, Clear, Startup, Recover, FinishRecover, clocks
  <2>4. CASE Crash
    BY <2>4 DEF Crash
  <2>5. QED BY <1>1, <2>1, <2>2, <2>3, <2>4 DEF Next
<1>2. QED BY <1>1, InvariantHolds, PTL DEF Spec, TimeoutHitsItsOwnChange

(***************************************************************************)
(* As long as rollbacks succeed, the manager implements NetTransaction.    *)
(***************************************************************************)
THEOREM ImplementsTransaction ==
  ASSUME "restore" \notin Faults PROVE Spec => IsTransactional
<1> USE DEF stores
<1>1. Init => T!Init
  BY DEF Init, T!Init
<1>2. ASSUME IInv, IInv', [Next]_vars PROVE [T!Next]_(T!vars)
  <2> USE DEF T!Next, T!vars
  <2>1. CASE \/ \E type \in ChangeTypes : Apply(type)
             \/ \E i \in Ids : \/ Revert(i) \/ TimerFires(i)
                               \/ RollbackAfterTimeout(i)
             \/ Refused \/ WorkloadRequest \/ WorkloadStops
             \/ UNCHANGED vars
    BY <2>1 DEF Apply, Revert, TimerFires, RollbackAfterTimeout, Refused,
       WorkloadRequest, WorkloadStops, vars
  <2>2. ASSUME NEW saved \in Outcomes("save"), NEW i \in Ids,
               SavePending(i, saved)
        PROVE  [T!Next]_(T!vars)
    <3>1. file = None /\ UNCHANGED <<net, committed>>
      BY <1>2, <2>2 DEF SavePending, IInv, StoresAgree
    <3>2. CASE file' = file
      BY <3>1, <3>2
    <3>3. CASE file' # file
      BY <3>1, <3>3 DEF T!Begin
    <3>4. QED BY <3>2, <3>3
  <2>3. ASSUME \/ \E ok \in Outcomes("apply") : ProviderApply(ok)
               \/ \E ok \in Outcomes("restore") : UndoApply(ok) \/ Restore(ok)
        PROVE  T!Move
    <3>1. file # None /\ UNCHANGED <<file, committed>>
      BY <1>2, <2>3 DEF ProviderApply, UndoApply, Restore, IInv, StoresAgree
    <3>2. net' \in Nets
      BY <1>2 DEF IInv, TypeOK
    <3>3. QED BY <3>1, <3>2 DEF T!Move
  <2>4. ASSUME NEW removed \in Outcomes("remove"),
               Clear(removed) \/ FinishRecover(removed)
        PROVE  [T!Next]_(T!vars)
    <3>1. net = committed /\ UNCHANGED <<net, committed>>
      BY <1>2, <2>4 DEF Clear, FinishRecover, IInv, Transactional
    <3>2. file' = None \/ file' = file
      BY <2>4 DEF Clear, FinishRecover
    <3>3. QED BY <3>1, <3>2 DEF T!RollBack
  <2>5. ASSUME NEW i \in Ids, NEW removed \in Outcomes("remove"),
               Confirm(i, removed)
        PROVE  [T!Next]_(T!vars)
    <3>1. file # None
      BY <1>2, <2>5, HostNetAssumption DEF Confirm, IInv, StoresAgree
    <3>2. QED BY <2>5, <3>1 DEF Confirm, T!Accept
  <2>6. CASE Crash
    <3>1. file' = file /\ committed' = committed /\ net' \in Nets
      BY <1>2, <2>6 DEF Crash, IInv, TypeOK
    <3>2. CASE file # None
      BY <3>1, <3>2 DEF T!Move
    <3>3. CASE file = None
      <4>1. net' = net
        BY <1>2, <3>1, <3>3 DEF IInv, Transactional
      <4>2. QED BY <3>1, <4>1
    <3>4. QED BY <3>2, <3>3
  <2>7. ASSUME NEW ok \in Outcomes("restore"), Recover(ok)
        PROVE  [T!Next]_(T!vars)
    <3>1. file' = file /\ committed' = committed /\ net' \in Nets
      BY <1>2, <2>7 DEF Recover, IInv, TypeOK
    <3>2. CASE file # None
      BY <3>1, <3>2 DEF T!Move
    <3>3. CASE file = None
      BY <2>7, <3>1, <3>3 DEF Recover
    <3>4. QED BY <3>2, <3>3
  <2>8. QED
    BY <1>2, <2>1, <2>2, <2>3, <2>4, <2>5, <2>6, <2>7 DEF Next, Proceed,
       Startup
<1>3. QED
  BY <1>1, <1>2, InvariantHolds, PTL DEF Spec, IsTransactional, T!Spec
=============================================================================
