-------------------------- MODULE LinuxLinksProofs --------------------------
(***************************************************************************)
(* The Linux provider undoes what it did, for any number of interfaces,    *)
(* addresses and routes, wherever Apply or Restore is stopped.             *)
(***************************************************************************)
EXTENDS LinuxLinks, TLAPS

-----------------------------------------------------------------------------
(***************************************************************************)
(* The invariant.  What is known of a change while it is in progress: what *)
(* was saved is how the links were.                                        *)
(***************************************************************************)
SnapshotInv ==
    phase # "idle" =>
        /\ snapshot.change \in ChangeTypes
        /\ snapshot.member \in IF snapshot.change \in MemberChanges
                               THEN Members ELSE {NoInterface}
        /\ snapshot.saved = [l \in Touched(snapshot.member) |-> before[l]]
        /\ Possible(before)
        /\ (snapshot.change = "create") <=> ~before[Bridge].exists

(***************************************************************************)
(* Whatever has happened since, in any order: other interfaces are as they *)
(* were, a bridge that is kept is there, attaching and detaching leave the *)
(* links up or down, and a route is on a link it was saved from or has     *)
(* been moved to.                                                          *)
(***************************************************************************)
MovedRoutes(l) ==
    IF \/ snapshot.change = "attachMigrate" /\ l = Bridge
       \/ snapshot.change = "detachMigrate" /\ l = snapshot.member
    THEN before[Other(l)].routes ELSE {}

ChangedInv ==
    phase # "idle" =>
        /\ \A l \in Members \ {snapshot.member} : net[l] = before[l]
        /\ snapshot.change \notin {"create", "delete"} => net[Bridge].exists
        /\ snapshot.change = "setUp" /\ before[Bridge].up => net[Bridge].up
        /\ snapshot.change \in MemberChanges =>
            \A l \in {Bridge, snapshot.member} : net[l].up = before[l].up
        /\ \A l \in Touched(snapshot.member) :
            net[l].routes \subseteq before[l].routes \cup MovedRoutes(l)

(***************************************************************************)
(* Where Apply stands tells what it has done: nothing before its first     *)
(* call, then the addresses and routes are where they were but for those   *)
(* that are being moved.                                                   *)
(***************************************************************************)
Kept(l) == net[l].addrs = before[l].addrs /\ net[l].routes = before[l].routes
Emptied(l) == net[l].addrs = {} /\ net[l].routes = {}
Received(l, c) ==
    /\ net[l].addrs = before[l].addrs
                        \cup (before[Other(l)].addrs \ c.addrs)
    /\ net[l].routes = before[l].routes
                        \cup (before[Other(l)].routes \ c.routes)

Source == IF snapshot.change = "attachMigrate" THEN snapshot.member
                                               ELSE Bridge

\* Whether everything has been moved.
Moved == Migrates /\ (step.op = "done" \/ step.op = "setNoMaster")

ApplyInv ==
    LET l == step.link
        at(ops) == step.op \in ops
    IN  phase = "apply" =>
        /\ at(Calls \cup {"refuse", "read", "remove", "add", "done"})
        /\ at({"linkAdd", "linkDel", "up", "down", "refuse", "done"}) =>
            l = Bridge
        /\ at({"setMaster", "setNoMaster"}) => l = snapshot.member
        /\ at({"read", "remove"}) => Migrates /\ l = Source
        /\ at({"add"}) => Migrates /\ l = Other(Source)
        /\ at({"linkAdd"}) => snapshot.change = "create"
        /\ at({"linkDel"}) => /\ snapshot.change = "delete"
                              /\ \A m \in Members : ~net[m].attached
        /\ at({"up"}) => snapshot.change \in {"create", "setUp"}
        /\ at({"down"}) => snapshot.change = "setDown"
        /\ at({"setMaster"}) => snapshot.change \in {"attach", "attachMigrate"}
        /\ at({"setNoMaster"}) => snapshot.change \in {"detach", "detachMigrate"}

MovingInv ==
    (phase = "apply" \/ phase = "pending") /\ snapshot.change \in MemberChanges
    /\ step.op # "refuse" =>
        LET target == Other(Source)
        IN  /\ ~Migrates \/ step.op \in {"setMaster", "read"} =>
                Kept(Bridge) /\ Kept(snapshot.member)
            /\ step.op = "remove" =>
                /\ config.addrs = before[Source].addrs
                /\ config.routes = before[Source].routes
                /\ Kept(target)
            /\ step.op = "add" =>
                /\ config.addrs \subseteq before[Source].addrs
                /\ config.routes \subseteq before[Source].routes
                /\ Emptied(Source)
                /\ Received(target, config)
            /\ Moved => Emptied(Source) /\ Received(target, Nothing)

(***************************************************************************)
(* Where Restore stands tells what it has brought back.  Routes are the    *)
(* saved ones unless a detach moved some of them to the member, which is   *)
(* restored last.                                                          *)
(***************************************************************************)
Exact == ~RouteMovedAway
RestoreOps == {"exist", "master", "remove", "add", "flag", "done"}

RestoreInv ==
    LET l == step.link
        at(ops) == step.op \in ops
    IN  phase = "restore" =>
        /\ at(RestoreOps)
        /\ l \in Touched(snapshot.member)
        /\ at({"exist", "done"}) => l = Bridge
        /\ ~at({"exist"}) => net[Bridge].exists = before[Bridge].exists
        /\ at({"master", "remove", "add", "flag"}) => before[Bridge].exists
        /\ at({"remove", "add", "flag"}) =>
            net[l].attached = before[l].attached
        /\ at({"remove"}) => /\ config.addrs = before[l].addrs
                             /\ config.routes = before[l].routes
        /\ at({"flag"}) => config = Nothing
        /\ at({"add", "flag"}) =>
            /\ config.addrs \subseteq before[l].addrs
            /\ config.routes \subseteq before[l].routes
            /\ config.addrs # {} => config.routes = before[l].routes
            /\ net[l].addrs = before[l].addrs \ config.addrs
            /\ Exact => net[l].routes = before[l].routes \ config.routes
        /\ l \in Members /\ Exact => net[Bridge] = before[Bridge]
        /\ at({"done"}) /\ Exact => net = before

RestoredInv ==
    /\ phase = "restored" /\ Exact => net = before
    /\ phase = "failed" => RoutedBridgeTakenDown
    /\ phase \notin {"apply", "restore"} => step = Done

IInv == /\ TypeOK /\ SnapshotInv /\ ChangedInv /\ ApplyInv /\ MovingInv
        /\ RestoreInv /\ RestoredInv

-----------------------------------------------------------------------------
(***************************************************************************)
(* What the kernel answers keeps a network possible.                       *)
(***************************************************************************)
LEMMA LinkChanges ==
    ASSUME TypeOK, NEW l \in Links, NEW new \in Link,
           net' = [net EXCEPT ![l] = new],
           new.exists,
           new.attached => l # Bridge /\ net[Bridge].exists,
           new.routes # {} => new.up /\ new.addrs # {},
           \A k \in Links \ {l} : new.routes \cap net[k].routes = {}
    PROVE  /\ net' \in [Links -> Link] /\ Possible(net)'
           /\ net'[l] = new
           /\ \A k \in Links \ {l} : net'[k] = net[k]
<1>1. /\ net' \in [Links -> Link]
      /\ net'[l] = new
      /\ \A k \in Links \ {l} : net'[k] = net[k]
  BY DEF TypeOK
<1>2. ASSUME NEW k \in Links
      PROVE  /\ net'[k].routes # {} => net'[k].up /\ net'[k].addrs # {}
             /\ \A j \in Links \ {k} : net'[k].routes \cap net'[j].routes = {}
  <2>1. CASE k = l
    BY <1>1, <2>1
  <2>2. CASE k # l
    <3>1. ASSUME NEW j \in Links \ {k}
          PROVE  net'[k].routes \cap net'[j].routes = {}
      <4>1. CASE j = l
        BY <1>1, <2>2, <4>1
      <4>2. CASE j # l
        BY <1>1, <2>2, <4>2 DEF TypeOK, Possible
      <4>3. QED BY <4>1, <4>2
    <3>2. QED BY <1>1, <2>2, <3>1 DEF TypeOK, Possible
  <2>3. QED BY <2>1, <2>2
<1>3. ~net'[Bridge].attached /\ (net'[Bridge].exists \/ net'[Bridge] = Missing)
  BY <1>1 DEF TypeOK, Possible, Links
<1>4. ASSUME NEW m \in Members
      PROVE  net'[m].exists /\ (net'[m].attached => net'[Bridge].exists)
  BY <1>1 DEF TypeOK, Possible, Links
<1>5. QED BY <1>1, <1>2, <1>3, <1>4 DEF Possible

LEMMA CallChanges ==
    ASSUME TypeOK, NEW l \in Links, NEW call \in Calls \ {"linkDel"},
           net' = NetAfter(call, l),
           call # "linkAdd" => net[l].exists,
           call = "setMaster" => l # Bridge /\ net[Bridge].exists
    PROVE  /\ net' \in [Links -> Link] /\ Possible(net)'
           /\ net'[l] = LinkAfter(call, net[l])
           /\ net'[l].exists
           /\ \A k \in Links \ {l} : net'[k] = net[k]
<1> DEFINE new == LinkAfter(call, net[l])
<1>1. net[l] \in Link
  BY DEF TypeOK
<1>2. /\ new \in Link /\ new.exists
      /\ new.attached => net[l].attached \/ call = "setMaster"
      /\ new.routes # {} => new.up /\ new.addrs # {}
      /\ new.routes \subseteq net[l].routes
  BY <1>1 DEF LinkAfter, Calls, Link, Missing, TypeOK, Possible
<1>3. net' = [net EXCEPT ![l] = new]
  BY DEF NetAfter
<1>4. \A k \in Links \ {l} : new.routes \cap net[k].routes = {}
  BY <1>2 DEF TypeOK, Possible
<1>5. new.attached => l # Bridge /\ net[Bridge].exists
  BY <1>2 DEF TypeOK, Possible, Links
<1> HIDE DEF new
<1>6. QED BY <1>2, <1>3, <1>4, <1>5, LinkChanges DEF new

LEMMA BridgeGoes ==
    ASSUME TypeOK, net' = NetAfter("linkDel", Bridge)
    PROVE  /\ net' \in [Links -> Link] /\ Possible(net)'
           /\ net'[Bridge] = Missing
           /\ \A m \in Members : /\ net'[m].routes = net[m].routes
                                 /\ ~net[m].attached => net'[m] = net[m]
<1>1. /\ Bridge \in Links /\ Members \subseteq Links
      /\ \A m \in Members : m # Bridge
      /\ Missing \in Link
  BY LinksAssumption DEF Links, Missing, Link
<1>2. /\ net' \in [Links -> Link]
      /\ net'[Bridge] = Missing
      /\ \A m \in Members : net'[m] = [net[m] EXCEPT !.attached = FALSE]
  <2>1. net' = [k \in Links |-> IF k = Bridge THEN Missing
                                ELSE [net[k] EXCEPT !.attached = FALSE]]
    BY DEF NetAfter
  <2>2. \A k \in Links : [net[k] EXCEPT !.attached = FALSE] \in Link
    BY DEF TypeOK, Link
  <2>3. QED BY <1>1, <2>1, <2>2
<1>3. ASSUME NEW m \in Members
      PROVE  /\ net'[m].exists = net[m].exists
             /\ net'[m].up = net[m].up
             /\ net'[m].addrs = net[m].addrs
             /\ net'[m].routes = net[m].routes
             /\ ~net'[m].attached
             /\ ~net[m].attached => net'[m] = net[m]
  <2> DEFINE old == net[m]
  <2>1. old \in Link /\ net'[m] = [old EXCEPT !.attached = FALSE]
    BY <1>1, <1>2 DEF TypeOK
  <2> HIDE DEF old
  <2>2. ~old.attached => [old EXCEPT !.attached = FALSE] = old
    BY <2>1 DEF Link
  <2>3. QED BY <2>1, <2>2 DEF Link, old
<1>4. ASSUME NEW k \in Links
      PROVE  /\ net'[k].routes # {} => net'[k].up /\ net'[k].addrs # {}
             /\ \A j \in Links \ {k} : net'[k].routes \cap net'[j].routes = {}
  <2>1. \A j \in Links : net'[j].routes \subseteq net[j].routes
    BY <1>2, <1>3 DEF Links, Missing
  <2>2. net'[k].routes # {} => net'[k].up /\ net'[k].addrs # {}
    BY <1>2, <1>3 DEF TypeOK, Possible, Links, Missing
  <2>3. QED BY <2>1, <2>2 DEF TypeOK, Possible
<1>5. Possible(net)'
  BY <1>2, <1>3, <1>4 DEF Possible, Missing, TypeOK
<1>6. QED BY <1>2, <1>3, <1>5

-----------------------------------------------------------------------------
(***************************************************************************)
(* What the invariant says of a change in progress, and what is left to    *)
(* show of a step that goes on with it.                                    *)
(***************************************************************************)
LEMMA InProgress ==
    ASSUME IInv, phase # "idle"
    PROVE  /\ before \in [Links -> Link] /\ net \in [Links -> Link]
           /\ Possible(before) /\ Possible(net)
           /\ snapshot.change \in ChangeTypes
           /\ snapshot.change \in MemberChanges =>
                /\ snapshot.member \in Members
                /\ Touched(snapshot.member) = {Bridge, snapshot.member}
           /\ snapshot.change \in BridgeChanges =>
                /\ snapshot.member \notin Members
                /\ Touched(snapshot.member) = {Bridge}
           /\ Touched(snapshot.member) \subseteq Links
           /\ \A l \in Touched(snapshot.member) :
                snapshot.saved[l] = before[l]
           /\ (snapshot.change = "create") <=> ~before[Bridge].exists
           /\ Bridge \in Links /\ Bridge \notin Members
           /\ Members \subseteq Links
BY LinksAssumption
DEF IInv, TypeOK, SnapshotInv, Touched, Links, ChangeTypes, BridgeChanges,
    MemberChanges

LEMMA StepTypes ==
    ASSUME NEW op \in Calls \cup {"refuse", "read", "remove", "add", "exist",
                                  "master", "flag", "done"},
           NEW l \in Links
    PROVE  Do(op, l) \in Step /\ Do(op, l).op = op /\ Do(op, l).link = l
BY DEF Do, Step

LEMMA ChangedLink ==
    ASSUME IInv, phase # "idle", UNCHANGED <<snapshot, before>>,
           NEW l \in Touched(snapshot.member),
           \A k \in Links \ {l} : net'[k] = net[k],
           net'[l].exists,
           snapshot.change \in MemberChanges => net'[l].up = before[l].up,
           snapshot.change = "setUp" /\ before[Bridge].up => net'[l].up,
           net'[l].routes \subseteq before[l].routes \cup MovedRoutes(l)
    PROVE  ChangedInv'
<1> DEFINE m == snapshot.member
<1>0. l \in Links /\ Bridge \in Links /\ Members \subseteq Links
  BY InProgress
<1>1. \A k \in Members \ {m} : net'[k] = before[k]
  <2>1. \A k \in Members \ {m} : k # l /\ net[k] = before[k]
    BY InProgress DEF IInv, ChangedInv, Touched
  <2>2. QED BY <1>0, <2>1
<1>2. snapshot.change \notin {"create", "delete"} => net'[Bridge].exists
  BY <1>0 DEF IInv, ChangedInv
<1>3. snapshot.change = "setUp" /\ before[Bridge].up => net'[Bridge].up
  BY <1>0 DEF IInv, ChangedInv
<1>4. snapshot.change \in MemberChanges =>
        \A k \in {Bridge, m} : net'[k].up = before[k].up
  BY <1>0, InProgress DEF IInv, ChangedInv
<1>5. \A k \in Touched(m) :
        net'[k].routes \subseteq before[k].routes \cup MovedRoutes(k)
  BY <1>0, InProgress DEF IInv, ChangedInv
<1>6. QED
  BY <1>1, <1>2, <1>3, <1>4, <1>5 DEF ChangedInv, Touched, MovedRoutes, Other

LEMMA ApplyGoesOn ==
    ASSUME IInv, phase = "apply", phase' = "apply",
           UNCHANGED <<snapshot, before>>,
           net' \in [Links -> Link], Possible(net)',
           step' \in Step, config' \in Config,
           ChangedInv', ApplyInv', MovingInv'
    PROVE  IInv'
BY DEF IInv, TypeOK, SnapshotInv, Phases, RestoreInv, RestoredInv, Touched

LEMMA RestoreGoesOn ==
    ASSUME IInv, phase = "restore", phase' = "restore",
           UNCHANGED <<snapshot, before>>,
           net' \in [Links -> Link], Possible(net)',
           step' \in Step, config' \in Config,
           ChangedInv', RestoreInv'
    PROVE  IInv'
BY DEF IInv, TypeOK, SnapshotInv, Phases, ApplyInv, MovingInv, RestoredInv,
       Touched

-----------------------------------------------------------------------------
(***************************************************************************)
(* The calls of Apply that change a link itself.                           *)
(***************************************************************************)
LEMMA LinkCallPreserves ==
    ASSUME IInv, LinkCall
    PROVE  IInv'
<1> DEFINE l == step.link
           m == snapshot.member
           change == snapshot.change
<1>0. TypeOK
  BY DEF IInv
<1>1. PICK call \in Calls : /\ phase \in {"apply", "restore"}
                            /\ step.op = call /\ ~Fails
                            /\ net' = NetAfter(call, l)
  BY DEF LinkCall, Runs
<1>2. phase = "apply"
  BY <1>1 DEF IInv, RestoreInv, RestoreOps, Calls
<1>3. /\ phase' = "apply" /\ config' = config
      /\ UNCHANGED <<snapshot, before>>
      /\ step' = AfterApply(call, l)
  BY <1>1, <1>2 DEF LinkCall, Proceed, Following
<1>4. /\ l \in Links /\ config' \in Config
      /\ call # "linkAdd" => net[l].exists
      /\ call = "setMaster" => net[Bridge].exists
  BY <1>1, <1>3 DEF IInv, TypeOK, Step, Fails, Calls
<1>5. /\ call \in {"linkAdd", "linkDel", "up", "down"} => l = Bridge
      /\ call \in {"setMaster", "setNoMaster"} => l = m
      /\ call = "linkAdd" => change = "create"
      /\ call = "linkDel" => /\ change = "delete"
                             /\ \A k \in Members : ~net[k].attached
      /\ call = "up" => change \in {"create", "setUp"}
      /\ call = "down" => change = "setDown"
      /\ call = "setMaster" => change \in {"attach", "attachMigrate"}
      /\ call = "setNoMaster" => change \in {"detach", "detachMigrate"}
  BY <1>1, <1>2 DEF IInv, ApplyInv
<1>6. CASE call = "linkDel"
  <2>1. /\ net' \in [Links -> Link] /\ Possible(net)'
        /\ net'[Bridge] = Missing
        /\ \A k \in Members : net'[k] = net[k]
    BY <1>0, <1>1, <1>5, <1>6, BridgeGoes
  <2>2. step' = Done /\ step' \in Step
    <3>1. step' = Done
      BY <1>3, <1>6 DEF AfterApply
    <3>2. QED BY <1>2, <3>1, InProgress DEF Step, Do, Done
  <2>3. ChangedInv'
    <3>1. /\ change = "delete" /\ change \in BridgeChanges
          /\ change \notin MemberChanges /\ Touched(m) = {Bridge}
      BY <1>2, <1>5, <1>6, InProgress DEF BridgeChanges, MemberChanges
    <3>2. \A k \in Members \ {m} : net'[k] = before[k]
      BY <1>2, <2>1 DEF IInv, ChangedInv
    <3>3. net'[Bridge].routes = {}
      BY <2>1 DEF Missing
    <3>4. QED BY <1>3, <3>1, <3>2, <3>3 DEF ChangedInv, Touched
  <2>4. ApplyInv' /\ MovingInv'
    BY <1>3, <1>5, <1>6, <2>2, StepTypes
    DEF ApplyInv, MovingInv, MemberChanges, Done, Do
  <2>5. QED BY <1>2, <1>3, <1>4, <2>1, <2>2, <2>3, <2>4, ApplyGoesOn
<1>7. CASE call # "linkDel"
  <2>1. /\ net' \in [Links -> Link] /\ Possible(net)'
        /\ net'[l] = LinkAfter(call, net[l])
        /\ net'[l].exists
        /\ \A k \in Links \ {l} : net'[k] = net[k]
    <3>1. call = "setMaster" => l # Bridge
      BY <1>2, <1>5, InProgress DEF MemberChanges
    <3>2. call \in Calls \ {"linkDel"}
      BY <1>7
    <3>3. net' = NetAfter(call, l)
      BY <1>1
    <3> HIDE DEF l
    <3>4. QED BY <1>0, <1>4, <3>1, <3>2, <3>3, CallChanges
  <2>2. l \in Touched(m) /\ net[l] \in Link
    <3>1. l = Bridge \/ (change \in MemberChanges /\ l = m)
      <4>1. CASE call \in {"linkAdd", "up", "down"}
        BY <1>5, <4>1
      <4>2. CASE call \in {"setMaster", "setNoMaster"}
        BY <1>5, <4>2 DEF MemberChanges
      <4>3. QED BY <1>7, <4>1, <4>2 DEF Calls
    <3>2. l \in Touched(m)
      BY <1>2, <3>1, InProgress DEF Touched
    <3>3. QED BY <1>0, <1>4, <3>2 DEF TypeOK
  <2>3. /\ net'[l].routes \subseteq net[l].routes
        /\ call \in {"setMaster", "setNoMaster"} =>
             /\ net'[l].addrs = net[l].addrs
             /\ net'[l].routes = net[l].routes
             /\ net'[l].up = net[l].up
        /\ call = "up" => net'[l].up
    <3>1. CASE call = "linkAdd"
      BY <2>1, <3>1 DEF LinkAfter, Missing
    <3>2. CASE call = "up"
      BY <2>1, <2>2, <3>2 DEF LinkAfter, Link
    <3>3. CASE call = "down"
      BY <2>1, <2>2, <3>3 DEF LinkAfter, Link
    <3>4. CASE call = "setMaster"
      BY <2>1, <2>2, <3>4 DEF LinkAfter, Link
    <3>5. CASE call = "setNoMaster"
      BY <2>1, <2>2, <3>5 DEF LinkAfter, Link
    <3>6. QED BY <1>7, <3>1, <3>2, <3>3, <3>4, <3>5 DEF Calls
  <2>4. ChangedInv'
    <3>1. change \in MemberChanges => net'[l].up = before[l].up
      BY <1>2, <1>5, <2>3, InProgress
      DEF IInv, ChangedInv, MemberChanges, Calls
    <3>2. change = "setUp" => net'[l].up
      BY <1>5, <1>7, <2>3 DEF Calls
    <3>3. net'[l].routes \subseteq before[l].routes \cup MovedRoutes(l)
      BY <1>2, <2>2, <2>3 DEF IInv, ChangedInv
    <3>4. QED BY <1>2, <1>3, <2>1, <2>2, <3>1, <3>2, <3>3, ChangedLink
  <2>5. /\ step' = IF call = "linkAdd" THEN Do("up", l)
                  ELSE IF call = "setMaster" /\ Migrates THEN Do("read", l)
                  ELSE Done
        /\ step' \in Step
    <3>1. step' = IF call = "linkAdd" THEN Do("up", l)
                  ELSE IF call = "setMaster" /\ Migrates THEN Do("read", l)
                  ELSE Done
      <4>1. call \notin {"linkDel", "read", "remove", "add"}
        BY <1>7 DEF Calls
      <4>2. QED BY <1>3, <4>1 DEF AfterApply
    <3>2. Done \in Step /\ Do("up", l) \in Step /\ Do("read", l) \in Step
      BY <1>2, <1>4, InProgress DEF Step, Do, Done, Calls
    <3>3. QED BY <3>1, <3>2
  <2>6. ApplyInv'
    <3>1. CASE call = "linkAdd"
      BY <1>3, <1>5, <2>5, <3>1 DEF ApplyInv, Do, Calls
    <3>2. CASE call = "setMaster" /\ Migrates
      BY <1>3, <1>5, <2>5, <3>2 DEF ApplyInv, Do, Migrates, Source
    <3>3. CASE call # "linkAdd" /\ ~(call = "setMaster" /\ Migrates)
      BY <1>3, <2>5, <3>3 DEF ApplyInv, Do, Done
    <3>4. QED BY <3>1, <3>2, <3>3
  <2>7. MovingInv'
    <3>1. change \in MemberChanges => call \in {"setMaster", "setNoMaster"}
      BY <1>5, <1>7 DEF MemberChanges, Calls
    <3>2. ASSUME change \in MemberChanges
          PROVE  \A k \in {Bridge, m} : /\ net'[k].addrs = net[k].addrs
                                        /\ net'[k].routes = net[k].routes
      BY <1>2, <2>1, <2>3, <3>1, <3>2, InProgress
    <3>3. CASE Migrates
      <4>1. change \in MemberChanges
        BY <3>3 DEF Migrates, MemberChanges
      <4>2. /\ Source \in {Bridge, m} /\ Other(Source) \in {Bridge, m}
            /\ UNCHANGED <<Source, Other(Source)>>
        BY <1>3 DEF Source, Other
      <4>3. CASE call = "setMaster"
        <5>1. Kept(Bridge) /\ Kept(m)
          BY <1>1, <1>2, <4>1, <4>3 DEF IInv, MovingInv
        <5>2. Kept(Bridge)' /\ Kept(m)'
          BY <1>3, <3>2, <4>1, <5>1 DEF Kept
        <5>3. step'.op = "read"
          BY <2>5, <3>3, <4>3 DEF Do
        <5>4. QED BY <1>3, <5>2, <5>3 DEF MovingInv, Moved
      <4>4. CASE call = "setNoMaster"
        <5>1. Emptied(Source) /\ Received(Other(Source), Nothing)
          BY <1>1, <1>2, <3>3, <4>1, <4>4 DEF IInv, MovingInv, Moved
        <5>2. Emptied(Source)' /\ Received(Other(Source), Nothing)'
          BY <1>3, <3>2, <4>1, <4>2, <5>1
          DEF Emptied, Received, Nothing, Other
        <5>3. step'.op = "done"
          BY <2>5, <4>4 DEF Do, Done
        <5>4. QED BY <1>3, <3>3, <5>2, <5>3 DEF MovingInv, Migrates
      <4>5. QED BY <3>1, <4>1, <4>3, <4>4
    <3>4. CASE ~Migrates /\ change \in MemberChanges
      <4>1. Kept(Bridge) /\ Kept(m)
        BY <1>1, <1>2, <3>1, <3>4 DEF IInv, MovingInv
      <4>2. Kept(Bridge)' /\ Kept(m)'
        BY <1>3, <3>2, <3>4, <4>1 DEF Kept
      <4>3. step'.op = "done"
        BY <2>5, <3>1, <3>4 DEF Do, Done
      <4>4. QED BY <1>3, <3>4, <4>2, <4>3 DEF MovingInv, Migrates, Moved
    <3>5. CASE change \notin MemberChanges
      BY <1>3, <3>5 DEF MovingInv
    <3>6. QED BY <3>3, <3>4, <3>5
  <2>8. QED BY <1>2, <1>3, <1>4, <2>1, <2>4, <2>5, <2>6, <2>7, ApplyGoesOn
<1>8. QED BY <1>6, <1>7

-----------------------------------------------------------------------------
(***************************************************************************)
(* Reading, removing and adding addresses and routes.                      *)
(***************************************************************************)
LEMMA Ends ==
    ASSUME IInv, phase # "idle", Migrates
    PROVE  /\ snapshot.change \in MemberChanges
           /\ {Source, Other(Source)} = {Bridge, snapshot.member}
           /\ Source # Other(Source) /\ Other(Other(Source)) = Source
           /\ Source \in Links /\ Other(Source) \in Links
           /\ MovedRoutes(Other(Source)) = before[Source].routes
           /\ Other(Source) = Bridge => snapshot.change = "attachMigrate"
           /\ Other(Source) # Bridge => snapshot.change = "detachMigrate"
<1>1. snapshot.change \in MemberChanges
  BY DEF Migrates, MemberChanges
<1>2. /\ snapshot.member \in Links /\ Bridge \in Links
      /\ snapshot.member # Bridge
  BY <1>1, InProgress
<1>3. QED BY <1>1, <1>2 DEF Migrates, Source, Other, MovedRoutes

LEMMA ConfigurationChanges ==
    ASSUME IInv, phase # "idle", UNCHANGED <<snapshot, before>>,
           NEW l \in Touched(snapshot.member),
           NEW A \in SUBSET Addresses, NEW R \in SUBSET Routes,
           net' = [net EXCEPT ![l] = [net[l] EXCEPT !.addrs = A, !.routes = R]],
           net[l].exists,
           R # {} => net[l].up /\ A # {},
           \A k \in Links \ {l} : R \cap net[k].routes = {},
           R \subseteq before[l].routes \cup MovedRoutes(l)
    PROVE  /\ net' \in [Links -> Link] /\ Possible(net)' /\ ChangedInv'
           /\ net'[l].up = net[l].up /\ net'[l].attached = net[l].attached
           /\ net'[l].exists

           /\ \A k \in Links \ {l} : net'[k] = net[k]
<1> DEFINE new == [net[l] EXCEPT !.addrs = A, !.routes = R]
<1>1. l \in Links /\ net[l] \in Link /\ TypeOK
  BY InProgress DEF IInv, TypeOK
<1>2. /\ new \in Link
      /\ new.addrs = A /\ new.routes = R
      /\ new.up = net[l].up /\ new.attached = net[l].attached
      /\ new.exists = net[l].exists
  BY <1>1 DEF Link
<1>3. new.attached => l # Bridge /\ net[Bridge].exists
  BY <1>1, <1>2 DEF TypeOK, Possible, Links
<1>4. net' = [net EXCEPT ![l] = new]
  OBVIOUS
<1> HIDE DEF new
<1>5. /\ net' \in [Links -> Link] /\ Possible(net)'
      /\ net'[l] = new
      /\ \A k \in Links \ {l} : net'[k] = net[k]
  BY <1>1, <1>2, <1>3, <1>4, LinkChanges
<1>6. ChangedInv'
  <2>1. /\ snapshot.change \in MemberChanges => net'[l].up = before[l].up
        /\ snapshot.change = "setUp" /\ before[Bridge].up => net'[l].up
    <3>1. snapshot.change = "setUp" => l = Bridge
      BY InProgress DEF BridgeChanges
    <3>2. snapshot.change \in MemberChanges => l \in {Bridge, snapshot.member}
      BY InProgress
    <3>3. QED BY <1>2, <1>5, <3>1, <3>2 DEF IInv, ChangedInv
  <2>2. QED BY <1>2, <1>5, <2>1, ChangedLink
<1>7. QED BY <1>2, <1>5, <1>6

LEMMA AtConfiguration ==
    ASSUME IInv, phase \in {"apply", "restore"}, ~Fails,
           step.op \in {"read", "remove", "add"}
    PROVE  /\ step.link \in Touched(snapshot.member) /\ step.link \in Links
           /\ net[step.link] \in Link /\ net[step.link].exists
           /\ config \in Config
           /\ phase = "apply" =>
                /\ Migrates
                /\ step.op \in {"read", "remove"} => step.link = Source
                /\ step.op = "add" => step.link = Other(Source)
<1>1. /\ step.link \in Links /\ net[step.link] \in Link /\ config \in Config
      /\ net[step.link].exists
  BY DEF IInv, TypeOK, Step, Fails
<1>2. phase = "apply" =>
        /\ Migrates
        /\ step.op \in {"read", "remove"} => step.link = Source
        /\ step.op = "add" => step.link = Other(Source)
  BY DEF IInv, ApplyInv
<1>3. step.link \in Touched(snapshot.member)
  <2>1. CASE phase = "apply"
    BY <1>2, <2>1, Ends, InProgress
  <2>2. CASE phase = "restore"
    BY <2>2 DEF IInv, RestoreInv
  <2>3. QED BY <2>1, <2>2
<1>4. QED BY <1>1, <1>2, <1>3

LEMMA ReadPreserves ==
    ASSUME IInv, ReadConfiguration
    PROVE  IInv'
<1> DEFINE l == step.link
<1>1. /\ phase \in {"apply", "restore"} /\ step.op = "read" /\ ~Fails
      /\ net' = net /\ UNCHANGED <<phase, snapshot, before>>
      /\ config' = [addrs |-> net[l].addrs, routes |-> net[l].routes]
  BY DEF ReadConfiguration, Runs, Proceed
<1>2. phase = "apply" /\ Migrates /\ l = Source
  BY <1>1, AtConfiguration DEF IInv, RestoreInv, RestoreOps
<1>3. /\ l \in Links /\ net[l] \in Link
      /\ step' = Do("remove", l)
  BY <1>1, <1>2, AtConfiguration
  DEF ReadConfiguration, Proceed, Following, AfterApply
<1>4. /\ step' \in Step /\ step'.op = "remove" /\ step'.link = l
      /\ config' \in Config
  BY <1>1, <1>3 DEF Do, Step, Link, Config
<1>5. Kept(Source) /\ Kept(Other(Source))
  <2>1. Kept(Bridge) /\ Kept(snapshot.member)
    BY <1>1, <1>2, Ends DEF IInv, MovingInv
  <2>2. QED BY <1>2, <2>1, Ends
<1>6. UNCHANGED <<Source, Other(Source), Migrates>>
  BY <1>1 DEF Source, Other, Migrates
<1>7. MovingInv'
  <2>1. /\ config'.addrs = before[Source].addrs
        /\ config'.routes = before[Source].routes
    BY <1>1, <1>2, <1>5 DEF Kept
  <2>2. Kept(Other(Source))'
    BY <1>1, <1>5, <1>6 DEF Kept
  <2>3. QED BY <1>1, <1>2, <1>4, <1>6, <2>1, <2>2 DEF MovingInv, Moved
<1>8. ApplyInv'
  BY <1>1, <1>2, <1>4, <1>6 DEF ApplyInv
<1>9. ChangedInv'
  BY <1>1 DEF IInv, ChangedInv, MovedRoutes, Other, Touched
<1>10. QED
  BY <1>1, <1>2, <1>4, <1>7, <1>8, <1>9, ApplyGoesOn DEF IInv, TypeOK, Possible

LEMMA RemoveAddressPreserves ==
    ASSUME IInv, RemoveAddress
    PROVE  IInv'
<1> DEFINE l == step.link
<1>1. PICK a \in net[l].addrs :
        net' = [net EXCEPT ![l] = WithoutAddress(@, a)]
  BY DEF RemoveAddress
<1>2. /\ phase \in {"apply", "restore"} /\ step.op = "remove" /\ ~Fails
      /\ UNCHANGED <<phase, step, config, snapshot, before>>
  BY DEF RemoveAddress, Runs, program
<1>3. /\ l \in Touched(snapshot.member) /\ l \in Links
      /\ net[l] \in Link /\ net[l].exists
      /\ phase = "apply" => Migrates /\ l = Source
  BY <1>2, AtConfiguration
<1> DEFINE A == net[l].addrs \ {a}
           R == IF net[l].addrs = {a} THEN {} ELSE net[l].routes
<1>4. net' = [net EXCEPT ![l] = [net[l] EXCEPT !.addrs = A, !.routes = R]]
  BY <1>1, <1>3 DEF WithoutAddress, Link
<1>5. /\ A \in SUBSET Addresses /\ R \in SUBSET Routes
      /\ R # {} => net[l].up /\ A # {}
      /\ R \subseteq net[l].routes
      /\ \A k \in Links \ {l} : R \cap net[k].routes = {}
  BY <1>3 DEF IInv, TypeOK, Possible, Link
<1>6. R \subseteq before[l].routes \cup MovedRoutes(l)
  BY <1>2, <1>3, <1>5 DEF IInv, ChangedInv
<1> HIDE DEF A, R, l
<1>7. /\ net' \in [Links -> Link] /\ Possible(net)' /\ ChangedInv'
      /\ net'[l].attached = net[l].attached /\ net'[l].exists
      /\ \A k \in Links \ {l} : net'[k] = net[k]
  BY <1>2, <1>3, <1>4, <1>5, <1>6, ConfigurationChanges
<1> USE DEF l
<1>8. step' \in Step /\ config' \in Config
  BY <1>2 DEF IInv, TypeOK
<1>9. CASE phase = "apply"
  <2>1. ApplyInv'
    BY <1>2, <1>9 DEF IInv, ApplyInv, Migrates, Source, Other
  <2>2. Other(Source) \in Links \ {l}
    BY <1>2, <1>3, <1>9, Ends
  <2>3. MovingInv'
    <3>1. UNCHANGED <<Source, Other(Source), Migrates>>
      BY <1>2 DEF Source, Other, Migrates
    <3>2. snapshot.change \in MemberChanges
      BY <1>2, <1>3, <1>9, Ends
    <3>3. /\ config.addrs = before[Source].addrs
          /\ config.routes = before[Source].routes
          /\ Kept(Other(Source))
      BY <1>2, <1>9, <3>2 DEF IInv, MovingInv
    <3>4. Kept(Other(Source))'
      BY <1>2, <1>7, <2>2, <3>1, <3>3 DEF Kept
    <3>5. QED BY <1>2, <1>3, <1>9, <3>1, <3>3, <3>4 DEF MovingInv, Moved
  <2>4. QED BY <1>2, <1>7, <1>8, <1>9, <2>1, <2>3, ApplyGoesOn
<1>10. CASE phase = "restore"
  <2>1. RestoreInv'
    <3>1. net'[Bridge].exists = net[Bridge].exists
      <4>1. net[Bridge] \in Link /\ net'[Bridge] \in Link
        BY <1>2, <1>7, InProgress
      <4>2. QED BY <1>2, <1>3, <1>7, <4>1, InProgress DEF Link
    <3>2. l \in Members => net'[Bridge] = net[Bridge]
      BY <1>2, <1>7, InProgress
    <3>3. QED
      BY <1>2, <1>7, <1>10, <3>1, <3>2
      DEF IInv, RestoreInv, RestoreOps, Touched, Exact, RouteMovedAway
  <2>2. QED BY <1>2, <1>7, <1>8, <1>10, <2>1, RestoreGoesOn
<1>11. QED BY <1>2, <1>9, <1>10

LEMMA RemoveRoutesPreserves ==
    ASSUME IInv, RemoveRoutes
    PROVE  IInv'
<1> DEFINE l == step.link
<1>2. /\ phase \in {"apply", "restore"} /\ step.op = "remove" /\ ~Fails
      /\ net[l].addrs = {}
      /\ net' = [net EXCEPT ![l].routes = {}]
      /\ step' = Following
      /\ UNCHANGED <<phase, config, snapshot, before>>
  BY DEF RemoveRoutes, Runs, Proceed
<1>3. /\ l \in Touched(snapshot.member) /\ l \in Links
      /\ net[l] \in Link /\ net[l].exists
      /\ phase = "apply" => Migrates /\ l = Source
  BY <1>2, AtConfiguration
<1>4. net' = [net EXCEPT ![l] = [net[l] EXCEPT !.addrs = {}, !.routes = {}]]
  BY <1>2, <1>3 DEF Link
<1> HIDE DEF l
<1>7. /\ net' \in [Links -> Link] /\ Possible(net)' /\ ChangedInv'
      /\ net'[l].addrs = {} /\ net'[l].routes = {}
      /\ net'[l].attached = net[l].attached /\ net'[l].exists
      /\ \A k \in Links \ {l} : net'[k] = net[k]
  <2> DEFINE A == net[l].addrs
             R == {}
  <2>1. /\ A \in SUBSET Addresses /\ R \in SUBSET Routes
        /\ R # {} => net[l].up /\ A # {}
        /\ \A k \in Links \ {l} : R \cap net[k].routes = {}
        /\ R \subseteq before[l].routes \cup MovedRoutes(l)
    BY <1>3 DEF Link
  <2>2. net' = [net EXCEPT ![l] = [net[l] EXCEPT !.addrs = A, !.routes = R]]
    BY <1>2, <1>4
  <2> HIDE DEF A, R
  <2>3. /\ net' \in [Links -> Link] /\ Possible(net)' /\ ChangedInv'
        /\ net'[l].attached = net[l].attached /\ net'[l].exists
        /\ \A k \in Links \ {l} : net'[k] = net[k]
    BY <1>2, <1>3, <2>1, <2>2, ConfigurationChanges
  <2>4. net'[l].addrs = {} /\ net'[l].routes = {}
    <3>1. net \in [Links -> Link]
      BY DEF IInv, TypeOK
    <3>2. QED BY <1>3, <1>4, <3>1 DEF Link
  <2>5. QED BY <2>3, <2>4


<1> USE DEF l
<1>9. CASE phase = "apply"
  <2> DEFINE target == Other(Source)
  <2>1. /\ target \in Links \ {l} /\ Source = l
        /\ snapshot.change \in MemberChanges
        /\ UNCHANGED <<Source, target, Migrates>>
        /\ Other(target)' = Source
    BY <1>2, <1>3, <1>9, Ends DEF Source, Other, Migrates
  <2>2. step' = Do("add", target)
    BY <1>2, <1>9, <2>1 DEF Following, AfterApply
  <2>3. step' \in Step /\ step'.op = "add" /\ step'.link = target
    BY <2>1, <2>2 DEF Step, Do
  <2>4. ApplyInv'
    BY <1>2, <1>3, <1>9, <2>1, <2>3 DEF ApplyInv, Calls
  <2>5. MovingInv'
    <3>1. /\ config.addrs = before[Source].addrs
          /\ config.routes = before[Source].routes
          /\ Kept(target)
      BY <1>2, <1>9, <2>1 DEF IInv, MovingInv
    <3>2. Emptied(Source)'
      BY <1>7, <2>1 DEF Emptied
    <3>3. Received(target, config)'
      BY <1>2, <1>7, <2>1, <3>1 DEF Received, Kept
    <3>4. QED
      BY <1>2, <1>3, <1>9, <2>1, <2>3, <3>1, <3>2, <3>3 DEF MovingInv, Moved
  <2>6. config' \in Config
    BY <1>2 DEF IInv, TypeOK
  <2>7. QED BY <1>2, <1>7, <1>9, <2>3, <2>4, <2>5, <2>6, ApplyGoesOn
<1>10. CASE phase = "restore"
  <2>1. step' = Do("add", l)
    BY <1>2, <1>10 DEF Following, AfterRestore
  <2>2. /\ step' \in Step /\ step'.op = "add" /\ step'.link = l
        /\ config' \in Config
    BY <1>2, <1>3, <2>1 DEF IInv, TypeOK, Step, Do
  <2>3. RestoreInv'
    <3>1. net'[Bridge].exists = net[Bridge].exists
      <4>1. net[Bridge] \in Link /\ net'[Bridge] \in Link
        BY <1>2, <1>7, InProgress
      <4>2. QED BY <1>2, <1>3, <1>7, <4>1, InProgress DEF Link
    <3>2. l \in Members => net'[Bridge] = net[Bridge]
      BY <1>2, <1>7, InProgress
    <3>3. config.addrs = before[l].addrs /\ config.routes = before[l].routes
      BY <1>2, <1>10 DEF IInv, RestoreInv
    <3>4. QED
      BY <1>2, <1>3, <1>7, <1>10, <2>2, <3>1, <3>2, <3>3
      DEF IInv, RestoreInv, RestoreOps, Touched, Exact, RouteMovedAway
  <2>4. QED BY <1>2, <1>7, <1>10, <2>2, <2>3, RestoreGoesOn
<1>11. QED BY <1>2, <1>9, <1>10

LEMMA AddAddressPreserves ==
    ASSUME IInv, AddAddress
    PROVE  IInv'
<1> DEFINE l == step.link
<1>1. PICK a \in config.addrs :
        /\ config' = [config EXCEPT !.addrs = @ \ {a}]
        /\ net' = [net EXCEPT ![l].addrs = @ \cup {a}]
  BY DEF AddAddress
<1>2. /\ phase \in {"apply", "restore"} /\ step.op = "add" /\ ~Fails
      /\ UNCHANGED <<phase, step, snapshot, before>>
  BY DEF AddAddress, Runs
<1>3. /\ l \in Touched(snapshot.member) /\ l \in Links
      /\ net \in [Links -> Link] /\ net[l] \in Link /\ net[l].exists
      /\ config \in Config
      /\ phase = "apply" => Migrates /\ l = Other(Source)
  BY <1>2, AtConfiguration, InProgress
<1> DEFINE A == net[l].addrs \cup {a}
           R == net[l].routes
<1>4. net' = [net EXCEPT ![l] = [net[l] EXCEPT !.addrs = A, !.routes = R]]
  BY <1>1, <1>3 DEF Link
<1>5. /\ A \in SUBSET Addresses /\ R \in SUBSET Routes
      /\ R # {} => net[l].up /\ A # {}
      /\ \A k \in Links \ {l} : R \cap net[k].routes = {}
  BY <1>3 DEF IInv, TypeOK, Possible, Link, Config
<1>6. R \subseteq before[l].routes \cup MovedRoutes(l)
  BY <1>2, <1>3, <1>5 DEF IInv, ChangedInv
<1>7. /\ net'[l].addrs = net[l].addrs \cup {a}
      /\ net'[l].routes = net[l].routes
  BY <1>1, <1>3 DEF Link
<1>8. /\ config' \in Config
      /\ config'.addrs = config.addrs \ {a} /\ config'.routes = config.routes
  BY <1>1, <1>3 DEF Config
<1> HIDE DEF A, R, l
<1>9. /\ net' \in [Links -> Link] /\ Possible(net)' /\ ChangedInv'
      /\ net'[l].attached = net[l].attached /\ net'[l].exists
      /\ \A k \in Links \ {l} : net'[k] = net[k]
  BY <1>2, <1>3, <1>4, <1>5, <1>6, ConfigurationChanges
<1> USE DEF l
<1>10. step' \in Step
  BY <1>2 DEF IInv, TypeOK
<1>11. CASE phase = "apply"
  <2>1. ApplyInv'
    BY <1>2, <1>11 DEF IInv, ApplyInv, Migrates, Source, Other, Calls
  <2>2. /\ Source \in Links \ {l} /\ Other(l) = Source
        /\ snapshot.change \in MemberChanges
        /\ UNCHANGED <<Source, Other(Source), Other(l), Migrates>>
    BY <1>2, <1>3, <1>11, Ends DEF Source, Other, Migrates
  <2>3. /\ config.addrs \subseteq before[Source].addrs
        /\ config.routes \subseteq before[Source].routes
        /\ Emptied(Source)
        /\ Received(l, config)
    BY <1>2, <1>3, <1>11, <2>2 DEF IInv, MovingInv
  <2>4. Emptied(Source)'
    BY <1>2, <1>9, <2>2, <2>3 DEF Emptied
  <2>5. Received(l, config)'
    <3>1. net'[l].addrs = before[l].addrs
                            \cup (before[Source].addrs \ config'.addrs)
      BY <1>7, <1>8, <2>2, <2>3 DEF Received
    <3>2. net'[l].routes = before[l].routes
                            \cup (before[Source].routes \ config'.routes)
      BY <1>7, <1>8, <2>2, <2>3 DEF Received
    <3>3. QED BY <1>2, <2>2, <3>1, <3>2 DEF Received
  <2>6. MovingInv'
    <3>1. /\ config'.addrs \subseteq before[Source].addrs
          /\ config'.routes \subseteq before[Source].routes
      BY <1>8, <2>3
    <3>2. Received(Other(Source), config)'
      BY <1>2, <1>3, <1>11, <2>2, <2>5
    <3>3. QED
      BY <1>2, <1>3, <1>11, <2>2, <2>4, <3>1, <3>2 DEF MovingInv, Moved
  <2>7. QED BY <1>2, <1>8, <1>9, <1>10, <1>11, <2>1, <2>6, ApplyGoesOn
<1>12. CASE phase = "restore"
  <2>1. RestoreInv'
    <3>1. net'[Bridge].exists = net[Bridge].exists
      <4>1. net[Bridge] \in Link /\ net'[Bridge] \in Link
        BY <1>2, <1>9, InProgress
      <4>2. QED BY <1>2, <1>3, <1>9, <4>1, InProgress DEF Link
    <3>2. l \in Members => net'[Bridge] = net[Bridge]
      BY <1>2, <1>9, InProgress
    <3>3. /\ config'.addrs \subseteq before[l].addrs
          /\ config'.routes \subseteq before[l].routes
          /\ config'.addrs # {} => config'.routes = before[l].routes
          /\ net'[l].addrs = before[l].addrs \ config'.addrs
          /\ Exact => net'[l].routes = before[l].routes \ config'.routes
      BY <1>2, <1>7, <1>8, <1>12 DEF IInv, RestoreInv
    <3>4. Exact' = Exact
      BY <1>2 DEF Exact, RouteMovedAway
    <3>5. QED
      BY <1>2, <1>9, <1>12, <3>1, <3>2, <3>3, <3>4
      DEF IInv, RestoreInv, RestoreOps, Touched
  <2>2. QED BY <1>2, <1>8, <1>9, <1>10, <1>12, <2>1, RestoreGoesOn
<1>13. QED BY <1>2, <1>11, <1>12

LEMMA AddRoutePreserves ==
    ASSUME IInv, AddRoute
    PROVE  IInv'
<1> DEFINE l == step.link
<1>1. PICK r \in config.routes :
        /\ config' = [config EXCEPT !.routes = @ \ {r}]
        /\ net' = IF Routed(r) THEN net
                  ELSE [net EXCEPT ![l].routes = @ \cup {r}]
  BY DEF AddRoute
<1>2. /\ phase \in {"apply", "restore"} /\ step.op = "add" /\ ~Fails
      /\ config.addrs = {}
      /\ UNCHANGED <<phase, step, snapshot, before>>
  BY DEF AddRoute, Runs
<1>3. /\ l \in Touched(snapshot.member) /\ l \in Links
      /\ net \in [Links -> Link] /\ net[l] \in Link /\ net[l].exists
      /\ config \in Config
      /\ phase = "apply" => Migrates /\ l = Other(Source)
  BY <1>2, AtConfiguration, InProgress
<1>4. net[l].up /\ net[l].addrs # {}
  BY <1>1, <1>2 DEF Fails
<1>5. /\ config' \in Config
      /\ config'.addrs = {} /\ config'.routes = config.routes \ {r}
  BY <1>1, <1>2, <1>3 DEF Config
<1>6. r \in before[l].routes \cup MovedRoutes(l)
  <2>1. CASE phase = "apply"
    BY <1>1, <1>2, <1>3, <2>1, Ends DEF IInv, MovingInv
  <2>2. CASE phase = "restore"
    BY <1>1, <1>2, <2>2 DEF IInv, RestoreInv
  <2>3. QED BY <1>2, <2>1, <2>2
<1>7. /\ net' \in [Links -> Link] /\ Possible(net)' /\ ChangedInv'
      /\ net'[l].attached = net[l].attached /\ net'[l].exists
      /\ \A k \in Links \ {l} : net'[k] = net[k]
      /\ net'[l].addrs = net[l].addrs
      /\ net'[l].routes = IF Routed(r) THEN net[l].routes
                                       ELSE net[l].routes \cup {r}
  <2>1. CASE Routed(r)
    <3>1. net' = net
      BY <1>1, <2>1
    <3>2. ChangedInv'
      BY <1>2, <3>1 DEF IInv, ChangedInv, MovedRoutes, Other, Touched
    <3>3. QED BY <1>3, <2>1, <3>1, <3>2 DEF IInv, TypeOK, Possible
  <2>2. CASE ~Routed(r)
    <3> DEFINE A == net[l].addrs
               R == net[l].routes \cup {r}
    <3>1. net' = [net EXCEPT ![l] = [net[l] EXCEPT !.addrs = A, !.routes = R]]
      BY <1>1, <1>3, <2>2 DEF Link
    <3>2. /\ A \in SUBSET Addresses /\ R \in SUBSET Routes
          /\ R # {} => net[l].up /\ A # {}
      BY <1>1, <1>3, <1>4 DEF Link, Config
    <3>3. \A k \in Links \ {l} : R \cap net[k].routes = {}
      BY <1>3, <2>2 DEF IInv, TypeOK, Possible, Routed
    <3>4. R \subseteq before[l].routes \cup MovedRoutes(l)
      BY <1>2, <1>3, <1>6 DEF IInv, ChangedInv
    <3>5. net'[l].addrs = A /\ net'[l].routes = R
      BY <1>3, <3>1 DEF Link
    <3> HIDE DEF A, R, l
    <3>6. /\ net' \in [Links -> Link] /\ Possible(net)' /\ ChangedInv'
          /\ net'[l].attached = net[l].attached /\ net'[l].exists
          /\ \A k \in Links \ {l} : net'[k] = net[k]
      BY <1>2, <1>3, <3>1, <3>2, <3>3, <3>4, ConfigurationChanges
    <3>7. QED BY <2>2, <3>5, <3>6 DEF A, R
  <2>3. QED BY <2>1, <2>2
<1>8. step' \in Step
  BY <1>2 DEF IInv, TypeOK
<1>11. CASE phase = "apply"
  <2>1. ApplyInv'
    BY <1>2, <1>11 DEF IInv, ApplyInv, Migrates, Source, Other, Calls
  <2>2. /\ Source \in Links \ {l} /\ Other(l) = Source
        /\ snapshot.change \in MemberChanges
        /\ UNCHANGED <<Source, Other(Source), Other(l), Migrates>>
    BY <1>2, <1>3, <1>11, Ends DEF Source, Other, Migrates
  <2>3. /\ config.addrs \subseteq before[Source].addrs
        /\ config.routes \subseteq before[Source].routes
        /\ Emptied(Source)
        /\ Received(l, config)
    BY <1>2, <1>3, <1>11, <2>2 DEF IInv, MovingInv
  <2>4. Emptied(Source)'
    BY <1>2, <1>7, <2>2, <2>3 DEF Emptied
  <2>5. ~Routed(r)
    <3>1. r \in before[Source].routes
      BY <1>1, <2>3
    <3>2. ASSUME NEW k \in Links, r \in net[k].routes
          PROVE  FALSE
      <4>1. k # Source
        BY <2>3, <3>2 DEF Emptied
      <4>2. r \notin before[k].routes
        BY <1>2, <2>2, <3>1, <4>1, InProgress DEF Possible
      <4>3. k = l
        <5>1. k \in Members \ {snapshot.member} => net[k] = before[k]
          BY <1>2 DEF IInv, ChangedInv
        <5>2. QED BY <1>2, <1>3, <1>11, <3>2, <4>1, <4>2, <5>1, Ends DEF Links
      <4>4. QED BY <1>1, <2>2, <2>3, <3>2, <4>2, <4>3 DEF Received
    <3>3. QED BY <3>2 DEF Routed
  <2>6. Received(l, config)'
    <3>1. net'[l].addrs = before[l].addrs
                            \cup (before[Source].addrs \ config'.addrs)
      BY <1>2, <1>5, <1>7, <2>2, <2>3 DEF Received
    <3>2. net'[l].routes = before[l].routes
                            \cup (before[Source].routes \ config'.routes)
      BY <1>1, <1>5, <1>7, <2>2, <2>3, <2>5 DEF Received
    <3>3. QED BY <1>2, <2>2, <3>1, <3>2 DEF Received
  <2>7. MovingInv'
    <3>1. /\ config'.addrs \subseteq before[Source].addrs
          /\ config'.routes \subseteq before[Source].routes
      BY <1>5, <2>3
    <3>2. Received(Other(Source), config)'
      BY <1>2, <1>3, <1>11, <2>2, <2>6
    <3>3. QED
      BY <1>2, <1>3, <1>11, <2>2, <2>4, <3>1, <3>2 DEF MovingInv, Moved
  <2>8. QED BY <1>2, <1>5, <1>7, <1>8, <1>11, <2>1, <2>7, ApplyGoesOn
<1>12. CASE phase = "restore"
  <2>1. /\ config.routes \subseteq before[l].routes
        /\ net[l].addrs = before[l].addrs \ config.addrs
        /\ Exact => net[l].routes = before[l].routes \ config.routes
        /\ l \in Members /\ Exact => net[Bridge] = before[Bridge]
    BY <1>2, <1>12 DEF IInv, RestoreInv
  <2>2. Exact => ~Routed(r)
    <3>1. SUFFICES ASSUME Exact, NEW k \in Links, r \in net[k].routes
                   PROVE  FALSE
      BY DEF Routed
    <3>2. k # l
      BY <1>1, <2>1, <3>1
    <3>3. r \notin before[k].routes
      BY <1>1, <1>2, <1>3, <2>1, <3>2, InProgress DEF Possible
    <3>4. k \in Touched(snapshot.member)
      BY <1>2, <3>1, <3>3, InProgress DEF IInv, ChangedInv, Links, Touched
    <3>5. r \in MovedRoutes(k)
      BY <1>2, <3>1, <3>3, <3>4 DEF IInv, ChangedInv
    <3>6. snapshot.change = "attachMigrate" /\ k = Bridge
      BY <3>1, <3>5 DEF MovedRoutes, Exact, RouteMovedAway, Other
    <3>7. l \in Members
      BY <1>2, <1>3, <3>2, <3>6 DEF Links
    <3>8. QED BY <2>1, <3>1, <3>3, <3>6, <3>7
  <2>3. RestoreInv'
    <3>1. net'[Bridge].exists = net[Bridge].exists
      <4>1. net[Bridge] \in Link /\ net'[Bridge] \in Link
        BY <1>2, <1>7, InProgress
      <4>2. QED BY <1>2, <1>3, <1>7, <4>1, InProgress DEF Link
    <3>2. l \in Members => net'[Bridge] = net[Bridge]
      BY <1>2, <1>7, InProgress
    <3>3. /\ config'.addrs \subseteq before[l].addrs
          /\ config'.routes \subseteq before[l].routes
          /\ config'.addrs = {}
          /\ net'[l].addrs = before[l].addrs \ config'.addrs
          /\ Exact => net'[l].routes = before[l].routes \ config'.routes
      BY <1>1, <1>2, <1>5, <1>7, <2>1, <2>2
    <3>4. Exact' = Exact
      BY <1>2 DEF Exact, RouteMovedAway
    <3>5. QED
      BY <1>2, <1>7, <1>12, <3>1, <3>2, <3>3, <3>4
      DEF IInv, RestoreInv, RestoreOps, Touched
  <2>4. QED BY <1>2, <1>5, <1>7, <1>8, <1>12, <2>3, RestoreGoesOn
<1>13. QED BY <1>2, <1>11, <1>12

LEMMA AddedPreserves ==
    ASSUME IInv, Added
    PROVE  IInv'
<1> DEFINE l == step.link
<1>1. /\ phase \in {"apply", "restore"} /\ step.op = "add" /\ ~Fails
      /\ config = Nothing /\ step' = Following
      /\ UNCHANGED <<net, config, phase, snapshot, before>>
  BY DEF Added, Runs, Proceed
<1>2. /\ l \in Touched(snapshot.member) /\ l \in Links
      /\ config \in Config
      /\ phase = "apply" => Migrates /\ l = Other(Source)
  BY <1>1, AtConfiguration
<1>3. net' \in [Links -> Link] /\ Possible(net)' /\ ChangedInv'
  BY <1>1
  DEF IInv, TypeOK, Possible, ChangedInv, MovedRoutes, Other, Touched
<1>4. CASE phase = "apply"
  <2>1. step' = IF l # Bridge THEN Do("setNoMaster", l) ELSE Done
    BY <1>1, <1>4 DEF Following, AfterApply
  <2>2. /\ step' \in Step
        /\ step'.op = IF l # Bridge THEN "setNoMaster" ELSE "done"
        /\ step'.link = l
    BY <1>2, <2>1 DEF Step, Do, Done, Calls
  <2>3. /\ snapshot.change \in MemberChanges
        /\ l \in {Bridge, snapshot.member}
        /\ l # Bridge => snapshot.change = "detachMigrate"
        /\ UNCHANGED <<Source, Other(Source), Migrates>>
    BY <1>1, <1>2, <1>4, Ends DEF Source, Other, Migrates
  <2>4. ApplyInv'
    BY <1>1, <1>4, <2>2, <2>3 DEF ApplyInv, Calls
  <2>5. MovingInv'
    <3>1. Emptied(Source) /\ Received(l, Nothing)
      BY <1>1, <1>2, <1>4, <2>3 DEF IInv, MovingInv
    <3>2. Emptied(Source)' /\ Received(Other(Source), Nothing)'
      BY <1>1, <1>2, <1>4, <2>3, <3>1 DEF Emptied, Received, Nothing, Other
    <3>3. QED BY <1>1, <1>2, <1>4, <2>2, <2>3, <3>2 DEF MovingInv, Moved
  <2>6. QED BY <1>1, <1>2, <1>3, <1>4, <2>2, <2>4, <2>5, ApplyGoesOn
<1>5. CASE phase = "restore"
  <2>1. step' = Do("flag", l)
    BY <1>1, <1>5 DEF Following, AfterRestore
  <2>2. step' \in Step /\ step'.op = "flag" /\ step'.link = l
    BY <1>2, <2>1 DEF Step, Do
  <2>3. RestoreInv'
    BY <1>1, <1>5, <2>2
    DEF IInv, RestoreInv, RestoreOps, Touched, Exact, RouteMovedAway
  <2>4. QED BY <1>1, <1>2, <1>3, <1>5, <2>2, <2>3, RestoreGoesOn
<1>6. QED BY <1>1, <1>4, <1>5

-----------------------------------------------------------------------------
(***************************************************************************)
(* The calls of Restore that depend on what was saved.                     *)
(***************************************************************************)
LEMMA SameNetwork ==
    ASSUME IInv, phase # "idle",
           NEW new \in [Links -> Link],
           \A l \in Touched(snapshot.member) : new[l] = before[l],
           \A m \in Members \ {snapshot.member} : new[m] = before[m]
    PROVE  new = before
<1>1. \A l \in Links : new[l] = before[l]
  BY DEF Touched, Links
<1>2. QED BY <1>1, InProgress

LEMMA AtRestore ==
    ASSUME IInv, phase \in {"apply", "restore"}, ~Fails,
           step.op \in {"exist", "master", "flag"}
    PROVE  /\ phase = "restore"
           /\ step.link \in Touched(snapshot.member) /\ step.link \in Links
           /\ snapshot.saved[step.link] = before[step.link]
           /\ step.op = "exist" => step.link = Bridge
           /\ step.op # "exist" =>
                /\ net[step.link].exists /\ before[step.link].exists
                /\ net[Bridge].exists = before[Bridge].exists
           /\ net[step.link] \in Link /\ before[step.link] \in Link
           /\ step.link # Bridge => step.link \in Members
<1>1. phase = "restore"
  BY DEF IInv, ApplyInv, Calls
<1>2. /\ step.link \in Touched(snapshot.member)
      /\ step.op = "exist" => step.link = Bridge
      /\ step.op # "exist" => /\ before[Bridge].exists
                              /\ net[Bridge].exists = before[Bridge].exists
  BY <1>1 DEF IInv, RestoreInv
<1>3. /\ step.link \in Links
      /\ net[step.link] \in Link /\ before[step.link] \in Link
      /\ snapshot.saved[step.link] = before[step.link]
      /\ step.link # Bridge => step.link \in Members
  BY <1>1, <1>2, InProgress DEF Touched
<1>4. step.op # "exist" => net[step.link].exists
  BY DEF Fails
<1>5. step.op # "exist" => before[step.link].exists
  BY <1>1, <1>2, <1>3, InProgress DEF Possible
<1>6. QED BY <1>1, <1>2, <1>3, <1>4, <1>5

LEMMA RestoreExistencePreserves ==
    ASSUME IInv, RestoreExistence
    PROVE  IInv'
<1> DEFINE saved == before[Bridge]
           m == snapshot.member
<1>1. /\ phase = "restore" /\ step.op = "exist" /\ step.link = Bridge
      /\ net' = ExistenceRestored(saved, Bridge)
      /\ step' = IF saved.exists THEN Do("master", Bridge) ELSE Done
      /\ UNCHANGED <<config, phase, snapshot, before>>
  <2>1. /\ phase \in {"apply", "restore"} /\ step.op = "exist" /\ ~Fails
        /\ net' = ExistenceRestored(snapshot.saved[step.link], step.link)
        /\ step' = Following
        /\ UNCHANGED <<config, phase, snapshot, before>>
    BY DEF RestoreExistence, Runs, Proceed
  <2>2. /\ phase = "restore" /\ step.link = Bridge
        /\ snapshot.saved[step.link] = before[step.link]
    BY <2>1, AtRestore
  <2>3. step' = IF saved.exists THEN Do("master", Bridge) ELSE Done
    BY <2>1, <2>2 DEF Following, AfterRestore
  <2>4. QED BY <2>1, <2>2, <2>3
<1>2. /\ Bridge \in Links /\ Bridge \in Touched(m) /\ Bridge \notin Members
      /\ net \in [Links -> Link] /\ before \in [Links -> Link]
      /\ saved \in Link /\ net[Bridge] \in Link
      /\ Possible(net) /\ Possible(before)
      /\ TypeOK /\ config' \in Config
  BY <1>1, InProgress DEF Touched, IInv, TypeOK
<1>3. ~saved.exists => snapshot.change = "create" /\ Touched(m) = {Bridge}
  BY <1>1, InProgress DEF BridgeChanges
<1>4. \A k \in Members \ {m} : net[k] = before[k]
  BY <1>1 DEF IInv, ChangedInv
<1>5. /\ net' \in [Links -> Link] /\ Possible(net)' /\ ChangedInv'
      /\ net'[Bridge].exists = saved.exists
      /\ ~saved.exists => net' = before
  <2>1. CASE saved.exists = net[Bridge].exists
    <3>1. net' = net
      BY <1>1, <2>1 DEF ExistenceRestored
    <3>2. ChangedInv'
      BY <1>1, <3>1 DEF IInv, ChangedInv, MovedRoutes, Other, Touched
    <3>3. ASSUME ~saved.exists
          PROVE  net = before
      <4>1. net[Bridge] = before[Bridge]
        BY <1>2, <2>1, <3>3 DEF Possible
      <4>2. QED BY <1>1, <1>2, <1>3, <1>4, <3>3, <4>1, SameNetwork
    <3>4. QED BY <1>2, <2>1, <3>1, <3>2, <3>3 DEF Possible
  <2>2. CASE saved.exists /\ ~net[Bridge].exists
    <3>1. net' = NetAfter("linkAdd", Bridge)
      BY <1>1, <2>2 DEF ExistenceRestored
    <3>2. /\ net' \in [Links -> Link] /\ Possible(net)'
          /\ net'[Bridge] = LinkAfter("linkAdd", net[Bridge])
          /\ net'[Bridge].exists
          /\ \A k \in Links \ {Bridge} : net'[k] = net[k]
      <4>1. "linkAdd" \in Calls \ {"linkDel"}
        BY DEF Calls
      <4>2. QED BY <1>2, <3>1, <4>1, CallChanges
    <3>3. snapshot.change = "delete"
      BY <1>1, <2>2, InProgress DEF IInv, ChangedInv
    <3>4. net'[Bridge].routes = {}
      BY <3>2 DEF LinkAfter, Missing
    <3>5. ChangedInv'
      BY <1>1, <1>2, <3>2, <3>3, <3>4, ChangedLink DEF MemberChanges
    <3>6. QED BY <1>2, <2>2, <3>2, <3>5 DEF Link
  <2>3. CASE ~saved.exists /\ net[Bridge].exists
    <3>1. net' = NetAfter("linkDel", Bridge)
      BY <1>1, <2>3 DEF ExistenceRestored
    <3>2. /\ net' \in [Links -> Link] /\ Possible(net)'
          /\ net'[Bridge] = Missing
          /\ \A k \in Members : ~net[k].attached => net'[k] = net[k]
      BY <1>2, <3>1, BridgeGoes
    <3>3. before[Bridge] = Missing
      BY <1>2, <2>3 DEF Possible
    <3>4. \A k \in Members : net'[k] = before[k]
      <4>1. m \notin Members
        BY <1>1, <1>3, <2>3, InProgress DEF BridgeChanges
      <4>2. \A k \in Members : net[k] = before[k]
        BY <1>4, <4>1
      <4>3. \A k \in Members : ~before[k].attached
        BY <1>2, <2>3 DEF Possible
      <4>4. QED BY <3>2, <4>2, <4>3
    <3>5. net' = before
      BY <1>1, <1>3, <2>3, <3>2, <3>3, <3>4, SameNetwork
    <3>6. ChangedInv'
      BY <1>1, <1>3, <2>3, <3>4, <3>5
      DEF ChangedInv, Touched, MemberChanges
    <3>7. QED BY <3>2, <3>3, <3>5, <3>6
  <2>4. QED BY <1>2, <2>1, <2>2, <2>3 DEF Link
<1>6. /\ step' \in Step /\ step'.link = Bridge
      /\ step'.op = IF saved.exists THEN "master" ELSE "done"
  BY <1>1, <1>2 DEF Step, Do, Done
<1>7. RestoreInv'
  BY <1>1, <1>2, <1>5, <1>6 DEF RestoreInv, RestoreOps, Touched
<1>8. QED BY <1>1, <1>2, <1>5, <1>6, <1>7, RestoreGoesOn

LEMMA RestoreMasterPreserves ==
    ASSUME IInv, RestoreMaster
    PROVE  IInv'
<1> DEFINE l == step.link
           call == IF before[l].attached THEN "setMaster" ELSE "setNoMaster"
<1>1. /\ phase \in {"apply", "restore"} /\ step.op = "master" /\ ~Fails
      /\ net' = MasterRestored(snapshot.saved[l], l)
      /\ config' = [addrs |-> snapshot.saved[l].addrs,
                    routes |-> snapshot.saved[l].routes]
      /\ step' = Following
      /\ UNCHANGED <<phase, snapshot, before>>
  BY DEF RestoreMaster, Runs, Proceed
<1>2. /\ phase = "restore"
      /\ l \in Touched(snapshot.member) /\ l \in Links
      /\ snapshot.saved[l] = before[l]
      /\ net[l].exists
      /\ net[l] \in Link /\ before[l] \in Link
      /\ net[Bridge].exists = before[Bridge].exists
  BY <1>1, AtRestore
<1>3. before[l].attached => l # Bridge /\ net[Bridge].exists
  BY <1>1, <1>2, InProgress DEF Possible, Links
<1>4. /\ net' = NetAfter(call, l)
      /\ call \in Calls \ {"linkDel", "linkAdd"}
      /\ call = "setMaster" => l # Bridge /\ net[Bridge].exists
  BY <1>1, <1>2, <1>3 DEF MasterRestored, Calls
<1>5. /\ net' \in [Links -> Link] /\ Possible(net)'
      /\ net'[l] = LinkAfter(call, net[l])
      /\ net'[l].exists
      /\ \A k \in Links \ {l} : net'[k] = net[k]
  <2>1. TypeOK
    BY DEF IInv
  <2> HIDE DEF l, call
  <2>2. QED BY <1>2, <1>4, <2>1, CallChanges
<1>6. /\ net'[l].attached = before[l].attached
      /\ net'[l].up = net[l].up /\ net'[l].routes = net[l].routes
  BY <1>2, <1>5 DEF LinkAfter, Link
<1>7. ChangedInv'
  <2>1. l # Bridge => /\ snapshot.change \in MemberChanges
                      /\ l = snapshot.member
    BY <1>2, InProgress DEF ChangeTypes
  <2>2. /\ snapshot.change \in MemberChanges => net'[l].up = before[l].up
        /\ snapshot.change = "setUp" /\ before[Bridge].up => net'[l].up
    BY <1>2, <1>6, <2>1 DEF IInv, ChangedInv, MemberChanges
  <2>3. net'[l].routes \subseteq before[l].routes \cup MovedRoutes(l)
    BY <1>2, <1>6 DEF IInv, ChangedInv
  <2>4. QED BY <1>1, <1>2, <1>5, <2>2, <2>3, ChangedLink
<1>8. /\ step' = Do("remove", l)
      /\ step' \in Step /\ step'.op = "remove" /\ step'.link = l
  <2>1. step' = Do("remove", l)
    BY <1>1, <1>2 DEF Following, AfterRestore
  <2>2. QED BY <1>2, <2>1 DEF Step, Do
<1>9. /\ config' \in Config
      /\ config'.addrs = before[l].addrs /\ config'.routes = before[l].routes
  BY <1>1, <1>2 DEF Config, Link
<1>10. RestoreInv'
  <2>1. net'[Bridge].exists = before[Bridge].exists
    <3>1. net[Bridge] \in Link /\ net'[Bridge] \in Link
      BY <1>2, <1>5, InProgress
    <3>2. QED BY <1>2, <1>5, <3>1, InProgress DEF Link
  <2>2. l \in Members => net'[Bridge] = net[Bridge]
    BY <1>2, <1>5, InProgress
  <2>3. /\ before[Bridge].exists
        /\ l \in Members /\ Exact => net[Bridge] = before[Bridge]
    BY <1>1, <1>2 DEF IInv, RestoreInv
  <2>4. QED
    BY <1>1, <1>2, <1>6, <1>8, <1>9, <2>1, <2>2, <2>3
    DEF RestoreInv, RestoreOps, Touched, Exact, RouteMovedAway
<1>11. QED BY <1>1, <1>2, <1>5, <1>7, <1>8, <1>9, <1>10, RestoreGoesOn

LEMMA RestoreFlagPreserves ==
    ASSUME IInv, RestoreFlag
    PROVE  IInv'
<1> DEFINE l == step.link
           m == snapshot.member
           call == IF before[l].up THEN "up" ELSE "down"
<1>1. /\ phase \in {"apply", "restore"} /\ step.op = "flag" /\ ~Fails
      /\ net' = NetAfter(IF snapshot.saved[l].up THEN "up" ELSE "down", l)
      /\ step' = Following
      /\ UNCHANGED <<config, phase, snapshot, before>>
  BY DEF RestoreFlag, Runs, Proceed
<1>2. /\ phase = "restore"
      /\ l \in Touched(m) /\ l \in Links
      /\ snapshot.saved[l] = before[l]
      /\ net[l].exists /\ before[l].exists
      /\ net[l] \in Link /\ before[l] \in Link
      /\ net[Bridge].exists = before[Bridge].exists
      /\ l # Bridge => l \in Members
  BY <1>1, AtRestore
<1>3. /\ net' = NetAfter(call, l)
      /\ call \in Calls \ {"linkDel", "linkAdd", "setMaster"}
  BY <1>1, <1>2 DEF Calls
<1>4. /\ net' \in [Links -> Link] /\ Possible(net)'
      /\ net'[l] = LinkAfter(call, net[l])
      /\ net'[l].exists
      /\ \A k \in Links \ {l} : net'[k] = net[k]
  <2>1. TypeOK
    BY DEF IInv
  <2> HIDE DEF l, call
  <2>2. QED BY <1>2, <1>3, <2>1, CallChanges
<1>5. /\ net'[l].attached = net[l].attached /\ net'[l].addrs = net[l].addrs
      /\ net'[l].up = before[l].up
      /\ net'[l].routes = IF before[l].up THEN net[l].routes ELSE {}
  BY <1>2, <1>4 DEF LinkAfter, Link
<1>6. /\ net[l].attached = before[l].attached
      /\ net[l].addrs = before[l].addrs
      /\ Exact => net[l].routes = before[l].routes
      /\ before[Bridge].exists
      /\ l \in Members /\ Exact => net[Bridge] = before[Bridge]
  <2>1. /\ net[l].attached = before[l].attached
        /\ config = Nothing
        /\ net[l].addrs = before[l].addrs \ config.addrs
        /\ Exact => net[l].routes = before[l].routes \ config.routes
        /\ before[Bridge].exists
        /\ l \in Members /\ Exact => net[Bridge] = before[Bridge]
    BY <1>1, <1>2 DEF IInv, RestoreInv
  <2>2. config.addrs = {} /\ config.routes = {}
    BY <2>1 DEF Nothing
  <2>3. QED BY <2>1, <2>2

<1>7. Exact => net'[l] = before[l]
  <2>1. ~before[l].up => before[l].routes = {}
    BY <1>2, InProgress DEF Possible
  <2>2. net'[l] \in Link
    BY <1>2, <1>4
  <2>3. QED BY <1>2, <1>4, <1>5, <1>6, <2>1, <2>2 DEF Link
<1>8. ChangedInv'
  <2>1. snapshot.change = "setUp" => l = Bridge
    BY <1>2, InProgress DEF BridgeChanges
  <2>2. net'[l].routes \subseteq before[l].routes \cup MovedRoutes(l)
    BY <1>2, <1>5 DEF IInv, ChangedInv
  <2>3. QED BY <1>1, <1>2, <1>4, <1>5, <2>1, <2>2, ChangedLink
<1>9. /\ step' \in Step /\ config' \in Config
      /\ \/ /\ l = Bridge /\ m \in Members
            /\ step'.op = "master" /\ step'.link = m
         \/ /\ l = Bridge => m \notin Members
            /\ step'.op = "done" /\ step'.link = Bridge
  <2>1. step' = IF l = Bridge /\ m \in Members THEN Do("master", m) ELSE Done
    BY <1>1, <1>2, InProgress DEF Following, AfterRestore, Other
  <2>2. /\ m \in Members => Do("master", m) \in Step
        /\ Done \in Step
    BY <1>2, InProgress DEF Do, Done, Step
  <2>3. QED BY <1>1, <2>1, <2>2 DEF Do, Done, IInv, TypeOK
<1>10. net'[Bridge].exists = before[Bridge].exists
  <2>1. net[Bridge] \in Link /\ net'[Bridge] \in Link
    BY <1>2, <1>4, InProgress
  <2>2. QED BY <1>2, <1>4, <2>1, InProgress DEF Link
<1>11. Exact => net'[Bridge] = before[Bridge]
  BY <1>2, <1>4, <1>6, <1>7, InProgress
<1>12. ASSUME Exact, l = Bridge => m \notin Members
       PROVE  net' = before
  <2>1. \A k \in Touched(m) : net'[k] = before[k]
    BY <1>2, <1>7, <1>11, <1>12 DEF Touched
  <2>2. \A k \in Members \ {m} : net'[k] = before[k]
    <3>1. \A k \in Members \ {m} : k # l /\ net[k] = before[k]
      BY <1>2, InProgress DEF IInv, ChangedInv, Touched
    <3>2. QED BY <1>2, <1>4, <3>1, InProgress
  <2>3. QED BY <1>2, <1>4, <2>1, <2>2, SameNetwork
<1>13. RestoreInv'
  <2>1. m \in Members => m \in Touched(m)
    BY DEF Touched
  <2>2. Bridge \in Touched(m)
    BY DEF Touched
  <2>3. UNCHANGED <<Exact, Touched(snapshot.member)>>
    BY <1>1 DEF Exact, RouteMovedAway, Touched
  <2>4. QED
    BY <1>1, <1>2, <1>6, <1>9, <1>10, <1>11, <1>12, <2>1, <2>2, <2>3,
       InProgress
    DEF RestoreInv, RestoreOps
<1>14. QED BY <1>1, <1>2, <1>4, <1>8, <1>9, <1>13, RestoreGoesOn

-----------------------------------------------------------------------------
(***************************************************************************)
(* Errors, the end of a program, and what the manager does around them.    *)
(***************************************************************************)
LEMMA StartRestorePreserves ==
    ASSUME IInv, phase # "idle", StartRestore,
           UNCHANGED <<net, snapshot, before>>
    PROVE  IInv'
<1>1. /\ phase' = "restore" /\ config' = Nothing
      /\ step' \in Step /\ step'.op = "exist" /\ step'.link = Bridge
  BY InProgress DEF StartRestore, Do, Step
<1>2. config' \in Config
  BY <1>1 DEF Nothing, Config
<1>3. ChangedInv'
  BY <1>1 DEF IInv, ChangedInv, MovedRoutes, Other, Touched
<1>4. RestoreInv'
  BY <1>1, InProgress DEF RestoreInv, RestoreOps, Touched
<1>5. QED
  BY <1>1, <1>2, <1>3, <1>4
  DEF IInv, TypeOK, Possible, Phases, SnapshotInv, Touched, ApplyInv,
      MovingInv, RestoredInv

(***************************************************************************)
(* The only call of Restore that can fail adds a route to a bridge that    *)
(* the change has taken down.                                              *)
(***************************************************************************)
LEMMA RestoreFailsOnRoutes ==
    ASSUME IInv, phase = "restore", Fails
    PROVE  RoutedBridgeTakenDown
<1> DEFINE l == step.link
<1>1. /\ step.op \in RestoreOps
      /\ l \in Touched(snapshot.member)
      /\ step.op \in {"exist", "done"} => l = Bridge
      /\ step.op \notin {"exist"} => net[Bridge].exists = before[Bridge].exists
      /\ step.op \in {"master", "remove", "add", "flag"} =>
            before[Bridge].exists
      /\ step.op \in {"add"} =>
            /\ config.routes \subseteq before[l].routes
            /\ net[l].addrs = before[l].addrs \ config.addrs
  BY DEF IInv, RestoreInv
<1>2. step.op \in {"master", "remove", "add", "flag"} =>
        net[Bridge].exists /\ net[l].exists
  BY <1>1, InProgress DEF Possible, Touched
<1>3. /\ step.op = "add" /\ config.addrs = {} /\ config.routes # {}
      /\ ~net[l].up \/ net[l].addrs = {}
  BY <1>1, <1>2 DEF Fails, RestoreOps
<1>4. /\ before[l].routes # {} /\ before[l].up /\ net[l].addrs # {}
      /\ ~net[l].up
  BY <1>1, <1>3, InProgress DEF Possible
<1>5. snapshot.change \notin MemberChanges
  BY <1>1, <1>4, InProgress DEF IInv, ChangedInv
<1>6. l = Bridge /\ snapshot.change # "setUp"
  BY <1>1, <1>4, <1>5, InProgress
  DEF IInv, ChangedInv, ChangeTypes, BridgeChanges
<1>7. snapshot.change # "create"
  BY <1>1, <1>3, InProgress
<1>8. QED
  BY <1>4, <1>5, <1>6, <1>7, InProgress
  DEF RoutedBridgeTakenDown, ChangeTypes, BridgeChanges

LEMMA CallFailsPreserves ==
    ASSUME IInv, CallFails
    PROVE  IInv'
<1>1. Fails /\ UNCHANGED <<net, snapshot, before>>
  BY DEF CallFails
<1>2. CASE phase = "apply" /\ StartRestore
  BY <1>1, <1>2, StartRestorePreserves
<1>3. CASE /\ phase = "restore" /\ phase' = "failed"
           /\ step' = Done /\ config' = Nothing
  <2>1. RoutedBridgeTakenDown
    BY <1>1, <1>3, RestoreFailsOnRoutes
  <2>2. step' \in Step /\ config' \in Config
    BY <1>3, InProgress DEF Step, Done, Do, Nothing, Config
  <2>3. ChangedInv'
    BY <1>1, <1>3 DEF IInv, ChangedInv, MovedRoutes, Other, Touched
  <2>4. RestoredInv'
    BY <1>1, <1>3, <2>1 DEF RestoredInv, RoutedBridgeTakenDown
  <2>5. QED
    BY <1>1, <1>3, <2>2, <2>3, <2>4
    DEF IInv, TypeOK, Possible, Phases, SnapshotInv, Touched, ApplyInv,
        MovingInv, RestoreInv
<1>4. QED BY <1>2, <1>3 DEF CallFails

LEMMA CompletesPreserves ==
    ASSUME IInv, Completes
    PROVE  IInv'
<1>1. /\ step = Done /\ phase \in {"apply", "restore"}
      /\ phase' = IF phase = "apply" THEN "pending" ELSE "restored"
      /\ UNCHANGED <<net, step, config, snapshot, before>>
  BY DEF Completes, program
<1>2. ChangedInv'
  BY <1>1 DEF IInv, ChangedInv, MovedRoutes, Other, Touched
<1>3. MovingInv'
  <2>1. CASE phase = "apply"
    BY <1>1, <2>1
    DEF IInv, MovingInv, Moved, Migrates, Source, Other, Kept, Emptied,
        Received
  <2>2. CASE phase = "restore"
    BY <1>1, <2>2 DEF MovingInv
  <2>3. QED BY <1>1, <2>1, <2>2
<1>4. RestoredInv'
  BY <1>1
  DEF IInv, RestoreInv, RestoredInv, Exact, RouteMovedAway, Done, Do
<1>5. QED
  BY <1>1, <1>2, <1>3, <1>4
  DEF IInv, TypeOK, Possible, Phases, SnapshotInv, Touched, ApplyInv,
      RestoreInv

LEMMA BeginPreserves ==
    ASSUME IInv, NEW type \in Changes, NEW m \in Members \cup {NoInterface},
           Begin(type, m)
    PROVE  IInv'
<1>1. /\ phase = "idle" /\ phase' = "apply" /\ before' = net
      /\ m \in IF type \in MemberChanges THEN Members ELSE {NoInterface}
      /\ (type = "create") <=> ~net[Bridge].exists
      /\ snapshot' = [change |-> type, member |-> m,
                      saved |-> [l \in Touched(m) |-> net[l]]]
      /\ step' = IF Refused(type, m) THEN Do("refuse", Bridge)
                                     ELSE FirstCall(type, m)
      /\ net' = net /\ config' = config
  BY DEF Begin
<1>2. /\ type \in ChangeTypes
      /\ snapshot'.change = type /\ snapshot'.member = m
      /\ snapshot'.saved = [l \in Touched(m) |-> net[l]]
  BY <1>1, LinksAssumption
<1>3. /\ Bridge \in Links /\ Members \subseteq Links
      /\ net \in [Links -> Link] /\ Possible(net) /\ config \in Config
  BY DEF Links, IInv, TypeOK
<1>4. /\ step' \in Step
      /\ \/ step'.op = "refuse" /\ step'.link = Bridge
         \/ /\ step' = FirstCall(type, m)
            /\ ~Refused(type, m)
  <2>1. CASE Refused(type, m)
    BY <1>1, <1>3, <2>1 DEF Do, Step
  <2>2. CASE ~Refused(type, m)
    <3>1. step' = FirstCall(type, m)
      BY <1>1, <2>2
    <3>2. FirstCall(type, m) \in Step
      BY <1>1, <1>2, <1>3
      DEF FirstCall, Do, Step, Calls, ChangeTypes, BridgeChanges,
          MemberChanges
    <3>3. QED BY <2>2, <3>1, <3>2
  <2>3. QED BY <2>1, <2>2
<1>5. TypeOK'
  BY <1>1, <1>2, <1>3, <1>4 DEF TypeOK, Possible, Phases
<1>6. SnapshotInv'
  BY <1>1, <1>2, <1>3 DEF SnapshotInv, Possible, Touched
<1>7. ChangedInv'
  BY <1>1, <1>2 DEF ChangedInv, MemberChanges
<1>8. ApplyInv'
  <2>1. CASE step'.op = "refuse" /\ step'.link = Bridge
    BY <1>1, <2>1 DEF ApplyInv
  <2>2. CASE step' = FirstCall(type, m) /\ ~Refused(type, m)
    <3>1. type = "delete" => \A k \in Members : ~net'[k].attached
      BY <1>1, <2>2 DEF Refused, BridgeMembers
    <3>2. CASE type \in BridgeChanges
      BY <1>1, <1>2, <2>2, <3>1, <3>2
      DEF ApplyInv, FirstCall, Do, Calls, BridgeChanges
    <3>3. CASE type \in {"attach", "attachMigrate"}
      BY <1>1, <1>2, <2>2, <3>3 DEF ApplyInv, FirstCall, Do, Calls
    <3>4. CASE type = "detach"
      BY <1>1, <1>2, <2>2, <3>4 DEF ApplyInv, FirstCall, Do, Calls
    <3>5. CASE type = "detachMigrate"
      BY <1>1, <1>2, <2>2, <3>5
      DEF ApplyInv, FirstCall, Do, Migrates, Source
    <3>6. QED
      BY <1>2, <3>2, <3>3, <3>4, <3>5 DEF ChangeTypes, MemberChanges
  <2>3. QED BY <1>4, <2>1, <2>2
<1>9. MovingInv'
  <2>1. SUFFICES ASSUME type \in MemberChanges, step'.op # "refuse"
                 PROVE  MovingInv'
    BY <1>2 DEF MovingInv
  <2>2. step'.op \in {"setMaster", "setNoMaster", "read"}
    BY <1>4, <2>1 DEF MemberChanges, FirstCall, Do
  <2>3. step'.op = "setNoMaster" => type = "detach"
    BY <1>4, <2>1 DEF MemberChanges, FirstCall, Do
  <2>4. Kept(Bridge)' /\ Kept(snapshot.member)'
    BY <1>1 DEF Kept
  <2>5. ~Moved'
    BY <1>2, <2>2, <2>3 DEF Moved, Migrates
  <2>6. QED BY <1>1, <2>2, <2>4, <2>5 DEF MovingInv
<1>10. RestoreInv' /\ RestoredInv'
  BY <1>1 DEF RestoreInv, RestoredInv
<1>11. QED BY <1>5, <1>6, <1>7, <1>8, <1>9, <1>10 DEF IInv

LEMMA SettlePreserves ==
    ASSUME IInv, Settle
    PROVE  IInv'
<1>1. /\ phase \in {"pending", "restored"} /\ phase' = "idle"
      /\ snapshot' = NoSnapshot /\ before' \in {net, before}
      /\ UNCHANGED <<net, step, config>>
  BY DEF Settle, program
<1>2. snapshot'.change = "none" /\ snapshot'.member = NoInterface
  BY <1>1 DEF NoSnapshot
<1>3. TypeOK'
  BY <1>1, <1>2 DEF IInv, TypeOK, Possible, Phases
<1>4. SnapshotInv' /\ RestoredInv'
  BY <1>1 DEF IInv, RestoredInv, SnapshotInv
<1>5. ChangedInv' /\ ApplyInv' /\ MovingInv' /\ RestoreInv'
  BY <1>1 DEF ChangedInv, ApplyInv, MovingInv, RestoreInv
<1>6. QED BY <1>3, <1>4, <1>5 DEF IInv

LEMMA StutterPreserves ==
    ASSUME IInv, UNCHANGED vars
    PROVE  IInv'
<1>1. UNCHANGED <<net, phase, step, config, snapshot, before>>
  BY DEF vars, program
<1>2. TypeOK' /\ SnapshotInv'
  BY <1>1 DEF IInv, TypeOK, Possible, SnapshotInv, Touched
<1>3. ChangedInv' /\ ApplyInv'
  BY <1>1
  DEF IInv, ChangedInv, MovedRoutes, Other, Touched, ApplyInv, Migrates, Source
<1>4. MovingInv'
  BY <1>1
  DEF IInv, MovingInv, Moved, Migrates, Source, Other, Kept, Emptied, Received
<1>5. RestoreInv' /\ RestoredInv'
  BY <1>1
  DEF IInv, RestoreInv, RestoreOps, RestoredInv, Touched, Exact,
      RouteMovedAway, RoutedBridgeTakenDown
<1>6. QED BY <1>2, <1>3, <1>4, <1>5 DEF IInv

LEMMA InitEstablishes ==
    ASSUME Init
    PROVE  IInv
<1>1. /\ net \in [Links -> Link] /\ Possible(net) /\ before = net
      /\ phase = "idle" /\ step = Done /\ config = Nothing
      /\ snapshot.change = "none" /\ snapshot.member = NoInterface
  BY DEF Init, NoSnapshot
<1>2. step \in Step /\ config \in Config
  BY <1>1 DEF Done, Do, Step, Links, Nothing, Config
<1>3. QED
  BY <1>1, <1>2
  DEF IInv, TypeOK, Phases, SnapshotInv, ChangedInv, ApplyInv, MovingInv,
      RestoreInv, RestoredInv

LEMMA NextPreserves ==
    ASSUME IInv, [Next]_vars
    PROVE  IInv'
<1>1. CASE \E type \in Changes, m \in Members \cup {NoInterface} :
             Begin(type, m)
  BY <1>1, BeginPreserves
<1>2. CASE LinkCall \/ ReadConfiguration
  BY <1>2, LinkCallPreserves, ReadPreserves
<1>3. CASE RemoveAddress \/ RemoveRoutes
  BY <1>3, RemoveAddressPreserves, RemoveRoutesPreserves
<1>4. CASE AddAddress \/ AddRoute \/ Added
  BY <1>4, AddAddressPreserves, AddRoutePreserves, AddedPreserves
<1>5. CASE RestoreExistence \/ RestoreMaster \/ RestoreFlag
  BY <1>5, RestoreExistencePreserves, RestoreMasterPreserves,
     RestoreFlagPreserves
<1>6. CASE CallFails \/ Completes
  BY <1>6, CallFailsPreserves, CompletesPreserves
<1>7. CASE Rollback
  BY <1>7, StartRestorePreserves DEF Rollback
<1>8. CASE Settle
  BY <1>8, SettlePreserves
<1>9. CASE UNCHANGED vars
  BY <1>9, StutterPreserves
<1>10. QED
  BY <1>1, <1>2, <1>3, <1>4, <1>5, <1>6, <1>7, <1>8, <1>9
  DEF Next, ProgramStep

(***************************************************************************)
(* The invariant holds whatever Apply, Restore, errors and restarts do, in *)
(* any order (provider_linux.go and manager.go, Apply and Revert).         *)
(***************************************************************************)
THEOREM InvariantHolds == Spec => []IInv
<1>1. Init => IInv
  BY InitEstablishes
<1>2. IInv /\ [Next]_vars => IInv'
  BY NextPreserves
<1>3. QED BY <1>1, <1>2, PTL DEF Spec

-----------------------------------------------------------------------------
(***************************************************************************)
(* The kernel's view of the links stays possible and the provider's        *)
(* program well formed (provider_linux.go, Apply and Restore).             *)
(***************************************************************************)
THEOREM TypeCorrect == Spec => []TypeOK
<1>1. IInv => TypeOK
  BY DEF IInv
<1>2. QED BY <1>1, InvariantHolds, PTL

(***************************************************************************)
(* Restore brings back existence, state, master, addresses and routes of   *)
(* every link, however often Apply, Restore or App Runner was stopped in   *)
(* between (provider_linux.go, Restore), unless a detach moved routes.     *)
(***************************************************************************)
THEOREM RollbacksAreExact == Spec => []RollbackIsExact
<1>1. IInv => RollbackIsExact
  BY DEF IInv, RestoredInv, Exact, RollbackIsExact
<1>2. QED BY <1>1, InvariantHolds, PTL

(***************************************************************************)
(* Restore fails only where a bridge with routes was taken down: it adds   *)
(* routes before it sets the link up (provider_linux.go, Restore).         *)
(***************************************************************************)
THEOREM RollbacksSucceed == Spec => []RollbackSucceeds
<1>1. IInv => RollbackSucceeds
  BY DEF IInv, RestoredInv, RollbackSucceeds
<1>2. QED BY <1>1, InvariantHolds, PTL

(***************************************************************************)
(* What was moved is on the other link, what was not is where it was.      *)
(***************************************************************************)
LEMMA PendingLosesNothing ==
    ASSUME IInv
    PROVE  NothingLost
<1> DEFINE m == snapshot.member
<1>1. SUFFICES ASSUME phase = "pending", snapshot.change \in MemberChanges
               PROVE  /\ UNION {net[l].addrs : l \in Links} =
                             UNION {before[l].addrs : l \in Links}
                      /\ UNION {net[l].routes : l \in Links} =
                             UNION {before[l].routes : l \in Links}
  BY DEF NothingLost
<1>2. /\ m \in Members /\ m \in Links /\ Bridge \in Links
      /\ \A l \in Links : l = Bridge \/ l = m \/ l \in Members \ {m}
      /\ \A l \in Members \ {m} : l \in Links /\ net[l] = before[l]
  BY <1>1, InProgress DEF IInv, ChangedInv, Links
<1>3. step.op = "done"
  BY <1>1 DEF IInv, RestoredInv, Done, Do
<1>4. \/ Kept(Bridge) /\ Kept(m)
      \/ Migrates /\ Emptied(Source) /\ Received(Other(Source), Nothing)
  BY <1>1, <1>3 DEF IInv, MovingInv, Moved
<1>5. /\ net[Bridge].addrs \cup net[m].addrs =
            before[Bridge].addrs \cup before[m].addrs
      /\ net[Bridge].routes \cup net[m].routes =
            before[Bridge].routes \cup before[m].routes
  <2>1. CASE Kept(Bridge) /\ Kept(m)
    BY <2>1 DEF Kept
  <2>2. CASE /\ Migrates
             /\ Emptied(Source) /\ Received(Other(Source), Nothing)
    <3>1. /\ net[Source].addrs = {} /\ net[Source].routes = {}
          /\ net[Other(Source)].addrs =
                before[Other(Source)].addrs \cup before[Source].addrs
          /\ net[Other(Source)].routes =
                before[Other(Source)].routes \cup before[Source].routes
      BY <1>1, <2>2, Ends DEF Emptied, Received, Nothing
    <3>2. \/ Source = Bridge /\ Other(Source) = m
          \/ Source = m /\ Other(Source) = Bridge
      BY <1>1, <2>2, Ends
    <3>3. QED BY <3>1, <3>2
  <2>3. QED BY <1>4, <2>1, <2>2
<1>6. \A x : (\E l \in Links : x \in net[l].addrs)
                <=> (\E l \in Links : x \in before[l].addrs)
  <2>1. ASSUME NEW x, NEW l \in Links, x \in net[l].addrs
        PROVE  \E k \in Links : x \in before[k].addrs
    BY <1>2, <1>5, <2>1
  <2>2. ASSUME NEW x, NEW l \in Links, x \in before[l].addrs
        PROVE  \E k \in Links : x \in net[k].addrs
    BY <1>2, <1>5, <2>2
  <2>3. QED BY <2>1, <2>2
<1>7. \A x : (\E l \in Links : x \in net[l].routes)
                <=> (\E l \in Links : x \in before[l].routes)
  <2>1. ASSUME NEW x, NEW l \in Links, x \in net[l].routes
        PROVE  \E k \in Links : x \in before[k].routes
    BY <1>2, <1>5, <2>1
  <2>2. ASSUME NEW x, NEW l \in Links, x \in before[l].routes
        PROVE  \E k \in Links : x \in net[k].routes
    BY <1>2, <1>5, <2>2
  <2>3. QED BY <2>1, <2>2
<1>8. QED BY <1>6, <1>7

(***************************************************************************)
(* Attaching or detaching a host interface, with or without moving its     *)
(* configuration, leaves every address and route of the host on some link  *)
(* (provider_linux.go, moveConfiguration).                                 *)
(***************************************************************************)
THEOREM NothingIsLost == Spec => []NothingLost
<1>1. IInv => NothingLost
  BY PendingLosesNothing
<1>2. QED BY <1>1, InvariantHolds, PTL

-----------------------------------------------------------------------------
(***************************************************************************)
(* The provider as confirmable transactions: what a step can be, seen from *)
(* outside.                                                                *)
(***************************************************************************)
Offered == IF phase = "idle" THEN net = before
                             ELSE snapshot.change \in Changes

Opens == /\ phase = "idle" /\ phase' # "idle"
         /\ net' = net /\ before' = net
         /\ snapshot'.change \in Changes
Goes == /\ phase # "idle" /\ phase' # "idle"
        /\ UNCHANGED <<snapshot, before>>

LEMMA SeenFromOutside ==
    ASSUME [Next]_vars
    PROVE  Opens \/ Goes \/ Settle \/ UNCHANGED vars
<1>1. ASSUME NEW type \in Changes, NEW m \in Members \cup {NoInterface},
             Begin(type, m)
      PROVE  Opens
  BY <1>1 DEF Begin, Opens
<1>2. CASE ProgramStep
  <2>1. ASSUME LinkCall \/ ReadConfiguration \/ RemoveRoutes \/ Added
        PROVE  Goes
    BY <2>1
    DEF LinkCall, ReadConfiguration, RemoveRoutes, Added, Runs, Proceed, Goes
  <2>2. ASSUME RemoveAddress \/ AddAddress \/ AddRoute
        PROVE  Goes
    BY <2>2 DEF RemoveAddress, AddAddress, AddRoute, Runs, Goes
  <2>3. ASSUME RestoreExistence \/ RestoreMaster \/ RestoreFlag
        PROVE  Goes
    BY <2>3
    DEF RestoreExistence, RestoreMaster, RestoreFlag, Runs, Proceed, Goes
  <2>4. ASSUME CallFails \/ Completes
        PROVE  Goes
    BY <2>4 DEF CallFails, StartRestore, Completes, Goes
  <2>5. QED BY <1>2, <2>1, <2>2, <2>3, <2>4 DEF ProgramStep
<1>3. CASE Rollback
  BY <1>3 DEF Rollback, StartRestore, Goes
<1>4. QED BY <1>1, <1>2, <1>3 DEF Next

LEMMA NoRouteMovedAway ==
    ASSUME "detachMigrate" \in Changes => Routes = {},
           IInv, Offered, phase # "idle"
    PROVE  Exact
<1>1. before[Bridge] \in Link /\ snapshot.change \in Changes
  BY InProgress DEF Offered
<1>2. QED BY <1>1 DEF Exact, RouteMovedAway, Link

LEMMA OfferedKept ==
    ASSUME "detachMigrate" \in Changes => Routes = {},
           IInv, Offered, [Next]_vars
    PROVE  Offered'
<1>1. CASE Opens
  BY <1>1 DEF Opens, Offered
<1>2. CASE Goes
  BY <1>2 DEF Goes, Offered
<1>3. CASE Settle
  <2>1. phase = "restored" => net = before
    BY NoRouteMovedAway DEF IInv, RestoredInv
  <2>2. QED BY <1>3, <2>1 DEF Settle, Offered
<1>4. CASE UNCHANGED vars
  BY <1>4 DEF vars, Offered
<1>5. QED BY <1>1, <1>2, <1>3, <1>4, SeenFromOutside

(***************************************************************************)
(* A host without static routes, or one on which no interface is detached  *)
(* with its configuration moved back, sees confirmable transactions: the   *)
(* links only move while a change is in progress, and it ends with them    *)
(* accepted as they are or as they were before (provider_linux.go,         *)
(* Snapshot, Apply and Restore; manager.go, Confirm and Revert).           *)
(***************************************************************************)
THEOREM ChangesAreTransactions ==
    ASSUME "detachMigrate" \in Changes => Routes = {}
    PROVE  Spec => IsTransactional
<1>1. Init => T!Init /\ Offered
  BY DEF Init, T!Init, Offered
<1>2. IInv /\ Offered /\ [Next]_vars => Offered'
  BY OfferedKept
<1>3. ASSUME IInv, IInv', Offered, [Next]_vars
      PROVE  [T!Next]_(T!vars)
  <2> USE DEF T!Next, T!vars
  <2>1. CASE Opens
    <3>1. before' = before
      BY <1>3, <2>1 DEF Opens, Offered
    <3>2. QED BY <2>1, <3>1 DEF Opens, T!Begin
  <2>2. CASE Goes
    <3>1. net' \in [Links -> Link]
      BY <1>3 DEF IInv, TypeOK
    <3>2. T!Move
      BY <2>2, <3>1 DEF Goes, T!Move
    <3>3. QED BY <3>2
  <2>3. CASE Settle
    <3>1. CASE phase = "pending"
      BY <2>3, <3>1 DEF Settle, T!Accept
    <3>2. CASE phase = "restored"
      <4>1. net = before
        BY <1>3, <3>2, NoRouteMovedAway DEF IInv, RestoredInv
      <4>2. QED BY <2>3, <3>2, <4>1 DEF Settle, T!RollBack

    <3>3. QED BY <2>3, <3>1, <3>2 DEF Settle
  <2>4. CASE UNCHANGED vars
    BY <2>4 DEF vars
  <2>5. QED BY <1>3, <2>1, <2>2, <2>3, <2>4, SeenFromOutside
<1>4. QED
  BY <1>1, <1>2, <1>3, InvariantHolds, PTL DEF Spec, IsTransactional, T!Spec
=============================================================================
