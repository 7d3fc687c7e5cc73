----------------------------- MODULE LinuxLinks -----------------------------
(***************************************************************************)
(* The Linux provider of the host network manager                          *)
(* (internal/hostnet/provider_linux.go): what Apply does to links, bridge  *)
(* membership, addresses and routes, and whether Restore undoes it.  Each  *)
(* netlink call is a step of its own, so that an error or a crash can stop *)
(* Apply and Restore anywhere; `step' says which call, or which loop over  *)
(* addresses and routes, comes next.                                       *)
(*                                                                         *)
(* A link's routes are the ones the provider moves: static routes of the   *)
(* main table.  Routes the kernel derives from addresses are left out.     *)
(***************************************************************************)
EXTENDS FiniteSets

CONSTANTS
    Bridge,      \* the managed bridge
    Members,     \* host interfaces that can be attached to it
    NoInterface, \* the interface of a change that is about the bridge only
    Addresses,   \* movable (global unicast) addresses
    Routes,      \* destinations of static routes
    Changes      \* the change types that are tried, subset of ChangeTypes

BridgeChanges == {"create", "delete", "setUp", "setDown"}
MemberChanges == {"attach", "detach", "attachMigrate", "detachMigrate"}
ChangeTypes == BridgeChanges \cup MemberChanges

ASSUME LinksAssumption ==
    /\ Bridge \notin Members
    /\ NoInterface \notin Members
    /\ Changes \subseteq ChangeTypes

VARIABLES
    net,      \* the links of the host
    phase,    \* where the change in progress stands
    step,     \* the next call of the program that runs
    config,   \* what addConfiguration has been given and not yet added
    snapshot, \* Snapshot: the change and the saved links
    before    \* all links as they were when the change was requested, or as
              \* they were confirmed since


program == <<step, config>>
vars == <<net, phase, program, snapshot, before>>

Links == {Bridge} \cup Members
Config == [addrs : SUBSET Addresses, routes : SUBSET Routes]
Link == [exists : BOOLEAN, up : BOOLEAN, attached : BOOLEAN,
         addrs : SUBSET Addresses, routes : SUBSET Routes]
Missing == [exists |-> FALSE, up |-> FALSE, attached |-> FALSE,
            addrs |-> {}, routes |-> {}]
Nothing == [addrs |-> {}, routes |-> {}]
NoSnapshot == [change |-> "none", member |-> NoInterface,
               saved |-> [l \in {} |-> Missing]]
Phases == {"idle", "apply", "pending", "restore", "restored", "failed"}

Calls == {"linkAdd", "linkDel", "up", "down", "setMaster", "setNoMaster"}
Step == [op : Calls \cup {"refuse", "read", "remove", "add", "exist",
                          "master", "flag", "done"},
         link : Links]
Do(op, l) == [op |-> op, link |-> l]
Done == Do("done", Bridge)

(***************************************************************************)
(* What the kernel can look like: routes need a link that is up and has an *)
(* address, and a destination has one route; only the bridge may be absent.*)
(***************************************************************************)
Possible(links) ==
    /\ ~links[Bridge].attached
    /\ links[Bridge].exists \/ links[Bridge] = Missing
    /\ \A l \in Links :
        /\ links[l].routes # {} => links[l].up /\ links[l].addrs # {}
        /\ \A m \in Links \ {l} : links[l].routes \cap links[m].routes = {}
    /\ \A m \in Members :
        links[m].exists /\ (links[m].attached => links[Bridge].exists)

TypeOK ==
    /\ net \in [Links -> Link]
    /\ Possible(net)
    /\ phase \in Phases
    /\ step \in Step
    /\ config \in Config
    /\ snapshot.change \in ChangeTypes \cup {"none"}
    /\ snapshot.member \in Members \cup {NoInterface}
    /\ before \in [Links -> Link]

Init ==
    /\ net \in {links \in [Links -> Link] : Possible(links)}
    /\ phase = "idle"
    /\ step = Done
    /\ config = Nothing
    /\ snapshot = NoSnapshot
    /\ before = net
-----------------------------------------------------------------------------
(***************************************************************************)
(* Netlink calls, and how the kernel answers them.  A link that is taken   *)
(* down or loses its last address loses its routes, and the members of a   *)
(* bridge that is deleted are free again.                                  *)
(***************************************************************************)
LinkAfter(call, link) ==
    CASE call = "linkAdd" -> [Missing EXCEPT !.exists = TRUE]
      [] call = "up" -> [link EXCEPT !.up = TRUE]
      [] call = "down" -> [link EXCEPT !.up = FALSE, !.routes = {}]
      [] call = "setMaster" -> [link EXCEPT !.attached = TRUE]
      [] call = "setNoMaster" -> [link EXCEPT !.attached = FALSE]

NetAfter(call, l) ==
    IF call = "linkDel"
    THEN [k \in Links |-> IF k = l THEN Missing
                          ELSE [net[k] EXCEPT !.attached = FALSE]]
    ELSE [net EXCEPT ![l] = LinkAfter(call, @)]

WithoutAddress(link, a) ==
    [link EXCEPT !.addrs = @ \ {a},
                 !.routes = IF link.addrs = {a} THEN {} ELSE @]

\* EEXIST of RouteAdd is ignored: some link already has this route.
Routed(r) == \E l \in Links : r \in net[l].routes

(***************************************************************************)
(* A route needs its link up and its gateway reachable, a master has to    *)
(* exist.  "refuse" stands for a check of the provider that fails.         *)
(***************************************************************************)
Fails ==
    LET link == net[step.link]
    IN  \/ step.op = "refuse"
        \/ step.op \notin {"linkAdd", "exist", "done"} /\ ~link.exists
        \/ step.op = "setMaster" /\ ~net[Bridge].exists
        \/ /\ step.op = "master"
           /\ snapshot.saved[step.link].attached /\ ~net[Bridge].exists
        \/ /\ step.op = "add" /\ config.addrs = {} /\ config.routes # {}
           /\ ~link.up \/ link.addrs = {}
-----------------------------------------------------------------------------
(***************************************************************************)
(* Apply, as its first call given the links it finds, and what follows a   *)
(* call.  moveConfiguration reads one link, removes what it has read and   *)
(* adds it to the other.                                                   *)
(***************************************************************************)
BridgeMembers == {m \in Members : net[m].attached}
Migrates == snapshot.change \in {"attachMigrate", "detachMigrate"}

Refused(type, m) ==
    CASE type = "delete" -> BridgeMembers # {}
      [] type \in {"attach", "attachMigrate"} -> net[m].attached
      [] type = "detach" -> ~net[m].attached
      [] type = "detachMigrate" -> ~net[m].attached \/ BridgeMembers # {m}
      [] OTHER -> FALSE

FirstCall(type, m) ==
    CASE type = "create" -> Do("linkAdd", Bridge)
      [] type = "delete" -> Do("linkDel", Bridge)
      [] type = "setUp" -> Do("up", Bridge)
      [] type = "setDown" -> Do("down", Bridge)
      [] type \in {"attach", "attachMigrate"} -> Do("setMaster", m)
      [] type = "detach" -> Do("setNoMaster", m)
      [] type = "detachMigrate" -> Do("read", Bridge)

Other(l) == IF l = Bridge THEN snapshot.member ELSE Bridge

AfterApply(op, l) ==
    CASE op = "linkAdd" -> Do("up", l)
      [] op = "setMaster" /\ Migrates -> Do("read", l)
      [] op = "read" -> Do("remove", l)
      [] op = "remove" -> Do("add", Other(l))
      [] op = "add" /\ l # Bridge -> Do("setNoMaster", l)
      [] OTHER -> Done

(***************************************************************************)
(* Restore: first bring back or remove the bridge itself, then per saved   *)
(* link its master, its configuration and whether it is up.                *)
(***************************************************************************)
AfterRestore(op, l) ==
    CASE op = "exist" /\ snapshot.saved[l].exists -> Do("master", l)
      [] op = "master" -> Do("remove", l)
      [] op = "remove" -> Do("add", l)
      [] op = "add" -> Do("flag", l)
      [] op = "flag" /\ Other(l) \in Members -> Do("master", Other(l))
      [] OTHER -> Done

Following == IF phase = "apply" THEN AfterApply(step.op, step.link)
                                ELSE AfterRestore(step.op, step.link)
-----------------------------------------------------------------------------
(***************************************************************************)
(* Snapshot and the start of Apply.                                        *)
(***************************************************************************)
Touched(m) == {Bridge} \cup ({m} \cap Members)

Begin(type, m) ==
    /\ phase = "idle"
    /\ m \in IF type \in MemberChanges THEN Members ELSE {NoInterface}
    /\ (type = "create") <=> ~net[Bridge].exists
    /\ snapshot' = [change |-> type, member |-> m,
                    saved |-> [l \in Touched(m) |-> net[l]]]
    /\ step' = IF Refused(type, m) THEN Do("refuse", Bridge)
                                   ELSE FirstCall(type, m)
    /\ before' = net
    /\ phase' = "apply"
    /\ UNCHANGED <<net, config>>

(***************************************************************************)
(* The calls of the two programs.                                          *)
(***************************************************************************)
Runs(op) == phase \in {"apply", "restore"} /\ step.op = op /\ ~Fails

Proceed ==
    /\ step' = Following
    /\ UNCHANGED <<phase, snapshot, before>>

LinkCall ==
    /\ \E call \in Calls :
        /\ Runs(call)
        /\ net' = NetAfter(call, step.link)
    /\ Proceed
    /\ UNCHANGED config

\* Mutant: the configuration is read after it was removed.
ReadNothing ==
    /\ Runs("read")
    /\ config' = Nothing
    /\ Proceed
    /\ UNCHANGED net

ReadConfiguration ==
    /\ Runs("read")
    /\ config' = [addrs |-> net[step.link].addrs,
                  routes |-> net[step.link].routes]
    /\ Proceed
    /\ UNCHANGED net

(***************************************************************************)
(* removeMovableConfiguration: the addresses, one after the other, then    *)
(* the routes that are left.                                               *)
(***************************************************************************)
RemoveAddress ==
    /\ Runs("remove")
    /\ \E a \in net[step.link].addrs :
        net' = [net EXCEPT ![step.link] = WithoutAddress(@, a)]
    /\ UNCHANGED <<phase, program, snapshot, before>>

RemoveRoutes ==
    /\ Runs("remove")
    /\ net[step.link].addrs = {}
    /\ net' = [net EXCEPT ![step.link].routes = {}]
    /\ Proceed
    /\ UNCHANGED config

(***************************************************************************)
(* addConfiguration: all addresses, then all routes.                       *)
(***************************************************************************)
AddAddress ==
    /\ Runs("add")
    /\ \E a \in config.addrs :
        /\ config' = [config EXCEPT !.addrs = @ \ {a}]
        /\ net' = [net EXCEPT ![step.link].addrs = @ \cup {a}]
    /\ UNCHANGED <<phase, step, snapshot, before>>

AddRoute ==
    /\ Runs("add")
    /\ config.addrs = {}
    /\ \E r \in config.routes :
        /\ config' = [config EXCEPT !.routes = @ \ {r}]
        /\ net' = IF Routed(r) THEN net
                  ELSE [net EXCEPT ![step.link].routes = @ \cup {r}]
    /\ UNCHANGED <<phase, step, snapshot, before>>

Added ==
    /\ Runs("add")
    /\ config = Nothing
    /\ Proceed
    /\ UNCHANGED <<net, config>>

(***************************************************************************)
(* The calls of Restore that depend on what was saved.                     *)
(***************************************************************************)
\* Mutants: a deleted bridge is not created again, the master is left alone.
RecreateNothing(saved, l) ==
    IF ~saved.exists /\ net[l].exists THEN NetAfter("linkDel", l) ELSE net
LeaveMaster(saved, l) == net

ExistenceRestored(saved, l) ==
    IF saved.exists = net[l].exists THEN net
    ELSE NetAfter(IF saved.exists THEN "linkAdd" ELSE "linkDel", l)

MasterRestored(saved, l) ==
    NetAfter(IF saved.attached THEN "setMaster" ELSE "setNoMaster", l)

RestoreExistence ==
    /\ Runs("exist")
    /\ net' = ExistenceRestored(snapshot.saved[step.link], step.link)
    /\ Proceed
    /\ UNCHANGED config

RestoreMaster ==
    LET saved == snapshot.saved[step.link]
    IN  /\ Runs("master")
        /\ net' = MasterRestored(saved, step.link)
        /\ config' = [addrs |-> saved.addrs, routes |-> saved.routes]
        /\ Proceed

RestoreFlag ==
    /\ Runs("flag")
    /\ net' = NetAfter(IF snapshot.saved[step.link].up THEN "up" ELSE "down",
                       step.link)
    /\ Proceed
    /\ UNCHANGED config

(***************************************************************************)
(* An error ends the program; Manager.Apply then restores the snapshot.    *)
(***************************************************************************)
StartRestore ==
    /\ phase' = "restore"
    /\ step' = Do("exist", Bridge)
    /\ config' = Nothing

CallFails ==
    /\ Fails
    /\ \/ phase = "apply" /\ StartRestore
       \/ /\ phase = "restore"
          /\ phase' = "failed"
          /\ step' = Done
          /\ config' = Nothing
    /\ UNCHANGED <<net, snapshot, before>>

Completes ==
    /\ phase \in {"apply", "restore"}
    /\ step = Done
    /\ phase' = IF phase = "apply" THEN "pending" ELSE "restored"
    /\ UNCHANGED <<net, program, snapshot, before>>

(***************************************************************************)
(* Revert, a timeout, a second Revert after a failure, or a restart of App *)
(* Runner in the middle of either program: Restore runs from its start.    *)
(***************************************************************************)
Rollback ==
    /\ phase \in {"apply", "pending", "restore", "failed"}
    /\ StartRestore
    /\ UNCHANGED <<net, snapshot, before>>

Settle ==
    /\ phase \in {"pending", "restored"}
    /\ phase' = "idle"
    /\ snapshot' = NoSnapshot
    /\ before' = IF phase = "pending" THEN net ELSE before
    /\ UNCHANGED <<net, program>>

ProgramStep ==
    \/ LinkCall \/ ReadConfiguration
    \/ RemoveAddress \/ RemoveRoutes
    \/ AddAddress \/ AddRoute \/ Added
    \/ RestoreExistence \/ RestoreMaster \/ RestoreFlag
    \/ CallFails \/ Completes

Next ==
    \/ \E type \in Changes, m \in Members \cup {NoInterface} : Begin(type, m)
    \/ ProgramStep
    \/ Rollback
    \/ Settle

Spec == Init /\ [][Next]_vars
-----------------------------------------------------------------------------
(***************************************************************************)
(* A rollback that reports success restored every link exactly: existence, *)
(* state, master, addresses and routes, wherever Apply or an earlier       *)
(* rollback stopped.  The one exception is a detach that moved a route to  *)
(* the member: the bridge is restored first, its RouteAdd finds the route  *)
(* on the member (EEXIST, ignored), and the member gives it up afterwards. *)
(***************************************************************************)
RouteMovedAway == snapshot.change = "detachMigrate" /\ before[Bridge].routes # {}
RollbackIsExact == phase = "restored" /\ ~RouteMovedAway => net = before

(***************************************************************************)
(* The kernel accepts every call of a rollback, unless the change took     *)
(* down a bridge with a static route: routes come before the up flag.      *)
(***************************************************************************)
RoutedBridgeTakenDown ==
    snapshot.change \in {"setDown", "delete"} /\ before[Bridge].routes # {}
RollbackSucceeds == phase = "failed" => RoutedBridgeTakenDown

(***************************************************************************)
(* Every change can be rolled back: Restore never fails on what Apply did. *)
(***************************************************************************)
EveryChangeCanBeRolledBack == phase # "failed"

(***************************************************************************)
(* Attaching or detaching an interface loses no address and no route: each *)
(* is still on some link of the host.                                      *)
(***************************************************************************)
NothingLost ==
    phase = "pending" /\ snapshot.change \in MemberChanges =>
        /\ UNION {net[l].addrs : l \in Links} =
               UNION {before[l].addrs : l \in Links}
        /\ UNION {net[l].routes : l \in Links} =
               UNION {before[l].routes : l \in Links}

(***************************************************************************)
(* The provider keeps what the manager promises of a change: the links     *)
(* only move while one is in progress, and it ends with the links accepted *)
(* as they are or with the ones of before.  A detach that moves routes is  *)
(* left out: see RollbackIsExact.                                          *)
(***************************************************************************)
T == INSTANCE NetTransaction WITH
        Networks <- [Links -> Link], current <- net, accepted <- before,
        open <- phase # "idle"

IsTransactional == T!Spec
=============================================================================
