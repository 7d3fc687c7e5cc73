--------------------------- MODULE BridgeServices ---------------------------
(***************************************************************************)
(* The services of managed bridges as a whole: the life cycle half of the  *)
(* DHCP manager (internal/dhcp/dhcp.go: Prepare, Release, Reconcile and    *)
(* Configure), the DNS servers it starts and stops (internal/dns/dns.go)   *)
(* and the NAT manager, every step of which is that of NatForwarding.      *)
(*                                                                         *)
(* Prepare and Release are called by the VM manager with its mutex held,   *)
(* and by start-up before the API serves, so one call is in progress at a  *)
(* time (prog).  prepareBridge holds the DHCP manager's mutex over the     *)
(* calls it makes; releaseBridge lets go of it before it stops the         *)
(* services of a bridge without users, and Configure may come in between.  *)
(***************************************************************************)
EXTENDS NatForwarding, Sequences

CONSTANTS
    VMs,
    Uses,        \* the bridges of each machine, in the order of its NICs
    Off,         \* managed DHCP is disabled
    Choices,     \* what a bridge may be configured to: Off or
                 \* [range, nat, dns]
    None,        \* no runtime
    MaxFailures  \* bound on failing calls and on servers that die

ASSUME BridgeAssumption ==
    /\ Uses \in [VMs -> Seq(Bridges)]
    /\ \A c \in Choices \ {Off} : c.nat \in BOOLEAN /\ c.dns \in BOOLEAN
    /\ MaxFailures \in Nat

Entry == [users : SUBSET VMs, running : BOOLEAN, nat : BOOLEAN, dns : BOOLEAN]

ASSUME NoneIsDistinct == None \notin Entry

VARIABLES
    settings, \* dhcp Manager.state.Bridges, in memory and in dhcp.json
    runtime,  \* dhcp Manager.runtimes
    dns,      \* dns Manager.runtimes: "none", "running" or "dead"
    natRange, \* the range a bridge's NAT rules were made for
    machine,  \* "stopped" or "active"
    prog,     \* the Prepare or Release in progress
    restore,  \* machines Reconcile has yet to prepare
    booting,  \* start-up has not finished
    promised, \* history: Prepare succeeded for this machine on this bridge
    leftover, \* history: bridges whose NAT could not be stopped
    failures

services == <<settings, runtime, dns, natRange>>
history == <<promised, leftover>>
bridgeVars == <<services, machine, prog, restore, booting, history, failures>>
allVars == <<vars, bridgeVars>>

Idle == [pc |-> "idle"]

BridgeInit ==
    /\ Init
    /\ settings = [b \in Bridges |-> Off]
    /\ runtime = [b \in Bridges |-> None]
    /\ dns = [b \in Bridges |-> "none"]
    /\ natRange = [b \in Bridges |-> None]
    /\ machine = [v \in VMs |-> "stopped"]
    /\ prog = Idle
    /\ restore = {}
    /\ booting = FALSE
    /\ promised = {}
    /\ leftover = {}
    /\ failures = 0
-----------------------------------------------------------------------------
Fails == failures < MaxFailures /\ failures' = failures + 1
Succeeds == UNCHANGED failures

\* The API answers, nobody holds the VM manager's mutex.
Ready == prog = Idle /\ ~booting /\ at = "idle"

\* prepareBridge holds the DHCP manager's mutex.
Locked == prog.pc \in {"nat", "dns", "listen", "undo"}

IsServed(b) == runtime[b] # None /\ runtime[b].running

Bridge == Head(prog.todo)
Wanted == settings[Bridge]

Call(kind, v, bridges) ==
    prog' = [pc |-> "next", kind |-> kind, vm |-> v, todo |-> bridges,
             done |-> <<>>, stopping |-> None, natStarted |-> FALSE,
             dnsStarted |-> FALSE]

\* On to the next bridge of the machine.
Advance ==
    prog' = [prog EXCEPT !.pc = "next", !.todo = Tail(@),
                         !.done = Append(@, Bridge), !.stopping = None,
                         !.natStarted = FALSE, !.dnsStarted = FALSE]

\* A call of the NAT manager that makes no kernel or file operation yet.
NatCalled(action) == action /\ UNCHANGED smooth
-----------------------------------------------------------------------------
(***************************************************************************)
(* Prepare gives up: the bridges prepared before are released again.       *)
(***************************************************************************)
GiveUp ==
    /\ Call("unwind", prog.vm, prog.done)
    /\ promised' = {p \in promised : p[1] # prog.vm}

(***************************************************************************)
(* The machine becomes a user of the bridge.                               *)
(***************************************************************************)
Join(entry) ==
    /\ runtime' = [runtime EXCEPT ![Bridge] =
                      [entry EXCEPT !.users = @ \cup {prog.vm}]]
    /\ promised' = promised \cup {<<prog.vm, Bridge>>}
    /\ Advance

Preparing == prog.pc = "next" /\ prog.kind \in {"start", "boot"}

\* Managed DHCP is disabled on the bridge: nothing to do.
PrepareUnmanaged ==
    /\ Preparing /\ prog.todo # <<>> /\ Wanted = Off
    /\ Advance
    /\ UNCHANGED <<vars, services, machine, restore, booting, history,
                   failures>>

(***************************************************************************)
(* The bridge is served already; only a DNS server that is not running is  *)
(* started again.  That may fail, and Auto DNS may refuse the machine's    *)
(* name.                                                                   *)
(***************************************************************************)
PrepareRunning ==
    /\ Preparing /\ prog.todo # <<>> /\ Wanted # Off
    /\ IsServed(Bridge)
    /\ \/ /\ Succeeds
          /\ Join(runtime[Bridge])
          /\ dns' = IF Wanted.dns THEN [dns EXCEPT ![Bridge] = "running"]
                    ELSE dns
       \/ /\ Wanted.dns
          /\ Fails
          /\ GiveUp
          /\ UNCHANGED <<runtime, dns>>
    /\ UNCHANGED <<vars, settings, natRange, machine, restore, booting,
                   leftover>>

\* Mutant: NAT that runs already counts as started by this call.
NatStartedAlways(b) == TRUE
NatStarted(b) == b \notin active

(***************************************************************************)
(* The bridge is not served, or its DHCP server died.  The server address  *)
(* is assigned, then NAT is started unless it runs; NAT that runs for      *)
(* another range is refused.                                               *)
(***************************************************************************)
PrepareStopped ==
    /\ Preparing /\ prog.todo # <<>> /\ Wanted # Off
    /\ ~IsServed(Bridge)
    /\ \/ /\ Succeeds /\ UNCHANGED promised
          /\ \/ /\ Wanted.nat /\ Bridge \notin active
                /\ NatCalled(Start(Bridge))
                /\ natRange' = [natRange EXCEPT ![Bridge] = Wanted.range]
                /\ prog' = [prog EXCEPT !.pc = "nat",
                                        !.natStarted = NatStarted(Bridge)]
             \/ /\ Wanted.nat /\ Bridge \in active
                /\ natRange[Bridge] = Wanted.range
                /\ prog' = [prog EXCEPT !.pc = "dns",
                                        !.natStarted = NatStarted(Bridge)]
                /\ UNCHANGED <<vars, natRange>>
             \/ /\ ~Wanted.nat
                /\ prog' = [prog EXCEPT !.pc = "dns"]
                /\ UNCHANGED <<vars, natRange>>
       \/ /\ Wanted.nat /\ Bridge \in active
          /\ natRange[Bridge] # Wanted.range
          /\ Succeeds /\ GiveUp
          /\ UNCHANGED <<vars, natRange>>
       \/ /\ Fails /\ GiveUp
          /\ UNCHANGED <<vars, natRange>>
    /\ UNCHANGED <<settings, runtime, dns, machine, restore, booting,
                   leftover>>

\* nat.Start returned; an error leaves the bridge inactive.
NatReturned ==
    /\ prog.pc = "nat" /\ at = "idle"
    /\ IF Bridge \in active
       THEN prog' = [prog EXCEPT !.pc = "dns"] /\ UNCHANGED promised
       ELSE GiveUp
    /\ UNCHANGED <<vars, services, machine, restore, booting, leftover,
                   failures>>

\* A later service could not be started: NAT goes if this call started it.
UndoNat ==
    IF prog.natStarted
    THEN /\ NatCalled(Stop(Bridge))
         /\ prog' = [prog EXCEPT !.pc = "undo"]
         /\ UNCHANGED promised
    ELSE GiveUp /\ UNCHANGED vars

StartDNS ==
    LET running == dns[Bridge] = "running"
    IN  /\ prog.pc = "dns"
        /\ \/ /\ Succeeds
              /\ dns' = IF Wanted.dns THEN [dns EXCEPT ![Bridge] = "running"]
                        ELSE dns
              /\ prog' = [prog EXCEPT !.pc = "listen",
                                !.dnsStarted = Wanted.dns /\ ~running]
              /\ UNCHANGED <<vars, promised>>
           \/ /\ Wanted.dns /\ ~running
              /\ Fails
              /\ UndoNat
              /\ UNCHANGED dns
        /\ UNCHANGED <<settings, runtime, natRange, machine, restore,
                       booting, leftover>>

(***************************************************************************)
(* The DHCP listener comes last; when it fails, what this call started is  *)
(* stopped again.                                                          *)
(***************************************************************************)
Listen ==
    LET users == IF runtime[Bridge] = None THEN {} ELSE runtime[Bridge].users
    IN  /\ prog.pc = "listen"
        /\ \/ /\ Succeeds
              /\ Join([users |-> users, running |-> TRUE,
                       nat |-> Wanted.nat, dns |-> Wanted.dns])
              /\ UNCHANGED <<vars, dns>>
           \/ /\ Fails
              /\ dns' = IF prog.dnsStarted
                        THEN [dns EXCEPT ![Bridge] = "none"] ELSE dns
              /\ UndoNat
              /\ UNCHANGED runtime
        /\ UNCHANGED <<settings, natRange, machine, restore, booting,
                       leftover>>

KeptOrGone(b) == IF b \in active THEN leftover \cup {b} ELSE leftover \ {b}

NatUndone ==
    /\ prog.pc = "undo" /\ at = "idle"
    /\ GiveUp
    /\ leftover' = KeptOrGone(Bridge)
    /\ UNCHANGED <<vars, services, machine, restore, booting, failures>>
-----------------------------------------------------------------------------
(***************************************************************************)
(* releaseBridge: the last user takes the entry with it, under the mutex;  *)
(* the services it had are stopped after the unlock.                       *)
(***************************************************************************)
Releasing == prog.pc = "next" /\ prog.kind \in {"unwind", "stop"}

ReleaseBridge ==
    LET old == runtime[Bridge]
        users == old.users \ {prog.vm}
    IN  /\ Releasing /\ prog.todo # <<>>
        /\ \/ /\ old = None
              /\ Advance
              /\ UNCHANGED runtime
           \/ /\ old # None /\ users # {}
              /\ runtime' = [runtime EXCEPT ![Bridge].users = users]
              /\ Advance
           \/ /\ old # None /\ users = {}
              /\ runtime' = [runtime EXCEPT ![Bridge] = None]
              /\ prog' = [prog EXCEPT !.pc = "closing", !.stopping = old]
        /\ UNCHANGED <<vars, settings, dns, natRange, machine, restore,
                       booting, history, failures>>

\* The DHCP socket is closed and dns.Stop forgets the DNS server.
StopDNS ==
    /\ prog.pc = "closing"
    /\ dns' = IF prog.stopping.dns THEN [dns EXCEPT ![Bridge] = "none"]
              ELSE dns
    /\ prog' = [prog EXCEPT !.pc = "stopNat"]
    /\ UNCHANGED <<vars, settings, runtime, natRange, machine, restore,
                   booting, history, failures>>

\* Mutant: NAT is stopped if the bridge is configured for it now.
StopsNatAsConfigured == Wanted # Off /\ Wanted.nat
StopsNat == prog.stopping.nat

StopNat ==
    /\ prog.pc = "stopNat"
    /\ IF StopsNat /\ Bridge \in active
       THEN /\ NatCalled(Stop(Bridge))
            /\ prog' = [prog EXCEPT !.pc = "stopping"]
       ELSE Advance /\ UNCHANGED vars
    /\ UNCHANGED <<services, machine, restore, booting, history, failures>>

NatStopped ==
    /\ prog.pc = "stopping" /\ at = "idle"
    /\ Advance
    /\ leftover' = KeptOrGone(Bridge)
    /\ UNCHANGED <<vars, services, machine, restore, booting, promised,
                   failures>>
-----------------------------------------------------------------------------
(***************************************************************************)
(* The callers.  Manager.Start prepares the network, and releases it again *)
(* when QEMU does not start; the end of a run releases it.                 *)
(***************************************************************************)
StartVM(v) ==
    /\ Ready /\ machine[v] = "stopped"
    /\ Call("start", v, Uses[v])
    /\ UNCHANGED <<vars, services, machine, restore, booting, history,
                   failures>>

Forget(v) == promised' = {p \in promised : p[1] # v}

Prepared ==
    LET v == prog.vm
    IN  /\ Preparing /\ prog.todo = <<>>
        /\ \/ /\ Succeeds
              /\ machine' = [machine EXCEPT ![v] = "active"]
              /\ prog' = Idle /\ UNCHANGED promised
           \/ /\ prog.kind = "start" /\ Fails
              /\ Call("stop", v, Uses[v]) /\ Forget(v)
              /\ UNCHANGED machine
        /\ UNCHANGED <<vars, services, restore, booting, leftover>>

StopVM(v) ==
    /\ Ready /\ machine[v] = "active"
    /\ machine' = [machine EXCEPT ![v] = "stopped"]
    /\ Call("stop", v, Uses[v]) /\ Forget(v)
    /\ UNCHANGED <<vars, services, restore, booting, leftover, failures>>

Released ==
    /\ Releasing /\ prog.todo = <<>>
    /\ prog' = Idle
    /\ UNCHANGED <<vars, services, machine, restore, booting, history,
                   failures>>

CanConfigure(b) == runtime[b] # None => runtime[b].users = {}

(***************************************************************************)
(* Configure: refused while the bridge has users; nothing is started.      *)
(***************************************************************************)
Configure(b, new) ==
    /\ ~Locked /\ ~booting
    /\ settings[b] # new /\ CanConfigure(b)
    /\ settings' = [settings EXCEPT ![b] = new]
    /\ UNCHANGED <<vars, runtime, dns, natRange, machine, prog, restore,
                   booting, history, failures>>

(***************************************************************************)
(* The goroutines that serve: a DHCP or a DNS server ends by itself.       *)
(***************************************************************************)
DHCPDies(b) ==
    /\ ~Locked /\ Fails
    /\ IsServed(b)
    /\ runtime' = [runtime EXCEPT ![b].running = FALSE]
    /\ UNCHANGED <<vars, settings, dns, natRange, machine, prog, restore,
                   booting, history>>

DNSDies(b) ==
    /\ Fails
    /\ dns[b] = "running"
    /\ dns' = [dns EXCEPT ![b] = "dead"]
    /\ UNCHANGED <<vars, settings, runtime, natRange, machine, prog, restore,
                   booting, history>>
-----------------------------------------------------------------------------
(***************************************************************************)
(* App Runner ends and starts again: guests go on unless the host was      *)
(* rebooted, NAT rules stay, the listeners are gone.  Reconcile prepares   *)
(* the machines that are active, one after the other, then NAT finishes    *)
(* its recovery.                                                           *)
(***************************************************************************)
Reboot(survivors) ==
    /\ UNCHANGED smooth
    /\ runtime' = [b \in Bridges |-> None]
    /\ dns' = [b \in Bridges |-> "none"]
    /\ natRange' = [b \in Bridges |-> None]
    /\ machine' = [v \in VMs |-> IF v \in survivors THEN "active"
                                 ELSE "stopped"]
    /\ prog' = Idle
    /\ restore' = survivors
    /\ booting' = TRUE
    /\ promised' = {} /\ leftover' = {}
    /\ UNCHANGED <<settings, failures>>

BridgeRestart == Restart /\ Reboot({v \in VMs : machine[v] = "active"})
BridgeHostReboot == HostReboot /\ Reboot({})

Reconcile(v) ==
    /\ booting /\ prog = Idle
    /\ v \in restore
    /\ restore' = restore \ {v}
    /\ Call("boot", v, Uses[v])
    /\ UNCHANGED <<vars, services, machine, booting, history, failures>>

ReconcileEnds ==
    /\ booting /\ prog = Idle /\ restore = {}
    /\ IF recovering THEN NatCalled(FinishRecovery) ELSE UNCHANGED vars
    /\ booting' = FALSE
    /\ UNCHANGED <<services, machine, prog, restore, history, failures>>

\* The NAT manager goes on with what it was called for.
NatStep ==
    /\ \E ok \in BOOLEAN :
          /\ Step(ok)
          /\ smooth' = (smooth /\ ok)
          /\ IF ok THEN Succeeds ELSE Fails
    /\ UNCHANGED <<services, machine, prog, restore, booting, history>>

BridgeNext ==
    \/ \E v \in VMs : StartVM(v) \/ StopVM(v) \/ Reconcile(v)
    \/ PrepareUnmanaged \/ PrepareRunning \/ PrepareStopped \/ NatReturned
    \/ StartDNS \/ Listen \/ NatUndone \/ Prepared
    \/ ReleaseBridge \/ StopDNS \/ StopNat \/ NatStopped \/ Released
    \/ \E b \in Bridges : DHCPDies(b) \/ DNSDies(b)
    \/ \E b \in Bridges, new \in Choices : Configure(b, new)
    \/ NatStep \/ BridgeRestart \/ BridgeHostReboot \/ ReconcileEnds

BridgeSpec == BridgeInit /\ [][BridgeNext]_allVars
-----------------------------------------------------------------------------
(***************************************************************************)
(* A guest keeps the services it was started with until it ends or App     *)
(* Runner does, whatever other machines on its bridges start, fail to      *)
(* start or stop and whatever an administrator configures meanwhile: it is *)
(* a user of the bridge, the settings are still those of its services, NAT *)
(* translates the configured range, and the DNS server is there while the  *)
(* DHCP server is.  A guest that started while its bridge was unmanaged    *)
(* was promised nothing.                                                   *)
(***************************************************************************)
PreparedGuestsAreServed ==
    \A v \in VMs, b \in Bridges :
        <<v, b>> \in promised /\ machine[v] = "active" =>
            LET r == runtime[b]
            IN  /\ r # None /\ v \in r.users
                /\ settings[b] # Off
                /\ r.nat = settings[b].nat /\ r.dns = settings[b].dns
                /\ r.nat => b \in active /\ natRange[b] = settings[b].range
                /\ r.dns /\ r.running => dns[b] # "none"

(***************************************************************************)
(* Nothing is served to nobody: between calls, a bridge has an entry only  *)
(* for active machines and a DNS server or NAT only with an entry, also    *)
(* when starting one of the services failed half-way or the settings       *)
(* changed while the services were being stopped.  The one exception is    *)
(* NAT that could not be stopped.                                          *)
(***************************************************************************)
ServicesHaveUsers ==
    Ready => \A b \in Bridges :
        /\ runtime[b] # None =>
              /\ runtime[b].users # {}
              /\ \A v \in runtime[b].users : machine[v] = "active"
        /\ dns[b] # "none" => runtime[b] # None
        /\ b \in active =>
              b \in leftover \/ (runtime[b] # None /\ runtime[b].nat)
=============================================================================
