---------------------------- MODULE LiveDevices ----------------------------
(***************************************************************************)
(* Hardware of a virtual machine that exists outside vms.json: its virtual *)
(* BMC (internal/ipmi/ipmi.go and ConfigureIPMI, SetIPMIBootFlags of       *)
(* internal/vm/vm.go) and its optical drives (AddCDROM, UpdateCDROM,       *)
(* RemoveCDROM), with the starts, exits and restarts that they meet.       *)
(*                                                                         *)
(* All machines use one management bridge.  A handler changes the live     *)
(* hardware first and vms.json afterwards, holding m.mu over both; App     *)
(* Runner may crash in between (held).  The commands of a BMC client reach *)
(* the manager as soon as its endpoint serves, which at start-up is before *)
(* every endpoint is restored (todo).                                      *)
(***************************************************************************)
EXTENDS Naturals, Sequences, SequencesExt

CONSTANTS
    VMs,          \* the defined machines
    Guests,       \* bound: the machines that get drives and are started
    Addrs,        \* management addresses
    Logins,       \* user names with their passwords
    Isos,         \* images a drive may hold
    Drives,       \* identifiers of optical drives, each drawn at most once
    None,         \* no configuration, endpoint, image or process
    MaxFailures,  \* bound on failing saves, listeners and QMP commands
    MaxRestarts   \* bound on crashes and shutdowns of App Runner

ASSUME DeviceConstants ==
    /\ Guests \subseteq VMs /\ None \notin Isos
    /\ MaxFailures \in Nat /\ MaxRestarts \in Nat

BMC == [addr : Addrs, login : Logins]
Endpoint == [addr : Addrs, login : Logins, running : BOOLEAN]
Overrides == {"no", "once", "always"}
Media == Isos \cup {None}

ASSUME NoneIsDistinct == None \notin BMC \cup Endpoint

VARIABLES
    vms,      \* Manager.vms: BMC, boot override, drives, active status
    file,     \* vms.json
    endpoint, \* ipmi Manager.runtimes
    assigned, \* management addresses assigned to the bridge
    guest,    \* per machine: what its QEMU process holds in its drives
    held,     \* the handler between its hardware change and its save
    todo,     \* machines Reconcile has yet to restore
    up,       \* App Runner is running
    commands, \* machines for which commands of BMC clients wait for m.mu
    drawn,    \* drive identifiers drawn so far
    unsettled,\* machines whose endpoint a failed call gave up or left, or
              \* whose server ended by itself
    severed,  \* machines whose address Reconcile removed for another one
    strayed,  \* machines whose live media a failure or a crash left behind
    spent,    \* machines that booted once with their one-shot override
    failures, restarts

hardware == <<endpoint, assigned, guest>>
control == <<held, todo, up, commands>>
ghosts == <<unsettled, severed, strayed, spent>>
counters == <<failures, restarts>>
vars == <<vms, file, hardware, control, drawn, ghosts, counters>>

Free == [kind |-> "free"]
Machine(defined) == [bmc |-> None, boot |-> "no", drives |-> <<>>,
                     active |-> FALSE, defined |-> defined]

Init ==
    /\ vms = [v \in VMs |-> Machine(TRUE)] /\ file = vms
    /\ endpoint = [v \in VMs |-> None] /\ guest = endpoint
    /\ assigned = {} /\ todo = {} /\ commands = {} /\ drawn = {}
    /\ held = Free /\ up = TRUE
    /\ unsettled = {} /\ severed = {} /\ strayed = {} /\ spent = {}
    /\ failures = 0 /\ restarts = 0
-----------------------------------------------------------------------------
Fails == failures < MaxFailures /\ failures' = failures + 1
Succeeds == UNCHANGED failures

(***************************************************************************)
(* A request takes the mutex and finds the machine with indexByID; the API *)
(* serves once start-up is over.                                           *)
(***************************************************************************)
Idle == up /\ held = Free
Serving == Idle /\ todo = {}
CanHandle(v) == Idle /\ vms[v].defined
CanRequest(v) == Serving /\ vms[v].defined

\* Store.Save by an edit that puts the previous definition back.
Commit(machines) ==
    \/ Succeeds /\ vms' = machines /\ file' = machines
    \/ Fails /\ UNCHANGED <<vms, file>>

With(set, v, holds) == IF holds THEN set \cup {v} ELSE set \ {v}
-----------------------------------------------------------------------------
(***************************************************************************)
(* The endpoints.  An outcome is what a call leaves behind, whether it     *)
(* succeeded, and whether something failed in it.                          *)
(***************************************************************************)
Outcome(eps, addrs, ok, failed) ==
    [endpoint |-> eps, assigned |-> addrs, ok |-> ok, failed |-> failed]

(***************************************************************************)
(* endpoint.serves: nothing to do, and no session is dropped.              *)
(***************************************************************************)
Serves(e, bmc) ==
    e # None /\ e.running /\ e.addr = bmc.addr /\ e.login = bmc.login

(***************************************************************************)
(* disableLocked: the runtime is dropped, the server closed, the address   *)
(* removed; a failure to remove it is logged.                              *)
(***************************************************************************)
DisableLocked(v, eps, addrs) ==
    LET none == [eps EXCEPT ![v] = None]
    IN  IF eps[v] = None THEN {Outcome(eps, addrs, TRUE, FALSE)}
        ELSE {Outcome(none, addrs \ {eps[v].addr}, TRUE, FALSE),
              Outcome(none, addrs, TRUE, TRUE)}

(***************************************************************************)
(* ensureAddress and udp.Listen: an address that some interface has is     *)
(* refused; when listening fails the address is removed again, if it can   *)
(* be, which nobody checks.                                                *)
(***************************************************************************)
Listen(v, bmc, eps, addrs) ==
    LET serving == [addr |-> bmc.addr, login |-> bmc.login, running |-> TRUE]
    IN  IF bmc.addr \in addrs THEN {Outcome(eps, addrs, FALSE, FALSE)}
        ELSE {Outcome([eps EXCEPT ![v] = serving], addrs \cup {bmc.addr},
                      TRUE, FALSE),
              Outcome(eps, addrs, FALSE, TRUE),
              Outcome(eps, addrs \cup {bmc.addr}, FALSE, TRUE)}

\* Mutant: an address that somebody has already is taken over.
ConfigureUnchecked(v, bmc, eps, addrs) ==
    IF Serves(eps[v], bmc) THEN {Outcome(eps, addrs, TRUE, FALSE)}
    ELSE UNION {Listen(v, bmc, d.endpoint, addrs \ {bmc.addr}) :
                   d \in DisableLocked(v, eps, addrs)}

(***************************************************************************)
(* Configure: an endpoint that serves already is kept; bridgePrefix may    *)
(* fail; an address another runtime has is refused; only then is the old   *)
(* endpoint given up.                                                      *)
(***************************************************************************)
Configure(v, bmc, eps, addrs) ==
    IF Serves(eps[v], bmc) THEN {Outcome(eps, addrs, TRUE, FALSE)}
    ELSE IF \E w \in VMs \ {v} : eps[w] # None /\ eps[w].addr = bmc.addr
    THEN {Outcome(eps, addrs, FALSE, FALSE)}
    ELSE {Outcome(eps, addrs, FALSE, TRUE)} \cup
         UNION {{[l EXCEPT !.failed = l.failed \/ d.failed] :
                    l \in Listen(v, bmc, d.endpoint, d.assigned)} :
                   d \in DisableLocked(v, eps, addrs)}

Apply(outcome) ==
    /\ endpoint' = outcome.endpoint /\ assigned' = outcome.assigned
    /\ IF outcome.failed THEN Fails ELSE Succeeds

StillSevered(v, outcome) ==
    IF outcome.endpoint[v] = endpoint[v] THEN severed ELSE severed \ {v}
-----------------------------------------------------------------------------
(***************************************************************************)
(* ConfigureIPMI up to its save.  A configuration that cannot be brought   *)
(* up is refused, though the old endpoint may be gone by then.             *)
(***************************************************************************)
ConfigureIPMI(v, bmc) ==
    /\ CanRequest(v)
    /\ \E o \in Configure(v, bmc, endpoint, assigned) :
          /\ Apply(o)
          /\ unsettled' = With(unsettled, v,
                ~o.ok /\ (v \in unsettled \/ o.endpoint[v] # endpoint[v]))
          /\ severed' = StillSevered(v, o)
          /\ held' = IF o.ok THEN [kind |-> "bmc", vm |-> v, next |-> bmc]
                     ELSE Free
    /\ UNCHANGED <<vms, file, guest, todo, up, commands, drawn, strayed, spent,
                   restarts>>

DisableIPMI(v) ==
    /\ CanRequest(v)
    /\ \E o \in DisableLocked(v, endpoint, assigned) : Apply(o)
    /\ held' = [kind |-> "bmc", vm |-> v, next |-> None]
    /\ unsettled' = unsettled \ {v} /\ severed' = severed \ {v}
    /\ UNCHANGED <<vms, file, guest, todo, up, commands, drawn, strayed, spent,
                   restarts>>

(***************************************************************************)
(* The save.  The new configuration carries no boot override.  When saving *)
(* fails the previous endpoint is brought back, if it can be.              *)
(***************************************************************************)
SaveIPMI ==
    LET v == held.vm
    IN  /\ held.kind = "bmc"
        /\ vms' = [vms EXCEPT ![v].bmc = held.next, ![v].boot = "no"]
        /\ file' = vms'
        /\ held' = Free
        /\ UNCHANGED <<hardware, todo, up, commands, drawn, ghosts, counters>>

RollbackIPMI ==
    LET v == held.vm
        previous == vms[v].bmc
        outcomes == IF previous = None
                    THEN DisableLocked(v, endpoint, assigned)
                    ELSE Configure(v, previous, endpoint, assigned)
    IN  /\ held.kind = "bmc"
        /\ failures < MaxFailures
        /\ \E o \in outcomes :
              /\ endpoint' = o.endpoint /\ assigned' = o.assigned
              /\ failures' = failures + (IF o.failed THEN 2 ELSE 1)
              /\ failures' <= MaxFailures
              /\ unsettled' = With(unsettled, v, ~o.ok)
              /\ severed' = StillSevered(v, o)
        /\ held' = Free
        /\ UNCHANGED <<vms, file, guest, todo, up, commands, drawn, strayed,
                       spent, restarts>>

(***************************************************************************)
(* The goroutine of Configure: Serve returned by itself, the endpoint is   *)
(* recorded as not running and keeps its address.                          *)
(***************************************************************************)
ServeEnds(v) ==
    /\ up /\ endpoint[v] # None /\ endpoint[v].running
    /\ Fails
    /\ endpoint' = [endpoint EXCEPT ![v].running = FALSE]
    /\ unsettled' = unsettled \cup {v}
    /\ UNCHANGED <<vms, file, assigned, guest, control, drawn, severed,
                   strayed, spent, restarts>>

(***************************************************************************)
(* The server of an endpoint calls the manager for its clients.  A command *)
(* that waits for the mutex takes effect also when the endpoint was closed *)
(* meanwhile: Close cannot wait for it, its caller has the mutex.          *)
(***************************************************************************)
ReceiveCommand(v) ==
    /\ up /\ v \notin commands
    /\ endpoint[v] # None /\ endpoint[v].running
    /\ commands' = commands \cup {v}
    /\ UNCHANGED <<vms, file, hardware, held, todo, up, drawn, ghosts,
                   counters>>

(***************************************************************************)
(* SetIPMIBootFlags, for one of the commands that wait.  A failed save is  *)
(* reported and changes memory all the same.                               *)
(***************************************************************************)
SetIPMIBootFlags(v, override) ==
    /\ CanHandle(v)
    /\ v \in commands
    /\ commands' \in {commands, commands \ {v}}
    /\ vms' = [vms EXCEPT ![v].boot = override]
    /\ \/ Succeeds /\ file' = vms'
       \/ Fails /\ UNCHANGED file
    /\ spent' = spent \ {v}
    /\ UNCHANGED <<hardware, held, todo, up, drawn, unsettled, severed,
                   strayed, restarts>>

(***************************************************************************)
(* Delete takes the BMC down first.  When a file cannot be removed the     *)
(* definition stays, without its endpoint; a failed save removes it from   *)
(* memory only, and a restart brings it back.                              *)
(***************************************************************************)
Delete(v) ==
    /\ CanRequest(v)
    /\ ~vms[v].active
    /\ \E o \in DisableLocked(v, endpoint, assigned) : Apply(o)
    /\ held' = [kind |-> "delete", vm |-> v]
    /\ severed' = severed \ {v}
    /\ UNCHANGED <<vms, file, guest, todo, up, commands, drawn, unsettled,
                   strayed, spent, restarts>>

SaveDelete ==
    LET v == held.vm
        deleted == [vms EXCEPT ![v] = Machine(FALSE)]
    IN  /\ held.kind = "delete"
        /\ \/ /\ Succeeds
              /\ vms' = deleted /\ file' = deleted
              /\ unsettled' = unsettled \ {v}
           \/ /\ Fails
              /\ vms' = deleted /\ UNCHANGED file
              /\ unsettled' = unsettled \ {v}
           \/ /\ Fails
              /\ UNCHANGED <<vms, file>>
              /\ unsettled' = unsettled \cup {v}
        /\ held' = Free
        /\ UNCHANGED <<hardware, todo, up, commands, drawn, severed, strayed,
                       spent, restarts>>
-----------------------------------------------------------------------------
(***************************************************************************)
(* The optical drives.  Drives are added and removed while the machine is  *)
(* off, so a drive's position is its position in the QEMU process.         *)
(***************************************************************************)
AddCDROM(v, d, iso) ==
    /\ CanRequest(v)
    /\ ~vms[v].active /\ d \notin drawn
    /\ drawn' = drawn \cup {d}
    /\ Commit([vms EXCEPT ![v].drives = Append(@, [id |-> d, iso |-> iso])])
    /\ UNCHANGED <<hardware, control, ghosts, restarts>>

\* Mutant: a drive may be removed from the definition of a running machine.
RemoveCDROMAnytime(v, i) ==
    /\ CanRequest(v)
    /\ i \in DOMAIN vms[v].drives
    /\ Commit([vms EXCEPT ![v].drives = RemoveAt(@, i)])
    /\ UNCHANGED <<hardware, control, drawn, ghosts, restarts>>

RemoveCDROM(v, i) ==
    /\ CanRequest(v)
    /\ ~vms[v].active /\ i \in DOMAIN vms[v].drives
    /\ Commit([vms EXCEPT ![v].drives = RemoveAt(@, i)])
    /\ UNCHANGED <<hardware, control, drawn, ghosts, restarts>>

(***************************************************************************)
(* UpdateCDROM: the recorded image again is no change.  While the machine  *)
(* is active the medium is changed over QMP first, which fails without a   *)
(* process.  A failure is reported and nothing is recorded, though QEMU    *)
(* may have changed the medium before its answer was lost or late.         *)
(***************************************************************************)
UpdateCDROM(v, i, iso) ==
    /\ CanRequest(v)
    /\ i \in DOMAIN vms[v].drives /\ vms[v].drives[i].iso # iso
    /\ IF vms[v].active
       THEN \/ /\ guest[v] # None /\ Succeeds
               /\ guest' = [guest EXCEPT ![v][i] = iso]
               /\ held' = [kind |-> "cdrom", vm |-> v, next |-> iso, at |-> i]
               /\ UNCHANGED <<vms, file, strayed>>
            \/ /\ \/ guest[v] = None /\ Succeeds
                  \/ Fails
               /\ UNCHANGED <<guest, held, vms, file, strayed>>
            \/ /\ guest[v] # None /\ Fails
               /\ guest' = [guest EXCEPT ![v][i] = iso]
               /\ strayed' = strayed \cup {<<v, i>>}
               /\ UNCHANGED <<held, vms, file>>
       ELSE /\ Commit([vms EXCEPT ![v].drives[i].iso = iso])
            /\ UNCHANGED <<guest, held, strayed>>
    /\ UNCHANGED <<endpoint, assigned, todo, up, commands, drawn, unsettled,
                   severed, spent, restarts>>

SaveCDROM ==
    LET v == held.vm
    IN  /\ held.kind = "cdrom"
        /\ vms' = [vms EXCEPT ![v].drives[held.at].iso = held.next]
        /\ file' = vms'
        /\ held' = Free
        /\ strayed' = strayed \ {<<v, held.at>>}
        /\ UNCHANGED <<hardware, todo, up, commands, drawn, unsettled, severed,
                       spent, counters>>

(***************************************************************************)
(* The save failed: the previous medium goes back, unless that fails too.  *)
(***************************************************************************)
RollbackCDROM ==
    LET v == held.vm
        drive == <<v, held.at>>
    IN  /\ held.kind = "cdrom" /\ failures < MaxFailures
        /\ \/ /\ guest[v] # None
              /\ guest' = [guest EXCEPT ![v][held.at] =
                                vms[v].drives[held.at].iso]
              /\ strayed' = strayed \ {drive}
              /\ failures' = failures + 1
           \/ /\ guest[v] = None /\ UNCHANGED <<guest, strayed>>
              /\ failures' = failures + 1
           \/ /\ guest[v] # None /\ failures + 2 <= MaxFailures
              /\ failures' = failures + 2
              /\ strayed' = strayed \cup {drive} /\ UNCHANGED guest
        /\ held' = Free
        /\ UNCHANGED <<vms, file, endpoint, assigned, todo, up, commands,
                       drawn, unsettled, severed, spent, restarts>>
-----------------------------------------------------------------------------
(***************************************************************************)
(* Start, from the API or from a BMC client: QEMU is spawned with the      *)
(* recorded media and boot order, then the record is saved; a one-shot     *)
(* override is used up.  A failed save kills QEMU, whose exit is noticed   *)
(* later.  guest is the process started last; one whose start a crash kept *)
(* from being recorded runs on beside it, and nobody looks at it.          *)
(***************************************************************************)
MediaOf(v) == [i \in DOMAIN vms[v].drives |-> vms[v].drives[i].iso]

Start(v) ==
    /\ CanHandle(v)
    /\ ~vms[v].active
    /\ guest' = [guest EXCEPT ![v] = MediaOf(v)]
    /\ held' = [kind |-> "start", vm |-> v, next |-> vms[v].boot]
    /\ strayed' = {d \in strayed : d[1] # v}
    /\ UNCHANGED <<vms, file, endpoint, assigned, todo, up, commands, drawn,
                   unsettled, severed, spent, counters>>

\* Mutant: the override stays.
KeepOverride(boot) == boot

UseOverride(boot) == IF boot = "once" THEN "no" ELSE boot

SaveStart ==
    LET v == held.vm
    IN  /\ held.kind = "start"
        /\ vms' = [vms EXCEPT ![v].active = TRUE,
                              ![v].boot = UseOverride(@)]
        /\ \/ /\ Succeeds
              /\ file' = vms'
              /\ spent' = With(spent, v, v \in spent \/ held.next = "once")
           \/ Fails /\ UNCHANGED <<file, spent>>
        /\ held' = Free
        /\ UNCHANGED <<hardware, todo, up, commands, drawn, unsettled, severed,
                       strayed, restarts>>

(***************************************************************************)
(* The process ends, at any time (external); processExited or the next     *)
(* reconciliation notices.                                                 *)
(***************************************************************************)
Exit(v) ==
    /\ guest[v] # None
    /\ guest' = [guest EXCEPT ![v] = None]
    /\ strayed' = {d \in strayed : d[1] # v}
    /\ UNCHANGED <<vms, file, endpoint, assigned, control, drawn, unsettled,
                   severed, spent, counters>>

ProcessExited(v) ==
    /\ CanHandle(v)
    /\ vms[v].active /\ guest[v] = None
    /\ vms' = [vms EXCEPT ![v].active = FALSE]
    /\ \/ Succeeds /\ file' = vms'
       \/ Fails /\ UNCHANGED file
    /\ UNCHANGED <<hardware, control, drawn, ghosts, restarts>>
-----------------------------------------------------------------------------
(***************************************************************************)
(* A crash loses the endpoints and leaves their addresses on the bridge.   *)
(* server.Run's ordered end closes them and removes their addresses; one   *)
(* that cannot be removed is logged and stays.                             *)
(***************************************************************************)
Gone == /\ restarts < MaxRestarts /\ restarts' = restarts + 1
        /\ up' = FALSE /\ held' = Free /\ todo' = {} /\ commands' = {}
        /\ endpoint' = [v \in VMs |-> None]
        /\ unsettled' = {} /\ severed' = {}
        /\ strayed' = IF held.kind = "cdrom"
                      THEN strayed \cup {<<held.vm, held.at>>} ELSE strayed
        /\ UNCHANGED <<vms, file, guest, drawn, spent, failures>>

Crash == up /\ UNCHANGED assigned /\ Gone

Close == /\ Serving
         /\ LET used == {endpoint[v].addr :
                            v \in {w \in VMs : endpoint[w] # None}}
            IN  \E removed \in SUBSET used : assigned' = assigned \ removed
         /\ Gone

(***************************************************************************)
(* NewManager reads vms.json and notices which processes are gone; then    *)
(* Reconcile restores the endpoints one after the other: an address left   *)
(* behind is removed, whoever it belongs to, and assigned again.           *)
(***************************************************************************)
NewManager ==
    /\ ~up /\ up' = TRUE
    /\ vms' = [v \in VMs |-> [file[v] EXCEPT !.active =
                                 file[v].active /\ guest[v] # None]]
    /\ file' = vms'
    /\ todo' = {v \in VMs : file[v].bmc # None}
    /\ UNCHANGED <<hardware, held, commands, drawn, ghosts, counters>>

\* Mutant: an address left behind is not removed.
KeepAddress(bmc) == assigned

RemoveAddress(bmc) == assigned \ {bmc.addr}

Reconcile(v) ==
    LET bmc == vms[v].bmc
        rivals == {w \in VMs \ {v} : endpoint[w] # None
                                     /\ endpoint[w].addr = bmc.addr}
    IN  /\ up /\ v \in todo
        /\ \E o \in Configure(v, bmc, endpoint, RemoveAddress(bmc))
                    \cup {[l EXCEPT !.failed = TRUE] :
                             l \in Configure(v, bmc, endpoint, assigned)} :
              /\ Apply(o)
              /\ unsettled' = With(unsettled, v, o.failed \/ rivals # {})
              /\ severed' = IF bmc.addr \in o.assigned THEN severed
                            ELSE severed \cup rivals
        /\ todo' = todo \ {v}
        /\ UNCHANGED <<vms, file, guest, held, up, commands, drawn, strayed,
                       spent, restarts>>
-----------------------------------------------------------------------------
Next ==
    \/ \E v \in VMs :
          \/ \E bmc \in BMC : ConfigureIPMI(v, bmc)
          \/ DisableIPMI(v) \/ Delete(v)
          \/ ServeEnds(v) \/ Reconcile(v)
    \/ \E v \in Guests :
          \/ ReceiveCommand(v)
          \/ \E override \in Overrides : SetIPMIBootFlags(v, override)
          \/ \E d \in Drives, iso \in Media : AddCDROM(v, d, iso)
          \/ \E i \in DOMAIN vms[v].drives : RemoveCDROM(v, i)
          \/ \E i \in DOMAIN vms[v].drives, iso \in Media :
                UpdateCDROM(v, i, iso)
          \/ Start(v) \/ Exit(v) \/ ProcessExited(v)
    \/ SaveIPMI \/ RollbackIPMI \/ SaveCDROM \/ RollbackCDROM \/ SaveStart
    \/ SaveDelete
    \/ Crash \/ Close \/ NewManager

Spec == Init /\ [][Next]_vars
-----------------------------------------------------------------------------
(***************************************************************************)
(* Properties.                                                             *)
(***************************************************************************)
(***************************************************************************)
(* Types.                                                                  *)
(***************************************************************************)
Machines == [bmc : BMC \cup {None}, boot : Overrides, active : BOOLEAN,
             defined : BOOLEAN,
             drives : UNION {[1..n -> [id : Drives, iso : Media]] :
                                n \in 0..2}]
TypeOK ==
    /\ vms \in [VMs -> Machines] /\ file \in [VMs -> Machines]
    /\ endpoint \in [VMs -> Endpoint \cup {None}]
    /\ assigned \subseteq Addrs /\ up \in BOOLEAN
    /\ todo \subseteq VMs

(***************************************************************************)
(* A virtual BMC is reachable at an address of its own: the address of an  *)
(* endpoint is on the bridge and no other endpoint has it, through changes *)
(* of configuration, failing listeners, crashes and start-up.  The one     *)
(* exception is an endpoint whose address Reconcile took away for another  *)
(* machine recorded with the same address.                                 *)
(***************************************************************************)
EndpointsReachable ==
    \A v \in VMs : endpoint[v] # None =>
        /\ endpoint[v].addr \in assigned \/ v \in severed
        /\ \A w \in VMs \ {v} : endpoint[w] # None =>
               endpoint[w].addr # endpoint[v].addr

(***************************************************************************)
(* Between requests, the endpoint of a machine answers at the recorded     *)
(* address with the recorded credentials (its server runs, its address is  *)
(* on the bridge), and a machine recorded without a BMC has none, also     *)
(* after crashes that left addresses behind.  The exceptions: the server   *)
(* ended by itself; the last Configure for the machine failed after giving *)
(* up the old endpoint, while rolling back, or at start-up by a failure or *)
(* a shared address; a Delete gave up half-way; Reconcile removed the      *)
(* address for another machine.                                            *)
(***************************************************************************)
BMCMatchesRecord ==
    Serving => \A v \in VMs \ (unsettled \cup severed) :
        IF vms[v].bmc = None THEN endpoint[v] = None
        ELSE /\ Serves(endpoint[v], vms[v].bmc)
             /\ endpoint[v].addr \in assigned

(***************************************************************************)
(* Each drive of a running guest holds what its definition says, at its    *)
(* place, through live changes, failed saves and restarts of App Runner,   *)
(* unless a QMP command failed or App Runner died before its save.         *)
(***************************************************************************)
MediaMatchRecord ==
    Idle => \A v \in VMs : (vms[v].active /\ guest[v] # None) =>
        /\ DOMAIN guest[v] = DOMAIN vms[v].drives
        /\ \A i \in DOMAIN guest[v] :
              <<v, i>> \in strayed \/ guest[v][i] = vms[v].drives[i].iso

(***************************************************************************)
(* A one-shot boot override governs one saved start and no other, also     *)
(* when App Runner restarts after it.                                      *)
(***************************************************************************)
OneShotIsOnce ==
    \A v \in spent : vms[v].boot # "once" /\ file[v].boot # "once"
=============================================================================
