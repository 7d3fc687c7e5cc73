# A verification model of App Runner

App Runner manages QEMU/KVM virtual machines on one Linux host: a Go server
with an embedded web frontend, a command line client and a desktop client. The
server owns state that outlives it (processes, kernel network state, files), so
most of what can go wrong happens between two steps: a request overtakes a
callback, a write fails, the server dies and starts again. This directory
models those parts in TLA+, model-checks them with TLC and proves the central
properties with TLAPS.

## The system

| Component | State | Operations | Hard behaviour |
|---|---|---|---|
| VM lifecycle (`internal/vm`) | `vms`, `exits`, `stopTimers`, `vms.json` | Start, Stop, Delete, exit callbacks, deadlines, reconciliation | a mutex released in the middle of a forced stop; late callbacks and timers; failed saves; restarts |
| QEMU driver (`internal/qemu`) | one process and three sockets per VM | spawn, kill, watch, QMP | the watcher works outside the manager's mutex |
| NAT (`internal/nat`) | active bridges, `nat-runtime.json`, `ip_forward`, nftables | Start, Stop, FinishRecovery | crash or failure between any two host writes |
| Host network changes (`internal/hostnet/manager.go`) | pending change, its file and timer | Apply, Confirm, Revert, timeout, recovery | timer against request, crash against rollback, VM start against check |
| Linux provider (`internal/hostnet/provider_linux.go`) | kernel links, addresses, routes | Snapshot, Apply, Restore | a half-done change must be undone exactly |
| VM definitions (`internal/vm`) | definitions, `creating`, `busy`, disk files, seed images | Create, Clone, Update, disks, interfaces, cloud-init | the mutex is released while disks are written; several files and one record |
| Live devices (`internal/vm`, `internal/ipmi`) | BMC endpoints, bridge addresses, media of running guests, boot override | ConfigureIPMI, boot flags, CD-ROMs, Reconcile | hardware changes before the record; rollback that fails; crash in between |
| DHCP leases (`internal/dhcp`) | leases per bridge, lease file | packets, static leases, expiry, range changes, load | one address, several claims; failed saves; packets of an old range |
| Bridge services (`internal/dhcp`, `internal/dns`) | users, DHCP and DNS servers per bridge | Configure, Prepare, Release, Reconcile | one of several services fails; services stopped after the mutex was released |
| Serial console (`internal/serialconsole`) | sessions, history, attachments | Start, Stop, Attach, publish, redial | five goroutines on two mutexes; slow clients; an old watcher against a new run |
| Storage, cloud-init templates | files | upload, download, templates | none beyond what the file system arbitrates |
| API, clients, frontend, configuration | none of their own | conversion and display | none |

Calls go one way: API -> VM manager -> {QEMU driver, bridge services -> {DHCP,
NAT, DNS}, IPMI}, and API -> host network manager -> {provider, VM list}. The
QEMU driver calls back into the VM manager when a process exits, timers call
back into the VM manager and the host network manager, and on start-up
`server.Run` reloads and reconciles them in a fixed order.

## The modules

### VMManager (VM lifecycle and QEMU driver)

Every handler holds `m.mu` from its first to its last line, so a handler is one
action; `forceStopLocked` unlocks while it waits and is two (`Kill`,
`FinishForceStop`). `reconcileLocked` is part of every handler that calls it:
such actions are written over the reconciled values `RVm`, `RDisk`, `RExits`,
`RTimers` and `RNet`. Correspondence of state:

| Variable | Code |
|---|---|
| `vm`, `disk` | `Manager.vms` (status, PID) and the contents of `vms.json` |
| `exits`, `stopTimers` | the maps of the same name; a channel or timer is named by the PID of its run |
| `callbacks` | `escalateStop` goroutines that can no longer be cancelled |
| `wait` | per goroutine, the channel `forceStopLocked` waits for |
| `netUsers` | VMs for which `NetworkLifecycle.Prepare` was called and `Release` was not |
| `proc`, `owner`, `watch`, `sock` | kernel processes, the driver's goroutine, the runtime sockets |

`Refresh` stands for List, Get, ConsoleSocket, Reboot and every request that is
refused after reconciling. The checks of Start that look at the host (bridges,
disks, ISO files, firmware) can only refuse. Abstractions: process identifiers
are not reused (`IsRunning` compares the command line of the process, which is
unique to the VM); killing the child that Start has just spawned does not fail;
two expired deadlines of one process are not due at the same moment.

### NatForwarding (NAT)

The NAT manager never interleaves with itself, but it can die anywhere, so each
kernel and file write is a step (`at` is the program counter) that succeeds or
fails. `file` is `nat-runtime.json`; its list of networks is never read back
and is left out. A Start of an active bridge with another prefix is refused
and changes nothing. `smooth` is a history variable: no write has failed yet.

### HostNetChange and NetTransaction (host network changes)

`NetTransaction` is the promise: at most one change is open, the network moves
only while one is open, and it ends accepted or back where it was.
`HostNetChange` is the manager with its mutex, timers, rollback file, provider
failures and crashes, over one bridge that is absent, down or up.
`IsTransactional` is the refinement: a transaction is open while there is
rollback data on disk. `workload` is the VM manager as far as this component
sees it: VMs can start and stop between any two steps of a change.

### LinuxLinks (Linux provider)

`net` is what the kernel has: per link existence, up or down, membership,
addresses and static routes. Apply and Restore are programs of netlink calls;
`step` is the next call or loop (`linkAdd`, `setMaster`, ..., `remove` and `add`
for the two loops of `moveConfiguration`, of which each address and each route
is a step), `config` what the loop still has to add, `snapshot` what `Snapshot`
saved. A call that fails (`Fails`) ends the program: Apply goes over to Restore
as the manager has it, a Restore that fails can be asked for again, and
`Rollback` starts Restore at any point, as a restart does. `Begin` and `Settle`
are the manager's side, with `before` the links it regards as accepted;
`NoInterface` is the interface of a change that is about the bridge only.

What the kernel answers is external to the repository and modelled from how
the code uses it: a route needs a link that is up and has an address; taking a
link down, deleting it or removing its last address drops its routes; adding a
route that exists anywhere reports EEXIST, which the provider ignores.

`IsTransactional` maps the provider, seen call by call, to `NetTransaction`,
the same promise that `HostNetChange` implements seen file by file. It is
proved (`ChangesAreTransactions`), for hosts on which no detach moves routes
(`RouteMovedAway`); no run lists it, because in `Links` detaches do. Take
`"detachMigrate"` from the `Changes` of `Links` and TLC finds it to hold.

### DhcpLeases (leases of one bridge)

The table is `leases`, by client key: the identifier a guest sends, or its MAC.
Packets, administrator requests and saves hold `Manager.mu`, so each is one
action; its failing save leaves in memory what the code leaves there
(`Outcome`: a new lease is taken back, a renewed one is not). A packet is
handled by a goroutine that keeps the range its listener was started with
(`Handler`); `late` is the range of the last stopped listener, whose goroutines
may still run. `file` is `dhcp.json`; it holds all bridges, so it can also be
written for another one (`SaveForOtherBridge`). Addresses and times are
numbers; time 0 is Go's zero time, which static leases carry. `grant` is what a
guest was acknowledged and may use, `shared` the identifiers whose lease went
from one MAC to another: both are history. Abstractions: a listener that ends
by itself is stopped (Configure is then refused a little longer in the code);
of two leases that tie, either may be chosen; Configure's refusals that
concern other bridges, NAT, DNS and boot URLs change nothing.

### BridgeServices (DHCP manager's life cycle, DNS, composed with NAT)

`BridgeServices` extends `NatForwarding` and adds what drives it: `settings`
and `runtime` are `Manager.state.Bridges` and `Manager.runtimes` of the DHCP
manager, `dns` the runtimes of the DNS manager, `prog` the Prepare or Release
in progress (one at a time: the VM manager calls them with its mutex held, and
start-up before the API serves). `PrepareRunning`, `PrepareStopped`,
`StartDNS` and `Listen` are the stages of `prepareBridge`, `UndoNat` its
rollback, `GiveUp` the release of the bridges prepared before; `ReleaseBridge`
is `releaseBridge` up to its unlock, `StopDNS` and `StopNat` what follows, and
`Configure` may come in between. Every step of the NAT manager is a step of
`NatForwarding` (`NatStep`), so the two are checked together. `promised` and
`leftover` are history: whom Prepare served, and which NAT could not be
stopped. Closing a listener is taken to end it, and what runs at the end of a
start (QEMU does not start) or of a run is a `Release`.

### VMDefinitions (definitions and their files)

Create, Clone and AddDisk reserve under the mutex, produce files without it and
finish under it (`op`, per thread), one disk after the other (`Produce`), as
many as the request has; `creating` and `busy` are the maps that
guard them. Delete, RemoveDisk, Update and ConfigureCloudInit hold the mutex
over several file operations (`held`), between which App Runner may crash. A
disk is the number of writes a guest made to it, a seed image the name and the
user data it was made from, so that a copy of a changing source, or an image
of an older definition, can be told apart. Clean-up whose error the code
ignores (removing what was produced, renaming back) is assumed to work;
`damaged` names the machines whose files a failed Delete or a crash inside one
of these handlers left behind, which nothing in the code repairs.

### LiveDevices (virtual BMCs and optical drives)

ConfigureIPMI and UpdateCDROM change the hardware, then save, then roll the
hardware back if saving failed; App Runner may crash in between. `endpoint` is
`ipmi.Manager.runtimes`, `assigned` the addresses on the bridge, `guest` what
the QEMU started last holds in its drives. A QMP command that fails, or whose
answer is late, may have been carried out. `commands` are machines for which a
command of a BMC client waits for the mutex: it takes effect also when the
endpoint was closed meanwhile (`ReceiveCommand`, `SetIPMIBootFlags`). At
start-up `Reconcile` removes every recorded address and configures it again,
one machine after the other; the ordered end may fail to remove any of them
(`Close`). The ghosts name the exceptions of the properties: `unsettled` (a
failed call gave up or left an endpoint, or its server ended by itself),
`severed` (Reconcile removed the address for another record), `strayed` (a QMP
failure or a crash left a medium). One bridge carries all BMCs; the IPMI
protocol is a library and its power commands are requests to the VM manager.
A change of the host network can take a BMC's address away too, and not only
one made by others: App Runner's own deletion of the bridge, or a detach that
migrates addresses, does. The component is modelled on a bridge that stays.

### SerialConsole (the hub and its callers)

One machine, because sessions share only the map. A step is one hold of
`Hub.mu` or `session.mu` or one blocking call: Hypervisor.Start (`starter`),
the watcher of each process (`watch`), the reader goroutine of each session
(`sess[s].pc`), the HTTP handlers (`client`) and the end of App Runner
(`closer`). Output is a sequence of numbered bytes, so order, gaps and
repetitions are visible; a chunk on an output channel also carries how much its
session had published with it (`end`, history that no action reads).
`overlap` names runs started while a watcher of an
earlier one was still at work.

## The runs

| Run | Instance | What it shows |
|---|---|---|
| `VMConcurrent` | 2 requests, 1 VM, 3 processes, 1 timer goroutine, all faults, 1 restart | `RecordsAgree`; `NetworkFollowsWorkload`; `GuestSurvivesCrash`; `StaleDeadlineSparesLaterRun`; `OnlyStaleStopsForgetGuests`; `NetworkOutlastsGuest` |
| `VMLiveness` | 2 requests, 1 VM, 2 processes, stops with and without deadline, no faults, 1 restart, fair | `SavedStateIsCurrent`, `StopIsFinal`, `RunEndsWithItsProcess`; `ForcedStopReturns`, `DeadlineIsEnforced`, `ExitIsNoticed` |
| `Bridges` | 2 bridges, a machine on both and one on the second, 4 settings, 2 failures, 2 restarts or reboots | `PreparedGuestsAreServed`, `ServicesHaveUsers`; NAT's `ForwardingRecoverable`, `RulesRecoverable`, `ActiveBridgesAreServed`, `NothingLeftBehind` |
| `HostNet` | 3 changes, failing applies, saves and removals, 2 crashes, fair | `ChangeIsRecoverable`, `TimeoutHitsItsOwnChange`, `IsTransactional` (refinement of `NetTransaction`), `UnconfirmedIsReverted` |
| `Links` | 2 interfaces, 2 addresses, 2 routes, all changes, all initial hosts | `RollbackIsExact`, `RollbackSucceeds`, `NothingLost` |
| `Dhcp` | 2 guests, 1 shared identifier, 2 nested ranges, lease time 2, clock 1 to 3, 1 failing write | `AddressesUnique`; `OneLeaseUnlessShared`; `GrantsLast` |
| `Serial` | 2 runs, 3 sessions, 2 clients, 3 bytes, queues of 2, history of 1, 1 restart | `DeliveredInOrder`, `StoppedHoldsNothing`, `RunHasItsConsole`, `ReaderNeverWaits` |
| `Definitions` | 2 machines, names, addresses, disks (both may be one machine's) and requests, 1 failure, 1 crash | `IdentitiesUnique`, `DisksAccounted`, `SeedMatches`, `CloneIsFaithful` |
| `Devices` | 2 machines, 2 addresses and logins, 2 drives of one of them, 2 failures, 1 restart | `EndpointsReachable`, `BMCMatchesRecord`, `MediaMatchRecord`, `OneShotIsOnce` |
| `VMForceRace`, `HostNetWorkload`, `LinksDownRoute` | minimal | disagreements, see below |

Bounds. Three processes let a VM run twice and be started a third time while
callbacks of both earlier runs are outstanding; two requests and a timer
goroutine are what the forced stop race needs, and one VM is enough because
VMs share only the file (two VMs do not add behaviours to these properties, and
the theorems cover any number). Two bridges and two machines give a bridge two
users and a machine two bridges, so that a failure on the second has to undo
the first; NAT on more bridges is covered by its theorems, which
`BridgeServicesProofs` carries over. Three identifiers let a late timer meet a
newer change twice. Two restarts let recovery itself be interrupted. Two
interfaces let a bridge keep a member while another leaves; two addresses and
two routes let a move, or its rollback, stop half-way through a loop. Two guests and one
identifier give every lease the keys of its own MAC and one that both may use;
the nested ranges have pools of one and of two addresses (exhaustion, requests
for an address that is taken or gone) and share one static address; the clock
runs from one to three, so that a lease of two granted at one expires and one
renewed at two outlives it. Three bytes, a history of one and queues of two
make the history drop, a queue hold history followed by live output or two
pieces of live output, and a queue overflow;
three sessions let a restart adopt a run whose session was the second. Two
disks let a Create make one and fail at the next, and let a machine get a
second disk or be cloned (with one disk: `CloneIsFaithful` of machines with
several is left to its theorem); two failures in `Devices` let a rollback fail. Every instance is explored completely. Symmetry is used
only in runs without liveness.

`Serial`, `Definitions` and `Devices` do not check for deadlock: their
identifiers, runs and crashes are used up, after which nothing need happen.
All other runs check for it.

Fairness. `VMManager` assumes that a killed process dies, that the goroutines
that wait for it continue and that timers fire; no request is fair and no guest
has to obey. `DeadlineIsEnforced` is about deadlines that nobody does away
with: a restart drops them, and a later graceful stop of the same run, from
the API or an IPMI soft shutdown (which carries no deadline), replaces the
pending one or cancels it. `superseded` is the history that tells such a stop.
 `HostNetChange` assumes that an operation that holds the mutex
finishes, timers fire, App Runner is started again, and that a timer callback
gets the mutex although others compete for it: Go's mutexes hand over to a
waiter that has starved for a millisecond, hence strong fairness.

### What disagrees with the repository's words

* `VMForceRace`: two forced stops of one run (a request and a deadline), the
  first finishes, the VM is started again, the second marks the new run stopped
  (`forceStopLocked` looks at the status, not at the PID it killed).
* `HostNetWorkload`: the check for running VMs is stale when the change is made.

* `LinksDownRoute`: Restore adds routes before it sets the link up.

Further observations from the same models, each reproducible by changing the
constants of a run:

* Restart, then forced stop: `exits` has no channel, so the stop does not wait.
  `RunEndsWithItsProcess` admits this through `StaleStop`; drop that disjunct in
  `VMLiveness` to see the trace.
* A request that reconciles a dead process before its watcher has run lets the
  next Start create sockets that the old watcher then removes (`sock`), and the
  watcher's `serial.Stop` takes the console of the new run with it: the new run
  has none until App Runner restarts (`overlap`, the exception in
  `RunHasItsConsole`).
* With `"restore"` among the `Faults` of `HostNet`, a failing Apply whose
  immediate rollback fails drops its rollback data (`ChangeIsRecoverable`), and
  a rollback that fails at the deadline is not tried again.
* A change that was rolled back but whose file could not be removed stays
  pending and can still be confirmed, although its effect is gone
  (`ConfirmedIsInEffect`, violated in `HostNet`, proved for a host on which
  removing the file works).
* Rolling back a detach that moved a route loses the route
  (`RouteMovedAway`, the exception in `RollbackIsExact`).
* Guests cloned from one image send the same client identifier: the second
  takes the first one's lease over, a static one too (`TakeOver`), while the
  first still uses the address. This is `Seized`, the exception in
  `GrantsLast`. A MAC can so come to have two leases; the next load keeps the
  one that expires last, and a static lease, whose expiry is the zero time,
  loses. Until then `autoDNSRecords` publishes either address.
* A refused `SetStaticLease` may have dropped the MAC's own lease from memory
  (not from the file) before it met the conflict (`SetStaticLeaseRefused`).
* A packet that was still being handled when its bridge got another range
  purges the leases by the old range and may lease an address outside the new
  one (`LatePacket`).
* DECLINE frees the address like RELEASE, so the next DISCOVER may offer it
  again; and `addressInStaticRange` admits the network address itself.
* Enabling DHCP on a bridge while a machine that was started on it unmanaged
  still runs is accepted: Configure looks at the users of the runtime, and that
  machine is none. A machine started later brings the services up, and they
  stop with it although the first still runs; `docs/milestone-2.md` speaks of
  "the last VM on that bridge".
* NAT that could not be stopped (`leftover`) keeps its range; when the bridge
  gets another one, every start on it is refused until App Runner restarts.
* A guest that runs through a restart and cannot be prepared again runs without
  services; nothing tries again.
* A session adopted at start-up has no watcher: when its guest ends, its
  goroutine goes on dialling until App Runner ends or the machine is started
  again, in which case it connects to the new run. An adoption whose first dial
  fails leaves the machine without a console.
* A client detached for not reading may still write, next to its successor.
* A crash inside Delete, RemoveDisk or the staging of a seed image leaves files
  and definition at odds; a crash or a cancelled qemu-img leaves files nobody
  owns. AddDisk looks for its machine again after the file is made; the branch
  for a machine that is gone cannot be reached, because it is busy.
* A ConfigureIPMI that fails after it gave up the old endpoint leaves the
  machine without one although its record still has it, and so does a Delete
  that gives up half-way; a rollback that meets a conflict keeps an endpoint
  that was never saved. Requesting the recorded settings again repairs the
  first two.
* Two records may carry one BMC address (the conflict check looks at live
  endpoints only): at start-up the second one's Reconcile removes the address
  of the first, whose endpoint then counts as running, so that requesting its
  settings again changes nothing (`severed`).
* ConfigureIPMI drops a boot override, as the request does not carry one; a
  SetIPMIBootFlags whose save fails keeps its change in memory.
* A drive whose medium strayed from the record cannot be put right by asking
  for the recorded image, because UpdateCDROM returns early; ask for another
  one first.
* A crash between spawning QEMU and saving uses a one-shot override twice.

## The proofs

| Module | Inductive invariant | Results, for all constants |
|---|---|---|
| `VMManagerProofs` | `IInv`: memory, file, channels, timers and users agree (`Agree`), stated over its arguments so that it can be asked of the reconciled tables as well; everything refers to spawned processes (`HostOK`). On top of it `Ended` (a forced stop waits only for a killed process) and `WaitsForRun` (for the run it found) | `TypeCorrect`, `RecordsAlwaysAgree`, `NetworkReleased`, `WakeupsDelivered`, `GuestsSurviveCrashes`, `StaleDeadlinesHarmless`, `GuestsAreNotForgotten`, `NetworkServicesLast`, `SavesAreCurrent`, `StopsAreFinal`, `RunsEndWithTheirProcess` |
| `BridgeServicesProofs` | for NAT alone: `ForwardingInv`, `RulesInv`, `CleanInv`, what each value of `at` implies for memory, file and kernel; for the composition: `ProgInv` (the call in progress works through the bridges of its machine) with NAT's own invariant, and on top of both `ServiceInv`: users, entries, running services and each stage of a call account for one another | `ForwardingIsRecoverable`, `RulesAreRecoverable`, `ActiveBridgesServed`, `HostLeftClean`; `BridgesDriveNat` (the composition implements `NatForwarding`'s specification), `BridgesForwardingIsRecoverable`, `BridgesLeaveHostClean`, `GuestsKeepTheirServices`, `NothingIsServedToNobody` |
| `HostNetChangeProofs` | where an operation stands against the pending change, the file and the accepted network | `ChangesAreRecoverable`, `SettledIsAlwaysAccepted`, `ConfirmedChangesAreInEffect`, `TimeoutsHitTheirOwnChange`, `ImplementsTransaction` |
| `DhcpLeasesProofs` | both tables are `Good` (typed, distinct addresses, MAC keys belong to their MAC, consolidated), no lease outlives `now + LeaseTime`, and no lease of a guest outlives the one it was acknowledged (`Latest`) | `TypeCorrect`, `AddressesAlwaysUnique`, `LeasesConsolidated`, `ListenerAlwaysCurrent`, `GrantsAlwaysLast` |
| `VMDefinitionsProofs` | in layers: who is defined, being created, busy or held (`ReservationInv`, `BusyInv`); names and addresses (`IdentityInv`); who owns a disk and what is in it (`OwnershipInv`, `ContentInv`); seed images (`SeedInv`); clones | `NoTwoMachinesAlike`, `NoDiskLostOrLeaked`, `SeedImagesMatch`, `ClonesAreFaithful` |
| `LiveDevicesProofs` | who may be working on a machine (`ControlInv`); endpoint against record, record against file (`RecordInv`); media against both (`MediaInv`) | `BMCsAreReachable`, `BMCsMatchTheRecord`, `MediaMatchTheRecord`, `OverridesAreUsedOnce` |
| `SerialConsoleProofs` | the order of the processes (`ProcessInv`), what start, watchers and exit still hold (`StarterInv`, `StopperInv`, `HubInv`), session against client (`AttachInv`), connection against process (`UpstreamInv`, `OwnInv`, `ConnectionInv`), bytes against their emitter (`OutputInv`); on top of it `OrderInv` and `ReaderInv` | `TypeCorrect`, `StoppedSessionsHoldNothing`, `RunsHaveTheirConsole`, `OutputArrivesInOrder`, `ReaderIsNeverStuck`, `ReaderComesToItsEnd` |
| `LinuxLinksProofs` | what was saved is how the links were (`SnapshotInv`); what holds whatever has happened since (`ChangedInv`); what Apply has done by the time it makes each call (`ApplyInv`, `MovingInv`); what Restore has brought back by then (`RestoreInv`, `RestoredInv`) | `TypeCorrect`, `RollbacksAreExact`, `RollbacksSucceed`, `NothingIsLost`, `ChangesAreTransactions` |

The safety invariants are not inductive alone. Each strengthened invariant was
checked by TLC on the instance of its run before it was proved.

* `GuestSurvivesCrash` needs to know that records name processes of their own
  VM, or a reconciliation could drop a record whose process lives.
  `OnlyStaleStops...` needs `Ended`: when a forced stop finishes for the run it
  waited for, that run was killed. The reconciliation lemma is proved once and
  used by every handler. `RunEndsWithItsProcess` needs `WaitsForRun` and that
  memory and file agree, because a crash makes the file the memory.
* `GrantsLast` needs `Latest`, or load could prefer another lease of the guest,
  and `Latest` needs the bound on expiry times.
* `PreparedGuestsAreServed` needs that a runtime is only taken from the map by
  the release of its last user, so `UsersInv` counts the users of a bridge:
  the machines that are active, one that is being prepared and one that is
  about to be released; `ServicesHaveUsers` needs to know, at every stage of a
  call, which service was started by it and must still be undone.
* `IdentitiesUnique` needs that the name a rename checked is still free when it
  is saved, over the steps that build the seed image. `DisksAccounted` needs
  that no disk has two owners, the requests under way among them, or removing
  one machine's disk could take another's. `CloneIsFaithful` needs that the
  source stays busy, hence stopped, while its disks are copied.
* `BMCMatchesRecord` says that the server runs with the recorded settings and
  that its address is on the bridge. It needs to say what an unfinished handler
  has done to the hardware, and that the file has what memory has, because a
  crash drops memory; `EndpointsReachable` is inductive with the types alone.
* `RollbackIsExact` holds by what Restore has done, hardly by what Apply did:
  `RestoreInv` says for each call which link is already as it was and which
  part of the one in work, down to the addresses and routes still in `config`.
  From Apply it needs `ChangedInv`, which no step may break, in whatever order
  Apply and Restore were stopped and started: interfaces the change is not
  about are untouched, and a route is on a link it was saved from or was moved
  to. Without the last a RouteAdd could be ignored as a duplicate (EEXIST) and
  leave a route missing; `RouteMovedAway` is just that case. `RollbackSucceeds`
  needs that attaching and detaching leave links up or down as they were,
  because routes are added before the up flag is set. `NothingLost` needs
  `MovingInv`: addresses and routes are at the source, in `config` or at the
  target.
* `RunHasItsConsole` needs nearly everything: that starts follow one another,
  that an old watcher and an old session's redial cannot reach a run outside
  `overlap`, and that a byte in a buffer has its emitter. `DeliveredInOrder`
  needs that the history is the last part of what was published (`IsLastOf`).
  The model names a chunk's end (`Chunk`), which the code does not store, so
  that order is a fact about adjacent chunks and not about the concatenation
  of a queue, which would be defined by recursion.

Assumptions of the theorems are the named `ASSUME`s of the modules and what the
theorems themselves say. The `ASSUME`s type the constants (the bridge is none of the
interfaces, `NoInterface` neither) and keep `None` apart
from what it stands in for (a nil pointer or an absent file is no definition,
no endpoint, no runtime: `NoneIsDistinct`). Among the theorems,
`HostNetChangeProofs` assumes that the provider can restore a snapshot (and,
for `ConfirmedChangesAreInEffect`, remove the file); `SavesAreCurrent` and
`StopsAreFinal` assume that `vms.json` can be written, `RunsEndWithTheirProcess`
also that a killed process is reaped before the forced stop gives up. Those are
the conditions under which the properties are meant to hold: a failed save, or
a timeout, leaves memory and file, or record and process, at odds by design.
`ChangesAreTransactions` assumes that no detach
moves routes, because the rollback of one loses them (see above).
Refused kills, failing QEMU starts and crashes at any moment stay allowed,
which `VMLiveness` (no faults) does not try.

Only model-checked:

* the liveness properties (`ForcedStopReturns`, `DeadlineIsEnforced`,
  `ExitIsNoticed`, `UnconfirmedIsReverted`): the prover has no rules for
  fairness here;
* `ReaderNeverWaits` as it stands, because it is about `ENABLED`. What it comes
  to is proved instead, without that operator: `ReaderIsNeverStuck` says that
  the guards of one of the reader's steps hold (`HasStep`) whenever it has
  output to hand out or its session is ending, and `ReaderComesToItsEnd` that
  each of its steps then brings it nearer to its end. That `HasStep` is the
  guard of `RunStep` is read off the actions.

Proved but in no run's list, because a run's states add nothing to the proof:
the type invariants, `NoLostWakeup`, `SettledIsAccepted`,
`ConfirmedIsInEffect`, `ListenerIsCurrent`, and `IsTransactional` of
`LinuxLinks`.

## Not modelled

* The generated RPC code, half of the repository's Go lines: no logic of its
  own.
* The clients and the frontend. The desktop client calls the API
  asynchronously and keeps copies of server state; its one concurrent
  mechanism, the flag that lets one refresh be in flight, makes it drop the
  refresh after an operation while an older one is out, so the list is stale
  until the next tick. It changes nothing on the server.
* Storage uploads and downloads (one temporary file each, linked into place
  under a new name) and the template store (a list behind one mutex, saved or
  undone before the unlock): no state survives a handler half-way.
* The QEMU command line, nftables expressions, packet formats, DNS answers,
  the IPMI and RFB protocols, the API's conversions and the configuration:
  text, layout and I/O without state of their own.
* Changes that other software makes to the host network or to `ip_forward`
  while App Runner runs, and what App Runner's own changes of a bridge do to
  the BMC addresses on it.

## Plan

All components above are modelled and checked, and every safety property of
the passing runs but `ReaderNeverWaits` is a theorem. What could follow:

1. `LinuxLinks` inside `HostNetChange`, in place of its one-bridge network;
   both are shown to keep `NetTransaction`'s promise, each on its own.
2. The template store and storage uploads, if either comes to keep state that
   a handler can leave half-way.
