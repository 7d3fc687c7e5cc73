--------------------------- MODULE VMDefinitions ---------------------------
(***************************************************************************)
(* The definition half of the VM manager (internal/vm/vm.go): creating,    *)
(* cloning, renaming and deleting virtual machines, their disks, network   *)
(* interfaces and cloud-init seed image, and the files that belong to      *)
(* them.  Hardware that changes while a machine runs is in LiveDevices.    *)
(*                                                                         *)
(* A handler that holds m.mu throughout and writes only vms.json is one    *)
(* action.  Create, Clone and AddDisk let go of the mutex while they       *)
(* produce files: they reserve, produce and finish, and m.creating and     *)
(* m.busy guard what they work on.  Delete, RemoveDisk, Update and         *)
(* ConfigureCloudInit keep the mutex (held) over several file operations,  *)
(* between which App Runner may crash.                                     *)
(***************************************************************************)
EXTENDS Naturals, FiniteSets

CONSTANTS
    Ids,          \* identifiers newID may draw, each at most once
    Names,        \* names, up to case
    Macs,         \* MAC addresses, requested or derived
    Disks,        \* disk identifiers, each drawn at most once
    UserData,     \* cloud-init configurations
    Threads,      \* requests that may be outside the mutex at a time
    None,         \* no definition, address, configuration or file
    MaxFailures,  \* bound on failing file operations and saves
    MaxWrites,    \* bound on the writes of a guest to a disk
    MaxCrashes    \* bound on crashes of App Runner

ASSUME DefinitionConstants ==
    /\ None \notin Macs \cup UserData \cup Disks
    /\ MaxFailures \in Nat /\ MaxWrites \in Nat /\ MaxCrashes \in Nat

Definition == [name : Names, mac : Macs \cup {None}, disks : SUBSET Disks,
               cloud : UserData \cup {None}]
MaybeDefinition == Definition \cup {None}

(***************************************************************************)
(* A disk file is known by how often a guest has written to it; a qemu-img *)
(* that failed or was cancelled may leave a partial file.                  *)
(***************************************************************************)
Partial == MaxWrites + 1
Content == 0..Partial
Seed == [name : Names, cloud : UserData]

ASSUME NoneIsDistinct == None \notin Definition /\ None \notin Content

VARIABLES
    vms,      \* Manager.vms
    file,     \* vms.json
    creating, \* Manager.creating
    busy,     \* Manager.busy
    used,     \* identifiers of machines and disks drawn so far
    op,       \* per thread: a Create, Clone or AddDisk outside the mutex
    held,     \* the handler that holds m.mu across file operations
    running,  \* machines that are active
    disk,     \* the disk files
    removing, \* the disk files staged for removal (".removing")
    iso,      \* the seed images
    backup,   \* the replaced seed images (".previous")
    damaged,  \* machines whose files a failure or a crash left behind
    failures, crashes

memory == <<vms, creating, busy, op, held>>
files == <<disk, removing, iso, backup>>
ghosts == <<used, damaged>>
counters == <<failures, crashes>>
vars == <<memory, file, running, files, ghosts, counters>>

NoOp == [kind |-> "none"]
Free == [kind |-> "free"]

Init ==
    /\ vms = [v \in Ids |-> None] /\ file = vms /\ creating = vms
    /\ busy = {} /\ used = {} /\ running = {} /\ damaged = {}
    /\ op = [t \in Threads |-> NoOp]
    /\ held = Free
    /\ disk = [d \in Disks |-> None] /\ removing = disk
    /\ iso = [v \in Ids |-> None] /\ backup = iso
    /\ failures = 0 /\ crashes = 0
-----------------------------------------------------------------------------
(***************************************************************************)
(* Whose definition, whose reservation.                                    *)
(***************************************************************************)
Defined == {v \in Ids : vms[v] # None}
Reserved == {v \in Ids : creating[v] # None}

\* Mutant: names of machines that are being created are not looked at.
NameInUseDefined(name, exclude) ==
    \E v \in Defined \ exclude : vms[v].name = name

(***************************************************************************)
(* nameInUseLocked and macAddressInUseLocked look at the definitions and   *)
(* at the ones being created.                                              *)
(***************************************************************************)
NameInUse(name, exclude) ==
    \/ \E v \in Defined \ exclude : vms[v].name = name
    \/ \E v \in Reserved : creating[v].name = name

MacInUse(mac) ==
    mac # None /\ \/ \E v \in Defined : vms[v].mac = mac
                  \/ \E v \in Reserved : creating[v].mac = mac

\* Mutant: busy machines are not turned away.
RequireNothing(v) == TRUE

(***************************************************************************)
(* requireIdleLocked, and the common guard of handlers that need the       *)
(* mutex, a definition and an idle machine.                                *)
(***************************************************************************)
RequireIdle(v) == v \notin busy
Editable(v) == held = Free /\ v \in Defined /\ RequireIdle(v)

Fails == failures < MaxFailures /\ failures' = failures + 1
Succeeds == UNCHANGED failures

(***************************************************************************)
(* Store.Save replaces vms.json or leaves it; every handler that edits a   *)
(* definition puts the previous one back when saving fails.                *)
(***************************************************************************)
Commit(machines) ==
    \/ Succeeds /\ vms' = machines /\ file' = machines
    \/ Fails /\ UNCHANGED <<vms, file>>

Edit(v, definition) ==
    /\ Commit([vms EXCEPT ![v] = definition])
    /\ UNCHANGED <<creating, busy, op, held, running, files, ghosts,
                   crashes>>
-----------------------------------------------------------------------------
(***************************************************************************)
(* Requests that work outside the mutex.                                   *)
(***************************************************************************)
(***************************************************************************)
(* from: the disks to be produced, each with the disk it is copied from or *)
(* None; todo: those that are not there yet; want: what the disks to be    *)
(* copied contain when the request begins.                                 *)
(***************************************************************************)
Begin(t, kind, v, source, from) ==
    /\ op[t] = NoOp
    /\ (DOMAIN from) \cap used = {}
    /\ op' = [op EXCEPT ![t] = [kind |-> kind, vm |-> v, source |-> source,
                                from |-> from, todo |-> DOMAIN from,
                                want |-> [d \in DOMAIN from |->
                                            IF from[d] = None THEN None
                                            ELSE disk[from[d]]],
                                pc |-> "disks"]]

(***************************************************************************)
(* Create and reserveVMLocked.                                             *)
(***************************************************************************)
Create(t, v, definition) ==
    /\ held = Free
    /\ v \notin used
    /\ ~NameInUse(definition.name, {})
    /\ ~MacInUse(definition.mac)
    /\ Begin(t, "create", v, v, [d \in definition.disks |-> None])
    /\ creating' = [creating EXCEPT ![v] = definition]
    /\ used' = used \cup {v} \cup definition.disks
    /\ UNCHANGED <<vms, file, busy, held, running, files, damaged, counters>>

(***************************************************************************)
(* Clone and reserveCloneLocked: new identifiers, the interface gets a     *)
(* derived address, and the source is marked busy.                         *)
(***************************************************************************)
Clone(t, source, v, name, mac, from) ==
    LET old == vms[source]
        disks == DOMAIN from
    IN  /\ Editable(source)
        /\ source \notin running
        /\ v \notin used
        /\ {from[d] : d \in disks} = old.disks
        /\ Cardinality(disks) = Cardinality(old.disks)
        /\ mac = None <=> old.mac = None
        /\ ~NameInUse(name, {})
        /\ ~MacInUse(mac)
        /\ Begin(t, "clone", v, source, from)
        /\ creating' = [creating EXCEPT ![v] =
                [old EXCEPT !.name = name, !.mac = mac, !.disks = disks]]
        /\ busy' = busy \cup {source}
        /\ used' = used \cup {v} \cup disks
        /\ UNCHANGED <<vms, file, held, running, files, damaged, counters>>

(***************************************************************************)
(* AddDisk, first half: the machine is kept busy.                          *)
(***************************************************************************)
AddDisk(t, v, d) ==
    /\ Editable(v)
    /\ v \notin running
    /\ Begin(t, "add", v, v, [e \in {d} |-> None])
    /\ busy' = busy \cup {v}
    /\ used' = used \cup {d}
    /\ UNCHANGED <<vms, file, creating, held, running, files, damaged,
                   counters>>

(***************************************************************************)
(* createDiskFile and copyFile.  copyFile links a complete temporary file  *)
(* into place and fails when its source is missing; qemu-img may leave a   *)
(* partial file behind.                                                    *)
(***************************************************************************)
Produce(t, d) ==
    LET o == op[t]
    IN  /\ o.kind # "none" /\ o.pc = "disks" /\ d \in o.todo
        /\ \/ /\ Succeeds
              /\ o.from[d] # None => disk[o.from[d]] # None
              /\ disk' = [disk EXCEPT ![d] = IF o.from[d] = None THEN 0
                                             ELSE disk[o.from[d]]]
              /\ op' = [op EXCEPT ![t].todo = @ \ {d}]
           \/ /\ Fails
              /\ \/ UNCHANGED disk
                 \/ /\ o.from[d] = None
                    /\ disk' = [disk EXCEPT ![d] = Partial]
              /\ op' = [op EXCEPT ![t].pc = "failed"]
           \/ /\ Succeeds
              /\ o.from[d] # None /\ disk[o.from[d]] = None
              /\ op' = [op EXCEPT ![t].pc = "failed"]
              /\ UNCHANGED disk
        /\ UNCHANGED <<vms, file, creating, busy, held, running, removing,
                       iso, backup, ghosts, crashes>>

(***************************************************************************)
(* The rest of what is produced: the seed image, if there is one, and the  *)
(* UEFI variable store.                                                    *)
(***************************************************************************)
SeedOf(definition) == IF definition.cloud = None THEN None
                      ELSE [name |-> definition.name,
                            cloud |-> definition.cloud]

ProduceState(t) ==
    LET o == op[t]
    IN  /\ o.kind \in {"create", "clone"} /\ o.pc = "disks" /\ o.todo = {}
        /\ \/ /\ Succeeds
              /\ iso' = [iso EXCEPT ![o.vm] = SeedOf(creating[o.vm])]
              /\ op' = [op EXCEPT ![t].pc = "done"]
           \/ /\ Fails
              /\ op' = [op EXCEPT ![t].pc = "failed"]
              /\ UNCHANGED iso
        /\ UNCHANGED <<vms, file, creating, busy, held, running, disk,
                       removing, backup, ghosts, crashes>>

(***************************************************************************)
(* Back under the mutex: the reservation ends, the definition is saved, or *)
(* what was produced is removed.                                           *)
(***************************************************************************)
Produced(o) == (DOMAIN o.from) \ o.todo

Released(t, v) ==
    /\ op' = [op EXCEPT ![t] = NoOp]
    /\ busy' = busy \ {op[t].source}
    /\ creating' = [creating EXCEPT ![v] = None]
    /\ UNCHANGED <<held, running, removing, backup, ghosts, crashes>>

\* Mutant: cleaning up removes the state directory only.
DiscardState(disks, v) ==
    /\ iso' = [iso EXCEPT ![v] = None]
    /\ UNCHANGED disk

Discard(disks, v) ==
    /\ disk' = [d \in Disks |-> IF d \in disks THEN None ELSE disk[d]]
    /\ iso' = [iso EXCEPT ![v] = None]

FinishNew(t) ==
    LET o == op[t]
        v == o.vm
        definition == creating[v]
    IN  /\ held = Free
        /\ o.kind \in {"create", "clone"} /\ o.pc \in {"done", "failed"}
        /\ \/ /\ o.pc = "done" /\ Succeeds
              /\ vms' = [vms EXCEPT ![v] = definition] /\ file' = vms'
              /\ UNCHANGED <<disk, iso>>
           \/ /\ o.pc = "done" /\ Fails
              /\ Discard(Produced(o), v)
              /\ UNCHANGED <<vms, file>>
           \/ /\ o.pc = "failed" /\ Succeeds
              /\ Discard(Produced(o), v)
              /\ UNCHANGED <<vms, file>>
        /\ Released(t, v)

FinishAddDisk(t) ==
    LET o == op[t]
        v == o.vm
        added == [vms EXCEPT ![v].disks = @ \cup DOMAIN o.from]
    IN  /\ held = Free
        /\ o.kind = "add"
        /\ \/ /\ o.pc = "disks" /\ o.todo = {} /\ Succeeds
              /\ vms' = added /\ file' = added
              /\ UNCHANGED disk
           \/ /\ o.pc = "disks" /\ o.todo = {} /\ Fails
              /\ disk' = [d \in Disks |-> IF d \in DOMAIN o.from THEN None
                                         ELSE disk[d]]
              /\ UNCHANGED <<vms, file>>
           \/ /\ o.pc = "failed" /\ Succeeds
              /\ UNCHANGED <<vms, file, disk>>
        /\ Released(t, v)
        /\ UNCHANGED iso
-----------------------------------------------------------------------------
(***************************************************************************)
(* Edits that only write vms.json.  Changing an interface needs a machine  *)
(* that is not active.                                                     *)
(***************************************************************************)
Rename(v, name) ==
    /\ Editable(v)
    /\ name # vms[v].name /\ ~NameInUse(name, {v})
    /\ vms[v].cloud = None
    /\ Edit(v, [vms[v] EXCEPT !.name = name])

AddNIC(v, mac) ==
    /\ Editable(v) /\ v \notin running
    /\ vms[v].mac = None /\ mac # None /\ ~MacInUse(mac)
    /\ Edit(v, [vms[v] EXCEPT !.mac = mac])

UpdateNIC(v, mac) ==
    /\ Editable(v) /\ v \notin running
    /\ vms[v].mac # None /\ mac \notin {None, vms[v].mac} /\ ~MacInUse(mac)
    /\ Edit(v, [vms[v] EXCEPT !.mac = mac])

RemoveNIC(v) ==
    /\ Editable(v) /\ v \notin running
    /\ vms[v].mac # None
    /\ Edit(v, [vms[v] EXCEPT !.mac = None])
-----------------------------------------------------------------------------
(***************************************************************************)
(* Handlers that hold the mutex over several file operations.              *)
(***************************************************************************)
Acquire(kind, v, next, d, pc) ==
    held' = [kind |-> kind, vm |-> v, next |-> next, disk |-> d, pc |-> pc]

At(kind, pc) == held.kind = kind /\ held.pc = pc

(***************************************************************************)
(* Delete: the disks one after the other, the state directory, then the    *)
(* definition.  An early return keeps a definition whose disks are gone;   *)
(* a failed save removes it from memory only.                              *)
(***************************************************************************)
Delete(v) ==
    /\ Editable(v) /\ v \notin running
    /\ Acquire("delete", v, None, None, "files")
    /\ UNCHANGED <<vms, creating, busy, op, file, running, files, ghosts,
                   counters>>

DeleteFiles ==
    LET v == held.vm
        left == {d \in vms[v].disks : disk[d] # None}
    IN  /\ At("delete", "files")
        /\ \/ /\ Succeeds /\ UNCHANGED damaged
              /\ \/ \E d \in left :
                       /\ disk' = [disk EXCEPT ![d] = None]
                       /\ UNCHANGED <<held, iso, backup>>
                 \/ /\ left = {}
                    /\ iso' = [iso EXCEPT ![v] = None]
                    /\ backup' = [backup EXCEPT ![v] = None]
                    /\ held' = [held EXCEPT !.pc = "save"]
                    /\ UNCHANGED disk
           \/ /\ Fails
              /\ held' = Free
              /\ damaged' = damaged \cup {v}
              /\ UNCHANGED <<disk, iso, backup>>
        /\ UNCHANGED <<vms, creating, busy, op, file, running, removing,
                       used, crashes>>

DeleteSave ==
    LET v == held.vm
    IN  /\ At("delete", "save")
        /\ vms' = [vms EXCEPT ![v] = None]
        /\ \/ Succeeds /\ file' = vms' /\ UNCHANGED damaged
           \/ Fails /\ damaged' = damaged \cup {v} /\ UNCHANGED file
        /\ held' = Free
        /\ UNCHANGED <<creating, busy, op, running, files, used, crashes>>

(***************************************************************************)
(* RemoveDisk: the file is renamed, the definition saved, the file removed *)
(* or renamed back.                                                        *)
(***************************************************************************)
RemoveDisk(v, d) ==
    /\ Editable(v) /\ v \notin running
    /\ d \in vms[v].disks
    /\ removing' = IF disk[d] = None THEN removing
                   ELSE [removing EXCEPT ![d] = disk[d]]
    /\ disk' = [disk EXCEPT ![d] = None]
    /\ Acquire("remove", v, None, d, "save")
    /\ UNCHANGED <<vms, creating, busy, op, file, running, iso, backup,
                   ghosts, counters>>

RemoveDiskSave ==
    LET d == held.disk
    IN  /\ At("remove", "save")
        /\ Commit([vms EXCEPT ![held.vm].disks = @ \ {d}])
        /\ IF failures' = failures
           THEN /\ held' = [held EXCEPT !.pc = "clean"]
                /\ UNCHANGED <<disk, removing>>
           ELSE /\ held' = Free
                /\ disk' = [disk EXCEPT ![d] = removing[d]]
                /\ removing' = [removing EXCEPT ![d] = None]
        /\ UNCHANGED <<creating, busy, op, running, iso, backup, ghosts,
                       crashes>>

RemoveDiskClean ==
    /\ At("remove", "clean")
    /\ \/ Succeeds /\ removing' = [removing EXCEPT ![held.disk] = None]
       \/ Fails /\ UNCHANGED removing
    /\ held' = Free
    /\ UNCHANGED <<vms, creating, busy, op, file, running, disk, iso, backup,
                   ghosts, crashes>>
(***************************************************************************)
(* stageCloudInitISO, save, commit or rollback: shared by Update, when it  *)
(* renames a machine with a seed image, and ConfigureCloudInit.  A backup  *)
(* from an earlier attempt is removed before the new image is built.       *)
(***************************************************************************)
StageSeed(v, next) ==
    /\ Editable(v)
    /\ \/ /\ Succeeds
          /\ backup' = [backup EXCEPT ![v] = iso[v]]
          /\ iso' = [iso EXCEPT ![v] = None]
          /\ Acquire("seed", v, next, None, "rename")
       \/ /\ Fails
          /\ backup' = [backup EXCEPT ![v] = None]
          /\ UNCHANGED <<iso, held>>
    /\ UNCHANGED <<vms, creating, busy, op, file, running, disk, removing,
                   ghosts, crashes>>

RenameSeeded(v, name) ==
    /\ v \in Defined
    /\ name # vms[v].name /\ ~NameInUse(name, {v})
    /\ vms[v].cloud # None
    /\ StageSeed(v, [vms[v] EXCEPT !.name = name])

ConfigureCloudInit(v, cloud) ==
    /\ v \in Defined \ running
    /\ cloud # vms[v].cloud
    /\ StageSeed(v, [vms[v] EXCEPT !.cloud = cloud])

\* Mutant: the rollback removes the new image and forgets the previous one.
RollbackSeedForgetting(v) ==
    /\ iso' = [iso EXCEPT ![v] = None]
    /\ held' = Free
    /\ UNCHANGED backup

RollbackSeed(v) ==
    /\ iso' = [iso EXCEPT ![v] = backup[v]]
    /\ backup' = [backup EXCEPT ![v] = None]
    /\ held' = Free

SeedRename ==
    LET v == held.vm
    IN  /\ At("seed", "rename")
        /\ \/ /\ Succeeds
              /\ iso' = [iso EXCEPT ![v] = SeedOf(held.next)]
              /\ held' = [held EXCEPT !.pc = "save"]
              /\ UNCHANGED backup
           \/ Fails /\ RollbackSeed(v)
        /\ UNCHANGED <<vms, creating, busy, op, file, running, disk,
                       removing, ghosts, crashes>>

SeedSave ==
    LET v == held.vm
        next == [vms EXCEPT ![v] = held.next]
    IN  /\ At("seed", "save")
        /\ \/ /\ Succeeds
              /\ vms' = next /\ file' = next
              /\ held' = [held EXCEPT !.pc = "commit"]
              /\ UNCHANGED <<iso, backup>>
           \/ /\ Fails
              /\ RollbackSeed(v)
              /\ UNCHANGED <<vms, file>>
        /\ UNCHANGED <<creating, busy, op, running, disk, removing, ghosts,
                       crashes>>

SeedCommit ==
    /\ At("seed", "commit")
    /\ \/ Succeeds /\ backup' = [backup EXCEPT ![held.vm] = None]
       \/ Fails /\ UNCHANGED backup
    /\ held' = Free
    /\ UNCHANGED <<vms, creating, busy, op, file, running, disk, removing,
                   iso, ghosts, crashes>>
-----------------------------------------------------------------------------
(***************************************************************************)
(* Start, as far as definitions see it, the end of the run, and what the   *)
(* guest does to its disks.                                                *)
(***************************************************************************)
Start(v) ==
    /\ Editable(v) /\ v \notin running
    /\ \A d \in vms[v].disks : disk[d] # None
    /\ vms[v].cloud # None => iso[v] # None
    /\ running' = running \cup {v}
    /\ UNCHANGED <<memory, file, files, ghosts, counters>>

Exit(v) ==
    /\ v \in running
    /\ running' = running \ {v}
    /\ UNCHANGED <<memory, file, files, ghosts, counters>>

GuestWrites(v, d) ==
    /\ v \in running /\ d \in vms[v].disks
    /\ disk[d] < MaxWrites
    /\ disk' = [disk EXCEPT ![d] = @ + 1]
    /\ UNCHANGED <<memory, file, running, removing, iso, backup, ghosts,
                   counters>>

(***************************************************************************)
(* App Runner crashes and comes back with what vms.json holds.  Between    *)
(* the file operations of a handler that leaves files and definition at    *)
(* odds, which nothing repairs.                                            *)
(***************************************************************************)
AtOdds == held.kind = "delete" \/ At("remove", "save")
          \/ At("seed", "rename") \/ At("seed", "save")

Crash ==
    /\ crashes < MaxCrashes
    /\ crashes' = crashes + 1
    /\ vms' = file
    /\ creating' = [v \in Ids |-> None]
    /\ busy' = {}
    /\ op' = [t \in Threads |-> NoOp]
    /\ held' = Free
    /\ damaged' = IF AtOdds THEN damaged \cup {held.vm} ELSE damaged
    /\ UNCHANGED <<file, running, files, used, failures>>

Unlocked(t) ==
    \/ \E v \in Ids, x \in Definition : Create(t, v, x)
    \/ \E s, v \in Ids, n \in Names, m \in Macs \cup {None} :
          \E disks \in SUBSET (Disks \ used) :
              s \in Defined /\ \E from \in [disks -> vms[s].disks] :
                  Clone(t, s, v, n, m, from)
    \/ \E v \in Ids, d \in Disks : AddDisk(t, v, d)
    \/ \E d \in Disks : Produce(t, d)
    \/ ProduceState(t) \/ FinishNew(t) \/ FinishAddDisk(t)

Edits(v) ==
    \/ \E n \in Names : Rename(v, n) \/ RenameSeeded(v, n)
    \/ \E m \in Macs : AddNIC(v, m) \/ UpdateNIC(v, m)
    \/ RemoveNIC(v)
    \/ \E c \in UserData \cup {None} : ConfigureCloudInit(v, c)
    \/ \E d \in Disks : RemoveDisk(v, d)
    \/ Delete(v)

Next ==
    \/ \E t \in Threads : Unlocked(t)
    \/ \E v \in Ids : Edits(v) \/ Start(v) \/ Exit(v)
    \/ \E v \in Ids, d \in Disks : GuestWrites(v, d)
    \/ DeleteFiles \/ DeleteSave \/ RemoveDiskSave \/ RemoveDiskClean
    \/ SeedRename \/ SeedSave \/ SeedCommit
    \/ Crash

Spec == Init /\ [][Next]_vars
-----------------------------------------------------------------------------
(***************************************************************************)
(* However requests overlap, no two machines, defined or being created,    *)
(* share a name or a MAC address, and neither do two machines of vms.json, *)
(* which a restart brings back.                                            *)
(***************************************************************************)
Identities(machines) ==
    \A v, w \in Ids :
        v # w /\ machines[v] # None /\ machines[w] # None =>
            /\ machines[v].name # machines[w].name
            /\ machines[v].mac # None => machines[v].mac # machines[w].mac

IdentitiesUnique ==
    /\ Identities(file)
    /\ Identities([v \in Ids |-> IF v \in Defined THEN vms[v]
                                 ELSE creating[v]])

(***************************************************************************)
(* Every disk of a definition, in memory and in vms.json, is there, except *)
(* on a machine that a failed Delete or a crash inside Delete or           *)
(* RemoveDisk has damaged.  And as long as App Runner has not crashed,     *)
(* every disk file belongs to a definition or to a request under way, or   *)
(* is a partial file that a failed qemu-img left behind.                   *)
(***************************************************************************)
Settled(v) == v \notin damaged /\ (held = Free \/ held.vm # v)
DisksThere(machines) ==
    \A v \in Ids : machines[v] # None /\ Settled(v) =>
        \A d \in machines[v].disks : disk[d] \in 0..MaxWrites

Owned(d) ==
    \/ \E v \in Defined : d \in vms[v].disks
    \/ \E t \in Threads : op[t] # NoOp /\ d \in DOMAIN op[t].from

DisksAccounted ==
    /\ DisksThere(vms) /\ DisksThere(file)
    /\ crashes = 0 => \A d \in Disks : disk[d] \in 0..MaxWrites => Owned(d)

(***************************************************************************)
(* The seed image of a machine says what its definition says, in memory    *)
(* and after a restart: renaming, reconfiguring, cloning and rolling back  *)
(* keep image and definition together.                                     *)
(***************************************************************************)
SeedMatches ==
    \A v \in Ids : Settled(v) =>
        /\ vms[v] # None => iso[v] = SeedOf(vms[v])
        /\ file[v] # None => iso[v] = SeedOf(file[v])

(***************************************************************************)
(* A clone is a copy of the machine as it was when the request came in:    *)
(* while the mutex is free nobody starts, changes or deletes the source,   *)
(* and each copied disk holds what its original held.                      *)
(***************************************************************************)
CloneIsFaithful ==
    \A t \in Threads : op[t].kind = "clone" =>
        LET o == op[t]
            clone == creating[o.vm]
        IN  /\ vms[o.source] # None
            /\ clone = [vms[o.source] EXCEPT !.name = clone.name,
                            !.mac = clone.mac, !.disks = clone.disks]
            /\ \A d \in DOMAIN o.from : disk[o.from[d]] = o.want[d]
            /\ \A d \in Produced(o) : disk[d] = o.want[d]
=============================================================================
