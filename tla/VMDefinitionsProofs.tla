------------------------ MODULE VMDefinitionsProofs ------------------------
(***************************************************************************)
(* Safety of the definitions of virtual machines and of their files, for   *)
(* every number of machines, disks, overlapping requests, failures and     *)
(* crashes.                                                                *)
(*                                                                         *)
(* The inductive invariant comes in layers: types; who is defined, being   *)
(* created, busy or held; names and addresses; disk files; seed images;    *)
(* clones.  Each layer is preserved given the ones before it.              *)
(***************************************************************************)
EXTENDS VMDefinitions, TLAPS

OpFields == {"kind", "vm", "source", "from", "todo", "want", "pc"}
HeldFields == {"kind", "vm", "next", "disk", "pc"}
Written == 0..MaxWrites

OpType(o) ==
    /\ DOMAIN o = OpFields
    /\ o.kind \in {"create", "clone", "add"}
    /\ o.pc \in {"disks", "done", "failed"}
    /\ o.vm \in Ids /\ o.source \in Ids
    /\ DOMAIN o.from \subseteq Disks
    /\ \A d \in DOMAIN o.from : o.from[d] \in Disks \cup {None}
    /\ o.todo \subseteq DOMAIN o.from

HeldType(h) ==
    /\ DOMAIN h = HeldFields
    /\ h.vm \in Ids
    /\ \/ h.kind = "delete" /\ h.pc \in {"files", "save"}
       \/ h.kind = "remove" /\ h.pc \in {"save", "clean"} /\ h.disk \in Disks
       \/ h.kind = "seed" /\ h.pc \in {"rename", "save", "commit"}
          /\ h.next \in Definition

TypeInv ==
    /\ vms \in [Ids -> MaybeDefinition]
    /\ file \in [Ids -> MaybeDefinition]
    /\ creating \in [Ids -> MaybeDefinition]
    /\ busy \subseteq Ids /\ running \subseteq Ids /\ damaged \subseteq Ids
    /\ DOMAIN op = Threads
    /\ \A t \in Threads : op[t] # NoOp => OpType(op[t])
    /\ held # Free => HeldType(held)
    /\ disk \in [Disks -> Content \cup {None}]
    /\ removing \in [Disks -> Content \cup {None}]
    /\ DOMAIN iso = Ids /\ DOMAIN backup = Ids
    /\ failures \in Nat /\ crashes \in Nat

IsNew(t) == op[t].kind \in {"create", "clone"}
KeepsBusy(t) == op[t].kind \in {"clone", "add"}

(***************************************************************************)
(* Memory and vms.json differ only in machines whose deletion could not be *)
(* saved; an identifier that was never drawn is nobody's; a machine being  *)
(* created is nowhere else, and belongs to one request.                    *)
(***************************************************************************)
ReservationInv ==
    /\ \A v \in Ids :
          /\ vms[v] = file[v] \/ (vms[v] = None /\ v \in damaged)
          /\ creating[v] # None => vms[v] = None /\ file[v] = None
          /\ v \notin used =>
                vms[v] = None /\ file[v] = None /\ creating[v] = None
    /\ \A t \in Threads : IsNew(t) => creating[op[t].vm] # None
    /\ \A t, u \in Threads : t # u /\ IsNew(t) /\ IsNew(u) =>
          op[t].vm # op[u].vm

(***************************************************************************)
(* A machine is kept busy by one request and then neither runs nor is it   *)
(* worked on under the mutex.                                              *)
(***************************************************************************)
BusyInv ==
    /\ busy \subseteq Defined /\ running \subseteq Defined
    /\ busy \cap running = {}
    /\ \A t \in Threads :
          /\ KeepsBusy(t) => op[t].source \in busy
          /\ op[t].kind # "clone" /\ op[t] # NoOp => op[t].source = op[t].vm
          /\ op[t].kind = "clone" =>
                \A d \in DOMAIN op[t].from :
                    op[t].from[d] \in vms[op[t].source].disks
          /\ op[t].kind # "clone" /\ op[t] # NoOp =>
                \A d \in DOMAIN op[t].from : op[t].from[d] = None
    /\ \A t, u \in Threads : t # u /\ KeepsBusy(t) /\ KeepsBusy(u) =>
          op[t].source # op[u].source
    /\ held # Free =>
          /\ held.vm \in Defined \ busy
          /\ held.kind # "seed" => held.vm \notin running
          /\ At("remove", "save") => held.disk \in vms[held.vm].disks

(***************************************************************************)
(* A rename that rebuilds the seed image has checked its name when it took *)
(* the mutex, and saves it later.                                          *)
(***************************************************************************)
Known == [v \in Ids |-> IF v \in Defined THEN vms[v] ELSE creating[v]]
IdentityInv ==
    /\ Identities(file) /\ Identities(Known)
    /\ held.kind = "seed" /\ held.pc # "commit" =>
          /\ held.next.mac = vms[held.vm].mac
          /\ held.next.disks = vms[held.vm].disks
          /\ \A w \in Ids \ {held.vm} :
                Known[w] # None => Known[w].name # held.next.name

(***************************************************************************)
(* Disk files.  Every disk belongs to one definition or one request; a     *)
(* file that is being produced may be missing or partial, one that belongs *)
(* to a definition is never partial.                                       *)
(***************************************************************************)
DisksOf(machines, v) == IF machines[v] = None THEN {} ELSE machines[v].disks

OwnershipInv ==
    /\ \A v, w \in Ids : v # w =>
          /\ DisksOf(vms, v) \cap DisksOf(vms, w) = {}
          /\ DisksOf(file, v) \cap DisksOf(file, w) = {}
    /\ \A v \in Ids : DisksOf(vms, v) \cup DisksOf(file, v) \subseteq used
    /\ \A t \in Threads : op[t] # NoOp =>
          /\ DOMAIN op[t].from \subseteq used
          /\ IsNew(t) => creating[op[t].vm].disks = DOMAIN op[t].from
          /\ \A v \in Ids :
                DOMAIN op[t].from
                    \cap (DisksOf(vms, v) \cup DisksOf(file, v)) = {}
          /\ \A u \in Threads : t # u /\ op[u] # NoOp =>
                DOMAIN op[t].from \cap DOMAIN op[u].from = {}

(***************************************************************************)
(* The machine whose disks the handler with the mutex is taking away.      *)
(***************************************************************************)
Taken(v, d) ==
    held # Free /\ held.vm = v /\ \/ held.kind = "delete"
                                  \/ At("remove", "save") /\ held.disk = d

UnusedDisks ==
    \A d \in Disks : /\ d \notin used => disk[d] = None
                     /\ removing[d] # Partial

MachineDisks ==
    \A v \in Ids :
        /\ \A d \in DisksOf(vms, v) \cup DisksOf(file, v) : disk[d] # Partial
        /\ v \notin damaged => \A d \in DisksOf(vms, v) :
              Taken(v, d) \/ disk[d] \in Written
        /\ v \in running => \A d \in DisksOf(vms, v) : disk[d] \in Written

RequestDisks ==
    \A t \in Threads : op[t] # NoOp =>
        /\ op[t].pc = "done" => op[t].todo = {}
        /\ op[t].kind = "add" =>
              /\ \A d, e \in DOMAIN op[t].from : d = e
              /\ op[t].pc = "failed" => op[t].todo = DOMAIN op[t].from
        /\ \A d \in Produced(op[t]) : disk[d] \in Written
        /\ \A d \in op[t].todo :
              disk[d] = None \/ (op[t].pc = "failed" /\ disk[d] = Partial)

HeldDisks ==
    /\ At("remove", "save") =>
          /\ disk[held.disk] = None
          /\ held.vm \notin damaged => removing[held.disk] \in Written
    /\ At("delete", "save") =>
          \A d \in DisksOf(vms, held.vm) : disk[d] = None

NoOrphans == crashes = 0 => \A d \in Disks : disk[d] \in Written => Owned(d)

ContentInv ==
    UnusedDisks /\ MachineDisks /\ RequestDisks /\ HeldDisks /\ NoOrphans

(***************************************************************************)
(* Seed images: the handler that replaces one keeps the previous image     *)
(* until the definition is saved.                                          *)
(***************************************************************************)
Replaced(v) ==
    held # Free /\ held.vm = v /\ \/ held.kind = "delete"
                                  \/ held.kind = "seed" /\ held.pc # "commit"

SeedsCurrent ==
    \A v \in Ids : vms[v] # None /\ v \notin damaged /\ ~Replaced(v) =>
        iso[v] = SeedOf(vms[v])

SeedStaged ==
    held.kind = "seed" /\ held.vm \notin damaged =>
        /\ held.pc \in {"rename", "save"} =>
              backup[held.vm] = SeedOf(vms[held.vm])
        /\ held.pc = "save" => iso[held.vm] = SeedOf(held.next)

SeedsProduced ==
    \A t \in Threads : IsNew(t) /\ op[t].pc = "done" =>
        iso[op[t].vm] = SeedOf(creating[op[t].vm])

SeedInv == SeedsCurrent /\ SeedStaged /\ SeedsProduced

IInv == /\ TypeInv /\ ReservationInv /\ BusyInv /\ IdentityInv
        /\ OwnershipInv /\ ContentInv /\ SeedInv /\ CloneIsFaithful
-----------------------------------------------------------------------------
(***************************************************************************)
(* Types.                                                                  *)
(***************************************************************************)
LEMMA InitTypes == Init => TypeInv
BY DefinitionConstants, NoneIsDistinct
DEF Init, TypeInv, MaybeDefinition, NoOp, Free

LEMMA NoOpIsNot == NoOp.kind = "none" /\ Free.kind = "free"
BY DEF NoOp, Free

(***************************************************************************)
(* What an edit of a definition makes of it.                               *)
(***************************************************************************)
LEMMA EditedIsDefinition ==
    ASSUME NEW x \in Definition
    PROVE  /\ \A name \in Names : [x EXCEPT !.name = name] \in Definition
           /\ \A mac \in Macs \cup {None} :
                 [x EXCEPT !.mac = mac] \in Definition
           /\ \A cloud \in UserData \cup {None} :
                 [x EXCEPT !.cloud = cloud] \in Definition
           /\ \A disks \in SUBSET Disks :
                 [x EXCEPT !.disks = disks] \in Definition
           /\ \A name \in Names, mac \in Macs \cup {None},
                 disks \in SUBSET Disks :
                    [x EXCEPT !.name = name, !.mac = mac, !.disks = disks]
                        \in Definition
BY DEF Definition

LEMMA BeginTypes ==
    ASSUME TypeInv, NEW t \in Threads, NEW v \in Ids, NEW source \in Ids,
           NEW kind \in {"create", "clone", "add"}, NEW from,
           DOMAIN from \subseteq Disks,
           \A d \in DOMAIN from : from[d] \in Disks \cup {None},
           Begin(t, kind, v, source, from)
    PROVE  /\ DOMAIN op' = Threads
           /\ \A u \in Threads : op'[u] # NoOp => OpType(op'[u])
BY DEF TypeInv, Begin, OpType, OpFields

LEMMA UnlockedTypes ==
    ASSUME TypeInv, BusyInv, NEW t \in Threads, Unlocked(t)
    PROVE  TypeInv'
<1> USE DefinitionConstants, NoneIsDistinct
<1>1. ASSUME NEW v \in Ids, NEW x \in Definition, Create(t, v, x)
      PROVE  TypeInv'
  <2>1. x \in Definition /\ x.disks \subseteq Disks
    BY DEF Definition
  <2>2. /\ DOMAIN op' = Threads
        /\ \A u \in Threads : op'[u] # NoOp => OpType(op'[u])
    BY <1>1, <2>1, BeginTypes DEF Create
  <2> QED
    BY <1>1, <2>1, <2>2 DEF Create, TypeInv, MaybeDefinition, files, counters
<1>2. ASSUME NEW s \in Ids, NEW v \in Ids, NEW n \in Names,
             NEW m \in Macs \cup {None}, NEW disks \in SUBSET (Disks \ used),
             s \in Defined, NEW from \in [disks -> vms[s].disks],
             Clone(t, s, v, n, m, from)
      PROVE  TypeInv'
  <2>1. vms[s] \in Definition /\ vms[s].disks \subseteq Disks
    BY <1>2 DEF TypeInv, Defined, MaybeDefinition, Definition
  <2>2. /\ DOMAIN op' = Threads
        /\ \A u \in Threads : op'[u] # NoOp => OpType(op'[u])
    BY <1>2, <2>1, BeginTypes DEF Clone
  <2>3. [vms[s] EXCEPT !.name = n, !.mac = m, !.disks = disks] \in Definition
    BY <2>1, EditedIsDefinition
  <2> QED
    BY <1>2, <2>2, <2>3 DEF Clone, TypeInv, MaybeDefinition, files, counters
<1>3. ASSUME NEW v \in Ids, NEW d \in Disks, AddDisk(t, v, d)
      PROVE  TypeInv'
  <2>2. /\ DOMAIN op' = Threads
        /\ \A u \in Threads : op'[u] # NoOp => OpType(op'[u])
    BY <1>3, BeginTypes DEF AddDisk
  <2> QED
    BY <1>3, <2>2 DEF AddDisk, TypeInv, files, counters
<1>4. ASSUME NEW d \in Disks, Produce(t, d)
      PROVE  TypeInv'
  <2>1. OpType(op[t])
    BY <1>4 DEF Produce, TypeInv, NoOp
  <2>2. /\ DOMAIN op' = Threads
        /\ \A u \in Threads : op'[u] # NoOp => OpType(op'[u])
    BY <1>4, <2>1 DEF Produce, TypeInv, OpType, OpFields
  <2>3. disk' \in [Disks -> Content \cup {None}]
    BY <1>4, <2>1 DEF Produce, TypeInv, OpType, Content, Partial
  <2> QED
    BY <1>4, <2>2, <2>3 DEF Produce, TypeInv, ghosts, Fails, Succeeds
<1>5. CASE ProduceState(t)
  <2>1. OpType(op[t])
    BY <1>5 DEF ProduceState, TypeInv, NoOp
  <2>2. /\ DOMAIN op' = Threads
        /\ \A u \in Threads : op'[u] # NoOp => OpType(op'[u])
    BY <1>5, <2>1 DEF ProduceState, TypeInv, OpType, OpFields
  <2> QED
    BY <1>5, <2>2 DEF ProduceState, TypeInv, ghosts, Fails, Succeeds
<1>6. CASE FinishNew(t)
  <2>1. OpType(op[t])
    BY <1>6 DEF FinishNew, TypeInv, NoOp
  <2>2. /\ DOMAIN op' = Threads
        /\ \A u \in Threads : op'[u] # NoOp => OpType(op'[u])
        /\ creating' \in [Ids -> MaybeDefinition]
        /\ busy' \subseteq Ids
        /\ UNCHANGED <<held, running, removing, backup, damaged, crashes>>
    BY <1>6, <2>1 DEF FinishNew, Released, TypeInv, OpType, MaybeDefinition,
                      ghosts
  <2>3. disk' \in [Disks -> Content \cup {None}] /\ DOMAIN iso' = Ids
        /\ vms' \in [Ids -> MaybeDefinition]
        /\ file' \in [Ids -> MaybeDefinition]
    BY <1>6, <2>1 DEF FinishNew, Discard, TypeInv, OpType
  <2> QED
    BY <1>6, <2>2, <2>3 DEF FinishNew, TypeInv, Fails, Succeeds
<1>7. CASE FinishAddDisk(t)
  <2>1. OpType(op[t])
    BY <1>7 DEF FinishAddDisk, TypeInv, NoOp
  <2>2. /\ DOMAIN op' = Threads
        /\ \A u \in Threads : op'[u] # NoOp => OpType(op'[u])
        /\ creating' \in [Ids -> MaybeDefinition]
        /\ busy' \subseteq Ids
        /\ UNCHANGED <<held, running, removing, backup, damaged, crashes>>
    BY <1>7, <2>1 DEF FinishAddDisk, Released, TypeInv, OpType,
                      MaybeDefinition, ghosts
  <2>3. disk' \in [Disks -> Content \cup {None}] /\ iso' = iso
    BY <1>7, <2>1 DEF FinishAddDisk, TypeInv, OpType
  <2>4. vms' \in [Ids -> MaybeDefinition] /\ file' \in [Ids -> MaybeDefinition]
    <3>1. vms[op[t].vm] \in Definition
      BY <1>7, <2>1 DEF FinishAddDisk, BusyInv, KeepsBusy, Defined, TypeInv,
                        OpType, MaybeDefinition, NoOp
    <3>2. [vms[op[t].vm] EXCEPT !.disks = @ \cup DOMAIN op[t].from]
             \in Definition
      BY <2>1, <3>1 DEF OpType, Definition
    <3> QED
      BY <1>7, <3>2 DEF FinishAddDisk, TypeInv, MaybeDefinition
  <2> QED
    BY <1>7, <2>2, <2>3, <2>4 DEF FinishAddDisk, TypeInv, Fails, Succeeds
<1> QED
  BY <1>1, <1>2, <1>3, <1>4, <1>5, <1>6, <1>7 DEF Unlocked

LEMMA CommitTypes ==
    ASSUME TypeInv, NEW machines \in [Ids -> MaybeDefinition],
           Commit(machines)
    PROVE  /\ vms' \in [Ids -> MaybeDefinition]
           /\ file' \in [Ids -> MaybeDefinition]
           /\ failures' \in Nat
BY DEF TypeInv, Commit, Succeeds, Fails

LEMMA StageTypes ==
    ASSUME TypeInv, NEW v \in Ids, NEW next \in Definition,
           StageSeed(v, next)
    PROVE  TypeInv'
<1>1. held' # Free => HeldType(held')
  BY DEF TypeInv, StageSeed, Acquire, HeldType, HeldFields
<1> QED
  BY <1>1 DEF TypeInv, StageSeed, Fails, Succeeds, ghosts

LEMMA EditTypes ==
    ASSUME TypeInv, NEW v \in Ids, Edits(v)
    PROVE  TypeInv'
<1> USE DefinitionConstants, NoneIsDistinct
<1>0. v \in Defined => vms[v] \in Definition /\ vms[v].mac \in Macs \cup {None}
  BY DEF TypeInv, Defined, MaybeDefinition, Definition
<1>1. ASSUME NEW x \in Definition, Edit(v, x)
      PROVE  TypeInv'
  <2>1. [vms EXCEPT ![v] = x] \in [Ids -> MaybeDefinition]
    BY DEF TypeInv, MaybeDefinition
  <2> QED
    BY <1>1, <2>1, CommitTypes DEF Edit, TypeInv, files, ghosts
<1>2. ASSUME NEW n \in Names, Rename(v, n)
      PROVE  TypeInv'
  BY <1>0, <1>1, <1>2, EditedIsDefinition DEF Rename, Editable
<1>3. ASSUME NEW m \in Macs, AddNIC(v, m) \/ UpdateNIC(v, m)
      PROVE  TypeInv'
  BY <1>0, <1>1, <1>3, EditedIsDefinition DEF AddNIC, UpdateNIC, Editable
<1>4. CASE RemoveNIC(v)
  BY <1>0, <1>1, <1>4, EditedIsDefinition DEF RemoveNIC, Editable
<1>5. ASSUME NEW n \in Names, RenameSeeded(v, n)
      PROVE  TypeInv'
  BY <1>0, <1>5, StageTypes, EditedIsDefinition DEF RenameSeeded
<1>6. ASSUME NEW c \in UserData \cup {None}, ConfigureCloudInit(v, c)
      PROVE  TypeInv'
  BY <1>0, <1>6, StageTypes, EditedIsDefinition DEF ConfigureCloudInit
<1>7. ASSUME NEW d \in Disks, RemoveDisk(v, d)
      PROVE  TypeInv'
  <2>1. held' # Free => HeldType(held')
    BY <1>7 DEF RemoveDisk, Acquire, HeldType, HeldFields
  <2> QED
    BY <1>7, <2>1 DEF RemoveDisk, TypeInv, ghosts, counters
<1>8. CASE Delete(v)
  <2>1. held' # Free => HeldType(held')
    BY <1>8 DEF Delete, Acquire, HeldType, HeldFields
  <2> QED
    BY <1>8, <2>1 DEF Delete, TypeInv, files, ghosts, counters
<1> QED
  BY <1>2, <1>3, <1>4, <1>5, <1>6, <1>7, <1>8 DEF Edits

HeldStep ==
    \/ DeleteFiles \/ DeleteSave \/ RemoveDiskSave \/ RemoveDiskClean
    \/ SeedRename \/ SeedSave \/ SeedCommit

LEMMA HeldStepIsHeld == ASSUME TypeInv, HeldStep PROVE HeldType(held)
BY DEF HeldStep, DeleteFiles, DeleteSave, RemoveDiskSave, RemoveDiskClean,
       SeedRename, SeedSave, SeedCommit, At, TypeInv, Free

LEMMA HeldTypes ==
    ASSUME TypeInv, BusyInv, HeldStep
    PROVE  TypeInv'
<1> USE DefinitionConstants, NoneIsDistinct
<1>0. HeldType(held) /\ held # Free
  BY HeldStepIsHeld DEF HeldType, Free, HeldFields
<1>1. CASE DeleteFiles
  <2>1. held' # Free => HeldType(held')
    BY <1>0, <1>1 DEF DeleteFiles, At, HeldType, HeldFields
  <2>2. disk' \in [Disks -> Content \cup {None}]
    BY <1>1 DEF DeleteFiles, TypeInv
  <2> QED
    BY <1>0, <1>1, <2>1, <2>2
    DEF DeleteFiles, TypeInv, HeldType, Fails, Succeeds
<1>2. CASE DeleteSave
  BY <1>0, <1>2 DEF DeleteSave, TypeInv, HeldType, Fails, Succeeds, files,
                    MaybeDefinition
<1>3. CASE RemoveDiskSave
  <2>1. held' # Free => HeldType(held')
    BY <1>0, <1>3 DEF RemoveDiskSave, At, HeldType, HeldFields
  <2>2. vms[held.vm] \in Definition
    BY <1>0, <1>3 DEF BusyInv, TypeInv, Defined, MaybeDefinition
  <2>3. [vms[held.vm] EXCEPT !.disks = @ \ {held.disk}] \in Definition
    BY <2>2 DEF Definition
  <2>4. /\ vms' \in [Ids -> MaybeDefinition]
        /\ file' \in [Ids -> MaybeDefinition]
        /\ failures' \in Nat
    BY <1>3, <2>3 DEF RemoveDiskSave, Commit, TypeInv, MaybeDefinition, Fails,
                      Succeeds
  <2> QED
    BY <1>0, <1>3, <2>1, <2>4 DEF RemoveDiskSave, TypeInv, ghosts
<1>4. CASE RemoveDiskClean
  BY <1>0, <1>4 DEF RemoveDiskClean, TypeInv, Fails, Succeeds, ghosts
<1>5. CASE SeedRename
  <2>1. held' # Free => HeldType(held')
    BY <1>0, <1>5 DEF SeedRename, RollbackSeed, At, HeldType, HeldFields
  <2> QED
    BY <1>5, <2>1 DEF SeedRename, RollbackSeed, TypeInv, Fails, Succeeds,
                      ghosts
<1>6. CASE SeedSave
  <2>1. held' # Free => HeldType(held')
    BY <1>0, <1>6 DEF SeedSave, RollbackSeed, At, HeldType, HeldFields
  <2>2. held.next \in Definition
    BY <1>0, <1>6 DEF SeedSave, At, HeldType
  <2> QED
    BY <1>6, <2>1, <2>2 DEF SeedSave, RollbackSeed, TypeInv, Fails, Succeeds,
                            ghosts, MaybeDefinition
<1>7. CASE SeedCommit
  BY <1>7 DEF SeedCommit, TypeInv, Fails, Succeeds, ghosts
<1> QED
  BY <1>1, <1>2, <1>3, <1>4, <1>5, <1>6, <1>7 DEF HeldStep

LEMMA TypeStep ==
    ASSUME TypeInv, BusyInv, ContentInv, [Next]_vars
    PROVE  TypeInv'
<1> USE DefinitionConstants, NoneIsDistinct
<1>1. ASSUME NEW v \in Ids, Start(v) \/ Exit(v)
      PROVE  TypeInv'
  BY <1>1 DEF Start, Exit, TypeInv, memory, files, ghosts, counters
<1>2. ASSUME NEW v \in Ids, NEW d \in Disks, GuestWrites(v, d)
      PROVE  TypeInv'
  <2>1. disk[d] \in Written
    BY <1>2 DEF GuestWrites, BusyInv, ContentInv, MachineDisks, DisksOf,
                Defined, TypeInv
  <2>2. disk' \in [Disks -> Content \cup {None}]
    BY <1>2, <2>1 DEF GuestWrites, TypeInv, Written, Content, Partial
  <2> QED
    BY <1>2, <2>2 DEF GuestWrites, TypeInv, memory, ghosts, counters
<1>3. CASE Crash
  <2>1. AtOdds => held.vm \in Ids
    BY DEF AtOdds, At, TypeInv, HeldType, Free
  <2> QED
    BY <1>3, <2>1 DEF Crash, TypeInv, files, MaybeDefinition
<1>4. CASE UNCHANGED vars
  BY <1>4 DEF vars, memory, files, ghosts, counters, TypeInv
<1> QED
  BY <1>1, <1>2, <1>3, <1>4, UnlockedTypes, EditTypes, HeldTypes
  DEF Next, HeldStep
-----------------------------------------------------------------------------
(***************************************************************************)
(* The edits, by what they do: write vms.json only, replace the seed image *)
(* as well, stage a disk for removal, or delete.  The new name and address *)
(* are nobody else's, and a plain edit leaves disks and seed image alone.  *)
(***************************************************************************)
Fresh(v, x) ==
    \A w \in Ids \ {v} : Known[w] # None =>
        /\ Known[w].name # x.name
        /\ x.mac # None => Known[w].mac # x.mac

PlainEdit(v, x) ==
    /\ Edit(v, x)
    /\ Fresh(v, x)
    /\ x.disks = vms[v].disks /\ SeedOf(x) = SeedOf(vms[v])

SeedEdit(v, x) ==
    /\ StageSeed(v, x)
    /\ Fresh(v, x)
    /\ x.disks = vms[v].disks /\ x.mac = vms[v].mac

LEMMA EditCases ==
    ASSUME TypeInv, ReservationInv, IdentityInv, NEW v \in Ids, Edits(v)
    PROVE  /\ Editable(v)
           /\ \/ \E x \in Definition : PlainEdit(v, x)
              \/ \E x \in Definition : SeedEdit(v, x)
              \/ \E d \in Disks : RemoveDisk(v, d)
              \/ Delete(v)
<1> USE DefinitionConstants, NoneIsDistinct
<1>0. Editable(v)
  BY DEF Edits, Rename, RenameSeeded, AddNIC, UpdateNIC, RemoveNIC,
         ConfigureCloudInit, RemoveDisk, Delete, StageSeed
<1>1. vms[v] \in Definition /\ vms[v] # None
  BY <1>0 DEF Editable, Defined, TypeInv, MaybeDefinition
<1>2. \A w \in Ids \ {v} : Known[w] # None =>
          /\ Known[w].name # vms[v].name
          /\ vms[v].mac # None => Known[w].mac # vms[v].mac
  BY <1>0, <1>1 DEF IdentityInv, Identities, Known, Editable, Defined
<1>3. ASSUME NEW name, ~NameInUse(name, {v})
      PROVE  \A w \in Ids \ {v} : Known[w] # None => Known[w].name # name
  BY <1>3 DEF NameInUse, Known, Defined, Reserved
<1>4. ASSUME NEW mac \in Macs, ~MacInUse(mac)
      PROVE  \A w \in Ids \ {v} : Known[w] # None => Known[w].mac # mac
  BY <1>4 DEF MacInUse, Known, Defined, Reserved
<1>5. ASSUME NEW n \in Names, Rename(v, n)
      PROVE  \E x \in Definition : PlainEdit(v, x)
  <2> DEFINE x == [vms[v] EXCEPT !.name = n]
  <2>1. x \in Definition /\ x.name = n /\ x.mac = vms[v].mac
        /\ x.disks = vms[v].disks /\ x.cloud = vms[v].cloud
    BY <1>1 DEF Definition
  <2>2. SeedOf(x) = SeedOf(vms[v]) /\ Edit(v, x)
    BY <1>5, <2>1 DEF Rename, SeedOf
  <2>3. Fresh(v, x)
    BY <1>2, <1>3, <1>5, <2>1 DEF Rename, Fresh
  <2> QED
    BY <2>1, <2>2, <2>3 DEF PlainEdit
<1>6. ASSUME NEW m \in Macs \cup {None}, Edit(v, [vms[v] EXCEPT !.mac = m]),
             m # None => ~MacInUse(m)
      PROVE  \E x \in Definition : PlainEdit(v, x)
  <2> DEFINE x == [vms[v] EXCEPT !.mac = m]
  <2>1. x \in Definition /\ x.name = vms[v].name /\ x.mac = m
        /\ x.disks = vms[v].disks /\ x.cloud = vms[v].cloud
    BY <1>1 DEF Definition
  <2>2. SeedOf(x) = SeedOf(vms[v]) /\ Edit(v, x)
    BY <1>6, <2>1 DEF SeedOf
  <2>3. Fresh(v, x)
    BY <1>2, <1>4, <1>6, <2>1 DEF Fresh
  <2> QED
    BY <2>1, <2>2, <2>3 DEF PlainEdit
<1>7. ASSUME NEW n \in Names, RenameSeeded(v, n)
      PROVE  \E x \in Definition : SeedEdit(v, x)
  <2> DEFINE x == [vms[v] EXCEPT !.name = n]
  <2>1. x \in Definition /\ x.name = n /\ x.mac = vms[v].mac
        /\ x.disks = vms[v].disks
    BY <1>1 DEF Definition
  <2>2. Fresh(v, x)
    BY <1>2, <1>3, <1>7, <2>1 DEF RenameSeeded, Fresh
  <2> QED
    BY <1>7, <2>1, <2>2 DEF RenameSeeded, SeedEdit
<1>8. ASSUME NEW c \in UserData \cup {None}, ConfigureCloudInit(v, c)
      PROVE  \E x \in Definition : SeedEdit(v, x)
  <2> DEFINE x == [vms[v] EXCEPT !.cloud = c]
  <2>1. x \in Definition /\ x.name = vms[v].name /\ x.mac = vms[v].mac
        /\ x.disks = vms[v].disks
    BY <1>1 DEF Definition
  <2>2. Fresh(v, x)
    BY <1>2, <2>1 DEF Fresh
  <2> QED
    BY <1>8, <2>1, <2>2 DEF ConfigureCloudInit, SeedEdit
<1> QED
  BY <1>0, <1>5, <1>6, <1>7, <1>8 DEF Edits, AddNIC, UpdateNIC, RemoveNIC

-----------------------------------------------------------------------------
(***************************************************************************)
(* Reservations.  Most steps leave definitions, reservations and the       *)
(* machines of the requests alone; a saved edit changes one definition in  *)
(* memory and in the file.                                                 *)
(***************************************************************************)
SameOps == \A t \in Threads :
              /\ op'[t].kind = op[t].kind /\ op'[t].vm = op[t].vm
              /\ op'[t].source = op[t].source /\ op'[t].from = op[t].from
              /\ op'[t] = NoOp <=> op[t] = NoOp

LEMMA ReservationFrame ==
    ASSUME ReservationInv, UNCHANGED <<vms, file, creating, used>>, SameOps,
           damaged \subseteq damaged'
    PROVE  ReservationInv'
BY DEF ReservationInv, IsNew, SameOps

LEMMA ReservationSaved ==
    ASSUME TypeInv, ReservationInv, NEW v \in Defined, NEW x,
           vms' = [vms EXCEPT ![v] = x],
           file' = vms' \/ (file' = file /\ x = None /\ v \in damaged'),
           UNCHANGED <<creating, used, op>>, damaged \subseteq damaged'
    PROVE  ReservationInv'
BY DEF ReservationInv, IsNew, TypeInv, Defined

LEMMA ReservationStep ==
    ASSUME TypeInv, ReservationInv, BusyInv, IdentityInv, [Next]_vars
    PROVE  ReservationInv'
<1> USE DefinitionConstants, NoneIsDistinct
<1>1. ASSUME NEW t \in Threads, NEW v \in Ids, NEW x \in Definition,
             Create(t, v, x)
      PROVE  ReservationInv'
  <2>1. x # None
    BY NoneIsDistinct
  <2> QED
    BY <1>1, <2>1 DEF Create, Begin, ReservationInv, IsNew, TypeInv
<1>2. ASSUME NEW t \in Threads, NEW s \in Ids, NEW v \in Ids, NEW n \in Names,
             NEW m \in Macs \cup {None}, NEW disks \in SUBSET (Disks \ used),
             s \in Defined, NEW from \in [disks -> vms[s].disks],
             Clone(t, s, v, n, m, from)
      PROVE  ReservationInv'
  <2>1. [vms[s] EXCEPT !.name = n, !.mac = m, !.disks = disks] # None
    <3>1. vms[s] \in Definition
      BY <1>2 DEF Defined, TypeInv, MaybeDefinition
    <3>2. disks \in SUBSET Disks
      OBVIOUS
    <3>3. [vms[s] EXCEPT !.name = n, !.mac = m, !.disks = disks] \in Definition
      BY <3>1, <3>2 DEF Definition
    <3> QED BY <3>3
  <2> QED
    BY <1>2, <2>1 DEF Clone, Begin, ReservationInv, IsNew, TypeInv
<1>3. ASSUME NEW t \in Threads, NEW v \in Ids, NEW d \in Disks,
             AddDisk(t, v, d)
      PROVE  ReservationInv'
  BY <1>3 DEF AddDisk, Begin, ReservationInv, IsNew, TypeInv
<1>4. ASSUME NEW t \in Threads, NEW d \in Disks, Produce(t, d)
      PROVE  ReservationInv'
  <2>1. SameOps
    BY <1>4 DEF Produce, SameOps, TypeInv, OpType, OpFields, NoOp
  <2> QED
    BY <1>4, <2>1, ReservationFrame DEF Produce, ghosts
<1>5. ASSUME NEW t \in Threads, ProduceState(t)
      PROVE  ReservationInv'
  <2>1. SameOps
    BY <1>5 DEF ProduceState, SameOps, TypeInv, OpType, OpFields, NoOp
  <2> QED
    BY <1>5, <2>1, ReservationFrame DEF ProduceState, ghosts
<1>6. ASSUME NEW t \in Threads, FinishNew(t)
      PROVE  ReservationInv'
  <2>1. op[t].vm \in Ids /\ IsNew(t)
    BY <1>6 DEF FinishNew, TypeInv, OpType, NoOp, IsNew
  <2> QED
    BY <1>6, <2>1 DEF FinishNew, Released, Discard, ReservationInv, IsNew,
                      TypeInv, NoOp, ghosts
<1>7. ASSUME NEW t \in Threads, FinishAddDisk(t)
      PROVE  ReservationInv'
  <2>1. op[t].vm \in Defined /\ op[t].vm \in Ids
    BY <1>7 DEF FinishAddDisk, TypeInv, OpType, NoOp, BusyInv, KeepsBusy
  <2> QED
    BY <1>7, <2>1 DEF FinishAddDisk, Released, ReservationInv, IsNew,
                      TypeInv, NoOp, ghosts, Defined
<1>8. ASSUME NEW v \in Ids, Edits(v)
      PROVE  ReservationInv'
  <2>1. ASSUME NEW x \in Definition, PlainEdit(v, x), v \in Defined
        PROVE  ReservationInv'
    <3>1. CASE UNCHANGED <<vms, file>>
      BY <2>1, <3>1, ReservationFrame DEF PlainEdit, Edit, SameOps, ghosts
    <3>2. CASE vms' = [vms EXCEPT ![v] = x] /\ file' = vms'
      BY <2>1, <3>2 DEF PlainEdit, Edit, ghosts, ReservationInv, IsNew,
                        TypeInv, Defined
    <3> QED
      BY <2>1, <3>1, <3>2 DEF PlainEdit, Edit, Commit
  <2>2. ASSUME NEW x \in Definition, SeedEdit(v, x)
        PROVE  ReservationInv'
    BY <2>2, ReservationFrame DEF SeedEdit, StageSeed, SameOps, ghosts
  <2>3. CASE Delete(v) \/ \E d \in Disks : RemoveDisk(v, d)
    BY <2>3, ReservationFrame DEF Delete, RemoveDisk, SameOps, ghosts
  <2> QED
    BY <1>8, <2>1, <2>2, <2>3, EditCases DEF Editable
<1>9. CASE HeldStep
  <2>0. HeldType(held) /\ held # Free /\ held.vm \in Defined
    BY <1>9, HeldStepIsHeld DEF HeldType, Free, HeldFields, BusyInv
  <2>1. CASE UNCHANGED <<vms, file>>
    BY <1>9, <2>1, ReservationFrame
    DEF HeldStep, DeleteFiles, DeleteSave, RemoveDiskSave, RemoveDiskClean,
        SeedRename, SeedSave, SeedCommit, SameOps, ghosts
  <2>2. CASE DeleteSave
    BY <2>0, <2>2, ReservationSaved DEF DeleteSave
  <2>3. ASSUME NEW x \in Definition,
               vms' = [vms EXCEPT ![held.vm] = x], file' = vms',
               RemoveDiskSave \/ SeedSave
        PROVE  ReservationInv'
    BY <2>0, <2>3 DEF RemoveDiskSave, SeedSave, ReservationInv, IsNew,
                      TypeInv, Defined, ghosts
  <2>4. CASE RemoveDiskSave
    <3>1. [vms[held.vm] EXCEPT !.disks = @ \ {held.disk}] \in Definition
      <4>1. vms[held.vm] \in Definition
        BY <2>0 DEF Defined, TypeInv, MaybeDefinition
      <4> QED BY <4>1 DEF Definition
    <3> QED
      BY <2>0, <2>1, <2>3, <2>4, <3>1 DEF RemoveDiskSave, Commit, TypeInv
  <2>5. CASE SeedSave
    BY <2>0, <2>1, <2>3, <2>5 DEF SeedSave, HeldType, At
  <2> QED
    BY <1>9, <2>1, <2>2, <2>4, <2>5
    DEF HeldStep, DeleteFiles, RemoveDiskClean, SeedRename, SeedCommit
<1>10. ASSUME NEW v \in Ids,
              Start(v) \/ Exit(v) \/ \E d \in Disks : GuestWrites(v, d)
       PROVE  ReservationInv'
  BY <1>10, ReservationFrame
  DEF Start, Exit, GuestWrites, memory, ghosts, SameOps
<1>11. CASE Crash
  BY <1>11 DEF Crash, ReservationInv, IsNew, NoOp
<1>12. CASE UNCHANGED vars
  BY <1>12, ReservationFrame DEF vars, memory, ghosts, SameOps
<1> QED
  BY <1>1, <1>2, <1>3, <1>4, <1>5, <1>6, <1>7, <1>8, <1>9, <1>10, <1>11, <1>12
  DEF Next, Unlocked, HeldStep
-----------------------------------------------------------------------------
(***************************************************************************)
(* Busy machines.                                                          *)
(***************************************************************************)
LEMMA BusyFrame ==
    ASSUME BusyInv, UNCHANGED <<vms, busy, running, held>>, SameOps
    PROVE  BusyInv'
BY DEF BusyInv, Defined, KeepsBusy, SameOps, At

LEMMA BusyUnlocked ==
    ASSUME TypeInv, ReservationInv, BusyInv, NEW t \in Threads, Unlocked(t)
    PROVE  BusyInv'
<1> USE DefinitionConstants, NoneIsDistinct
<1>1. ASSUME NEW v \in Ids, NEW x \in Definition, Create(t, v, x)
      PROVE  BusyInv'
  BY <1>1 DEF Create, Begin, BusyInv, KeepsBusy, TypeInv, Defined, NoOp, At
<1>2. ASSUME NEW s \in Ids, NEW v \in Ids, NEW n \in Names,
             NEW m \in Macs \cup {None}, NEW disks \in SUBSET (Disks \ used),
             s \in Defined, NEW from \in [disks -> vms[s].disks],
             Clone(t, s, v, n, m, from)
      PROVE  BusyInv'
  BY <1>2 DEF Clone, Begin, Editable, RequireIdle, BusyInv, KeepsBusy,
              TypeInv, Defined, NoOp
<1>3. ASSUME NEW v \in Ids, NEW d \in Disks, AddDisk(t, v, d)
      PROVE  BusyInv'
  BY <1>3 DEF AddDisk, Begin, Editable, RequireIdle, BusyInv, KeepsBusy,
              TypeInv, Defined, NoOp
<1>4. ASSUME NEW d \in Disks, Produce(t, d)
      PROVE  BusyInv'
  <2>1. SameOps
    BY <1>4 DEF Produce, SameOps, TypeInv, OpType, OpFields, NoOp
  <2> QED
    BY <1>4, <2>1, BusyFrame DEF Produce
<1>5. CASE ProduceState(t)
  <2>1. SameOps
    BY <1>5 DEF ProduceState, SameOps, TypeInv, OpType, OpFields, NoOp
  <2> QED
    BY <1>5, <2>1, BusyFrame DEF ProduceState
<1>6. CASE FinishNew(t)
  <2>1. op[t].vm \in Ids \ Defined /\ IsNew(t) /\ held = Free
    BY <1>6 DEF FinishNew, TypeInv, OpType, NoOp, IsNew, ReservationInv,
                Defined
  <2>2. \A u \in Threads \ {t} : KeepsBusy(u) =>
            op[u].source \in Defined /\ op[u].source # op[t].source
    BY <1>6, <2>1 DEF BusyInv, FinishNew, KeepsBusy, NoOp
  <2>3. \A v \in Ids : v # op[t].vm => vms'[v] = vms[v]
    BY <1>6, <2>1 DEF FinishNew, TypeInv
  <2>4. /\ \A u \in Threads \ {t} : op'[u] = op[u]
        /\ op'[t] = NoOp /\ busy' = busy \ {op[t].source}
        /\ UNCHANGED <<held, running>>
    BY <1>6 DEF FinishNew, Released, TypeInv
  <2> QED
    BY <2>1, <2>2, <2>3, <2>4 DEF BusyInv, KeepsBusy, Defined, NoOp
<1>7. CASE FinishAddDisk(t)
  <2>1. op[t].vm = op[t].source /\ op[t].vm \in Defined
    BY <1>7 DEF FinishAddDisk, BusyInv, KeepsBusy, NoOp
  <2>2. \A u \in Threads \ {t} : KeepsBusy(u) =>
            op[u].source \in Defined /\ op[u].source # op[t].source
    BY <1>7, <2>1 DEF BusyInv, FinishAddDisk, KeepsBusy, NoOp
  <2>3. /\ \A v \in Ids : v # op[t].vm => vms'[v] = vms[v]
        /\ vms'[op[t].vm] # None
    <3>1. vms[op[t].vm] \in Definition
      BY <2>1 DEF Defined, TypeInv, MaybeDefinition
    <3>2. OpType(op[t])
      BY <1>7 DEF FinishAddDisk, TypeInv, NoOp
    <3>3. [vms[op[t].vm] EXCEPT !.disks = @ \cup DOMAIN op[t].from]
             \in Definition
      BY <3>1, <3>2 DEF OpType, Definition
    <3> QED
      BY <1>7, <2>1, <3>1, <3>3 DEF FinishAddDisk, TypeInv, Defined
  <2>4. /\ \A u \in Threads \ {t} : op'[u] = op[u]
        /\ op'[t] = NoOp /\ busy' = busy \ {op[t].source}
        /\ UNCHANGED <<held, running>> /\ held = Free
    BY <1>7 DEF FinishAddDisk, Released, TypeInv
  <2> QED
    BY <2>1, <2>2, <2>3, <2>4 DEF BusyInv, KeepsBusy, Defined, NoOp
<1> QED
  BY <1>1, <1>2, <1>3, <1>4, <1>5, <1>6, <1>7 DEF Unlocked

(***************************************************************************)
(* A definition that is changed under the mutex is not a busy one.         *)
(***************************************************************************)
LEMMA BusySaved ==
    ASSUME TypeInv, BusyInv, NEW v \in Defined \ busy, NEW x,
           x # None \/ v \notin running,
           vms' = [vms EXCEPT ![v] = x],
           UNCHANGED <<busy, running, op>>,
           held' # Free => /\ held'.vm \in Ids /\ held'.vm \notin busy
                           /\ vms'[held'.vm] # None
                           /\ held'.kind # "seed" => held'.vm \notin running
                           /\ ~At("remove", "save")'
    PROVE  BusyInv'
BY DEF TypeInv, BusyInv, Defined, KeepsBusy

LEMMA BusyStep ==
    ASSUME TypeInv, ReservationInv, BusyInv, IdentityInv, [Next]_vars
    PROVE  BusyInv'
<1> USE DefinitionConstants, NoneIsDistinct
<1>1. ASSUME NEW v \in Ids, Edits(v)
      PROVE  BusyInv'
  <2>0. Editable(v)
    BY <1>1, EditCases
  <2>1. ASSUME NEW x \in Definition, PlainEdit(v, x)
        PROVE  BusyInv'
    <3>1. CASE UNCHANGED vms
      BY <2>1, <3>1, BusyFrame DEF PlainEdit, Edit, SameOps
    <3>2. CASE vms' = [vms EXCEPT ![v] = x]
      BY <2>0, <2>1, <3>2, BusySaved
      DEF PlainEdit, Edit, Editable, RequireIdle
    <3> QED
      BY <2>1, <3>1, <3>2 DEF PlainEdit, Edit, Commit
  <2>2. ASSUME NEW x \in Definition, SeedEdit(v, x)
        PROVE  BusyInv'
    BY <2>0, <2>2 DEF SeedEdit, StageSeed, Acquire, Editable, RequireIdle,
                      BusyInv, Defined, KeepsBusy, At
  <2>3. ASSUME NEW d \in Disks, RemoveDisk(v, d)
        PROVE  BusyInv'
    BY <2>0, <2>3 DEF RemoveDisk, Acquire, Editable, RequireIdle,
                      BusyInv, Defined, KeepsBusy, At
  <2>4. CASE Delete(v)
    BY <2>0, <2>4 DEF Delete, Acquire, Editable, RequireIdle,
                      BusyInv, Defined, KeepsBusy, At
  <2> QED
    BY <1>1, <2>1, <2>2, <2>3, <2>4, EditCases
<1>2. CASE HeldStep
  <2>0. /\ HeldType(held) /\ held # Free /\ held.vm \in Defined \ busy
        /\ held.kind # "seed" => held.vm \notin running
    BY <1>2, HeldStepIsHeld DEF HeldType, Free, HeldFields, BusyInv
  <2>1. UNCHANGED <<busy, running, op>>
    BY <1>2
    DEF HeldStep, DeleteFiles, DeleteSave, RemoveDiskSave, RemoveDiskClean,
        SeedRename, SeedSave, SeedCommit
  <2>2. /\ held' # Free => /\ held'.vm = held.vm /\ held'.kind = held.kind
                           /\ ~At("remove", "save")'
    BY <1>2, <2>0
    DEF HeldStep, DeleteFiles, DeleteSave, RemoveDiskSave, RemoveDiskClean,
        SeedRename, SeedSave, SeedCommit, RollbackSeed, At, HeldType,
        HeldFields
  <2>3. CASE UNCHANGED vms
    BY <2>0, <2>1, <2>2, <2>3 DEF BusyInv, Defined, KeepsBusy
  <2>4. CASE DeleteSave
    BY <2>0, <2>1, <2>4, BusySaved DEF DeleteSave, At
  <2>5. ASSUME NEW x \in Definition, vms' = [vms EXCEPT ![held.vm] = x]
        PROVE  BusyInv'
    BY <2>0, <2>1, <2>2, <2>5, BusySaved DEF TypeInv, Defined
  <2>6. CASE RemoveDiskSave
    <3>1. [vms[held.vm] EXCEPT !.disks = @ \ {held.disk}] \in Definition
      <4>1. vms[held.vm] \in Definition
        BY <2>0 DEF Defined, TypeInv, MaybeDefinition
      <4> QED BY <4>1 DEF Definition
    <3> QED
      BY <2>3, <2>5, <2>6, <3>1 DEF RemoveDiskSave, Commit
  <2>7. CASE SeedSave
    BY <2>0, <2>3, <2>5, <2>7 DEF SeedSave, HeldType, At
  <2> QED
    BY <1>2, <2>3, <2>4, <2>6, <2>7
    DEF HeldStep, DeleteFiles, RemoveDiskClean, SeedRename, SeedCommit
<1>3. ASSUME NEW v \in Ids, Start(v)
      PROVE  BusyInv'
  BY <1>3 DEF Start, Editable, RequireIdle, memory, BusyInv, Defined,
              KeepsBusy
<1>4. ASSUME NEW v \in Ids, Exit(v)
      PROVE  BusyInv'
  BY <1>4 DEF Exit, memory, BusyInv, Defined, KeepsBusy, At
<1>5. ASSUME NEW v \in Ids, NEW d \in Disks, GuestWrites(v, d)
      PROVE  BusyInv'
  BY <1>5, BusyFrame DEF GuestWrites, memory, SameOps
<1>6. CASE Crash
  BY <1>6 DEF Crash, BusyInv, ReservationInv, Defined, KeepsBusy, NoOp,
              TypeInv
<1>7. CASE UNCHANGED vars
  BY <1>7, BusyFrame DEF vars, memory, SameOps
<1> QED
  BY <1>1, <1>2, <1>3, <1>4, <1>5, <1>6, <1>7, BusyUnlocked DEF Next, HeldStep
-----------------------------------------------------------------------------
(***************************************************************************)
(* Names and addresses.                                                    *)
(***************************************************************************)
NotRenaming == ~(held.kind = "seed" /\ held.pc # "commit")

LEMMA IdentityFrame ==
    ASSUME IdentityInv, UNCHANGED <<vms, file, creating>>,
           held' = held \/ NotRenaming'
    PROVE  IdentityInv'
<1>1. Known' = Known
  BY DEF Known, Defined
<1> QED
  BY <1>1 DEF IdentityInv, Identities, NotRenaming

(***************************************************************************)
(* A machine that is saved under a fresh name and address.                 *)
(***************************************************************************)
LEMMA IdentitySaved ==
    ASSUME TypeInv, ReservationInv, IdentityInv, NEW v \in Defined,
           NEW x \in Definition, Fresh(v, x),
           vms' = [vms EXCEPT ![v] = x], file' = vms', UNCHANGED creating,
           NotRenaming'
    PROVE  IdentityInv'
<1>1. v \in Ids /\ x # None
  BY NoneIsDistinct DEF Defined
<1>2. Known' = [Known EXCEPT ![v] = x]
  BY <1>1 DEF Known, Defined, TypeInv
<1>a. \A w \in Ids : Known'[w] = IF w = v THEN x ELSE Known[w]
  BY <1>1, <1>2 DEF Known
<1>3. Identities(Known')
  BY <1>1, <1>a DEF IdentityInv, Identities, Fresh
<1>4. \A w \in Ids : vms'[w] # None => vms'[w] = Known'[w]
  BY <1>1, <1>2 DEF Known, Defined, TypeInv
<1>5. Identities(file')
  BY <1>3, <1>4 DEF Identities
<1> QED
  BY <1>3, <1>5 DEF IdentityInv, NotRenaming

LEMMA OwnIdentity ==
    ASSUME TypeInv, IdentityInv, NEW v \in Defined, NEW x,
           x.name = vms[v].name, x.mac = vms[v].mac
    PROVE  Fresh(v, x)
BY DEF IdentityInv, Identities, Known, Fresh, Defined

LEMMA IdentityUnlocked ==
    ASSUME TypeInv, ReservationInv, BusyInv, IdentityInv,
           NEW t \in Threads, Unlocked(t)
    PROVE  IdentityInv'
<1> USE DefinitionConstants, NoneIsDistinct
<1>1. ASSUME NEW v \in Ids, NEW x \in Definition, v \notin used, held = Free,
             ~NameInUse(x.name, {}), ~MacInUse(x.mac),
             creating' = [creating EXCEPT ![v] = x],
             UNCHANGED <<vms, file, held>>
      PROVE  IdentityInv'
  <2>1. /\ Known[v] = None /\ vms[v] = None
        /\ Known' = [Known EXCEPT ![v] = x]
    <3>1. vms[v] = None /\ creating[v] = None
      BY <1>1 DEF ReservationInv
    <3>2. DOMAIN creating = Ids /\ Defined' = Defined
      BY <1>1 DEF TypeInv, Defined
    <3> QED
      BY <1>1, <3>1, <3>2 DEF Known, Defined
  <2>2. \A w \in Ids : Known[w] # None =>
          /\ Known[w].name # x.name
          /\ x.mac # None => Known[w].mac # x.mac
    BY <1>1 DEF NameInUse, MacInUse, Known, Defined, Reserved
  <2>a. \A w \in Ids : Known'[w] = IF w = v THEN x ELSE Known[w]
    BY <2>1 DEF Known
  <2>3. Identities(Known')
    BY <2>a, <2>2 DEF Identities, IdentityInv
  <2> QED
    BY <1>1, <2>3 DEF IdentityInv, Free, Identities
<1>2. ASSUME NEW v \in Ids, NEW x \in Definition, Create(t, v, x)
      PROVE  IdentityInv'
  BY <1>1, <1>2 DEF Create
<1>3. ASSUME NEW s \in Ids, NEW v \in Ids, NEW n \in Names,
             NEW m \in Macs \cup {None}, NEW disks \in SUBSET (Disks \ used),
             s \in Defined, NEW from \in [disks -> vms[s].disks],
             Clone(t, s, v, n, m, from)
      PROVE  IdentityInv'
  <2> DEFINE x == [vms[s] EXCEPT !.name = n, !.mac = m, !.disks = disks]
  <2>1. vms[s] \in Definition
    BY <1>3 DEF Defined, TypeInv, MaybeDefinition
  <2>2. disks \in SUBSET Disks
    OBVIOUS
  <2>3. x \in Definition /\ x.name = n /\ x.mac = m
    BY <2>1, <2>2 DEF Definition
  <2>4. creating' = [creating EXCEPT ![v] = x]
    BY <1>3 DEF Clone
  <2> HIDE DEF x
  <2> QED
    BY <1>1, <1>3, <2>3, <2>4 DEF Clone, Editable
<1>4. ASSUME NEW v \in Ids, NEW d \in Disks, AddDisk(t, v, d)
      PROVE  IdentityInv'
  BY <1>4, IdentityFrame DEF AddDisk
<1>5. ASSUME NEW d \in Disks, Produce(t, d)
      PROVE  IdentityInv'
  BY <1>5, IdentityFrame DEF Produce
<1>6. CASE ProduceState(t)
  BY <1>6, IdentityFrame DEF ProduceState
<1>7. CASE FinishNew(t)
  <2> DEFINE v == op[t].vm
  <2>1. /\ v \in Ids /\ vms[v] = None /\ creating[v] # None
        /\ held' = held /\ held = Free
    BY <1>7 DEF FinishNew, Released, TypeInv, OpType, NoOp, IsNew,
                ReservationInv
  <2>2. creating' = [creating EXCEPT ![v] = None]
    BY <1>7 DEF FinishNew, Released
  <2>3. CASE vms' = [vms EXCEPT ![v] = creating[v]] /\ file' = vms'
    <3>1. Known' = Known
      BY <2>1, <2>2, <2>3 DEF Known, Defined, TypeInv
    <3>2. \A w \in Ids : vms'[w] # None => vms'[w] = Known[w]
      BY <2>1, <2>3 DEF Known, Defined, TypeInv
    <3>3. Identities(file')
      BY <2>3, <3>2 DEF IdentityInv, Identities
    <3> QED
      BY <2>1, <3>1, <3>3 DEF IdentityInv, Free
  <2>4. CASE UNCHANGED <<vms, file>>
    <3>1. \A w \in Ids : Known'[w] = None \/ Known'[w] = Known[w]
      BY <2>1, <2>2, <2>4 DEF Known, Defined, TypeInv
    <3> QED
      BY <2>1, <2>4, <3>1 DEF IdentityInv, Identities, Free
  <2> QED
    BY <1>7, <2>3, <2>4 DEF FinishNew
<1>8. CASE FinishAddDisk(t)
  <2> DEFINE v == op[t].vm
  <2>1. /\ v \in Ids /\ v \in Defined /\ creating[v] = None
        /\ held' = held /\ held = Free /\ OpType(op[t])
    BY <1>8 DEF FinishAddDisk, Released, TypeInv, OpType, NoOp, BusyInv,
                KeepsBusy, ReservationInv, Defined
  <2>2. creating' = creating
    BY <1>8, <2>1 DEF FinishAddDisk, Released, TypeInv
  <2>3. CASE UNCHANGED <<vms, file>>
    BY <2>1, <2>2, <2>3, IdentityFrame
  <2>4. CASE vms' = [vms EXCEPT ![v].disks = @ \cup DOMAIN op[t].from]
             /\ file' = vms'
    <3> DEFINE x == [vms[v] EXCEPT !.disks = @ \cup DOMAIN op[t].from]
    <3>1. vms[v] \in Definition
      BY <2>1 DEF Defined, TypeInv, MaybeDefinition
    <3>2. x \in Definition /\ x.name = vms[v].name /\ x.mac = vms[v].mac
      BY <2>1, <3>1 DEF OpType, Definition
    <3>3. vms' = [vms EXCEPT ![v] = x]
      BY <2>4
    <3> HIDE DEF x
    <3> QED
      BY <2>1, <2>2, <2>4, <3>2, <3>3, OwnIdentity, IdentitySaved
      DEF NotRenaming, Free
  <2> QED
    BY <1>8, <2>3, <2>4 DEF FinishAddDisk
<1> QED
  BY <1>2, <1>3, <1>4, <1>5, <1>6, <1>7, <1>8 DEF Unlocked

LEMMA IdentityStep ==
    ASSUME TypeInv, ReservationInv, BusyInv, IdentityInv, [Next]_vars
    PROVE  IdentityInv'
<1> USE DefinitionConstants, NoneIsDistinct
<1>1. ASSUME NEW v \in Ids, Edits(v)
      PROVE  IdentityInv'
  <2>0. Editable(v) /\ v \in Defined
    BY <1>1, EditCases DEF Editable
  <2>1. ASSUME NEW x \in Definition, PlainEdit(v, x)
        PROVE  IdentityInv'
    <3>1. CASE UNCHANGED <<vms, file>>
      BY <2>1, <3>1, IdentityFrame DEF PlainEdit, Edit
    <3>2. CASE vms' = [vms EXCEPT ![v] = x] /\ file' = vms'
      BY <2>0, <2>1, <3>2, IdentitySaved
      DEF PlainEdit, Edit, Editable, NotRenaming, Free
    <3> QED
      BY <2>1, <3>1, <3>2 DEF PlainEdit, Edit, Commit
  <2>2. ASSUME NEW x \in Definition, SeedEdit(v, x)
        PROVE  IdentityInv'
    <3>1. UNCHANGED <<vms, file, creating>> /\ Known' = Known
      BY <2>2 DEF SeedEdit, StageSeed, Known, Defined
    <3>2. held' = held \/ (held'.vm = v /\ held'.next = x)
      BY <2>2 DEF SeedEdit, StageSeed, Acquire
    <3> QED
      BY <2>2, <3>1, <3>2 DEF SeedEdit, Fresh, IdentityInv, Identities
  <2>3. CASE Delete(v) \/ \E d \in Disks : RemoveDisk(v, d)
    <3>1. held'.kind # "seed"
      BY <2>3 DEF Delete, RemoveDisk, Acquire
    <3> QED
      BY <2>3, <3>1, IdentityFrame DEF Delete, RemoveDisk, NotRenaming
  <2> QED
    BY <1>1, <2>1, <2>2, <2>3, EditCases
<1>2. CASE HeldStep
  <2>0. HeldType(held) /\ held # Free /\ held.vm \in Defined
    BY <1>2, HeldStepIsHeld DEF HeldType, Free, HeldFields, BusyInv
  <2>1. UNCHANGED creating
    BY <1>2
    DEF HeldStep, DeleteFiles, DeleteSave, RemoveDiskSave, RemoveDiskClean,
        SeedRename, SeedSave, SeedCommit
  <2>2. CASE DeleteFiles \/ RemoveDiskClean \/ SeedCommit
    <3>1. NotRenaming'
      BY <2>0, <2>2 DEF DeleteFiles, RemoveDiskClean, SeedCommit, At,
                        NotRenaming, HeldType, HeldFields, Free
    <3> QED
      BY <2>2, <3>1, IdentityFrame DEF DeleteFiles, RemoveDiskClean, SeedCommit
  <2>3. CASE SeedRename
    <3>1. UNCHANGED <<vms, file, creating>> /\ Known' = Known
      BY <2>3 DEF SeedRename, Known, Defined
    <3>2. held' = Free \/ (/\ held'.vm = held.vm /\ held'.next = held.next
                           /\ held.kind = "seed" /\ held.pc = "rename")
      BY <2>0, <2>3 DEF SeedRename, RollbackSeed, At, HeldType, HeldFields
    <3> QED
      BY <3>1, <3>2 DEF IdentityInv, Identities, Free
  <2>4. CASE DeleteSave
    <3>1. \A w \in Ids : Known'[w] = None \/ Known'[w] = Known[w]
      BY <2>0, <2>1, <2>4 DEF DeleteSave, Known, Defined, TypeInv,
                              ReservationInv
    <3>2. \A w \in Ids : vms'[w] # None => vms'[w] = Known[w]
      BY <2>0, <2>4 DEF DeleteSave, Known, Defined, TypeInv
    <3>3. Identities(file')
      <4>1. CASE file' = vms'
        BY <3>2, <4>1 DEF IdentityInv, Identities
      <4>2. CASE file' = file
        BY <4>2 DEF IdentityInv
      <4> QED BY <2>4, <4>1, <4>2 DEF DeleteSave
    <3> QED
      BY <2>4, <3>1, <3>3 DEF DeleteSave, IdentityInv, Identities, Free
  <2>5. CASE RemoveDiskSave
    <3> DEFINE x == [vms[held.vm] EXCEPT !.disks = @ \ {held.disk}]
    <3>1. NotRenaming'
      BY <2>0, <2>5 DEF RemoveDiskSave, At, NotRenaming, HeldType,
                        HeldFields, Free
    <3>2. CASE UNCHANGED <<vms, file>>
      BY <2>1, <3>1, <3>2, IdentityFrame
    <3>3. CASE vms' = [vms EXCEPT ![held.vm] = x] /\ file' = vms'
      <4>1. vms[held.vm] \in Definition
        BY <2>0 DEF Defined, TypeInv, MaybeDefinition
      <4>2. /\ x \in Definition
            /\ x.name = vms[held.vm].name /\ x.mac = vms[held.vm].mac
        BY <4>1 DEF Definition
      <4> HIDE DEF x
      <4> QED
        BY <2>0, <2>1, <3>1, <3>3, <4>2, OwnIdentity, IdentitySaved
    <3> QED
      BY <2>5, <3>2, <3>3 DEF RemoveDiskSave, Commit
  <2>6. CASE SeedSave
    <3>1. NotRenaming'
      BY <2>0, <2>6 DEF SeedSave, RollbackSeed, At, NotRenaming, HeldType,
                        HeldFields, Free
    <3>2. CASE UNCHANGED <<vms, file>>
      BY <2>1, <3>1, <3>2, IdentityFrame
    <3>3. held.next \in Definition
      BY <2>0, <2>6 DEF SeedSave, At, HeldType
    <3>4. Fresh(held.vm, held.next)
      BY <2>0, <2>6 DEF SeedSave, At, IdentityInv, Identities, Fresh, Known,
                        Defined
    <3> QED
      BY <2>0, <2>1, <2>6, <3>1, <3>2, <3>3, <3>4, IdentitySaved DEF SeedSave
  <2> QED
    BY <1>2, <2>2, <2>3, <2>4, <2>5, <2>6 DEF HeldStep
<1>3. ASSUME NEW v \in Ids,
             Start(v) \/ Exit(v) \/ \E d \in Disks : GuestWrites(v, d)
      PROVE  IdentityInv'
  BY <1>3, IdentityFrame DEF Start, Exit, GuestWrites, memory
<1>4. CASE Crash
  <2>1. Known' = file
    BY <1>4 DEF Crash, Known, Defined, TypeInv
  <2> QED
    BY <1>4, <2>1 DEF Crash, IdentityInv, Identities, Free
<1>5. CASE UNCHANGED vars
  BY <1>5, IdentityFrame DEF vars, memory
<1> QED
  BY <1>1, <1>2, <1>3, <1>4, <1>5, IdentityUnlocked DEF Next, HeldStep
-----------------------------------------------------------------------------
(***************************************************************************)
(* Who owns a disk.                                                        *)
(***************************************************************************)
LEMMA OwnershipSaved ==
    ASSUME OwnershipInv, SameOps, UNCHANGED <<creating, used>>,
           \A w \in Ids : DisksOf(vms', w) \subseteq DisksOf(vms, w),
           file' = vms' \/ file' = file
    PROVE  OwnershipInv'
<1>1. \A w \in Ids : \/ DisksOf(file', w) \subseteq DisksOf(vms, w)
                     \/ DisksOf(file', w) = DisksOf(file, w)
  BY DEF DisksOf
<1>2. \A v, w \in Ids : v # w => DisksOf(file', v) \cap DisksOf(file', w) = {}
  <2>1. CASE file' = file
    BY <2>1 DEF OwnershipInv
  <2>2. CASE file' = vms'
    BY <2>2 DEF OwnershipInv
  <2> QED BY <2>1, <2>2
<1> QED
  BY <1>1, <1>2 DEF OwnershipInv, SameOps, IsNew

(***************************************************************************)
(* New disks are nobody's.                                                 *)
(***************************************************************************)
LEMMA OwnershipBegins ==
    ASSUME TypeInv, OwnershipInv, NEW t \in Threads, NEW kind, NEW v \in Ids,
           NEW source, NEW from, Begin(t, kind, v, source, from),
           used' = used \cup {v} \cup DOMAIN from \/ used' = used \cup DOMAIN from,
           UNCHANGED <<vms, file>>,
           kind \in {"create", "clone"} => creating'[v].disks = DOMAIN from,
           \A u \in Threads : u # t /\ IsNew(u) =>
               creating'[op[u].vm] = creating[op[u].vm]
    PROVE  OwnershipInv'
<1>1. /\ op[t] = NoOp /\ DOMAIN op'[t] = OpFields
      /\ op'[t].from = from /\ op'[t].kind = kind /\ op'[t].vm = v
      /\ \A u \in Threads \ {t} : op'[u] = op[u]
      /\ DOMAIN from \cap used = {}
  BY DEF Begin, TypeInv, OpFields
<1>2. \A w \in Ids : /\ DisksOf(vms', w) = DisksOf(vms, w)
                     /\ DisksOf(file', w) = DisksOf(file, w)
  BY DEF DisksOf
<1> QED
  BY <1>1, <1>2 DEF OwnershipInv, IsNew

LEMMA OwnershipUnlocked ==
    ASSUME TypeInv, ReservationInv, BusyInv, OwnershipInv,
           NEW t \in Threads, Unlocked(t)
    PROVE  OwnershipInv'
<1> USE DefinitionConstants, NoneIsDistinct
<1>1. ASSUME NEW v \in Ids, v \notin used
      PROVE  \A u \in Threads : IsNew(u) => op[u].vm # v /\ op[u].vm \in Ids
  BY <1>1 DEF ReservationInv, TypeInv, OpType, IsNew, NoOp
<1>2. ASSUME NEW v \in Ids, NEW x \in Definition, Create(t, v, x)
      PROVE  OwnershipInv'
  <2> DEFINE from == [d \in x.disks |-> None]
  <2>1. DOMAIN from = x.disks /\ creating'[v] = x
    BY <1>2 DEF Create, TypeInv
  <2>2. \A u \in Threads : IsNew(u) => creating'[op[u].vm] = creating[op[u].vm]
    BY <1>1, <1>2 DEF Create, TypeInv
  <2>3. Begin(t, "create", v, v, from) /\ used' = used \cup {v} \cup DOMAIN from
        /\ UNCHANGED <<vms, file>>
    BY <1>2, <2>1 DEF Create
  <2> HIDE DEF from
  <2> QED
    BY <2>1, <2>2, <2>3, OwnershipBegins
<1>3. ASSUME NEW s \in Ids, NEW v \in Ids, NEW n \in Names,
             NEW m \in Macs \cup {None}, NEW disks \in SUBSET (Disks \ used),
             s \in Defined, NEW from \in [disks -> vms[s].disks],
             Clone(t, s, v, n, m, from)
      PROVE  OwnershipInv'
  <2>1. vms[s] \in Definition /\ DOMAIN from = disks
    BY <1>3 DEF Defined, TypeInv, MaybeDefinition
  <2>2. /\ v \notin used
        /\ creating'[v] = [vms[s] EXCEPT !.name = n, !.mac = m, !.disks = disks]
    BY <1>3 DEF Clone, TypeInv
  <2>3. creating'[v].disks = DOMAIN from
    BY <2>1, <2>2 DEF Definition
  <2>4. \A u \in Threads : IsNew(u) => creating'[op[u].vm] = creating[op[u].vm]
    BY <1>1, <1>3, <2>2 DEF Clone, TypeInv
  <2>5. Begin(t, "clone", v, s, from) /\ used' = used \cup {v} \cup DOMAIN from
        /\ UNCHANGED <<vms, file>>
    BY <1>3 DEF Clone
  <2> QED
    BY <2>3, <2>4, <2>5, OwnershipBegins
<1>4. ASSUME NEW v \in Ids, NEW d \in Disks, AddDisk(t, v, d)
      PROVE  OwnershipInv'
  <2> DEFINE from == [e \in {d} |-> None]
  <2>1. /\ Begin(t, "add", v, v, from) /\ used' = used \cup DOMAIN from
        /\ UNCHANGED <<vms, file, creating>>
    BY <1>4 DEF AddDisk
  <2> HIDE DEF from
  <2> QED
    BY <2>1, OwnershipBegins
<1>5. ASSUME NEW d \in Disks, Produce(t, d)
      PROVE  OwnershipInv'
  <2>1. SameOps
    BY <1>5 DEF Produce, SameOps, TypeInv, OpType, OpFields, NoOp
  <2> QED
    BY <1>5, <2>1, OwnershipSaved DEF Produce, ghosts
<1>6. CASE ProduceState(t)
  <2>1. SameOps
    BY <1>6 DEF ProduceState, SameOps, TypeInv, OpType, OpFields, NoOp
  <2> QED
    BY <1>6, <2>1, OwnershipSaved DEF ProduceState, ghosts
<1>7. ASSUME NEW v \in Ids, op'[t] = NoOp,
             \A u \in Threads \ {t} : op'[u] = op[u],
             UNCHANGED used, op[t] # NoOp,
             \A u \in Threads \ {t} : IsNew(u) =>
                 creating'[op[u].vm] = creating[op[u].vm],
             \A w \in Ids \ {v} : vms'[w] = vms[w],
             DisksOf(vms', v) \subseteq DisksOf(vms, v) \cup DOMAIN op[t].from,
             file' = vms' \/ file' = file
      PROVE  OwnershipInv'
  <2>1. \A w \in Ids \ {v} : DisksOf(vms', w) = DisksOf(vms, w)
    BY <1>7 DEF DisksOf
  <2>2. \A w, z \in Ids : w # z => DisksOf(vms', w) \cap DisksOf(vms', z) = {}
    BY <1>7, <2>1 DEF OwnershipInv
  <2>3. \A w, z \in Ids : w # z => DisksOf(file', w) \cap DisksOf(file', z) = {}
    BY <1>7, <2>2 DEF OwnershipInv
  <2>4. \A w \in Ids :
           DisksOf(vms', w) \subseteq DisksOf(vms, w) \cup DOMAIN op[t].from
    BY <1>7, <2>1
  <2>5. \A w \in Ids : DisksOf(vms', w) \cup DisksOf(file', w)
           \subseteq DisksOf(vms, w) \cup DisksOf(file, w) \cup DOMAIN op[t].from
    BY <1>7, <2>4
  <2>6. \A w \in Ids : DisksOf(vms', w) \cup DisksOf(file', w) \subseteq used'
    BY <1>7, <2>5 DEF OwnershipInv
  <2>7. ASSUME NEW u \in Threads, op'[u] # NoOp
        PROVE  /\ u # t /\ op'[u] = op[u]
               /\ \A w \in Ids : DOMAIN op[u].from \cap
                     (DisksOf(vms', w) \cup DisksOf(file', w)) = {}
    BY <1>7, <2>5, <2>7 DEF OwnershipInv
  <2> QED
    BY <1>7, <2>2, <2>3, <2>6, <2>7 DEF OwnershipInv, IsNew
<1>8. CASE FinishNew(t)
  <2> DEFINE v == op[t].vm
  <2>1. v \in Ids /\ IsNew(t) /\ op[t] # NoOp /\ creating[v] # None
    BY <1>8 DEF FinishNew, TypeInv, OpType, NoOp, IsNew, ReservationInv
  <2>2. creating[v].disks = DOMAIN op[t].from
    BY <2>1 DEF OwnershipInv
  <2>3. /\ op'[t] = NoOp /\ \A u \in Threads \ {t} : op'[u] = op[u]
        /\ UNCHANGED used /\ creating' = [creating EXCEPT ![v] = None]
    BY <1>8 DEF FinishNew, Released, TypeInv, ghosts
  <2>4. \A u \in Threads \ {t} : IsNew(u) =>
            creating'[op[u].vm] = creating[op[u].vm]
    <3>1. \A u \in Threads \ {t} : IsNew(u) => op[u].vm # v /\ op[u].vm \in Ids
      BY <2>1 DEF ReservationInv, TypeInv, OpType, IsNew, NoOp
    <3> QED
      BY <2>3, <3>1 DEF TypeInv
  <2>5. /\ \A w \in Ids \ {v} : vms'[w] = vms[w]
        /\ DisksOf(vms', v) \subseteq DisksOf(vms, v) \cup DOMAIN op[t].from
        /\ file' = vms' \/ file' = file
    BY <1>8, <2>1, <2>2 DEF FinishNew, TypeInv, DisksOf
  <2> QED
    BY <1>7, <2>1, <2>3, <2>4, <2>5
<1>9. CASE FinishAddDisk(t)
  <2> DEFINE v == op[t].vm
  <2>1. v \in Ids /\ v \in Defined /\ op[t] # NoOp /\ creating[v] = None
    BY <1>9 DEF FinishAddDisk, TypeInv, OpType, NoOp, BusyInv, KeepsBusy,
                ReservationInv, Defined
  <2>2. /\ op'[t] = NoOp /\ \A u \in Threads \ {t} : op'[u] = op[u]
        /\ UNCHANGED <<used, creating>>
    BY <1>9, <2>1 DEF FinishAddDisk, Released, TypeInv, ghosts
  <2>3. vms[v] \in Definition /\ vms[v] # None
    BY <2>1 DEF Defined, TypeInv, MaybeDefinition
  <2>4. /\ \A w \in Ids \ {v} : vms'[w] = vms[w]
        /\ DisksOf(vms', v) \subseteq DisksOf(vms, v) \cup DOMAIN op[t].from
        /\ file' = vms' \/ file' = file
    BY <1>9, <2>1, <2>3 DEF FinishAddDisk, TypeInv, DisksOf, Definition
  <2> QED
    BY <1>7, <2>1, <2>2, <2>4
<1> QED
  BY <1>2, <1>3, <1>4, <1>5, <1>6, <1>8, <1>9 DEF Unlocked

LEMMA OwnershipStep ==
    ASSUME TypeInv, ReservationInv, BusyInv, IdentityInv, OwnershipInv,
           [Next]_vars
    PROVE  OwnershipInv'
<1> USE DefinitionConstants, NoneIsDistinct
<1>0. UNCHANGED op => SameOps
  BY DEF SameOps
<1>1. ASSUME NEW v \in Ids, Edits(v)
      PROVE  OwnershipInv'
  <2>0. vms[v] # None
    BY <1>1, EditCases DEF Editable, Defined
  <2>1. UNCHANGED <<op, creating, used>>
    BY <1>1, EditCases DEF PlainEdit, Edit, SeedEdit, StageSeed, RemoveDisk,
                           Delete, ghosts
  <2>2. \/ UNCHANGED <<vms, file>>
        \/ \E x \in Definition : /\ vms' = [vms EXCEPT ![v] = x] /\ file' = vms'
                                 /\ x.disks = vms[v].disks
    BY <1>1, EditCases DEF PlainEdit, Edit, Commit, SeedEdit, StageSeed,
                           RemoveDisk, Delete
  <2>3. \A w \in Ids : DisksOf(vms', w) \subseteq DisksOf(vms, w)
    BY <2>0, <2>2 DEF DisksOf, TypeInv
  <2> QED
    BY <1>0, <2>1, <2>2, <2>3, OwnershipSaved
<1>2. CASE HeldStep
  <2>0. HeldType(held) /\ held # Free /\ vms[held.vm] # None
    BY <1>2, HeldStepIsHeld DEF HeldType, Free, HeldFields, BusyInv, Defined
  <2>1. UNCHANGED <<op, creating, used>>
    BY <1>2
    DEF HeldStep, DeleteFiles, DeleteSave, RemoveDiskSave, RemoveDiskClean,
        SeedRename, SeedSave, SeedCommit, ghosts
  <2>2. vms[held.vm] \in Definition
    BY <2>0 DEF TypeInv, HeldType, MaybeDefinition
  <2>3. \A w \in Ids : DisksOf(vms', w) \subseteq DisksOf(vms, w)
    <3>1. CASE UNCHANGED vms
      BY <3>1
    <3>2. CASE DeleteSave
      BY <2>0, <3>2 DEF DeleteSave, DisksOf, TypeInv
    <3>3. CASE RemoveDiskSave
      BY <2>0, <2>2, <3>3 DEF RemoveDiskSave, Commit, DisksOf, TypeInv,
                              HeldType, Definition
    <3>4. CASE SeedSave
      BY <2>0, <3>4 DEF SeedSave, At, IdentityInv, DisksOf, TypeInv, HeldType
    <3> QED
      BY <1>2, <3>1, <3>2, <3>3, <3>4
      DEF HeldStep, DeleteFiles, RemoveDiskClean, SeedRename, SeedCommit
  <2>4. file' = vms' \/ file' = file
    BY <1>2
    DEF HeldStep, DeleteFiles, DeleteSave, RemoveDiskSave, RemoveDiskClean,
        SeedRename, SeedSave, SeedCommit, Commit
  <2> QED
    BY <1>0, <2>1, <2>3, <2>4, OwnershipSaved
<1>3. ASSUME NEW v \in Ids,
             Start(v) \/ Exit(v) \/ \E d \in Disks : GuestWrites(v, d)
      PROVE  OwnershipInv'
  BY <1>0, <1>3, OwnershipSaved DEF Start, Exit, GuestWrites, memory, ghosts
<1>4. CASE Crash
  BY <1>4 DEF Crash, OwnershipInv, DisksOf, NoOp
<1>5. CASE UNCHANGED vars
  BY <1>0, <1>5, OwnershipSaved DEF vars, memory, ghosts
<1> QED
  BY <1>1, <1>2, <1>3, <1>4, <1>5, OwnershipUnlocked DEF Next, HeldStep
-----------------------------------------------------------------------------
(***************************************************************************)
(* What disk files contain.                                                *)
(***************************************************************************)
LEMMA DiskValues ==
    /\ Partial \in Content /\ Written \subseteq Content /\ 0 \in Written
    /\ None \notin Content /\ None # Partial /\ None \notin Written
    /\ Partial \notin Written
    /\ \A c \in Content : c # Partial => c \in Written
BY DefinitionConstants, NoneIsDistinct DEF Partial, Content, Written

(***************************************************************************)
(* What a definition or a request owns is of the right type.               *)
(***************************************************************************)
LEMMA OwnedDisks ==
    ASSUME TypeInv, OwnershipInv
    PROVE  /\ \A v \in Ids : DisksOf(vms, v) \cup DisksOf(file, v) \subseteq Disks
           /\ \A t \in Threads : op[t] # NoOp => DOMAIN op[t].from \subseteq Disks
           /\ \A d \in Disks : Owned(d) <=>
                 \/ \E v \in Ids : d \in DisksOf(vms, v)
                 \/ \E t \in Threads : op[t] # NoOp /\ d \in DOMAIN op[t].from
BY NoneIsDistinct
DEF TypeInv, DisksOf, MaybeDefinition, Definition, OpType, Owned, Defined

(***************************************************************************)
(* Steps that touch no disk file and take no disk from anybody.            *)
(***************************************************************************)
LEMMA ContentFrame ==
    ASSUME TypeInv, TypeInv', ReservationInv, OwnershipInv, OwnershipInv',
           ContentInv, UNCHANGED <<disk, removing, op, used, crashes>>,
           damaged \subseteq damaged', running' \subseteq running,
           \A v \in Ids : /\ DisksOf(vms', v) = DisksOf(vms, v)
                          /\ DisksOf(file', v) \subseteq DisksOf(file, v)
                                                  \cup DisksOf(vms, v),
           \A v \in Ids \ damaged', d \in Disks : Taken(v, d) => Taken(v, d)',
           held' = held \/ (~At("remove", "save")' /\ ~At("delete", "save")')
    PROVE  ContentInv'
<1>1. UnusedDisks'
  BY DEF ContentInv, UnusedDisks
<1>2. MachineDisks'
  BY OwnedDisks DEF ContentInv, MachineDisks
<1>3. RequestDisks'
  BY DEF ContentInv, RequestDisks, Produced
<1>4. HeldDisks'
  BY DEF ContentInv, HeldDisks, At, TypeInv, HeldType, Free
<1>5. NoOrphans'
  <2>1. \A d \in Disks : Owned(d) => Owned(d)'
    BY OwnedDisks DEF Owned, Defined, DisksOf
  <2> QED
    BY <2>1 DEF ContentInv, NoOrphans
<1> QED
  BY <1>1, <1>2, <1>3, <1>4, <1>5 DEF ContentInv

(***************************************************************************)
(* A request begins with disks that are not there.                         *)
(***************************************************************************)
LEMMA ContentBegins ==
    ASSUME TypeInv, TypeInv', OwnershipInv, OwnershipInv', ContentInv,
           NEW t \in Threads, NEW kind \in {"create", "clone", "add"},
           NEW v \in Ids, NEW source, NEW from, DOMAIN from \subseteq Disks,
           Begin(t, kind, v, source, from), used \subseteq used', held = Free,
           kind = "add" => \A d, e \in DOMAIN from : d = e,
           UNCHANGED <<vms, file, held, running, disk, removing, damaged, crashes>>
    PROVE  ContentInv'
<1>1. /\ op[t] = NoOp /\ op'[t] # NoOp
      /\ op'[t].from = from /\ op'[t].todo = DOMAIN from /\ op'[t].pc = "disks"
      /\ op'[t].kind = kind
      /\ \A u \in Threads \ {t} : op'[u] = op[u]
      /\ \A d \in DOMAIN from : disk[d] = None
  BY DEF Begin, TypeInv, NoOp, ContentInv, UnusedDisks
<1>2. UnusedDisks'
  BY DEF ContentInv, UnusedDisks
<1>3. MachineDisks'
  BY DEF ContentInv, MachineDisks, DisksOf, Taken, Free
<1>4. RequestDisks'
  BY <1>1 DEF ContentInv, RequestDisks, Produced
<1>5. HeldDisks'
  BY DEF ContentInv, HeldDisks, At, Free
<1>6. NoOrphans'
  <2>1. \A d \in Disks : Owned(d) => Owned(d)'
    BY <1>1 DEF Owned, Defined
  <2> QED
    BY <2>1 DEF ContentInv, NoOrphans
<1> QED
  BY <1>2, <1>3, <1>4, <1>5, <1>6 DEF ContentInv

LEMMA ContentProduce ==
    ASSUME TypeInv, TypeInv', BusyInv, OwnershipInv, OwnershipInv', ContentInv,
           NEW t \in Threads, NEW d \in Disks, Produce(t, d)
    PROVE  ContentInv'
<1> USE DiskValues
<1>0. OpType(op[t]) /\ op[t] # NoOp /\ d \in op[t].todo /\ op[t].pc = "disks"
      /\ d \in DOMAIN op[t].from
  BY DEF Produce, TypeInv, NoOp, OpType
<1>1. /\ d \in used /\ disk[d] = None
      /\ \A v \in Ids : d \notin DisksOf(vms, v) \cup DisksOf(file, v)
      /\ \A u \in Threads : u # t /\ op[u] # NoOp => d \notin DOMAIN op[u].from
  BY <1>0 DEF OwnershipInv, ContentInv, RequestDisks
<1>2. /\ \A e \in Disks \ {d} : disk'[e] = disk[e]
      /\ UNCHANGED <<vms, file, held, running, removing, used, damaged, crashes>>
  BY DEF Produce, TypeInv, ghosts
<1>3. /\ op'[t] # NoOp /\ op'[t].from = op[t].from /\ op'[t].kind = op[t].kind
      /\ \A u \in Threads \ {t} : op'[u] = op[u]
      /\ \/ op'[t].todo = op[t].todo \ {d} /\ op'[t].pc = "disks"
            /\ disk'[d] \in Written
         \/ op'[t].todo = op[t].todo /\ op'[t].pc = "failed"
            /\ disk'[d] \in {None, Partial}
  <2>1. op[t].from[d] # None /\ disk[op[t].from[d]] # None =>
            disk[op[t].from[d]] \in Written
    <3>1. CASE op[t].kind = "clone"
      <4>1. /\ op[t].source \in Ids
            /\ op[t].from[d] \in DisksOf(vms, op[t].source)
        BY <1>0, <3>1 DEF BusyInv, KeepsBusy, DisksOf, Defined
      <4> QED
        BY <4>1, OwnedDisks DEF ContentInv, MachineDisks, TypeInv
    <3>2. CASE op[t].kind # "clone"
      BY <1>0, <3>2 DEF BusyInv
    <3> QED BY <3>1, <3>2
  <2>2. op'[t] # NoOp /\ op'[t].from = op[t].from /\ op'[t].kind = op[t].kind
        /\ \A u \in Threads \ {t} : op'[u] = op[u]
    BY <1>0 DEF Produce, TypeInv, OpType, OpFields, NoOp
  <2> QED
    BY <1>0, <1>1, <2>1, <2>2 DEF Produce, TypeInv, OpType, OpFields
<1>4. UnusedDisks'
  BY <1>1, <1>2 DEF ContentInv, UnusedDisks
<1>5. MachineDisks'
  BY <1>1, <1>2, OwnedDisks DEF ContentInv, MachineDisks, DisksOf, Taken, At
<1>6. RequestDisks'
  <2>1. ASSUME NEW u \in Threads, u # t, op[u] # NoOp
        PROVE  \A e \in DOMAIN op[u].from : disk'[e] = disk[e]
    BY <1>1, <1>2, <2>1, OwnedDisks
  <2>2. \A u \in Threads : u # t => op'[u] = op[u]
    BY <1>3
  <2>3. \A u \in Threads : op[u] # NoOp => op[u].todo \subseteq DOMAIN op[u].from
    BY DEF TypeInv, OpType
  <2>4. ASSUME NEW u \in Threads, u # t, op'[u] # NoOp
        PROVE  /\ op'[u].pc = "done" => op'[u].todo = {}
               /\ op'[u].kind = "add" =>
                    /\ \A e, f \in DOMAIN op'[u].from : e = f
                    /\ op'[u].pc = "failed" => op'[u].todo = DOMAIN op'[u].from
               /\ \A e \in Produced(op'[u]) : disk'[e] \in Written
               /\ \A e \in op'[u].todo :
                     disk'[e] = None \/ (op'[u].pc = "failed" /\ disk'[e] = Partial)
    BY <2>1, <2>2, <2>3, <2>4 DEF ContentInv, RequestDisks, Produced
  <2>5. /\ op'[t].pc = "done" => op'[t].todo = {}
        /\ op'[t].kind = "add" =>
             /\ \A e, f \in DOMAIN op'[t].from : e = f
             /\ op'[t].pc = "failed" => op'[t].todo = DOMAIN op'[t].from
    <3>1. op[t].kind = "add" =>
            /\ \A e, f \in DOMAIN op[t].from : e = f
            /\ op[t].todo = DOMAIN op[t].from
      <4>1. op[t].kind = "add" => \A e, f \in DOMAIN op[t].from : e = f
        BY <1>0 DEF ContentInv, RequestDisks
      <4> QED
        BY <1>0, <2>3, <4>1
    <3> QED
      BY <1>3, <3>1
  <2>6. /\ \A e \in Produced(op'[t]) : disk'[e] \in Written
        /\ \A e \in op'[t].todo :
              disk'[e] = None \/ (op'[t].pc = "failed" /\ disk'[e] = Partial)
    BY <1>0, <1>2, <1>3, <2>3, OwnedDisks DEF ContentInv, RequestDisks, Produced
  <2> QED
    BY <2>4, <2>5, <2>6 DEF RequestDisks, Produced
<1>7. HeldDisks'
  <2>1. At("remove", "save") => held.disk \in Disks \ {d}
    BY <1>1, OwnedDisks DEF At, BusyInv, Free, DisksOf, Defined
  <2>2. At("delete", "save") => \A e \in DisksOf(vms, held.vm) : e \in Disks \ {d}
    BY <1>1, OwnedDisks DEF At, BusyInv, Free, Defined
  <2> QED
    BY <1>2, <2>1, <2>2 DEF ContentInv, HeldDisks, At, DisksOf
<1>8. NoOrphans'
  <2>1. \A e \in Disks : Owned(e) => Owned(e)'
    BY <1>0, <1>2, <1>3 DEF Owned, Defined
  <2>2. Owned(d)
    BY <1>0 DEF Owned
  <2> QED
    BY <1>2, <2>1, <2>2 DEF ContentInv, NoOrphans
<1> QED
  BY <1>4, <1>5, <1>6, <1>7, <1>8 DEF ContentInv

LEMMA ContentFinish ==
    ASSUME TypeInv, TypeInv', OwnershipInv, OwnershipInv', BusyInv, ContentInv,
           NEW t \in Threads, op[t] # NoOp, op'[t] = NoOp, held = Free,
           \A u \in Threads \ {t} : op'[u] = op[u],
           UNCHANGED <<held, running, removing, used, damaged, crashes>>,
           \/ /\ UNCHANGED disk /\ op[t].todo = {} /\ file' = vms'
              /\ \E v \in Ids \ running :
                    /\ DisksOf(vms', v) = DisksOf(vms, v) \cup DOMAIN op[t].from
                    /\ \A w \in Ids \ {v} : DisksOf(vms', w) = DisksOf(vms, w)
           \/ /\ UNCHANGED <<vms, file>>
              /\ \A d \in DOMAIN op[t].from : disk'[d] \in {None, Partial}
              /\ \A d \in Disks \ DOMAIN op[t].from : disk'[d] = disk[d]
    PROVE  ContentInv'
<1> USE DiskValues
<1>0. /\ DOMAIN op[t].from \subseteq Disks /\ DOMAIN op[t].from \subseteq used
      /\ \A v \in Ids :
            DOMAIN op[t].from \cap (DisksOf(vms, v) \cup DisksOf(file, v)) = {}
      /\ \A u \in Threads : u # t /\ op[u] # NoOp =>
            DOMAIN op[t].from \cap DOMAIN op[u].from = {}
      /\ \A v \in Ids, d \in Disks : ~Taken(v, d) /\ ~Taken(v, d)'
      /\ ~At("remove", "save")' /\ ~At("delete", "save")'
      /\ \A u \in Threads : op[u] # NoOp => op[u].todo \subseteq DOMAIN op[u].from
  BY OwnedDisks DEF OwnershipInv, Taken, At, Free, TypeInv, OpType
<1>1. UnusedDisks'
  BY <1>0 DEF ContentInv, UnusedDisks
<1>2. RequestDisks'
  <2>1. \A u \in Threads : op'[u] # NoOp =>
          /\ u # t /\ op'[u] = op[u]
          /\ \A d \in DOMAIN op[u].from : disk'[d] = disk[d]
    BY <1>0, OwnedDisks
  <2> QED
    BY <1>0, <2>1 DEF ContentInv, RequestDisks, Produced
<1>3. HeldDisks'
  BY <1>0 DEF HeldDisks
<1>4. CASE /\ UNCHANGED <<vms, file>>
           /\ \A d \in DOMAIN op[t].from : disk'[d] \in {None, Partial}
           /\ \A d \in Disks \ DOMAIN op[t].from : disk'[d] = disk[d]
  <2>1. \A v \in Ids : \A d \in DisksOf(vms, v) \cup DisksOf(file, v) :
            disk'[d] = disk[d]
    BY <1>0, <1>4, OwnedDisks
  <2>2. MachineDisks'
    BY <1>0, <1>4, <2>1, OwnedDisks DEF ContentInv, MachineDisks, DisksOf
  <2>3. \A d \in Disks : disk'[d] \in Written =>
            d \notin DOMAIN op[t].from /\ disk[d] \in Written
    BY <1>4
  <2>4. NoOrphans'
    BY <1>4, <2>3 DEF ContentInv, NoOrphans, Owned, Defined
  <2> QED
    BY <1>1, <1>2, <1>3, <2>2, <2>4 DEF ContentInv
<1>5. ASSUME UNCHANGED disk, op[t].todo = {}, file' = vms',
             NEW v \in Ids \ running,
             DisksOf(vms', v) = DisksOf(vms, v) \cup DOMAIN op[t].from,
             \A w \in Ids \ {v} : DisksOf(vms', w) = DisksOf(vms, w)
      PROVE  ContentInv'
  <2>1. \A d \in DOMAIN op[t].from : disk'[d] \in Written
    BY <1>5 DEF ContentInv, RequestDisks, Produced
  <2>2. MachineDisks'
    <3>1. \A w \in Ids : /\ DisksOf(file', w) = DisksOf(vms', w)
                         /\ \A d \in DisksOf(vms', w) :
                               d \in DisksOf(vms, w)
                                 \/ (w = v /\ d \in DOMAIN op[t].from)
      BY <1>5 DEF DisksOf
    <3>2. \A w \in Ids : \A d \in DisksOf(vms, w) :
            /\ disk[d] # Partial
            /\ w \notin damaged \/ w \in running => disk[d] \in Written
      BY <1>0, OwnedDisks DEF ContentInv, MachineDisks
    <3> QED
      BY <1>5, <2>1, <3>1, <3>2 DEF MachineDisks
  <2>3. \A d \in Disks : Owned(d) => Owned(d)'
    BY <1>5, OwnedDisks DEF Owned, Defined, DisksOf
  <2>4. NoOrphans'
    BY <1>5, <2>3 DEF ContentInv, NoOrphans
  <2> QED
    BY <1>1, <1>2, <1>3, <2>2, <2>4 DEF ContentInv
<1> QED
  BY <1>4, <1>5

LEMMA ContentUnlocked ==
    ASSUME TypeInv, TypeInv', ReservationInv, BusyInv, OwnershipInv,
           OwnershipInv', ContentInv, NEW t \in Threads, Unlocked(t)
    PROVE  ContentInv'
<1> USE DefinitionConstants, DiskValues
<1>1. ASSUME NEW v \in Ids, NEW x \in Definition, Create(t, v, x)
      PROVE  ContentInv'
  <2> DEFINE from == [d \in x.disks |-> None]
  <2>1. /\ DOMAIN from \subseteq Disks /\ Begin(t, "create", v, v, from)
        /\ used \subseteq used' /\ held = Free
        /\ UNCHANGED <<vms, file, held, running, disk, removing, damaged,
                       crashes>>
    BY <1>1 DEF Create, Definition, files, counters
  <2> HIDE DEF from
  <2> QED
    BY <2>1, ContentBegins
<1>2. ASSUME NEW s \in Ids, NEW v \in Ids, NEW n \in Names,
             NEW m \in Macs \cup {None}, NEW disks \in SUBSET (Disks \ used),
             s \in Defined, NEW from \in [disks -> vms[s].disks],
             Clone(t, s, v, n, m, from)
      PROVE  ContentInv'
  <2>1. /\ DOMAIN from \subseteq Disks /\ Begin(t, "clone", v, s, from)
        /\ used \subseteq used' /\ held = Free
        /\ UNCHANGED <<vms, file, held, running, disk, removing, damaged,
                       crashes>>
    BY <1>2 DEF Clone, Editable, files, counters
  <2> QED
    BY <2>1, ContentBegins
<1>3. ASSUME NEW v \in Ids, NEW d \in Disks, AddDisk(t, v, d)
      PROVE  ContentInv'
  <2> DEFINE from == [e \in {d} |-> None]
  <2>1. /\ DOMAIN from \subseteq Disks /\ Begin(t, "add", v, v, from)
        /\ \A e, f \in DOMAIN from : e = f
        /\ used \subseteq used' /\ held = Free
        /\ UNCHANGED <<vms, file, held, running, disk, removing, damaged,
                       crashes>>
    BY <1>3 DEF AddDisk, Editable, files, counters
  <2> HIDE DEF from
  <2> QED
    BY <2>1, ContentBegins
<1>4. ASSUME NEW d \in Disks, Produce(t, d)
      PROVE  ContentInv'
  BY <1>4, ContentProduce
<1>5. CASE ProduceState(t)
  <2>1. OpType(op[t]) /\ op[t] # NoOp /\ op[t].todo = {}
    BY <1>5 DEF ProduceState, TypeInv, NoOp
  <2>2. /\ \A u \in Threads : /\ op'[u] = NoOp <=> op[u] = NoOp
                              /\ op'[u].from = op[u].from
                              /\ op'[u].todo = op[u].todo
                              /\ op'[u].kind = op[u].kind
        /\ \A u \in Threads \ {t} : op'[u] = op[u]
        /\ op[t].kind # "add"
        /\ UNCHANGED <<vms, file, held, running, disk, removing, used,
                       damaged, crashes>>
    BY <1>5, <2>1 DEF ProduceState, TypeInv, OpType, OpFields, NoOp, ghosts
  <2>3. UnusedDisks' /\ MachineDisks' /\ HeldDisks'
    BY <2>2 DEF ContentInv, UnusedDisks, MachineDisks, HeldDisks, Taken, At,
                DisksOf
  <2>4. RequestDisks'
    BY <2>1, <2>2 DEF ContentInv, RequestDisks, Produced
  <2>5. NoOrphans'
    BY <2>2 DEF ContentInv, NoOrphans, Owned, Defined
  <2> QED
    BY <2>3, <2>4, <2>5 DEF ContentInv
<1>6. CASE FinishNew(t)
  <2> DEFINE v == op[t].vm
  <2>1. /\ OpType(op[t]) /\ op[t] # NoOp /\ op'[t] = NoOp /\ held = Free
        /\ \A u \in Threads \ {t} : op'[u] = op[u]
        /\ UNCHANGED <<held, running, removing, used, damaged, crashes>>
        /\ v \in Ids /\ IsNew(t)
    BY <1>6 DEF FinishNew, Released, TypeInv, NoOp, OpType, ghosts, IsNew
  <2>2. vms[v] = None /\ creating[v] # None /\ v \notin running
        /\ creating[v].disks = DOMAIN op[t].from
    BY <2>1 DEF ReservationInv, BusyInv, Defined, OwnershipInv
  <2>3. CASE op[t].pc = "done" /\ UNCHANGED disk
             /\ vms' = [vms EXCEPT ![v] = creating[v]] /\ file' = vms'
    <3>1. /\ DisksOf(vms', v) = DisksOf(vms, v) \cup DOMAIN op[t].from
          /\ \A w \in Ids \ {v} : DisksOf(vms', w) = DisksOf(vms, w)
      BY <2>1, <2>2, <2>3 DEF DisksOf, TypeInv
    <3>2. op[t].todo = {}
      BY <2>1, <2>3 DEF ContentInv, RequestDisks
    <3> QED
      BY <2>1, <2>2, <2>3, <3>1, <3>2, ContentFinish
  <2>4. CASE Discard(Produced(op[t]), v) /\ UNCHANGED <<vms, file>>
    <3>1. /\ \A d \in Produced(op[t]) : disk'[d] = None
          /\ \A d \in Disks \ Produced(op[t]) : disk'[d] = disk[d]
      BY <2>1, <2>4 DEF Discard, Produced, OpType
    <3>2. \A d \in op[t].todo : disk[d] \in {None, Partial}
      BY <2>1 DEF ContentInv, RequestDisks
    <3>3. /\ \A d \in DOMAIN op[t].from : disk'[d] \in {None, Partial}
          /\ \A d \in Disks \ DOMAIN op[t].from : disk'[d] = disk[d]
      BY <2>1, <3>1, <3>2 DEF Produced, OpType
    <3> QED
      BY <2>1, <2>4, <3>3, ContentFinish
  <2> QED
    BY <1>6, <2>3, <2>4 DEF FinishNew
<1>7. CASE FinishAddDisk(t)
  <2> DEFINE v == op[t].vm
  <2>1. /\ OpType(op[t]) /\ op[t] # NoOp /\ op'[t] = NoOp /\ held = Free
        /\ \A u \in Threads \ {t} : op'[u] = op[u]
        /\ UNCHANGED <<held, running, removing, used, damaged, crashes>>
        /\ v \in Ids /\ op[t].kind = "add"
    BY <1>7 DEF FinishAddDisk, Released, TypeInv, NoOp, OpType, ghosts
  <2>2. v \in Defined /\ v \notin running
    BY <2>1 DEF BusyInv, KeepsBusy
  <2>3. CASE op[t].todo = {} /\ UNCHANGED disk /\ file' = vms'
             /\ vms' = [vms EXCEPT ![v].disks = @ \cup DOMAIN op[t].from]
    <3>1. vms[v] \in Definition /\ vms[v] # None
      BY <2>2 DEF Defined, TypeInv, MaybeDefinition
    <3>2. [vms[v] EXCEPT !.disks = @ \cup DOMAIN op[t].from] \in Definition
      BY <2>1, <3>1 DEF OpType, Definition
    <3>3. /\ DisksOf(vms', v) = DisksOf(vms, v) \cup DOMAIN op[t].from
          /\ \A w \in Ids \ {v} : DisksOf(vms', w) = DisksOf(vms, w)
      BY <2>1, <2>3, <3>1, <3>2, NoneIsDistinct DEF DisksOf, TypeInv, Definition
    <3> QED
      BY <2>1, <2>2, <2>3, <3>3, ContentFinish
  <2>4. CASE UNCHANGED <<vms, file>>
             /\ disk' = [d \in Disks |-> IF d \in DOMAIN op[t].from THEN None
                                         ELSE disk[d]]
    BY <2>1, <2>4, ContentFinish, OwnedDisks
  <2>5. CASE UNCHANGED <<vms, file, disk>> /\ op[t].pc = "failed"
    <3>1. \A d \in DOMAIN op[t].from : disk'[d] \in {None, Partial}
      BY <2>1, <2>5 DEF ContentInv, RequestDisks
    <3> QED
      BY <2>1, <2>5, <3>1, ContentFinish
  <2> QED
    BY <1>7, <2>3, <2>4, <2>5 DEF FinishAddDisk
<1> QED
  BY <1>1, <1>2, <1>3, <1>4, <1>5, <1>6, <1>7 DEF Unlocked

(***************************************************************************)
(* A step that changes one disk file, of machine v, which the handler with *)
(* the mutex may be working on.                                            *)
(***************************************************************************)
LEMMA ContentOfOne ==
    ASSUME TypeInv, TypeInv', ReservationInv, OwnershipInv, OwnershipInv',
           ContentInv, UNCHANGED <<op, used, crashes>>,
           NEW v \in Ids, NEW d \in DisksOf(vms, v),
           \A e \in Disks \ {d} : disk'[e] = disk[e],
           \A e \in Disks : removing'[e] # Partial,
           disk'[d] # Partial,
           damaged \subseteq damaged', running' \subseteq running,
           \A w \in Ids \ {v} : DisksOf(vms', w) = DisksOf(vms, w),
           \A e \in Disks \ {d} : e \in DisksOf(vms', v) <=> e \in DisksOf(vms, v),
           d \in DisksOf(vms', v) \/ disk'[d] = None,
           \A w \in Ids : DisksOf(file', w) \subseteq DisksOf(file, w)
                                                   \cup DisksOf(vms, w),
           \A w \in Ids \ {v}, e \in Disks : Taken(w, e) => Taken(w, e)',
           v \notin damaged' => \A e \in DisksOf(vms', v) :
                                   Taken(v, e)' \/ disk'[e] \in Written,
           v \in running' => disk'[d] \in Written,
           HeldDisks'
    PROVE  ContentInv'
<1> USE DiskValues
<1>0. /\ d \in Disks /\ d \in used
      /\ \A w \in Ids \ {v} : d \notin DisksOf(vms, w)
      /\ \A t \in Threads : op[t] # NoOp => d \notin DOMAIN op[t].from
      /\ \A t \in Threads : op[t] # NoOp => op[t].todo \subseteq DOMAIN op[t].from
  BY OwnedDisks DEF OwnershipInv, TypeInv, OpType
<1>1. UnusedDisks'
  BY <1>0 DEF ContentInv, UnusedDisks
<1>2. MachineDisks'
  <2>1. ASSUME NEW w \in Ids
        PROVE  \A e \in DisksOf(vms', w) \cup DisksOf(file', w) : disk'[e] # Partial
    <3>1. \A e \in DisksOf(vms', w) : e \in DisksOf(vms, w) \/ e = d
      BY <1>0, OwnedDisks DEF TypeInv, DisksOf, MaybeDefinition, Definition
    <3>2. \A e \in DisksOf(vms, w) \cup DisksOf(file, w) : e \in Disks /\ disk[e] # Partial
      BY OwnedDisks DEF ContentInv, MachineDisks
    <3> QED
      BY <3>1, <3>2
  <2>2. ASSUME NEW w \in Ids \ {v}
        PROVE  /\ w \notin damaged' => \A e \in DisksOf(vms', w) :
                      Taken(w, e)' \/ disk'[e] \in Written
               /\ w \in running' => \A e \in DisksOf(vms', w) : disk'[e] \in Written
    BY <1>0, OwnedDisks DEF ContentInv, MachineDisks
  <2>3. v \in running' => \A e \in DisksOf(vms', v) : disk'[e] \in Written
    <3>1. \A e \in DisksOf(vms', v) : e \in Disks
      BY DEF TypeInv, DisksOf, MaybeDefinition, Definition
    <3> QED
      BY <3>1, OwnedDisks DEF ContentInv, MachineDisks
  <2> QED
    BY <2>1, <2>2, <2>3 DEF MachineDisks
<1>3. RequestDisks'
  <2>1. \A t \in Threads : op[t] # NoOp =>
            \A e \in DOMAIN op[t].from : disk'[e] = disk[e]
    BY <1>0, OwnedDisks
  <2> QED
    BY <1>0, <2>1 DEF ContentInv, RequestDisks, Produced
<1>4. NoOrphans'
  <2>1. \A e \in Disks \ {d} : Owned(e) => Owned(e)'
    BY OwnedDisks DEF Owned, Defined, DisksOf
  <2>2. d \in DisksOf(vms', v) => Owned(d)'
    BY DEF Owned, Defined, DisksOf
  <2> QED
    BY <1>0, <2>1, <2>2 DEF ContentInv, NoOrphans
<1> QED
  BY <1>1, <1>2, <1>3, <1>4 DEF ContentInv

LEMMA ContentEdits ==
    ASSUME TypeInv, TypeInv', ReservationInv, BusyInv, IdentityInv,
           OwnershipInv, OwnershipInv', ContentInv, NEW v \in Ids, Edits(v)
    PROVE  ContentInv'
<1> USE DefinitionConstants, NoneIsDistinct, DiskValues
<1>0. held = Free /\ v \in Ids /\ vms[v] # None
      /\ \A w \in Ids, d \in Disks : ~Taken(w, d)
  BY EditCases DEF Editable, Defined, Taken
<1>1. ASSUME NEW x \in Definition, PlainEdit(v, x)
      PROVE  ContentInv'
  <2>1. /\ UNCHANGED <<disk, removing, op, used, crashes, damaged, running, held>>
        /\ \/ UNCHANGED <<vms, file>>
           \/ vms' = [vms EXCEPT ![v] = x] /\ file' = vms'
    BY <1>1 DEF PlainEdit, Edit, Commit, files, ghosts
  <2>2. \A w \in Ids : /\ DisksOf(vms', w) = DisksOf(vms, w)
                       /\ DisksOf(file', w) \subseteq DisksOf(file, w)
                                                \cup DisksOf(vms, w)
    BY <1>0, <1>1, <2>1 DEF DisksOf, TypeInv, PlainEdit
  <2> QED
    BY <1>0, <2>1, <2>2, ContentFrame
<1>2. ASSUME NEW x \in Definition, SeedEdit(v, x)
      PROVE  ContentInv'
  <2>1. /\ UNCHANGED <<disk, removing, op, used, crashes, damaged, running,
                       vms, file>>
        /\ held' = held \/ (~At("remove", "save")' /\ ~At("delete", "save")')
    BY <1>2 DEF SeedEdit, StageSeed, ghosts, Acquire, At
  <2> QED
    BY <1>0, <2>1, ContentFrame DEF DisksOf
<1>3. CASE Delete(v)
  <2>1. /\ UNCHANGED <<disk, removing, op, used, crashes, damaged, running,
                       vms, file>>
        /\ ~At("remove", "save")' /\ ~At("delete", "save")'
    BY <1>3 DEF Delete, files, ghosts, counters, Acquire, At
  <2> QED
    BY <1>0, <2>1, ContentFrame DEF DisksOf
<1>4. ASSUME NEW d \in Disks, RemoveDisk(v, d)
      PROVE  ContentInv'
  <2>1. /\ UNCHANGED <<op, used, crashes, damaged, running, vms, file>>
        /\ held'.kind = "remove" /\ held'.pc = "save" /\ held'.vm = v
        /\ held'.disk = d /\ held' # Free
    BY <1>4 DEF RemoveDisk, Acquire, ghosts, counters, Free
  <2>2. d \in DisksOf(vms, v) /\ d \in DisksOf(vms', v)
    BY <1>0, <1>4 DEF RemoveDisk, DisksOf
  <2>3. /\ disk'[d] = None /\ \A e \in Disks \ {d} : disk'[e] = disk[e]
        /\ removing'[d] = IF disk[d] = None THEN removing[d] ELSE disk[d]
        /\ \A e \in Disks \ {d} : removing'[e] = removing[e]
    BY <1>4 DEF RemoveDisk, TypeInv
  <2>4. disk[d] # Partial /\ (v \notin damaged => disk[d] \in Written)
    BY <1>0, <2>2 DEF ContentInv, MachineDisks
  <2>5. v \notin running
    BY <1>4 DEF RemoveDisk
  <2>6. \A e \in Disks : removing'[e] # Partial
    BY <2>3, <2>4 DEF ContentInv, UnusedDisks
  <2>7. HeldDisks'
    BY <2>1, <2>3, <2>4 DEF HeldDisks, At
  <2>8. v \notin damaged' => \A e \in DisksOf(vms', v) :
                                Taken(v, e)' \/ disk'[e] \in Written
    <3>1. Taken(v, d)'
      BY <2>1 DEF Taken, At
    <3>2. v \notin damaged => \A e \in DisksOf(vms, v) : disk[e] \in Written /\ e \in Disks
      BY <1>0, OwnedDisks DEF ContentInv, MachineDisks
    <3> QED
      BY <2>1, <2>3, <3>1, <3>2 DEF DisksOf
  <2> QED
    BY <1>0, <2>1, <2>2, <2>3, <2>5, <2>6, <2>7, <2>8, ContentOfOne DEF DisksOf
<1> QED
  BY <1>1, <1>2, <1>3, <1>4, EditCases

LEMMA ContentHeld ==
    ASSUME TypeInv, TypeInv', ReservationInv, BusyInv, IdentityInv,
           OwnershipInv, OwnershipInv', ContentInv, HeldStep
    PROVE  ContentInv'
<1> USE DefinitionConstants, NoneIsDistinct, DiskValues
<1> DEFINE v == held.vm
<1>0. /\ HeldType(held) /\ held # Free /\ v \in Ids /\ vms[v] # None
      /\ held.kind # "seed" => v \notin running
      /\ \A w \in Ids, d \in Disks : Taken(w, d) => w = v
  BY HeldStepIsHeld DEF HeldType, Free, HeldFields, BusyInv, Defined, Taken
<1>1. CASE RemoveDiskClean \/ SeedRename \/ SeedSave \/ SeedCommit
  <2>1. /\ UNCHANGED <<disk, op, used, crashes, damaged, running>>
        /\ ~At("remove", "save")' /\ ~At("delete", "save")'
    BY <1>0, <1>1 DEF RemoveDiskClean, SeedRename, SeedSave, SeedCommit, ghosts,
                      RollbackSeed, At, HeldType, HeldFields, Free
  <2>2. \A w \in Ids : /\ DisksOf(vms', w) = DisksOf(vms, w)
                       /\ DisksOf(file', w) \subseteq DisksOf(file, w)
                                                \cup DisksOf(vms, w)
    <3>1. CASE UNCHANGED <<vms, file>>
      BY <3>1 DEF DisksOf
    <3>2. CASE SeedSave /\ vms' = [vms EXCEPT ![v] = held.next] /\ file' = vms'
      BY <1>0, <3>2 DEF SeedSave, At, IdentityInv, DisksOf, TypeInv, HeldType
    <3> QED
      BY <1>1, <3>1, <3>2 DEF RemoveDiskClean, SeedRename, SeedSave, SeedCommit
  <2>3. \A w \in Ids, d \in Disks : ~Taken(w, d)
    BY <1>0, <1>1 DEF RemoveDiskClean, SeedRename, SeedSave, SeedCommit, At, Taken
  <2>4. \A e \in Disks : removing'[e] = removing[e] \/ removing'[e] = None
    BY <1>0, <1>1 DEF RemoveDiskClean, SeedRename, SeedSave, SeedCommit, TypeInv
  <2>5. UnusedDisks' /\ HeldDisks'
    BY <2>1, <2>4 DEF ContentInv, UnusedDisks, HeldDisks
  <2>6. MachineDisks'
    BY <2>1, <2>2, <2>3, OwnedDisks DEF ContentInv, MachineDisks
  <2>7. RequestDisks'
    BY <2>1 DEF ContentInv, RequestDisks, Produced
  <2>8. NoOrphans'
    <3>1. \A d \in Disks : Owned(d) => Owned(d)'
      BY <2>1, <2>2, OwnedDisks DEF Owned, Defined, DisksOf
    <3> QED
      BY <2>1, <3>1 DEF ContentInv, NoOrphans
  <2> QED
    BY <2>5, <2>6, <2>7, <2>8 DEF ContentInv
<1>2. CASE DeleteFiles
  <2>0. /\ held.kind = "delete" /\ held.pc = "files"
        /\ UNCHANGED <<vms, op, file, running, removing, used, crashes>>
        /\ \A w \in Ids : /\ DisksOf(vms', w) = DisksOf(vms, w)
                         /\ DisksOf(file', w) = DisksOf(file, w)
    BY <1>2 DEF DeleteFiles, At, DisksOf
  <2>1. ASSUME NEW d \in vms[v].disks, disk' = [disk EXCEPT ![d] = None],
               UNCHANGED <<held, damaged>>
        PROVE  ContentInv'
    <3>1. d \in DisksOf(vms, v) /\ d \in Disks
      BY <1>0, <2>1, OwnedDisks DEF DisksOf
    <3>2. disk'[d] = None /\ \A e \in Disks \ {d} : disk'[e] = disk[e]
      BY <2>1, <3>1 DEF TypeInv
    <3>3. HeldDisks' /\ \A w \in Ids, e \in Disks : Taken(w, e)' = Taken(w, e)
      BY <2>0, <2>1 DEF HeldDisks, At, Taken
    <3>4. \A e \in Disks : Taken(v, e)'
      BY <1>0, <2>0, <3>3 DEF Taken
    <3>5. DisksOf(vms', v) \subseteq Disks /\ \A e \in Disks : removing'[e] # Partial
      BY <2>0, OwnedDisks, <1>0 DEF ContentInv, UnusedDisks
    <3> QED
      BY <1>0, <2>0, <2>1, <3>1, <3>2, <3>3, <3>4, <3>5, ContentOfOne
  <2>2. CASE /\ {d \in vms[v].disks : disk[d] # None} = {}
             /\ held' = [held EXCEPT !.pc = "save"] /\ UNCHANGED <<disk, damaged>>
    <3>1. \A w \in Ids, d \in Disks : Taken(w, d) => Taken(w, d)'
      BY <1>0, <2>0, <2>2 DEF Taken, HeldType, HeldFields, Free
    <3>2. HeldDisks'
      BY <1>0, <2>0, <2>2 DEF HeldDisks, At, HeldType, HeldFields, DisksOf
    <3>3. UnusedDisks' /\ RequestDisks'
      BY <2>0, <2>2 DEF ContentInv, UnusedDisks, RequestDisks, Produced
    <3>4. MachineDisks'
      BY <2>0, <2>2, <3>1, OwnedDisks DEF ContentInv, MachineDisks
    <3>5. NoOrphans'
      BY <2>0, <2>2 DEF ContentInv, NoOrphans, Owned, Defined
    <3> QED
      BY <3>2, <3>3, <3>4, <3>5 DEF ContentInv
  <2>3. CASE held' = Free /\ damaged' = damaged \cup {v} /\ UNCHANGED disk
    <3>1. ~At("remove", "save")' /\ ~At("delete", "save")'
      BY <2>3 DEF At, Free
    <3> QED
      BY <1>0, <2>0, <2>3, <3>1, ContentFrame
  <2> QED
    BY <1>2, <2>1, <2>2, <2>3 DEF DeleteFiles
<1>3. CASE DeleteSave
  <2>1. /\ \A w \in Ids \ {v} : DisksOf(vms', w) = DisksOf(vms, w)
        /\ DisksOf(vms', v) = {}
        /\ \A w \in Ids : DisksOf(file', w) \subseteq DisksOf(file, w)
                                                    \cup DisksOf(vms, w)
    BY <1>0, <1>3 DEF DeleteSave, DisksOf, TypeInv
  <2>2. /\ UNCHANGED <<disk, removing, op, used, crashes, running>>
        /\ damaged \subseteq damaged'
        /\ \A d \in DisksOf(vms, v) : disk[d] = None
    BY <1>3 DEF DeleteSave, files, ContentInv, HeldDisks
  <2>3. UnusedDisks' /\ RequestDisks'
    BY <2>2 DEF ContentInv, UnusedDisks, RequestDisks, Produced
  <2>4. MachineDisks'
    BY <1>0, <2>1, <2>2, OwnedDisks DEF ContentInv, MachineDisks
  <2>5. HeldDisks'
    BY <1>3 DEF DeleteSave, HeldDisks, At, Free
  <2>6. NoOrphans'
    <3>1. \A d \in Disks : Owned(d) /\ d \notin DisksOf(vms, v) => Owned(d)'
      BY <2>1, <2>2, OwnedDisks DEF Owned, Defined, DisksOf
    <3> QED
      BY <2>2, <3>1 DEF ContentInv, NoOrphans
  <2> QED
    BY <2>3, <2>4, <2>5, <2>6 DEF ContentInv
<1>4. CASE RemoveDiskSave
  <2> DEFINE d == held.disk
  <2>0. /\ held.kind = "remove" /\ held.pc = "save" /\ v \notin running
        /\ d \in Disks /\ d \in DisksOf(vms, v) /\ disk[d] = None
        /\ v \notin damaged => removing[d] \in Written
        /\ UNCHANGED <<op, used, crashes, running, damaged>>
        /\ failures \in Nat
    BY <1>0, <1>4 DEF RemoveDiskSave, At, HeldType, BusyInv, DisksOf, ContentInv,
                      HeldDisks, ghosts, TypeInv
  <2>1. CASE /\ vms' = [vms EXCEPT ![v].disks = @ \ {d}] /\ file' = vms'
             /\ held' = [held EXCEPT !.pc = "clean"] /\ UNCHANGED <<disk, removing>>
    <3>1. vms[v] \in Definition
      BY <1>0 DEF TypeInv, MaybeDefinition
    <3>2. /\ [vms[v] EXCEPT !.disks = @ \ {d}] \in Definition
          /\ [vms[v] EXCEPT !.disks = @ \ {d}].disks = vms[v].disks \ {d}
      BY <3>1 DEF Definition
    <3>3. /\ \A w \in Ids \ {v} : DisksOf(vms', w) = DisksOf(vms, w)
          /\ DisksOf(vms', v) = DisksOf(vms, v) \ {d}
      BY <1>0, <2>1, <3>2 DEF DisksOf, TypeInv
    <3>4. \A w \in Ids : DisksOf(file', w) \subseteq DisksOf(file, w)
                                                   \cup DisksOf(vms, w)
      BY <2>1, <3>3 DEF DisksOf
    <3>5. HeldDisks' /\ \A e \in Disks : removing'[e] # Partial
      BY <1>0, <2>0, <2>1 DEF HeldDisks, At, HeldType, HeldFields, ContentInv,
                              UnusedDisks
    <3>6. v \notin damaged => \A e \in DisksOf(vms', v) : disk'[e] \in Written
      <4>1. v \notin damaged => \A e \in DisksOf(vms, v) :
                Taken(v, e) \/ disk[e] \in Written
        BY <1>0 DEF ContentInv, MachineDisks
      <4>2. \A e : Taken(v, e) => e = d
        BY <2>0 DEF Taken, At
      <4> QED
        BY <2>1, <3>3, <4>1, <4>2
    <3> QED
      BY <1>0, <2>0, <2>1, <3>3, <3>4, <3>5, <3>6, ContentOfOne
  <2>2. CASE /\ UNCHANGED <<vms, file>> /\ held' = Free
             /\ disk' = [disk EXCEPT ![d] = removing[d]]
             /\ removing' = [removing EXCEPT ![d] = None]
    <3>1. /\ disk'[d] = removing[d] /\ \A e \in Disks \ {d} : disk'[e] = disk[e]
          /\ \A e \in Disks : removing'[e] # Partial
          /\ disk'[d] # Partial
      BY <2>0, <2>2 DEF TypeInv, ContentInv, UnusedDisks
    <3>2. HeldDisks'
      BY <2>2 DEF HeldDisks, At, Free
    <3>3. v \notin damaged => \A e \in DisksOf(vms, v) : disk'[e] \in Written
      <4>1. v \notin damaged => \A e \in DisksOf(vms, v) :
                e \in Disks /\ (Taken(v, e) \/ disk[e] \in Written)
        BY <1>0, OwnedDisks DEF ContentInv, MachineDisks
      <4>2. \A e : Taken(v, e) => e = d
        BY <2>0 DEF Taken, At
      <4> QED
        BY <2>0, <3>1, <4>1, <4>2
    <3>4. \A w \in Ids : /\ DisksOf(vms', w) = DisksOf(vms, w)
                         /\ DisksOf(file', w) = DisksOf(file, w)
      BY <2>2 DEF DisksOf
    <3> QED
      BY <1>0, <2>0, <2>2, <3>1, <3>2, <3>3, <3>4, ContentOfOne
  <2> QED
    BY <1>4, <2>0, <2>1, <2>2 DEF RemoveDiskSave, Commit, Succeeds, Fails
<1> QED
  BY <1>1, <1>2, <1>3, <1>4 DEF HeldStep

LEMMA ContentStep ==
    ASSUME TypeInv, TypeInv', ReservationInv, BusyInv, IdentityInv,
           OwnershipInv, OwnershipInv', ContentInv, [Next]_vars
    PROVE  ContentInv'
<1> USE DefinitionConstants, NoneIsDistinct, DiskValues
<1>1. ASSUME NEW v \in Ids, Start(v)
      PROVE  ContentInv'
  <2>1. \A d \in DisksOf(vms, v) : disk[d] \in Written
    BY <1>1, OwnedDisks DEF Start, DisksOf, ContentInv, MachineDisks, TypeInv
  <2>2. UnusedDisks' /\ RequestDisks' /\ HeldDisks' /\ NoOrphans'
    BY <1>1 DEF Start, memory, files, ghosts, counters, ContentInv, UnusedDisks,
                RequestDisks, Produced, HeldDisks, At, DisksOf, NoOrphans,
                Owned, Defined
  <2>3. MachineDisks'
    BY <1>1, <2>1 DEF Start, memory, files, ghosts, ContentInv, MachineDisks,
                      Taken, At, DisksOf
  <2> QED
    BY <2>2, <2>3 DEF ContentInv
<1>2. ASSUME NEW v \in Ids, Exit(v)
      PROVE  ContentInv'
  <2>1. \A w \in Ids, d \in Disks : Taken(w, d) => Taken(w, d)'
    BY <1>2 DEF Exit, memory, Taken, At
  <2> QED
    BY <1>2, <2>1, ContentFrame DEF Exit, memory, files, ghosts, counters, DisksOf
<1>3. ASSUME NEW v \in Ids, NEW d \in Disks, GuestWrites(v, d)
      PROVE  ContentInv'
  <2>1. /\ v \in running /\ vms[v] # None /\ d \in DisksOf(vms, v)
        /\ disk[d] \in Written
        /\ UNCHANGED <<vms, file, op, held, running, removing, used, damaged,
                       crashes>>
    BY <1>3 DEF GuestWrites, BusyInv, Defined, DisksOf, ContentInv, MachineDisks,
                memory, ghosts, counters
  <2>2. disk'[d] \in Written /\ \A e \in Disks \ {d} : disk'[e] = disk[e]
    BY <1>3, <2>1 DEF GuestWrites, TypeInv, Written
  <2>3. \A w \in Ids, e \in Disks : Taken(w, e)' = Taken(w, e)
    BY <2>1 DEF Taken, At
  <2>4. HeldDisks'
    <3>1. CASE At("remove", "save")
      <4>1. held.vm \in Ids \ {v} /\ held.disk \in DisksOf(vms, held.vm)
        BY <2>1, <3>1 DEF At, BusyInv, Defined, DisksOf, Free
      <4>2. held.disk \in Disks \ {d}
        BY <2>1, <4>1, OwnedDisks DEF OwnershipInv
      <4> QED
        BY <2>1, <2>2, <3>1, <4>2 DEF ContentInv, HeldDisks, At
    <3>2. CASE At("delete", "save")
      <4>1. held.vm \in Ids \ {v}
        BY <2>1, <3>2 DEF At, BusyInv, Defined, Free
      <4>2. \A e \in DisksOf(vms, held.vm) : e \in Disks \ {d}
        BY <2>1, <4>1, OwnedDisks DEF OwnershipInv
      <4> QED
        BY <2>1, <2>2, <3>2, <4>2 DEF ContentInv, HeldDisks, At, DisksOf
    <3> QED
      BY <2>1, <3>1, <3>2 DEF HeldDisks, At
  <2>5. \A w \in Ids : /\ DisksOf(vms', w) = DisksOf(vms, w)
                       /\ DisksOf(file', w) = DisksOf(file, w)
    BY <2>1 DEF DisksOf
  <2>6. /\ \A e \in DisksOf(vms, v) : disk'[e] \in Written
        /\ \A e \in Disks : removing'[e] # Partial
    BY <2>1, <2>2, OwnedDisks DEF ContentInv, MachineDisks, UnusedDisks
  <2> QED
    BY <2>1, <2>2, <2>3, <2>4, <2>5, <2>6, ContentOfOne
<1>4. CASE Crash
  <2>1. /\ vms' = file /\ file' = file /\ held' = Free /\ crashes' # 0
        /\ UNCHANGED <<disk, removing, used, running>>
        /\ damaged \subseteq damaged'
        /\ \A t \in Threads : op'[t] = NoOp
    BY <1>4 DEF Crash, files, TypeInv
  <2>2. /\ UnusedDisks' /\ RequestDisks' /\ NoOrphans'
        /\ HeldDisks'
    BY <2>1 DEF ContentInv, UnusedDisks, RequestDisks, NoOrphans, HeldDisks, At,
                Free
  <2>3. \A w \in Ids : /\ DisksOf(vms', w) = DisksOf(file, w)
                       /\ DisksOf(file', w) = DisksOf(file, w)
    BY <2>1 DEF DisksOf
  <2>4. ASSUME NEW w \in Ids, w \notin damaged'
        PROVE  /\ DisksOf(vms, w) = DisksOf(file, w)
               /\ \A d \in Disks : ~Taken(w, d)
    BY <1>4, <2>4 DEF Crash, AtOdds, Taken, ReservationInv, DisksOf
  <2>5. ASSUME NEW w \in Ids, w \in running
        PROVE  DisksOf(vms, w) = DisksOf(file, w)
    BY <2>5 DEF ReservationInv, BusyInv, Defined, DisksOf
  <2>6. MachineDisks'
    BY <2>1, <2>3, <2>4, <2>5, OwnedDisks DEF ContentInv, MachineDisks
  <2> QED
    BY <2>2, <2>6 DEF ContentInv
<1>5. CASE UNCHANGED vars
  <2>1. \A w \in Ids, d \in Disks : Taken(w, d) => Taken(w, d)'
    BY <1>5 DEF vars, memory, Taken, At
  <2> QED
    BY <1>5, <2>1, ContentFrame DEF vars, memory, files, ghosts, counters, DisksOf
<1> QED
  BY <1>1, <1>2, <1>3, <1>4, <1>5, ContentUnlocked, ContentEdits, ContentHeld
  DEF Next, HeldStep
-----------------------------------------------------------------------------
(***************************************************************************)
(* Seed images.  Most steps touch neither an image nor what it is made     *)
(* from; the others touch those of one machine.                            *)
(***************************************************************************)
LEMMA SeedFrame ==
    ASSUME SeedInv, UNCHANGED <<iso, backup, creating, held, damaged>>,
           \A v \in Ids : vms'[v] # None =>
               vms[v] # None /\ SeedOf(vms'[v]) = SeedOf(vms[v]),
           held # Free => held.vm \in Ids /\ vms'[held.vm] # None,
           \A t \in Threads :
               IsNew(t)' /\ op'[t].pc = "done" =>
                   IsNew(t) /\ op[t].pc = "done" /\ op'[t].vm = op[t].vm
    PROVE  SeedInv'
<1>1. SeedsCurrent'
  BY DEF SeedInv, SeedsCurrent, Replaced
<1>2. SeedStaged'
  BY DEF SeedInv, SeedStaged, Free
<1>3. SeedsProduced'
  BY DEF SeedInv, SeedsProduced, IsNew
<1> QED
  BY <1>1, <1>2, <1>3 DEF SeedInv

(***************************************************************************)
(* The handler that has, takes or gives back the mutex works on v.         *)
(***************************************************************************)
LEMMA SeedOfOne ==
    ASSUME TypeInv, ReservationInv, SeedInv, UNCHANGED <<op, creating>>,
           NEW v \in Ids, vms[v] # None,
           held = Free \/ held.vm = v, damaged \subseteq damaged',
           \A w \in Ids \ {v} : vms'[w] = vms[w] /\ iso'[w] = iso[w],
           vms'[v] # None /\ v \notin damaged' /\ ~Replaced(v)' =>
               iso'[v] = SeedOf(vms'[v]),
           SeedStaged'
    PROVE  SeedInv'
<1>1. SeedsCurrent'
  BY DEF SeedInv, SeedsCurrent, Replaced
<1>2. SeedsProduced'
  <2>1. \A t \in Threads : IsNew(t) => op[t].vm \in Ids \ {v}
    BY DEF ReservationInv, IsNew, TypeInv, OpType, NoOp
  <2> QED
    BY <2>1 DEF SeedInv, SeedsProduced, IsNew
<1> QED
  BY <1>1, <1>2 DEF SeedInv

LEMMA SeedUnlocked ==
    ASSUME TypeInv, ReservationInv, BusyInv, SeedInv, NEW t \in Threads,
           Unlocked(t)
    PROVE  SeedInv'
<1> USE DefinitionConstants, NoneIsDistinct
<1>0. held # Free => held.vm \in Ids /\ vms[held.vm] # None
  BY DEF TypeInv, HeldType, BusyInv, Defined
<1>1. ASSUME NEW v \in Ids, NEW x, v \notin used,
             creating' = [creating EXCEPT ![v] = x], op'[t].pc = "disks",
             \A u \in Threads \ {t} : op'[u] = op[u],
             UNCHANGED <<vms, iso, backup, held, damaged>>
      PROVE  SeedInv'
  <2>1. SeedsCurrent' /\ SeedStaged'
    BY <1>1 DEF SeedInv, SeedsCurrent, SeedStaged, Replaced
  <2>2. \A u \in Threads : IsNew(u) => op[u].vm \in Ids \ {v}
    BY <1>1 DEF ReservationInv, IsNew, TypeInv, OpType, NoOp
  <2>3. SeedsProduced'
    BY <1>1, <2>2 DEF SeedInv, SeedsProduced, IsNew, TypeInv
  <2> QED
    BY <2>1, <2>3 DEF SeedInv
<1>2. ASSUME NEW kind, NEW v, NEW source, NEW from,
             Begin(t, kind, v, source, from)
      PROVE  op'[t].pc = "disks" /\ \A u \in Threads \ {t} : op'[u] = op[u]
  BY <1>2 DEF Begin, TypeInv
<1>3. ASSUME NEW v \in Ids, NEW x \in Definition, Create(t, v, x)
      PROVE  SeedInv'
  BY <1>1, <1>2, <1>3 DEF Create, files
<1>4. ASSUME NEW s \in Ids, NEW v \in Ids, NEW n \in Names,
             NEW m \in Macs \cup {None}, NEW disks \in SUBSET (Disks \ used),
             s \in Defined, NEW from \in [disks -> vms[s].disks],
             Clone(t, s, v, n, m, from)
      PROVE  SeedInv'
  BY <1>1, <1>2, <1>4 DEF Clone, files
<1>5. ASSUME NEW v \in Ids, NEW d \in Disks, AddDisk(t, v, d)
      PROVE  SeedInv'
  <2>1. UNCHANGED <<vms, iso, backup, creating, held, damaged>>
    BY <1>5 DEF AddDisk, files
  <2>2. \A u \in Threads : op'[u].pc = "done" => op'[u] = op[u]
    BY <1>2, <1>5 DEF AddDisk
  <2> QED
    BY <1>0, <2>1, <2>2, SeedFrame DEF IsNew
<1>6. ASSUME NEW d \in Disks, Produce(t, d)
      PROVE  SeedInv'
  <2>1. UNCHANGED <<vms, iso, backup, creating, held, damaged>>
    BY <1>6 DEF Produce, ghosts
  <2>2. \A u \in Threads : op'[u].pc = "done" => op'[u] = op[u]
    <3>1. OpType(op[t])
      BY <1>6 DEF Produce, TypeInv, NoOp
    <3> QED
      BY <1>6, <3>1 DEF Produce, TypeInv, OpType, OpFields
  <2> QED
    BY <1>0, <2>1, <2>2, SeedFrame DEF IsNew
<1>7. CASE ProduceState(t)
  <2> DEFINE v == op[t].vm
  <2>1. /\ OpType(op[t]) /\ IsNew(t) /\ v \in Ids
        /\ UNCHANGED <<vms, backup, creating, held, damaged>>
    BY <1>7 DEF ProduceState, TypeInv, NoOp, IsNew, OpType, ghosts
  <2>2. /\ op'[t].kind = op[t].kind /\ op'[t].vm = v
        /\ \A u \in Threads \ {t} : op'[u] = op[u]
        /\ op'[t].pc = "done" => iso'[v] = SeedOf(creating[v])
        /\ \A w \in Ids \ {v} : iso'[w] = iso[w]
    BY <1>7, <2>1 DEF ProduceState, TypeInv, OpType, OpFields
  <2>3. /\ vms[v] = None
        /\ \A u \in Threads \ {t} : IsNew(u) => op[u].vm \in Ids \ {v}
    BY <2>1 DEF ReservationInv, IsNew, TypeInv, OpType, NoOp
  <2>4. SeedsCurrent'
    BY <2>1, <2>2, <2>3 DEF SeedInv, SeedsCurrent, Replaced
  <2>5. SeedStaged'
    BY <1>0, <2>1, <2>2, <2>3 DEF SeedInv, SeedStaged, Free
  <2>6. SeedsProduced'
    BY <2>1, <2>2, <2>3 DEF SeedInv, SeedsProduced, IsNew
  <2> QED
    BY <2>4, <2>5, <2>6 DEF SeedInv
<1>8. CASE FinishNew(t)
  <2> DEFINE v == op[t].vm
  <2>1. /\ OpType(op[t]) /\ IsNew(t) /\ v \in Ids /\ held = Free
        /\ UNCHANGED <<backup, held, damaged>>
        /\ creating' = [creating EXCEPT ![v] = None] /\ op'[t] = NoOp
        /\ \A u \in Threads \ {t} : op'[u] = op[u]
    BY <1>8 DEF FinishNew, Released, TypeInv, NoOp, IsNew, OpType, ghosts
  <2>2. /\ vms[v] = None
        /\ \A u \in Threads \ {t} : IsNew(u) => op[u].vm \in Ids \ {v}
    BY <2>1 DEF ReservationInv, IsNew, TypeInv, OpType, NoOp
  <2>3. /\ \A w \in Ids \ {v} : vms'[w] = vms[w] /\ iso'[w] = iso[w]
        /\ vms'[v] # None => op[t].pc = "done" /\ vms'[v] = creating[v]
                              /\ iso' = iso
    BY <1>8, <2>1, <2>2 DEF FinishNew, Discard, TypeInv
  <2>4. SeedsCurrent'
    BY <2>1, <2>2, <2>3 DEF SeedInv, SeedsCurrent, SeedsProduced, Replaced
  <2>5. SeedStaged'
    BY <2>1 DEF SeedStaged, Free
  <2>6. SeedsProduced'
    BY <2>1, <2>2, <2>3 DEF SeedInv, SeedsProduced, IsNew, TypeInv, NoOp
  <2> QED
    BY <2>4, <2>5, <2>6 DEF SeedInv
<1>9. CASE FinishAddDisk(t)
  <2> DEFINE v == op[t].vm
  <2>1. /\ OpType(op[t]) /\ v \in Ids /\ vms[v] # None /\ creating[v] = None
        /\ held = Free
    BY <1>9 DEF FinishAddDisk, TypeInv, NoOp, OpType, BusyInv, KeepsBusy,
                Defined, ReservationInv
  <2>2. /\ UNCHANGED <<iso, backup, creating, held, damaged>>
        /\ op'[t] = NoOp /\ \A u \in Threads \ {t} : op'[u] = op[u]
    BY <1>9, <2>1 DEF FinishAddDisk, Released, TypeInv, ghosts
  <2>3. \A w \in Ids : vms'[w] # None =>
            vms[w] # None /\ SeedOf(vms'[w]) = SeedOf(vms[w])
    <3>1. vms[v] \in Definition
      BY <2>1 DEF TypeInv, MaybeDefinition
    <3> DEFINE x == [vms[v] EXCEPT !.disks = @ \cup DOMAIN op[t].from]
    <3>2. x.name = vms[v].name /\ x.cloud = vms[v].cloud
      BY <3>1 DEF Definition
    <3>3. vms' = vms \/ vms' = [vms EXCEPT ![v] = x]
      BY <1>9 DEF FinishAddDisk
    <3> HIDE DEF x
    <3> QED
      BY <2>1, <3>2, <3>3 DEF SeedOf, TypeInv
  <2> QED
    BY <2>1, <2>2, <2>3, SeedFrame DEF IsNew, NoOp
<1> QED
  BY <1>3, <1>4, <1>5, <1>6, <1>7, <1>8, <1>9 DEF Unlocked

LEMMA SeedEdits ==
    ASSUME TypeInv, ReservationInv, BusyInv, IdentityInv, SeedInv,
           NEW v \in Ids, Edits(v)
    PROVE  SeedInv'
<1> USE DefinitionConstants, NoneIsDistinct
<1>0. held = Free /\ vms[v] # None
      /\ (v \notin damaged => iso[v] = SeedOf(vms[v]))
  BY EditCases DEF Editable, Defined, SeedInv, SeedsCurrent, Replaced
<1>1. ASSUME NEW x \in Definition, PlainEdit(v, x)
      PROVE  SeedInv'
  <2>1. UNCHANGED <<iso, backup, creating, held, damaged, op>>
    BY <1>1 DEF PlainEdit, Edit, files, ghosts
  <2>2. \A w \in Ids : vms'[w] # None =>
            vms[w] # None /\ SeedOf(vms'[w]) = SeedOf(vms[w])
    BY <1>0, <1>1 DEF PlainEdit, Edit, Commit, TypeInv
  <2> QED
    BY <1>0, <2>1, <2>2, SeedFrame DEF IsNew
<1>2. ASSUME NEW x \in Definition, SeedEdit(v, x)
      PROVE  SeedInv'
  <2>0. UNCHANGED <<vms, creating, op, damaged>>
    BY <1>2 DEF SeedEdit, StageSeed, ghosts
  <2>1. CASE UNCHANGED <<iso, held>>
    BY <1>0, <2>0, <2>1, SeedOfOne DEF SeedStaged, Free
  <2>2. CASE /\ backup' = [backup EXCEPT ![v] = iso[v]]
             /\ iso' = [iso EXCEPT ![v] = None]
             /\ Acquire("seed", v, x, None, "rename")
    <3>1. /\ held'.kind = "seed" /\ held'.vm = v /\ held'.pc = "rename"
          /\ held' # Free /\ backup'[v] = iso[v]
          /\ \A w \in Ids \ {v} : iso'[w] = iso[w]
      BY <2>2 DEF Acquire, Free, TypeInv
    <3>2. Replaced(v)' /\ SeedStaged'
      BY <1>0, <2>0, <3>1 DEF Replaced, SeedStaged
    <3> QED
      BY <1>0, <2>0, <3>1, <3>2, SeedOfOne
  <2> QED
    BY <1>2, <2>1, <2>2 DEF SeedEdit, StageSeed
<1>3. CASE Delete(v) \/ \E d \in Disks : RemoveDisk(v, d)
  <2>1. /\ UNCHANGED <<vms, creating, op, iso, damaged>>
        /\ held'.kind # "seed"
    BY <1>3 DEF Delete, RemoveDisk, Acquire, files, ghosts
  <2>2. SeedStaged'
    BY <2>1 DEF SeedStaged
  <2> QED
    BY <1>0, <2>1, <2>2, SeedOfOne
<1> QED
  BY <1>1, <1>2, <1>3, EditCases

LEMMA SeedHeld ==
    ASSUME TypeInv, ReservationInv, BusyInv, IdentityInv, SeedInv, HeldStep
    PROVE  SeedInv'
<1> USE DefinitionConstants, NoneIsDistinct
<1> DEFINE v == held.vm
<1>0. /\ HeldType(held) /\ held # Free /\ v \in Ids /\ vms[v] # None
      /\ UNCHANGED <<creating, op>>
  BY HeldStepIsHeld
  DEF HeldType, Free, HeldFields, BusyInv, Defined, HeldStep, DeleteFiles,
      DeleteSave, RemoveDiskSave, RemoveDiskClean, SeedRename, SeedSave,
      SeedCommit
<1>1. CASE DeleteFiles
  <2>1. /\ held.kind = "delete" /\ UNCHANGED vms
        /\ damaged \subseteq damaged'
        /\ \A w \in Ids \ {v} : iso'[w] = iso[w]
        /\ \/ held' = Free /\ v \in damaged'
           \/ held' # Free /\ held'.kind = "delete" /\ held'.vm = v
    BY <1>0, <1>1 DEF DeleteFiles, At, TypeInv, HeldType, HeldFields, Free
  <2>2. SeedStaged' /\ (v \in damaged' \/ Replaced(v)')
    BY <2>1 DEF SeedStaged, Replaced, Free
  <2> QED
    BY <1>0, <2>1, <2>2, SeedOfOne
<1>2. CASE DeleteSave
  <2>1. /\ vms'[v] = None /\ \A w \in Ids \ {v} : vms'[w] = vms[w]
        /\ damaged \subseteq damaged' /\ iso' = iso /\ held' = Free
    BY <1>0, <1>2 DEF DeleteSave, files, TypeInv
  <2>2. SeedStaged'
    BY <2>1 DEF SeedStaged, Free
  <2> QED
    BY <1>0, <2>1, <2>2, SeedOfOne
<1>3. CASE RemoveDiskSave \/ RemoveDiskClean
  <2>0. /\ held.kind = "remove" /\ UNCHANGED <<iso, damaged>>
        /\ held' = Free \/ held'.kind = "remove"
    BY <1>0, <1>3 DEF RemoveDiskSave, RemoveDiskClean, At, HeldType, HeldFields,
                      ghosts
  <2>1. v \notin damaged => iso[v] = SeedOf(vms[v])
    BY <1>0, <2>0 DEF SeedInv, SeedsCurrent, Replaced
  <2>2. SeedStaged'
    BY <2>0 DEF SeedStaged, Free
  <2>3. /\ \A w \in Ids \ {v} : vms'[w] = vms[w]
        /\ SeedOf(vms'[v]) = SeedOf(vms[v])
    <3>1. vms[v] \in Definition
      BY <1>0 DEF TypeInv, MaybeDefinition
    <3> DEFINE x == [vms[v] EXCEPT !.disks = @ \ {held.disk}]
    <3>2. x.name = vms[v].name /\ x.cloud = vms[v].cloud
      BY <3>1 DEF Definition
    <3>3. vms' = vms \/ vms' = [vms EXCEPT ![v] = x]
      BY <1>3 DEF RemoveDiskSave, RemoveDiskClean, Commit
    <3> HIDE DEF x
    <3> QED
      BY <1>0, <3>2, <3>3 DEF SeedOf, TypeInv
  <2> QED
    BY <1>0, <2>0, <2>1, <2>2, <2>3, SeedOfOne
<1>4. CASE SeedRename \/ SeedSave \/ SeedCommit
  <2>0. /\ held.kind = "seed" /\ UNCHANGED damaged
        /\ \A w \in Ids \ {v} : vms'[w] = vms[w] /\ iso'[w] = iso[w]
    BY <1>0, <1>4 DEF SeedRename, SeedSave, SeedCommit, RollbackSeed, At, ghosts,
                      TypeInv
  <2>1. CASE RollbackSeed(v) /\ UNCHANGED vms /\ held.pc \in {"rename", "save"}
    <3>1. v \notin damaged => iso'[v] = SeedOf(vms[v])
      BY <1>0, <2>0, <2>1 DEF RollbackSeed, TypeInv, SeedInv, SeedStaged
    <3>2. SeedStaged'
      BY <2>1 DEF RollbackSeed, SeedStaged, Free
    <3> QED
      BY <1>0, <2>0, <2>1, <3>1, <3>2, SeedOfOne
  <2>2. CASE /\ held.pc = "rename" /\ UNCHANGED <<vms, backup>>
             /\ iso' = [iso EXCEPT ![v] = SeedOf(held.next)]
             /\ held' = [held EXCEPT !.pc = "save"]
    <3>1. /\ held'.kind = "seed" /\ held'.pc = "save" /\ held'.vm = v
          /\ held'.next = held.next /\ held' # Free
          /\ iso'[v] = SeedOf(held.next)
      BY <1>0, <2>0, <2>2 DEF HeldType, HeldFields, Free, TypeInv
    <3>2. Replaced(v)' /\ SeedStaged'
      BY <2>0, <2>2, <3>1 DEF Replaced, SeedInv, SeedStaged
    <3> QED
      BY <1>0, <2>0, <3>1, <3>2, SeedOfOne
  <2>3. CASE /\ held.pc = "save" /\ UNCHANGED iso
             /\ vms' = [vms EXCEPT ![v] = held.next]
             /\ held' = [held EXCEPT !.pc = "commit"]
    <3>1. /\ held'.pc = "commit" /\ vms'[v] = held.next
          /\ v \notin damaged => iso[v] = SeedOf(held.next)
      BY <1>0, <2>0, <2>3 DEF HeldType, HeldFields, TypeInv, SeedInv, SeedStaged
    <3>2. SeedStaged'
      BY <3>1 DEF SeedStaged
    <3> QED
      BY <1>0, <2>0, <2>3, <3>1, <3>2, SeedOfOne
  <2>4. CASE held.pc = "commit" /\ UNCHANGED <<vms, iso>> /\ held' = Free
    <3>1. v \notin damaged => iso[v] = SeedOf(vms[v])
      BY <1>0, <2>0, <2>4 DEF SeedInv, SeedsCurrent, Replaced
    <3>2. SeedStaged'
      BY <2>4 DEF SeedStaged, Free
    <3> QED
      BY <1>0, <2>0, <2>4, <3>1, <3>2, SeedOfOne
  <2> QED
    BY <1>4, <2>1, <2>2, <2>3, <2>4 DEF SeedRename, SeedSave, SeedCommit, At
<1> QED
  BY <1>1, <1>2, <1>3, <1>4 DEF HeldStep

LEMMA SeedStep ==
    ASSUME TypeInv, ReservationInv, BusyInv, IdentityInv, SeedInv, [Next]_vars
    PROVE  SeedInv'
<1>0. held # Free => held.vm \in Ids /\ vms[held.vm] # None
  BY DEF TypeInv, HeldType, BusyInv, Defined
<1>1. ASSUME NEW v \in Ids,
             Start(v) \/ Exit(v) \/ \E d \in Disks : GuestWrites(v, d)
      PROVE  SeedInv'
  <2>1. UNCHANGED <<vms, iso, backup, creating, held, damaged, op>>
    BY <1>1 DEF Start, Exit, GuestWrites, memory, files, ghosts
  <2> QED
    BY <1>0, <2>1, SeedFrame DEF IsNew
<1>2. CASE Crash
  <2>1. /\ vms' = file /\ iso' = iso /\ held' = Free /\ damaged \subseteq damaged'
        /\ \A t \in Threads : op'[t] = NoOp
    BY <1>2 DEF Crash, files
  <2>2. \A v \in Ids \ damaged' : file[v] = vms[v] /\ ~Replaced(v)
    BY <1>2 DEF Crash, AtOdds, At, Replaced, ReservationInv, TypeInv, HeldType
  <2>3. SeedsCurrent' /\ SeedStaged' /\ SeedsProduced'
    BY <2>1, <2>2 DEF SeedInv, SeedsCurrent, SeedStaged, SeedsProduced, IsNew,
                      NoOp, Free
  <2> QED
    BY <2>3 DEF SeedInv
<1>3. CASE UNCHANGED vars
  <2>1. UNCHANGED <<vms, iso, backup, creating, held, damaged, op>>
    BY <1>3 DEF vars, memory, files, ghosts
  <2> QED
    BY <1>0, <2>1, SeedFrame DEF IsNew
<1> QED
  BY <1>1, <1>2, <1>3, SeedUnlocked, SeedEdits, SeedHeld DEF Next, HeldStep
-----------------------------------------------------------------------------
(***************************************************************************)
(* Clones.                                                                 *)
(***************************************************************************)
LEMMA CloneParts ==
    ASSUME TypeInv, ReservationInv, BusyInv, OwnershipInv
    PROVE  \A t \in Threads : op[t].kind = "clone" =>
              /\ op[t] # NoOp /\ OpType(op[t]) /\ op[t].vm \in Ids
              /\ op[t].source \in busy /\ op[t].source \in Ids
              /\ creating[op[t].vm] # None /\ vms[op[t].vm] = None
              /\ op[t].vm # op[t].source
              /\ \A d \in DOMAIN op[t].from :
                    d \in Disks /\ op[t].from[d] \in DisksOf(vms, op[t].source)
              /\ \A d \in DOMAIN op[t].from : op[t].from[d] \in Disks
<1>1. ASSUME NEW t \in Threads, op[t].kind = "clone"
      PROVE  /\ op[t] # NoOp /\ OpType(op[t]) /\ op[t].vm \in Ids
             /\ op[t].source \in busy /\ op[t].source \in Defined
             /\ op[t].source \in Ids
             /\ creating[op[t].vm] # None /\ vms[op[t].vm] = None
  BY <1>1 DEF TypeInv, OpType, NoOp, BusyInv, KeepsBusy, ReservationInv, IsNew
<1>2. ASSUME NEW t \in Threads, op[t].kind = "clone"
      PROVE  \A d \in DOMAIN op[t].from :
                 d \in Disks /\ op[t].from[d] \in DisksOf(vms, op[t].source)
  BY <1>1, <1>2 DEF OpType, BusyInv, DisksOf, Defined
<1> QED
  BY <1>1, <1>2, OwnedDisks DEF Defined

Faithful(o, clone, source, contents) ==
    /\ source # None
    /\ clone = [source EXCEPT !.name = clone.name, !.mac = clone.mac,
                              !.disks = clone.disks]
    /\ \A d \in DOMAIN o.from : contents[o.from[d]] = o.want[d]
    /\ \A d \in Produced(o) : contents[d] = o.want[d]

LEMMA CloneByThread ==
    /\ CloneIsFaithful <=>
          \A t \in Threads : op[t].kind = "clone" =>
              Faithful(op[t], creating[op[t].vm], vms[op[t].source], disk)
    /\ CloneIsFaithful' <=>
          \A t \in Threads : op'[t].kind = "clone" =>
              Faithful(op'[t], creating'[op'[t].vm], vms'[op'[t].source], disk')
BY DEF CloneIsFaithful, Faithful

LEMMA CloneFrame ==
    ASSUME CloneIsFaithful,
           \A t \in Threads : op'[t].kind = "clone" =>
               /\ op[t].kind = "clone"
               /\ op'[t].vm = op[t].vm /\ op'[t].source = op[t].source
               /\ op'[t].from = op[t].from /\ op'[t].todo = op[t].todo
               /\ op'[t].want = op[t].want
               /\ creating'[op[t].vm] = creating[op[t].vm]
               /\ vms'[op[t].source] = vms[op[t].source]
               /\ \A d \in DOMAIN op[t].from :
                     /\ disk'[d] = disk[d]
                     /\ disk'[op[t].from[d]] = disk[op[t].from[d]]
    PROVE  CloneIsFaithful'
<1> SUFFICES ASSUME NEW t \in Threads, op'[t].kind = "clone"
             PROVE  Faithful(op'[t], creating'[op[t].vm], vms'[op[t].source],
                             disk')
  BY CloneByThread
<1>1. Faithful(op[t], creating[op[t].vm], vms[op[t].source], disk)
  BY CloneByThread
<1>2. creating'[op[t].vm] = creating[op[t].vm]
      /\ vms'[op[t].source] = vms[op[t].source]
  OBVIOUS
<1>3. \A d \in DOMAIN op'[t].from : disk'[op'[t].from[d]] = op'[t].want[d]
  BY <1>1 DEF Faithful
<1>4. \A d \in Produced(op'[t]) : disk'[d] = op'[t].want[d]
  BY <1>1 DEF Faithful, Produced
<1> QED
  BY <1>1, <1>2, <1>3, <1>4 DEF Faithful

(***************************************************************************)
(* A handler with the mutex, or a guest, works on a machine that is not    *)
(* busy, and on disks of that machine.                                     *)
(***************************************************************************)
LEMMA CloneOthers ==
    ASSUME TypeInv, ReservationInv, BusyInv, OwnershipInv, CloneIsFaithful,
           UNCHANGED <<op, creating>>, NEW v \in Ids \ busy,
           \A w \in Ids \ {v} : vms'[w] = vms[w],
           \A d \in Disks : d \notin DisksOf(vms, v) => disk'[d] = disk[d]
    PROVE  CloneIsFaithful'
<1>1. \A t \in Threads : op[t].kind = "clone" =>
          /\ op[t].source \in Ids \ {v}
          /\ \A d \in DOMAIN op[t].from :
                /\ d \notin DisksOf(vms, v)
                /\ op[t].from[d] \notin DisksOf(vms, v)
  BY CloneParts DEF OwnershipInv
<1>2. \A t \in Threads : op[t].kind = "clone" =>
          /\ vms'[op[t].source] = vms[op[t].source]
          /\ \A d \in DOMAIN op[t].from :
                /\ disk'[d] = disk[d]
                /\ disk'[op[t].from[d]] = disk[op[t].from[d]]
  BY <1>1, CloneParts
<1> QED
  BY <1>2, CloneFrame

(***************************************************************************)
(* A request only produces and removes its own disks, which nobody copies. *)
(***************************************************************************)
LEMMA CloneDisks ==
    ASSUME TypeInv, ReservationInv, BusyInv, OwnershipInv,
           NEW t \in Threads, op[t] # NoOp,
           \A d \in Disks : d \notin DOMAIN op[t].from => disk'[d] = disk[d]
    PROVE  \A u \in Threads : op[u].kind = "clone" =>
              \A d \in DOMAIN op[u].from :
                  /\ disk'[op[u].from[d]] = disk[op[u].from[d]]
                  /\ u # t => disk'[d] = disk[d]
<1>1. \A u \in Threads : op[u].kind = "clone" =>
          \A d \in DOMAIN op[u].from :
              /\ op[u].from[d] \notin DOMAIN op[t].from
              /\ u # t => d \notin DOMAIN op[t].from
  BY CloneParts DEF OwnershipInv
<1> QED
  BY <1>1, CloneParts

LEMMA CloneBegins ==
    ASSUME TypeInv, ReservationInv, BusyInv, OwnershipInv, CloneIsFaithful,
           NEW t \in Threads, NEW v \in Ids, NEW kind, NEW source, NEW from,
           Begin(t, kind, v, source, from), UNCHANGED <<vms, disk>>,
           \A w \in Ids : w \in used => creating'[w] = creating[w],
           kind = "clone" =>
              /\ source \in Defined
              /\ \A d \in DOMAIN from : from[d] \in Disks
              /\ creating'[v] = [vms[source] EXCEPT
                                    !.name = creating'[v].name,
                                    !.mac = creating'[v].mac,
                                    !.disks = creating'[v].disks]
    PROVE  CloneIsFaithful'
<1> SUFFICES ASSUME NEW u \in Threads, op'[u].kind = "clone"
             PROVE  Faithful(op'[u], creating'[op'[u].vm], vms[op'[u].source],
                             disk)
  BY CloneByThread
<1>1. CASE u # t
  <2>1. op'[u] = op[u]
    BY <1>1 DEF Begin, TypeInv
  <2>2. op[u].vm \in Ids /\ op[u].vm \in used
    BY <2>1, CloneParts DEF ReservationInv
  <2> QED
    BY <2>1, <2>2, CloneByThread
<1>2. CASE u = t
  <2>1. /\ op'[t].kind = kind /\ op'[t].vm = v /\ op'[t].source = source
        /\ op'[t].from = from /\ op'[t].todo = DOMAIN from
        /\ op'[t].want = [d \in DOMAIN from |-> IF from[d] = None THEN None
                                                ELSE disk[from[d]]]
    BY <1>2 DEF Begin, TypeInv
  <2>2. \A d \in DOMAIN from : op'[t].want[d] = disk[from[d]]
    BY <1>2, <2>1, DefinitionConstants
  <2>3. Produced(op'[t]) = {}
    BY <2>1 DEF Produced
  <2> QED
    BY <1>2, <2>1, <2>2, <2>3 DEF Faithful, Defined
<1> QED
  BY <1>1, <1>2

LEMMA CloneUnlocked ==
    ASSUME TypeInv, ReservationInv, BusyInv, OwnershipInv, ContentInv,
           CloneIsFaithful, NEW t \in Threads, Unlocked(t)
    PROVE  CloneIsFaithful'
<1> USE DefinitionConstants, NoneIsDistinct
<1>1. ASSUME NEW v \in Ids, NEW x \in Definition, Create(t, v, x)
      PROVE  CloneIsFaithful'
  <2>1. \A w \in Ids : w \in used => creating'[w] = creating[w]
    BY <1>1 DEF Create, TypeInv
  <2> DEFINE from == [d \in x.disks |-> None]
  <2>2. Begin(t, "create", v, v, from) /\ UNCHANGED <<vms, disk>>
    BY <1>1 DEF Create, files
  <2> HIDE DEF from
  <2> QED
    BY <2>1, <2>2, CloneBegins
<1>2. ASSUME NEW s \in Ids, NEW v \in Ids, NEW n \in Names,
             NEW m \in Macs \cup {None}, NEW disks \in SUBSET (Disks \ used),
             s \in Defined, NEW from \in [disks -> vms[s].disks],
             Clone(t, s, v, n, m, from)
      PROVE  CloneIsFaithful'
  <2>1. vms[s] \in Definition /\ vms[s].disks \subseteq Disks
    BY <1>2 DEF Defined, TypeInv, MaybeDefinition, Definition
  <2>2. creating'[v] = [vms[s] EXCEPT !.name = n, !.mac = m, !.disks = DOMAIN from]
    BY <1>2 DEF Clone, TypeInv
  <2>3. /\ creating'[v].name = n /\ creating'[v].mac = m
        /\ creating'[v].disks = DOMAIN from
    BY <2>1, <2>2 DEF Definition
  <2>4. creating'[v] = [vms[s] EXCEPT !.name = creating'[v].name,
                                      !.mac = creating'[v].mac,
                                      !.disks = creating'[v].disks]
    BY <2>2, <2>3
  <2>5. \A w \in Ids : w \in used => creating'[w] = creating[w]
    BY <1>2 DEF Clone, TypeInv
  <2>6. Begin(t, "clone", v, s, from) /\ UNCHANGED <<vms, disk>>
    BY <1>2 DEF Clone, files
  <2> QED
    BY <1>2, <2>1, <2>4, <2>5, <2>6, CloneBegins
<1>3. ASSUME NEW v \in Ids, NEW d \in Disks, AddDisk(t, v, d)
      PROVE  CloneIsFaithful'
  <2> DEFINE from == [e \in {d} |-> None]
  <2>1. Begin(t, "add", v, v, from) /\ UNCHANGED <<vms, disk, creating>>
    BY <1>3 DEF AddDisk, files
  <2> HIDE DEF from
  <2> QED
    BY <2>1, CloneBegins
<1>4. ASSUME NEW d \in Disks, Produce(t, d)
      PROVE  CloneIsFaithful'
  <2>1. /\ OpType(op[t]) /\ op[t] # NoOp /\ d \in op[t].todo
        /\ d \in DOMAIN op[t].from /\ UNCHANGED <<vms, creating>>
        /\ \A e \in Disks \ {d} : disk'[e] = disk[e]
    BY <1>4 DEF Produce, TypeInv, NoOp, OpType
  <2>2. /\ op'[t].kind = op[t].kind /\ op'[t].vm = op[t].vm
        /\ op'[t].source = op[t].source /\ op'[t].from = op[t].from
        /\ op'[t].want = op[t].want
        /\ \A u \in Threads \ {t} : op'[u] = op[u]
        /\ \/ op'[t].todo = op[t].todo
           \/ /\ op'[t].todo = op[t].todo \ {d}
              /\ op[t].from[d] # None => disk'[d] = disk[op[t].from[d]]
    BY <1>4, <2>1 DEF Produce, TypeInv, OpType, OpFields
  <2>3. \A u \in Threads : op[u].kind = "clone" =>
           \A e \in DOMAIN op[u].from :
               /\ disk'[op[u].from[e]] = disk[op[u].from[e]]
               /\ u # t => disk'[e] = disk[e]
    BY <2>1, CloneDisks
  <2>4. ASSUME NEW u \in Threads, u # t, op[u].kind = "clone"
        PROVE  Faithful(op[u], creating[op[u].vm], vms[op[u].source], disk')
    <3>1. Faithful(op[u], creating[op[u].vm], vms[op[u].source], disk)
      BY <2>4, CloneByThread
    <3> QED
      BY <2>3, <2>4, <3>1 DEF Faithful, Produced
  <2>5. ASSUME op[t].kind = "clone"
        PROVE  Faithful(op'[t], creating[op[t].vm], vms[op[t].source], disk')
    <3>1. Faithful(op[t], creating[op[t].vm], vms[op[t].source], disk)
      BY <2>5, CloneByThread
    <3>2. \A e \in DOMAIN op[t].from : e \in Disks /\ op[t].from[e] # None
      BY <2>5, CloneParts
    <3>3. \A e \in DOMAIN op'[t].from : disk'[op'[t].from[e]] = op'[t].want[e]
      BY <2>2, <2>3, <2>5, <3>1 DEF Faithful
    <3>4. \A e \in Produced(op'[t]) : disk'[e] = op'[t].want[e]
      BY <2>1, <2>2, <3>1, <3>2 DEF Faithful, Produced
    <3> QED
      BY <3>1, <3>3, <3>4 DEF Faithful
  <2> QED
    BY <2>1, <2>2, <2>4, <2>5, CloneByThread
<1>5. CASE ProduceState(t)
  <2>1. OpType(op[t]) /\ UNCHANGED <<vms, creating, disk>>
    BY <1>5 DEF ProduceState, TypeInv, NoOp
  <2>2. \A u \in Threads :
            /\ op'[u].kind = op[u].kind /\ op'[u].vm = op[u].vm
            /\ op'[u].source = op[u].source /\ op'[u].from = op[u].from
            /\ op'[u].todo = op[u].todo /\ op'[u].want = op[u].want
    BY <1>5, <2>1 DEF ProduceState, TypeInv, OpType, OpFields
  <2> QED
    BY <2>1, <2>2, CloneFrame
<1>6. CASE FinishNew(t) \/ FinishAddDisk(t)
  <2> DEFINE v == op[t].vm
  <2>1. /\ OpType(op[t]) /\ op[t] # NoOp /\ op'[t] = NoOp /\ v \in Ids
        /\ \A u \in Threads \ {t} : op'[u] = op[u]
        /\ creating' = [creating EXCEPT ![v] = None]
    BY <1>6 DEF FinishNew, FinishAddDisk, Released, TypeInv, NoOp, OpType
  <2>2. \A d \in Disks : d \notin DOMAIN op[t].from => disk'[d] = disk[d]
    BY <1>6, <2>1 DEF FinishNew, FinishAddDisk, Discard, Produced, OpType
  <2>3. \A w \in Ids \ {v} : vms'[w] = vms[w]
    BY <1>6, <2>1 DEF FinishNew, FinishAddDisk, TypeInv
  <2>4. \A u \in Threads \ {t} : op[u].kind = "clone" =>
            op[u].vm # v /\ op[u].source # v
    <3>1. CASE op[t].kind = "add"
      <4>1. op[t].source = v /\ vms[v] # None /\ creating[v] = None
        BY <2>1, <3>1 DEF BusyInv, KeepsBusy, Defined, ReservationInv
      <4> QED
        BY <3>1, <4>1, CloneParts DEF BusyInv, KeepsBusy
    <3>2. CASE IsNew(t)
      <4>1. vms[v] = None
        BY <2>1, <3>2 DEF ReservationInv
      <4>2. \A u \in Threads : op[u].kind = "clone" => vms[op[u].source] # None
        BY CloneParts DEF BusyInv, Defined
      <4> QED
        BY <3>2, <4>1, <4>2 DEF ReservationInv, IsNew
    <3> QED
      BY <1>6, <3>1, <3>2 DEF FinishNew, FinishAddDisk, IsNew
  <2>5. ASSUME NEW u \in Threads, op'[u].kind = "clone"
        PROVE  /\ u # t /\ op'[u] = op[u]
               /\ creating'[op[u].vm] = creating[op[u].vm]
               /\ vms'[op[u].source] = vms[op[u].source]
    <3>1. u # t /\ op'[u] = op[u]
      BY <2>1, <2>5 DEF NoOp
    <3> QED
      BY <2>1, <2>3, <2>4, <2>5, <3>1, CloneParts DEF TypeInv
  <2>6. \A u \in Threads : op[u].kind = "clone" =>
           \A e \in DOMAIN op[u].from :
               /\ disk'[op[u].from[e]] = disk[op[u].from[e]]
               /\ u # t => disk'[e] = disk[e]
    BY <2>1, <2>2, CloneDisks
  <2> QED
    BY <2>5, <2>6, CloneFrame
<1> QED
  BY <1>1, <1>2, <1>3, <1>4, <1>5, <1>6 DEF Unlocked

LEMMA CloneStep ==
    ASSUME TypeInv, ReservationInv, BusyInv, IdentityInv, OwnershipInv,
           ContentInv, CloneIsFaithful, [Next]_vars
    PROVE  CloneIsFaithful'
<1> USE DefinitionConstants, NoneIsDistinct
<1>1. ASSUME NEW v \in Ids, Edits(v)
      PROVE  CloneIsFaithful'
  <2>0. v \notin busy /\ vms[v] # None
    BY <1>1, EditCases DEF Editable, RequireIdle, Defined
  <2>1. UNCHANGED <<op, creating>> /\ \A w \in Ids \ {v} : vms'[w] = vms[w]
    BY <1>1, EditCases DEF PlainEdit, Edit, Commit, SeedEdit, StageSeed,
                           RemoveDisk, Delete, TypeInv
  <2>2. \A d \in Disks : d \notin DisksOf(vms, v) => disk'[d] = disk[d]
    <3>1. CASE \E d \in Disks : RemoveDisk(v, d)
      BY <2>0, <3>1 DEF RemoveDisk, DisksOf, TypeInv
    <3> QED
      BY <1>1, <3>1, EditCases DEF PlainEdit, Edit, SeedEdit, StageSeed, Delete,
                                   files
  <2> QED
    BY <2>0, <2>1, <2>2, CloneOthers
<1>2. CASE HeldStep
  <2> DEFINE v == held.vm
  <2>0. HeldType(held) /\ held # Free /\ v \in Ids /\ v \notin busy
        /\ vms[v] # None
    BY <1>2, HeldStepIsHeld DEF HeldType, Free, HeldFields, BusyInv, Defined
  <2>1. UNCHANGED <<op, creating>> /\ \A w \in Ids \ {v} : vms'[w] = vms[w]
    BY <1>2, <2>0
    DEF HeldStep, DeleteFiles, DeleteSave, RemoveDiskSave, RemoveDiskClean,
        SeedRename, SeedSave, SeedCommit, Commit, TypeInv
  <2>2. \A d \in Disks : d \notin DisksOf(vms, v) => disk'[d] = disk[d]
    <3>1. CASE DeleteFiles
      BY <2>0, <3>1 DEF DeleteFiles, DisksOf, TypeInv
    <3>2. CASE RemoveDiskSave
      <4>1. held.disk \in DisksOf(vms, v)
        BY <2>0, <3>2 DEF RemoveDiskSave, BusyInv, DisksOf
      <4> QED
        BY <3>2, <4>1 DEF RemoveDiskSave, TypeInv
    <3> QED
      BY <1>2, <3>1, <3>2
      DEF HeldStep, DeleteSave, RemoveDiskClean, SeedRename, SeedSave,
          SeedCommit, files
  <2> QED
    BY <2>0, <2>1, <2>2, CloneOthers
<1>3. ASSUME NEW v \in Ids, Start(v) \/ Exit(v)
      PROVE  CloneIsFaithful'
  BY <1>3, CloneFrame DEF Start, Exit, memory, files
<1>4. ASSUME NEW v \in Ids, NEW d \in Disks, GuestWrites(v, d)
      PROVE  CloneIsFaithful'
  <2>1. v \notin busy /\ d \in DisksOf(vms, v)
    BY <1>4 DEF GuestWrites, BusyInv, Defined, DisksOf
  <2>2. /\ UNCHANGED <<op, creating, vms>>
        /\ \A e \in Disks : e \notin DisksOf(vms, v) => disk'[e] = disk[e]
    BY <1>4, <2>1 DEF GuestWrites, memory, TypeInv
  <2> QED
    BY <2>1, <2>2, CloneOthers
<1>5. CASE Crash
  BY <1>5 DEF Crash, CloneIsFaithful, NoOp
<1>6. CASE UNCHANGED vars
  BY <1>6, CloneFrame DEF vars, memory, files
<1> QED
  BY <1>1, <1>2, <1>3, <1>4, <1>5, <1>6, CloneUnlocked DEF Next, HeldStep
-----------------------------------------------------------------------------
(***************************************************************************)
(* The inductive invariant, and what follows from it.                      *)
(***************************************************************************)
LEMMA InitInv == Init => IInv
<1> SUFFICES ASSUME Init PROVE IInv
  OBVIOUS
<1> USE DefinitionConstants, NoneIsDistinct, DiskValues
<1>1. TypeInv
  BY InitTypes
<1>2. /\ \A v \in Ids : vms[v] = None /\ file[v] = None /\ creating[v] = None
      /\ \A t \in Threads : op[t] = NoOp
      /\ \A d \in Disks : disk[d] = None /\ removing[d] = None
      /\ held = Free /\ busy = {} /\ running = {} /\ used = {}
  BY DEF Init
<1>3. ReservationInv /\ BusyInv
  BY <1>2 DEF ReservationInv, BusyInv, IsNew, KeepsBusy, NoOp
<1>4. IdentityInv
  BY <1>2 DEF IdentityInv, Identities, Known, Defined, Free
<1>5. OwnershipInv
  BY <1>2 DEF OwnershipInv, DisksOf
<1>6. ContentInv
  BY <1>2 DEF ContentInv, UnusedDisks, MachineDisks, RequestDisks, HeldDisks,
              NoOrphans, DisksOf, At, Free
<1>7. SeedInv
  BY <1>2 DEF SeedInv, SeedsCurrent, SeedStaged, SeedsProduced, IsNew, NoOp, Free
<1>8. CloneIsFaithful
  BY <1>2 DEF CloneIsFaithful, NoOp
<1> QED
  BY <1>1, <1>3, <1>4, <1>5, <1>6, <1>7, <1>8 DEF IInv

LEMMA InductiveStep == IInv /\ [Next]_vars => IInv'
<1> SUFFICES ASSUME IInv, [Next]_vars PROVE IInv'
  OBVIOUS
<1>1. TypeInv'
  BY TypeStep DEF IInv
<1>2. ReservationInv' /\ BusyInv' /\ IdentityInv' /\ OwnershipInv'
  BY ReservationStep, BusyStep, IdentityStep, OwnershipStep DEF IInv
<1>3. ContentInv' /\ SeedInv' /\ CloneIsFaithful'
  BY <1>1, <1>2, ContentStep, SeedStep, CloneStep DEF IInv
<1> QED
  BY <1>1, <1>2, <1>3 DEF IInv

LEMMA InvariantHolds == Spec => []IInv
BY InitInv, InductiveStep, PTL DEF Spec

(***************************************************************************)
(* However many creations, clones and renames overlap, and whichever of    *)
(* them fail or are cut off by a crash, no two machines that are defined,  *)
(* being created or stored in vms.json share a name or a MAC address       *)
(* (nameInUseLocked, macAddressInUseLocked, m.creating).                   *)
(***************************************************************************)
THEOREM NoTwoMachinesAlike == Spec => []IdentitiesUnique
<1>1. IInv => IdentitiesUnique
  BY DEF IInv, IdentityInv, IdentitiesUnique, Known
<1> QED
  BY <1>1, InvariantHolds, PTL

(***************************************************************************)
(* Create, Clone, AddDisk, RemoveDisk and Delete lose no disk and leak     *)
(* none: a definition's disks are there and complete, in memory and after  *)
(* a restart, and without a crash every complete disk file belongs to a    *)
(* definition or a request.                                                *)
(***************************************************************************)
THEOREM NoDiskLostOrLeaked == Spec => []DisksAccounted
<1>1. ASSUME IInv
      PROVE  DisksAccounted
  <2>1. \A v \in Ids : Settled(v) =>
            v \notin damaged /\ file[v] = vms[v] /\ \A d : ~Taken(v, d)
    BY <1>1, NoneIsDistinct
    DEF IInv, ReservationInv, Settled, Taken
  <2>2. DisksThere(vms)
    BY <1>1, <2>1 DEF IInv, ContentInv, MachineDisks, DisksThere, DisksOf,
                      Written
  <2>3. DisksThere(file)
    BY <2>1, <2>2 DEF DisksThere
  <2> QED
    BY <1>1, <2>2, <2>3 DEF IInv, ContentInv, NoOrphans, DisksAccounted, Written
<1> QED
  BY <1>1, InvariantHolds, PTL

(***************************************************************************)
(* stageCloudInitISO, the save and the commit or rollback after it keep    *)
(* every seed image equal to what the definition says, across failures of  *)
(* each of them, for clones and new machines as well.                      *)
(***************************************************************************)
THEOREM SeedImagesMatch == Spec => []SeedMatches
<1>1. ASSUME IInv
      PROVE  SeedMatches
  <2>1. \A v \in Ids : Settled(v) =>
            v \notin damaged /\ file[v] = vms[v] /\ ~Replaced(v)
    BY <1>1 DEF IInv, ReservationInv, Settled, Replaced
  <2> QED
    BY <1>1, <2>1 DEF IInv, SeedInv, SeedsCurrent, SeedMatches
<1> QED
  BY <1>1, InvariantHolds, PTL

(***************************************************************************)
(* A clone copies the machine as it was when the request came in, although *)
(* the disks are copied without the mutex: m.busy keeps every handler and  *)
(* every guest away from the source and its disks.                         *)
(***************************************************************************)
THEOREM ClonesAreFaithful == Spec => []CloneIsFaithful
BY InvariantHolds, PTL DEF IInv
=============================================================================
