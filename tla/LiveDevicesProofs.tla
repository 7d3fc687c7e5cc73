------------------------- MODULE LiveDevicesProofs -------------------------
(***************************************************************************)
(* Safety of the virtual BMCs and of the optical drives, for every number  *)
(* of machines, addresses, drives, failures and restarts.                  *)
(*                                                                         *)
(* The inductive invariant says what is true in the middle of a handler    *)
(* and of start-up, where the properties say nothing: what the handler     *)
(* with the mutex has done to the hardware and not yet saved, which        *)
(* machines Reconcile has still to restore, and what vms.json would bring  *)
(* back after a crash.                                                     *)
(***************************************************************************)
EXTENDS LiveDevices, SequenceTheorems, TLAPS

Drive == [id : Drives, iso : Media]
Record == [bmc : BMC \cup {None}, boot : Overrides, drives : Seq(Drive),
           active : BOOLEAN, defined : BOOLEAN]

HeldType(h) ==
    /\ h.vm \in VMs
    /\ \/ h.kind = "bmc" /\ h.next \in BMC \cup {None}
       \/ h.kind = "cdrom" /\ h.next \in Media
       \/ h.kind \in {"delete", "start"}

TypeInv ==
    /\ vms \in [VMs -> Record] /\ file \in [VMs -> Record]
    /\ endpoint \in [VMs -> Endpoint \cup {None}]
    /\ DOMAIN guest = VMs
    /\ todo \subseteq VMs /\ spent \subseteq VMs /\ up \in BOOLEAN
    /\ held = Free \/ HeldType(held)

(***************************************************************************)
(* Without App Runner there is no endpoint and no handler.  Requests come  *)
(* after start-up; a machine that Reconcile has yet to restore has a BMC   *)
(* and no endpoint.                                                        *)
(***************************************************************************)
ControlInv ==
    /\ ~up => /\ held = Free /\ todo = {}
              /\ \A v \in VMs : endpoint[v] = None
    /\ held.kind \in {"bmc", "delete", "cdrom"} => todo = {}
    /\ \A v \in todo : endpoint[v] = None /\ vms[v].bmc # None
    /\ held.kind = "delete" => endpoint[held.vm] = None

(***************************************************************************)
(* The endpoint serves what is recorded, or what the handler that is about *)
(* to save has brought up.                                                 *)
(***************************************************************************)
Answers(e, bmc) ==
    IF bmc = None THEN e = None
    ELSE e # None /\ e.running /\ e.addr = bmc.addr /\ e.login = bmc.login

Pending(v) == held.kind \in {"bmc", "delete"} /\ held.vm = v

RecordInv ==
    /\ up => \A v \in VMs \ (unsettled \cup todo) :
                ~Pending(v) => Answers(endpoint[v], vms[v].bmc)
    /\ held.kind = "bmc" =>
          held.vm \in unsettled \/ Answers(endpoint[held.vm], held.next)

(***************************************************************************)
(* Media.  What runs matches memory, and what a restart would read, but    *)
(* for the drive whose change is not saved yet.  Memory and vms.json agree *)
(* on the drives of a machine unless its deletion was not saved.           *)
(***************************************************************************)
Changing(v, i) == held.kind = "cdrom" /\ held.vm = v /\ held.at = i

Holds(v, drives) ==
    /\ DOMAIN guest[v] = DOMAIN drives
    /\ \A i \in DOMAIN guest[v] :
          \/ <<v, i>> \in strayed
          \/ Changing(v, i)
          \/ guest[v][i] = drives[i].iso

Matches(v) ==
    /\ vms[v].defined => file[v].drives = vms[v].drives
    /\ vms[v].active /\ guest[v] # None => Holds(v, vms[v].drives)
    /\ file[v].active /\ guest[v] # None => Holds(v, file[v].drives)

MediaInv ==
    /\ \A v \in VMs : Matches(v)
    /\ held.kind = "cdrom" =>
          /\ vms[held.vm].defined /\ vms[held.vm].active
          /\ held.at \in DOMAIN vms[held.vm].drives
          /\ guest[held.vm] # None => guest[held.vm][held.at] = held.next
    /\ held.kind = "start" =>
          /\ vms[held.vm].defined
          /\ guest[held.vm] # None => Holds(held.vm, vms[held.vm].drives)

IInv == /\ TypeInv /\ ControlInv /\ EndpointsReachable /\ RecordInv
        /\ MediaInv /\ OneShotIsOnce
-----------------------------------------------------------------------------
(***************************************************************************)
(* What a handler makes of the record of its machine.                      *)
(***************************************************************************)
Same(r, s, fields) == \A f \in fields : r[f] = s[f]

LEMMA RecordEdits ==
    ASSUME NEW r \in Record
    PROVE  /\ \A a \in BOOLEAN :
                 LET s == [r EXCEPT !.active = a]
                 IN  /\ s \in Record /\ s.active = a
                     /\ Same(s, r, {"bmc", "boot", "drives", "defined"})
           /\ \A drives \in Seq(Drive) :
                 LET s == [r EXCEPT !.drives = drives]
                 IN  /\ s \in Record /\ s.drives = drives
                     /\ Same(s, r, {"bmc", "boot", "active", "defined"})
BY DEF Record, Same

LEMMA NewRecord ==
    \A b \in BOOLEAN : /\ Machine(b) \in Record /\ Machine(b).bmc = None
                       /\ Machine(b).boot = "no" /\ Machine(b).active = FALSE
                       /\ Machine(b).defined = b
BY DEF Machine, Record, Overrides

(***************************************************************************)
(* vms.json is replaced by what memory holds, or left alone.               *)
(***************************************************************************)
Changed(v) ==
    /\ \A w \in VMs \ {v} : vms'[w] = vms[w]
    /\ vms' \in [VMs -> Record]
    /\ file' = vms' \/ file' = file

LEMMA SavedIPMI ==
    ASSUME TypeInv, SaveIPMI
    PROVE  /\ HeldType(held) /\ held.next \in BMC \cup {None}
           /\ Changed(held.vm) /\ file' = vms'
           /\ vms'[held.vm].bmc = held.next /\ vms'[held.vm].boot = "no"
           /\ Same(vms'[held.vm], vms[held.vm], {"drives", "active", "defined"})
<1>1. HeldType(held) /\ held.vm \in VMs /\ held.next \in BMC \cup {None}
  BY DEF SaveIPMI, TypeInv, HeldType, Free
<1>2. vms'[held.vm] = [[vms[held.vm] EXCEPT !.bmc = held.next]
                           EXCEPT !.boot = "no"]
  BY <1>1 DEF SaveIPMI, TypeInv, Record
<1>3. \A w \in VMs \ {held.vm} : vms'[w] = vms[w]
  BY DEF SaveIPMI, TypeInv
<1>4. DOMAIN vms' = VMs /\ file' = vms' /\ vms' = [w \in VMs |-> vms'[w]]
  BY DEF SaveIPMI, TypeInv
<1>5. vms[held.vm] \in Record
  BY <1>1 DEF TypeInv
<1>6. /\ vms'[held.vm] \in Record
      /\ vms'[held.vm].bmc = held.next /\ vms'[held.vm].boot = "no"
      /\ Same(vms'[held.vm], vms[held.vm], {"drives", "active", "defined"})
  BY <1>1, <1>2, <1>5 DEF Record, Same, Overrides
<1> QED
  BY <1>1, <1>3, <1>4, <1>6 DEF Changed, TypeInv

LEMMA SavedFlags ==
    ASSUME TypeInv, NEW v \in VMs, NEW b \in Overrides,
           SetIPMIBootFlags(v, b)
    PROVE  /\ Changed(v) /\ vms'[v].boot = b
           /\ Same(vms'[v], vms[v], {"bmc", "drives", "active", "defined"})
<1>1. /\ vms'[v] = [vms[v] EXCEPT !.boot = b] /\ vms[v] \in Record
      /\ \A w \in VMs \ {v} : vms'[w] = vms[w]
      /\ vms' = [w \in VMs |-> vms'[w]] /\ (file' = vms' \/ file' = file)
  BY DEF SetIPMIBootFlags, TypeInv
<1>2. /\ vms'[v] \in Record /\ vms'[v].boot = b
      /\ Same(vms'[v], vms[v], {"bmc", "drives", "active", "defined"})
  BY <1>1 DEF Record, Same
<1> QED
  BY <1>1, <1>2 DEF Changed, TypeInv

LEMMA SavedStart ==
    ASSUME TypeInv, SaveStart
    PROVE  /\ HeldType(held) /\ Changed(held.vm)
           /\ vms'[held.vm].boot # "once" /\ vms'[held.vm].active
           /\ Same(vms'[held.vm], vms[held.vm], {"bmc", "drives", "defined"})
<1> DEFINE v == held.vm
           r == [vms[v] EXCEPT !.active = TRUE]
<1>1. HeldType(held) /\ v \in VMs /\ vms[v] \in Record
  BY DEF SaveStart, TypeInv, HeldType, Free
<1>2. /\ r \in Record /\ r.active = TRUE
      /\ Same(r, vms[v], {"bmc", "boot", "drives", "defined"})
  BY <1>1, RecordEdits
<1>3. /\ vms'[v] = [r EXCEPT !.boot = UseOverride(r.boot)]
      /\ \A w \in VMs \ {v} : vms'[w] = vms[w]
      /\ vms' = [w \in VMs |-> vms'[w]] /\ (file' = vms' \/ file' = file)
  BY <1>1, <1>2 DEF SaveStart, TypeInv, Same
<1>4. UseOverride(r.boot) \in Overrides /\ UseOverride(r.boot) # "once"
  BY <1>2 DEF UseOverride, Overrides, Record
<1> HIDE DEF r
<1>5. /\ vms'[v] \in Record /\ vms'[v].boot # "once"
      /\ Same(vms'[v], r, {"bmc", "drives", "active", "defined"})
  BY <1>2, <1>3, <1>4 DEF Record, Same
<1> QED
  BY <1>1, <1>2, <1>3, <1>5 DEF Changed, TypeInv, Same

LEMMA SavedExit ==
    ASSUME TypeInv, NEW v \in VMs, ProcessExited(v)
    PROVE  /\ Changed(v) /\ ~vms'[v].active
           /\ Same(vms'[v], vms[v], {"bmc", "boot", "drives", "defined"})
<1>1. /\ vms'[v] = [vms[v] EXCEPT !.active = FALSE] /\ vms[v] \in Record
      /\ \A w \in VMs \ {v} : vms'[w] = vms[w]
      /\ vms' = [w \in VMs |-> vms'[w]] /\ (file' = vms' \/ file' = file)
  BY DEF ProcessExited, TypeInv
<1>2. /\ vms'[v] \in Record /\ ~vms'[v].active
      /\ Same(vms'[v], vms[v], {"bmc", "boot", "drives", "defined"})
  BY <1>1, RecordEdits
<1> QED
  BY <1>1, <1>2 DEF Changed, TypeInv

LEMMA SavedDelete ==
    ASSUME TypeInv, SaveDelete
    PROVE  /\ HeldType(held) /\ Changed(held.vm)
           /\ vms'[held.vm] = Machine(FALSE) \/ UNCHANGED <<vms, file>>
<1>1. HeldType(held) /\ held.vm \in VMs
  BY DEF SaveDelete, TypeInv, HeldType, Free
<1> QED
  BY ZenonT(60), <1>1, NewRecord DEF SaveDelete, Changed, TypeInv

(***************************************************************************)
(* A new list of drives, saved at once.                                    *)
(***************************************************************************)
LEMMA SavedDrives ==
    ASSUME TypeInv, NEW v \in VMs, NEW drives \in Seq(Drive),
           vms' = [vms EXCEPT ![v].drives = drives], file' = vms'
    PROVE  /\ Changed(v) /\ vms'[v].drives = drives
           /\ Same(vms'[v], vms[v], {"bmc", "boot", "active", "defined"})
<1>1. /\ vms'[v] = [vms[v] EXCEPT !.drives = drives] /\ vms[v] \in Record
      /\ \A w \in VMs \ {v} : vms'[w] = vms[w]
      /\ vms' = [w \in VMs |-> vms'[w]]
  BY DEF TypeInv
<1>2. /\ vms'[v] \in Record /\ vms'[v].drives = drives
      /\ Same(vms'[v], vms[v], {"bmc", "boot", "active", "defined"})
  BY <1>1, RecordEdits
<1> QED
  BY <1>1, <1>2 DEF Changed, TypeInv

LEMMA DrivesEdited ==
    ASSUME NEW drives \in Seq(Drive)
    PROVE  /\ \A x \in Drive : Append(drives, x) \in Seq(Drive)
           /\ \A i \in DOMAIN drives : RemoveAt(drives, i) \in Seq(Drive)
           /\ \A i \in DOMAIN drives, iso \in Media :
                 LET new == [drives EXCEPT ![i].iso = iso]
                 IN  /\ new \in Seq(Drive) /\ DOMAIN new = DOMAIN drives
                     /\ new[i].iso = iso
                     /\ \A j \in DOMAIN drives \ {i} : new[j] = drives[j]
<1>1. Len(drives) \in Nat /\ DOMAIN drives = 1..Len(drives)
      /\ \A i \in DOMAIN drives : drives[i] \in Drive
  BY LenProperties, ElementOfSeq
<1>2. \A x \in Drive : Append(drives, x) \in Seq(Drive)
  OBVIOUS
<1>3. ASSUME NEW i \in DOMAIN drives
      PROVE  RemoveAt(drives, i) \in Seq(Drive)
  <2>1. SubSeq(drives, 1, i - 1) \in Seq(Drive)
    BY <1>1, SubSeqProperties
  <2>2. SubSeq(drives, i + 1, Len(drives)) \in Seq(Drive)
    BY <1>1, SubSeqProperties
  <2> QED
    BY <2>1, <2>2, ConcatProperties DEF RemoveAt
<1>4. ASSUME NEW i \in DOMAIN drives, NEW iso \in Media
      PROVE  LET new == [drives EXCEPT ![i].iso = iso]
             IN  /\ new \in Seq(Drive) /\ DOMAIN new = DOMAIN drives
                 /\ new[i].iso = iso
                 /\ \A j \in DOMAIN drives \ {i} : new[j] = drives[j]
  <2> DEFINE x == [drives[i] EXCEPT !.iso = iso]
  <2>1. x \in Drive /\ x.iso = iso
    BY <1>1 DEF Drive
  <2> HIDE DEF x
  <2>2. [drives EXCEPT ![i] = x] \in Seq(Drive)
    BY <1>1, <2>1, ExceptSeq
  <2> QED
    BY <1>1, <2>1, <2>2 DEF x
<1> QED
  BY <1>2, <1>3, <1>4

LEMMA SavedMedium ==
    ASSUME TypeInv, NEW v \in VMs, NEW i \in DOMAIN vms[v].drives,
           NEW iso \in Media,
           vms' = [vms EXCEPT ![v].drives[i].iso = iso], file' = vms'
    PROVE  /\ Changed(v) /\ DOMAIN vms'[v].drives = DOMAIN vms[v].drives
           /\ vms'[v].drives[i].iso = iso
           /\ \A j \in DOMAIN vms[v].drives \ {i} :
                 vms'[v].drives[j] = vms[v].drives[j]
           /\ Same(vms'[v], vms[v], {"bmc", "boot", "active", "defined"})
<1> DEFINE new == [vms[v].drives EXCEPT ![i].iso = iso]
<1>1. vms[v].drives \in Seq(Drive)
  BY DEF TypeInv, Record
<1>2. /\ new \in Seq(Drive) /\ DOMAIN new = DOMAIN vms[v].drives
      /\ new[i].iso = iso
      /\ \A j \in DOMAIN vms[v].drives \ {i} : new[j] = vms[v].drives[j]
  BY <1>1, DrivesEdited
<1>3. vms' = [vms EXCEPT ![v].drives = new]
  OBVIOUS
<1> HIDE DEF new
<1> QED
  BY <1>2, <1>3, SavedDrives

LEMMA Restarted ==
    ASSUME TypeInv, NewManager
    PROVE  /\ vms' \in [VMs -> Record] /\ file' = vms'
           /\ \A v \in VMs :
                 /\ Same(vms'[v], file[v], {"bmc", "boot", "drives", "defined"})
                 /\ vms'[v].active => file[v].active /\ guest[v] # None
<1>1. ASSUME NEW v \in VMs
      PROVE  /\ vms'[v] \in Record
             /\ Same(vms'[v], file[v], {"bmc", "boot", "drives", "defined"})
             /\ vms'[v].active = (file[v].active /\ guest[v] # None)
  <2>1. /\ file[v] \in Record /\ (file[v].active /\ guest[v] # None) \in BOOLEAN
        /\ vms'[v] = [file[v] EXCEPT !.active = file[v].active /\ guest[v] # None]
    BY DEF NewManager, TypeInv
  <2> QED
    BY <2>1, RecordEdits
<1> QED
  BY <1>1 DEF NewManager
-----------------------------------------------------------------------------
(***************************************************************************)
(* What disableLocked and Configure may leave behind: other machines keep  *)
(* their endpoints, and the addresses of their endpoints, unless they      *)
(* share the one that is given up.                                         *)
(***************************************************************************)
Endpoints == [VMs -> Endpoint \cup {None}]
OutcomeFields == {"endpoint", "assigned", "ok", "failed"}

LEMMA DisableOutcome ==
    ASSUME NEW v \in VMs, NEW eps \in Endpoints, NEW addrs,
           NEW o \in DisableLocked(v, eps, addrs)
    PROVE  /\ o.endpoint \in Endpoints /\ o.ok /\ o.endpoint[v] = None
           /\ \A w \in VMs \ {v} : o.endpoint[w] = eps[w]
           /\ o.assigned \subseteq addrs
           /\ \A a \in addrs : eps[v] = None \/ a # eps[v].addr =>
                 a \in o.assigned
           /\ eps[v] = None => o.endpoint = eps /\ o.assigned = addrs /\ ~o.failed
BY DEF DisableLocked, Outcome, Endpoints

LEMMA ListenOutcome ==
    ASSUME NEW v \in VMs, NEW eps \in Endpoints, NEW addrs, NEW bmc \in BMC,
           eps[v] = None, NEW o \in Listen(v, bmc, eps, addrs)
    PROVE  /\ DOMAIN o = OutcomeFields /\ o.endpoint \in Endpoints
           /\ \A w \in VMs \ {v} : o.endpoint[w] = eps[w]
           /\ addrs \subseteq o.assigned
           /\ o.ok => Answers(o.endpoint[v], bmc)
           /\ \/ o.endpoint[v] = None
              \/ Answers(o.endpoint[v], bmc) /\ bmc.addr \in o.assigned
           /\ bmc.addr \notin addrs /\ ~o.failed => o.ok
<1> DEFINE e == [addr |-> bmc.addr, login |-> bmc.login, running |-> TRUE]
<1>0. e \in Endpoint /\ e.addr = bmc.addr /\ e.login = bmc.login
  BY DEF Endpoint, BMC
<1>1. e \in Endpoint /\ bmc # None /\ e # None
      /\ e.addr = bmc.addr /\ e.login = bmc.login
  BY <1>0, NoneIsDistinct
<1>2. Answers(e, bmc)
  BY <1>1 DEF Answers
<1> HIDE DEF e
<1>3. CASE o = Outcome(eps, addrs, FALSE, FALSE) /\ bmc.addr \in addrs
  BY <1>3 DEF Outcome, OutcomeFields
<1>4. CASE o = Outcome([eps EXCEPT ![v] = e], addrs \cup {bmc.addr}, TRUE, FALSE)
  BY <1>1, <1>2, <1>4 DEF Outcome, OutcomeFields, Endpoints
<1>5. CASE o = Outcome(eps, addrs, FALSE, TRUE)
  BY <1>5 DEF Outcome, OutcomeFields
<1>6. CASE o = Outcome(eps, addrs \cup {bmc.addr}, FALSE, TRUE)
  BY <1>6 DEF Outcome, OutcomeFields
<1> QED
  BY <1>3, <1>4, <1>5, <1>6 DEF Listen, e

LEMMA ConfigureOutcome ==
    ASSUME NEW v \in VMs, NEW eps \in Endpoints, NEW addrs, NEW bmc \in BMC,
           NEW o \in Configure(v, bmc, eps, addrs)
    PROVE  /\ o.endpoint \in Endpoints
           /\ \A w \in VMs \ {v} : o.endpoint[w] = eps[w]
           /\ \A a \in addrs : eps[v] = None \/ a # eps[v].addr =>
                 a \in o.assigned
           /\ o.ok => Answers(o.endpoint[v], bmc)
           /\ \/ o.endpoint[v] = eps[v] /\ o.assigned = addrs
              \/ o.endpoint[v] = None
              \/ /\ Answers(o.endpoint[v], bmc) /\ bmc.addr \in o.assigned
                 /\ \A w \in VMs \ {v} : eps[w] # None => eps[w].addr # bmc.addr
           /\ /\ eps[v] = None /\ ~o.failed /\ bmc.addr \notin addrs
              /\ \A w \in VMs \ {v} : eps[w] # None => eps[w].addr # bmc.addr
              => o.ok
           /\ DOMAIN o = OutcomeFields
<1> DEFINE rival == \E w \in VMs \ {v} : eps[w] # None /\ eps[w].addr = bmc.addr
<1>0. bmc # None
  BY NoneIsDistinct
<1>1. CASE Serves(eps[v], bmc)
  <2>1. o = Outcome(eps, addrs, TRUE, FALSE)
    BY <1>1 DEF Configure
  <2>2. Answers(eps[v], bmc)
    BY <1>0, <1>1 DEF Serves, Answers
  <2> QED
    BY <2>1, <2>2 DEF Outcome, OutcomeFields
<1>2. CASE ~Serves(eps[v], bmc) /\ rival
  <2>1. o = Outcome(eps, addrs, FALSE, FALSE)
    BY <1>2 DEF Configure
  <2> QED
    BY <1>2, <2>1 DEF Outcome, OutcomeFields
<1>3. CASE o = Outcome(eps, addrs, FALSE, TRUE)
  BY <1>3 DEF Outcome, OutcomeFields
<1>4. ASSUME ~rival, NEW d \in DisableLocked(v, eps, addrs),
             NEW l \in Listen(v, bmc, d.endpoint, d.assigned),
             o = [l EXCEPT !.failed = l.failed \/ d.failed]
      PROVE  /\ o.endpoint \in Endpoints
             /\ \A w \in VMs \ {v} : o.endpoint[w] = eps[w]
             /\ \A a \in addrs : eps[v] = None \/ a # eps[v].addr =>
                   a \in o.assigned
             /\ o.ok => Answers(o.endpoint[v], bmc)
             /\ \/ o.endpoint[v] = None
                \/ Answers(o.endpoint[v], bmc) /\ bmc.addr \in o.assigned
             /\ eps[v] = None /\ ~o.failed /\ bmc.addr \notin addrs => o.ok
             /\ DOMAIN o = OutcomeFields
  <2>1. /\ d.endpoint \in Endpoints /\ d.endpoint[v] = None
        /\ \A w \in VMs \ {v} : d.endpoint[w] = eps[w]
        /\ d.assigned \subseteq addrs
        /\ \A a \in addrs : eps[v] = None \/ a # eps[v].addr =>
              a \in d.assigned
    BY <1>4, DisableOutcome
  <2>2. /\ DOMAIN l = OutcomeFields /\ l.endpoint \in Endpoints
        /\ \A w \in VMs \ {v} : l.endpoint[w] = d.endpoint[w]
        /\ d.assigned \subseteq l.assigned
        /\ l.ok => Answers(l.endpoint[v], bmc)
        /\ \/ l.endpoint[v] = None
           \/ Answers(l.endpoint[v], bmc) /\ bmc.addr \in l.assigned
        /\ bmc.addr \notin d.assigned /\ ~l.failed => l.ok
    BY <2>1, ListenOutcome
  <2>3. /\ o.endpoint = l.endpoint /\ o.assigned = l.assigned /\ o.ok = l.ok
        /\ ~o.failed => ~l.failed
        /\ DOMAIN o = OutcomeFields
    BY <1>4, <2>2 DEF OutcomeFields
  <2> QED
    BY <2>1, <2>2, <2>3
<1> QED
  <2>1. ASSUME ~Serves(eps[v], bmc), ~rival, o # Outcome(eps, addrs, FALSE, TRUE)
        PROVE  \E d \in DisableLocked(v, eps, addrs) :
                   \E l \in Listen(v, bmc, d.endpoint, d.assigned) :
                       o = [l EXCEPT !.failed = l.failed \/ d.failed]
    <3>1. \E S \in {{[l EXCEPT !.failed = l.failed \/ d.failed] :
                        l \in Listen(v, bmc, d.endpoint, d.assigned)} :
                       d \in DisableLocked(v, eps, addrs)} : o \in S
      BY <2>1 DEF Configure
    <3> QED
      BY <3>1
  <2>2. CASE ~Serves(eps[v], bmc) /\ ~rival
             /\ o # Outcome(eps, addrs, FALSE, TRUE)
    BY <1>4, <2>1, <2>2
  <2> QED
    BY <1>1, <1>2, <1>3, <2>2
-----------------------------------------------------------------------------
(***************************************************************************)
(* A handler works on the endpoint of v only: it keeps it, gives it up, or *)
(* brings one up at an address nobody else has.                            *)
(***************************************************************************)
Moved(v) ==
    /\ endpoint' \in Endpoints
    /\ \A w \in VMs \ {v} : endpoint'[w] = endpoint[w]
    /\ \A a \in assigned : endpoint[v] = None \/ a # endpoint[v].addr =>
          a \in assigned'
    /\ severed \ {v} \subseteq severed'
    /\ \/ endpoint'[v] = endpoint[v] /\ assigned' = assigned /\ severed' = severed
       \/ endpoint'[v] = None
       \/ /\ endpoint'[v] # None /\ endpoint'[v].addr \in assigned'
          /\ \A w \in VMs \ {v} : endpoint[w] # None =>
                endpoint[w].addr # endpoint'[v].addr

SettledBut(v) == \A w \in VMs \ {v} : w \in unsettled' <=> w \in unsettled

LEMMA ConfiguredMoves ==
    ASSUME TypeInv, NEW v \in VMs, NEW bmc \in BMC,
           NEW o \in Configure(v, bmc, endpoint, assigned),
           endpoint' = o.endpoint, assigned' = o.assigned,
           severed' = StillSevered(v, o)
    PROVE  /\ Moved(v)
           /\ o.ok => Answers(endpoint'[v], bmc)
<1>1. bmc # None /\ endpoint \in Endpoints
  BY NoneIsDistinct DEF TypeInv, Endpoints
<1>2. /\ o.endpoint \in Endpoints
      /\ \A w \in VMs \ {v} : o.endpoint[w] = endpoint[w]
      /\ \A a \in assigned : endpoint[v] = None \/ a # endpoint[v].addr =>
            a \in o.assigned
      /\ o.ok => Answers(o.endpoint[v], bmc)
      /\ \/ o.endpoint[v] = endpoint[v] /\ o.assigned = assigned
         \/ o.endpoint[v] = None
         \/ /\ Answers(o.endpoint[v], bmc) /\ bmc.addr \in o.assigned
            /\ \A w \in VMs \ {v} : endpoint[w] # None =>
                  endpoint[w].addr # bmc.addr
  BY <1>1, ConfigureOutcome
<1>3. /\ severed \ {v} \subseteq severed'
      /\ o.endpoint[v] = endpoint[v] => severed' = severed
  BY DEF StillSevered
<1> QED
  BY <1>1, <1>2, <1>3 DEF Moved, Answers

LEMMA DisabledMoves ==
    ASSUME TypeInv, NEW v \in VMs,
           NEW o \in DisableLocked(v, endpoint, assigned),
           endpoint' = o.endpoint, assigned' = o.assigned,
           severed \ {v} \subseteq severed'
    PROVE  Moved(v) /\ endpoint'[v] = None
<1>1. endpoint \in Endpoints
  BY DEF TypeInv, Endpoints
<1> QED
  BY <1>1, DisableOutcome DEF Moved

LEMMA ConfigureMoves ==
    ASSUME TypeInv, NEW v \in VMs, NEW bmc \in BMC, ConfigureIPMI(v, bmc)
    PROVE  /\ Moved(v) /\ SettledBut(v)
           /\ \/ /\ held' = [kind |-> "bmc", vm |-> v, next |-> bmc]
                 /\ Answers(endpoint'[v], bmc)
              \/ /\ held' = Free
                 /\ v \in unsettled'
                    \/ (v \notin unsettled /\ endpoint'[v] = endpoint[v])
<1>1. PICK o \in Configure(v, bmc, endpoint, assigned) :
          /\ Apply(o)
          /\ unsettled' = With(unsettled, v,
                ~o.ok /\ (v \in unsettled \/ o.endpoint[v] # endpoint[v]))
          /\ severed' = StillSevered(v, o)
          /\ held' = IF o.ok THEN [kind |-> "bmc", vm |-> v, next |-> bmc]
                     ELSE Free
  BY DEF ConfigureIPMI
<1>2. endpoint' = o.endpoint /\ assigned' = o.assigned
  BY <1>1 DEF Apply
<1>3. Moved(v) /\ (o.ok => Answers(endpoint'[v], bmc))
  BY <1>1, <1>2, ConfiguredMoves
<1> QED
  BY <1>1, <1>2, <1>3 DEF With, SettledBut

LEMMA DisableMoves ==
    ASSUME TypeInv, NEW v \in VMs, DisableIPMI(v) \/ Delete(v)
    PROVE  Moved(v) /\ SettledBut(v) /\ endpoint'[v] = None
<1>1. PICK o \in DisableLocked(v, endpoint, assigned) :
          endpoint' = o.endpoint /\ assigned' = o.assigned
  BY DEF DisableIPMI, Delete, Apply
<1>2. severed \ {v} \subseteq severed' /\ SettledBut(v)
  BY DEF DisableIPMI, Delete, SettledBut
<1> QED
  BY <1>1, <1>2, DisabledMoves

LEMMA RollbackMoves ==
    ASSUME TypeInv, RollbackIPMI
    PROVE  /\ HeldType(held) /\ Moved(held.vm) /\ SettledBut(held.vm)
           /\ held.vm \in unsettled'
              \/ Answers(endpoint'[held.vm], vms[held.vm].bmc)
<1> DEFINE v == held.vm
<1>1. HeldType(held) /\ v \in VMs /\ vms[v].bmc \in BMC \cup {None}
  BY DEF RollbackIPMI, TypeInv, HeldType, Free, Record
<1>2. CASE vms[v].bmc = None
  <2>1. PICK o \in DisableLocked(v, endpoint, assigned) :
            /\ endpoint' = o.endpoint /\ assigned' = o.assigned
            /\ unsettled' = With(unsettled, v, ~o.ok)
            /\ severed' = StillSevered(v, o)
    BY <1>2 DEF RollbackIPMI
  <2>2. severed \ {v} \subseteq severed' /\ SettledBut(v)
    BY <2>1 DEF StillSevered, With, SettledBut
  <2>3. Moved(v) /\ endpoint'[v] = None
    BY <1>1, <2>1, <2>2, DisabledMoves
  <2> QED
    BY <1>1, <1>2, <2>2, <2>3 DEF Answers
<1>3. CASE vms[v].bmc # None
  <2>1. PICK o \in Configure(v, vms[v].bmc, endpoint, assigned) :
            /\ endpoint' = o.endpoint /\ assigned' = o.assigned
            /\ unsettled' = With(unsettled, v, ~o.ok)
            /\ severed' = StillSevered(v, o)
    BY <1>3 DEF RollbackIPMI
  <2>2. Moved(v) /\ (o.ok => Answers(endpoint'[v], vms[v].bmc))
    BY <1>1, <1>3, <2>1, ConfiguredMoves
  <2> QED
    BY <1>1, <2>1, <2>2 DEF With, SettledBut
<1> QED
  BY <1>2, <1>3

(***************************************************************************)
(* Reconcile brings up an endpoint that is not there, or takes the address *)
(* from the endpoint that has it.                                          *)
(***************************************************************************)
LEMMA ReconcileMoves ==
    ASSUME TypeInv, ControlInv, NEW v \in VMs, Reconcile(v)
    PROVE  /\ endpoint' \in Endpoints /\ SettledBut(v)
           /\ \A w \in VMs \ {v} : endpoint'[w] = endpoint[w]
           /\ \A w \in VMs \ {v} : endpoint[w] # None =>
                 \/ endpoint[w].addr \in assigned => endpoint[w].addr \in assigned'
                 \/ w \in severed'
           /\ severed \subseteq severed'
           /\ \/ endpoint'[v] = None
              \/ /\ endpoint'[v] # None /\ endpoint'[v].addr \in assigned'
                 /\ \A w \in VMs \ {v} : endpoint[w] # None =>
                       endpoint[w].addr # endpoint'[v].addr
           /\ v \in unsettled' \/ Answers(endpoint'[v], vms[v].bmc)
<1> DEFINE bmc == vms[v].bmc
           rivals == {w \in VMs \ {v} : endpoint[w] # None
                                         /\ endpoint[w].addr = bmc.addr}
<1>1. endpoint \in Endpoints /\ endpoint[v] = None /\ bmc \in BMC /\ bmc # None
  BY DEF Reconcile, TypeInv, ControlInv, Record, Endpoints
<1>2. PICK o \in Configure(v, bmc, endpoint, RemoveAddress(bmc))
                  \cup {[l EXCEPT !.failed = TRUE] :
                            l \in Configure(v, bmc, endpoint, assigned)} :
          /\ Apply(o)
          /\ unsettled' = With(unsettled, v, o.failed \/ rivals # {})
          /\ severed' = IF bmc.addr \in o.assigned THEN severed
                        ELSE severed \cup rivals
  BY DEF Reconcile
<1>3. endpoint' = o.endpoint /\ assigned' = o.assigned /\ SettledBut(v)
  BY <1>2 DEF Apply, With, SettledBut
<1>4. ASSUME NEW addrs, assigned \ {bmc.addr} \subseteq addrs,
             NEW l \in Configure(v, bmc, endpoint, addrs),
             o.endpoint = l.endpoint, o.assigned = l.assigned
      PROVE  /\ o.endpoint \in Endpoints
             /\ \A w \in VMs \ {v} : o.endpoint[w] = endpoint[w]
             /\ \A a \in assigned : a = bmc.addr \/ a \in o.assigned
             /\ \/ o.endpoint[v] = None
                \/ /\ Answers(o.endpoint[v], bmc) /\ bmc.addr \in o.assigned
                   /\ \A w \in VMs \ {v} : endpoint[w] # None =>
                         endpoint[w].addr # bmc.addr
             /\ l.ok => Answers(o.endpoint[v], bmc)
             /\ ~l.failed /\ bmc.addr \notin addrs /\ rivals = {} => l.ok
             /\ DOMAIN l = OutcomeFields
  BY <1>1, <1>4, ConfigureOutcome
<1>5. /\ o.endpoint \in Endpoints
      /\ \A w \in VMs \ {v} : o.endpoint[w] = endpoint[w]
      /\ \A a \in assigned : a = bmc.addr \/ a \in o.assigned
      /\ \/ o.endpoint[v] = None
         \/ /\ Answers(o.endpoint[v], bmc) /\ bmc.addr \in o.assigned
            /\ \A w \in VMs \ {v} : endpoint[w] # None =>
                  endpoint[w].addr # bmc.addr
      /\ ~o.failed /\ rivals = {} => Answers(o.endpoint[v], bmc)
  <2>1. CASE o \in Configure(v, bmc, endpoint, RemoveAddress(bmc))
    <3>1. /\ assigned \ {bmc.addr} \subseteq RemoveAddress(bmc)
          /\ bmc.addr \notin RemoveAddress(bmc)
      BY DEF RemoveAddress
    <3> QED
      BY <1>4, <2>1, <3>1
  <2>2. ASSUME NEW l \in Configure(v, bmc, endpoint, assigned),
               o = [l EXCEPT !.failed = TRUE]
        PROVE  o.endpoint = l.endpoint /\ o.assigned = l.assigned /\ o.failed
    <3>1. DOMAIN l = OutcomeFields
      BY <1>1, ConfigureOutcome
    <3> QED
      BY <2>2, <3>1 DEF OutcomeFields
  <2>3. CASE \E l \in Configure(v, bmc, endpoint, assigned) :
                 o = [l EXCEPT !.failed = TRUE]
    BY <1>4, <2>2, <2>3
  <2> QED
    BY <2>1, <2>3
<1> QED
  BY <1>1, <1>2, <1>3, <1>5 DEF With, Answers

LEMMA ServeEndsMoves ==
    ASSUME TypeInv, NEW v \in VMs, ServeEnds(v)
    PROVE  /\ endpoint' \in Endpoints /\ endpoint'[v] # None
           /\ endpoint'[v].addr = endpoint[v].addr
           /\ \A w \in VMs \ {v} : endpoint'[w] = endpoint[w]
           /\ unsettled' = unsettled \cup {v}
           /\ UNCHANGED <<vms, assigned, held, todo, up, severed>>
<1> DEFINE e == [endpoint[v] EXCEPT !.running = FALSE]
<1>1. endpoint[v] \in Endpoint
  BY DEF ServeEnds, TypeInv
<1>2. e \in Endpoint /\ e.addr = endpoint[v].addr
  BY <1>1 DEF Endpoint
<1>3. /\ endpoint' = [endpoint EXCEPT ![v] = e]
      /\ unsettled' = unsettled \cup {v}
      /\ UNCHANGED <<vms, assigned, held, todo, up, severed>>
  BY DEF ServeEnds, control
<1>4. e # None
  BY <1>2, NoneIsDistinct
<1> HIDE DEF e
<1>5. endpoint'[v] = e /\ \A w \in VMs \ {v} : endpoint'[w] = endpoint[w]
  BY <1>3 DEF TypeInv
<1>6. endpoint' \in Endpoints
  BY <1>2, <1>3 DEF TypeInv, Endpoints
<1> QED
  BY <1>2, <1>3, <1>4, <1>5, <1>6
-----------------------------------------------------------------------------
(***************************************************************************)
(* The steps, by what they touch: an endpoint; a record, saved or not; the *)
(* guest only; App Runner itself.                                          *)
(***************************************************************************)
EndpointStep(v) ==
    \/ \E bmc \in BMC : ConfigureIPMI(v, bmc)
    \/ DisableIPMI(v) \/ Delete(v) \/ ServeEnds(v) \/ Reconcile(v)

DriveStep(v) ==
    \/ \E d \in Drives, iso \in Media : AddCDROM(v, d, iso)
    \/ \E i \in DOMAIN vms[v].drives : RemoveCDROM(v, i)
    \/ \E i \in DOMAIN vms[v].drives, iso \in Media : UpdateCDROM(v, i, iso)

\* The invariant does not depend on the commands that wait.
Quiet == UNCHANGED <<vms, file, hardware, held, todo, up, drawn, ghosts,
                     counters>>

LEMMA StepCases ==
    ASSUME [Next]_vars
    PROVE  \/ \E v \in VMs : EndpointStep(v)
           \/ \E v \in VMs, b \in Overrides : SetIPMIBootFlags(v, b)
           \/ \E v \in VMs : DriveStep(v)
           \/ \E v \in VMs : Start(v) \/ Exit(v) \/ ProcessExited(v)
           \/ SaveIPMI \/ RollbackIPMI \/ SaveCDROM \/ RollbackCDROM
           \/ SaveStart \/ SaveDelete
           \/ Crash \/ Close \/ NewManager
           \/ Quiet
BY DeviceConstants
DEF Next, EndpointStep, DriveStep, Quiet, ReceiveCommand, vars, control

LEMMA DriveStepSaves ==
    ASSUME TypeInv, NEW v \in VMs, DriveStep(v)
    PROVE  /\ up /\ held = Free /\ todo = {} /\ vms[v].defined
           /\ UNCHANGED <<endpoint, assigned, todo, up, unsettled, severed, spent>>
           /\ \/ UNCHANGED <<vms, file>>
              \/ /\ ~vms[v].active /\ UNCHANGED <<guest, strayed, held>>
                 /\ Changed(v) /\ file' = vms'
                 /\ Same(vms'[v], vms[v], {"bmc", "boot", "active", "defined"})
<1>0. vms[v].drives \in Seq(Drive)
  BY DEF TypeInv, Record
<1>1. ASSUME NEW d \in Drives, NEW iso \in Media, AddCDROM(v, d, iso),
             vms' = [vms EXCEPT ![v].drives = Append(@, [id |-> d, iso |-> iso])],
             file' = vms'
      PROVE  /\ Changed(v)
             /\ Same(vms'[v], vms[v], {"bmc", "boot", "active", "defined"})
  <2>1. [id |-> d, iso |-> iso] \in Drive
    BY DEF Drive
  <2>2. Append(vms[v].drives, [id |-> d, iso |-> iso]) \in Seq(Drive)
    BY <1>0, <2>1, DrivesEdited
  <2>3. vms' = [vms EXCEPT ![v].drives =
                   Append(vms[v].drives, [id |-> d, iso |-> iso])]
    BY <1>1
  <2> QED
    BY <1>1, <2>2, <2>3, SavedDrives
<1>2. ASSUME NEW i \in DOMAIN vms[v].drives, RemoveCDROM(v, i),
             vms' = [vms EXCEPT ![v].drives = RemoveAt(@, i)], file' = vms'
      PROVE  /\ Changed(v)
             /\ Same(vms'[v], vms[v], {"bmc", "boot", "active", "defined"})
  <2>1. RemoveAt(vms[v].drives, i) \in Seq(Drive)
    BY <1>0, DrivesEdited
  <2>2. vms' = [vms EXCEPT ![v].drives = RemoveAt(vms[v].drives, i)]
    BY <1>2
  <2> QED
    BY <1>2, <2>1, <2>2, SavedDrives
<1>3. ASSUME NEW i \in DOMAIN vms[v].drives, NEW iso \in Media,
             vms' = [vms EXCEPT ![v].drives[i].iso = iso], file' = vms'
      PROVE  /\ Changed(v)
             /\ Same(vms'[v], vms[v], {"bmc", "boot", "active", "defined"})
  BY <1>3, SavedMedium
<1>4. CASE \E d \in Drives, iso \in Media : AddCDROM(v, d, iso)
  BY <1>1, <1>4 DEF AddCDROM, CanRequest, Serving, Idle, Commit, hardware, control,
                    ghosts
<1>5. CASE \E i \in DOMAIN vms[v].drives : RemoveCDROM(v, i)
  BY <1>2, <1>5 DEF RemoveCDROM, CanRequest, Serving, Idle, Commit, hardware,
                    control, ghosts
<1>6. ASSUME NEW i \in DOMAIN vms[v].drives, NEW iso \in Media,
             UpdateCDROM(v, i, iso)
      PROVE  /\ up /\ held = Free /\ todo = {} /\ vms[v].defined
             /\ UNCHANGED <<endpoint, assigned, todo, up, unsettled, severed,
                           spent>>
             /\ \/ UNCHANGED <<vms, file>>
                \/ /\ ~vms[v].active /\ UNCHANGED <<guest, strayed, held>>
                   /\ Changed(v) /\ file' = vms'
                   /\ Same(vms'[v], vms[v], {"bmc", "boot", "active", "defined"})
  <2>1. /\ up /\ held = Free /\ todo = {} /\ vms[v].defined
        /\ UNCHANGED <<endpoint, assigned, todo, up, unsettled, severed, spent>>
    BY <1>6 DEF UpdateCDROM, CanRequest, Serving, Idle
  <2>2. CASE vms[v].active
    BY <1>6, <2>1, <2>2 DEF UpdateCDROM
  <2>3. CASE ~vms[v].active
    <3>1. /\ UNCHANGED <<guest, strayed, held>>
          /\ \/ UNCHANGED <<vms, file>>
             \/ /\ vms' = [vms EXCEPT ![v].drives[i].iso = iso]
                /\ file' = [vms EXCEPT ![v].drives[i].iso = iso]
      BY <1>6, <2>3 DEF UpdateCDROM, Commit
    <3> QED
      BY <1>3, <2>1, <2>3, <3>1
  <2> QED
    BY <2>2, <2>3
<1> QED
  BY <1>4, <1>5, <1>6 DEF DriveStep

(***************************************************************************)
(* Of the drive operations only UpdateCDROM of an active machine reaches   *)
(* the guest.                                                              *)
(***************************************************************************)
Swapped(v, i, iso) ==
    /\ vms[v].active /\ guest[v] # None /\ held = Free
    /\ UNCHANGED <<vms, file>>
    /\ guest' = [guest EXCEPT ![v] = [guest[v] EXCEPT ![i] = iso]]
    /\ \/ /\ held' = [kind |-> "cdrom", vm |-> v, next |-> iso, at |-> i]
          /\ UNCHANGED strayed
       \/ strayed' = strayed \cup {<<v, i>>} /\ UNCHANGED held

LEMMA DriveStepMedia ==
    ASSUME NEW v \in VMs, DriveStep(v)
    PROVE  \/ UNCHANGED <<guest, held, strayed>>
           \/ \E i \in DOMAIN vms[v].drives, iso \in Media : Swapped(v, i, iso)
<1>1. CASE \/ \E d \in Drives, iso \in Media : AddCDROM(v, d, iso)
           \/ \E i \in DOMAIN vms[v].drives : RemoveCDROM(v, i)
  BY <1>1 DEF AddCDROM, RemoveCDROM, hardware, control, ghosts
<1>2. ASSUME NEW i \in DOMAIN vms[v].drives, NEW iso \in Media,
             UpdateCDROM(v, i, iso)
      PROVE  UNCHANGED <<guest, held, strayed>> \/ Swapped(v, i, iso)
  <2>1. held = Free
    BY <1>2 DEF UpdateCDROM, CanRequest, Serving, Idle
  <2>2. CASE vms[v].active
    BY <1>2, <2>1, <2>2 DEF UpdateCDROM, Swapped
  <2>3. CASE ~vms[v].active
    BY <1>2, <2>3 DEF UpdateCDROM
  <2> QED
    BY <2>2, <2>3
<1> QED
  BY <1>1, <1>2 DEF DriveStep

LEMMA SavedCDROM ==
    ASSUME TypeInv, MediaInv, SaveCDROM
    PROVE  /\ HeldType(held) /\ held.next \in Media /\ Changed(held.vm)
           /\ file' = vms'
           /\ held.at \in DOMAIN vms[held.vm].drives
           /\ DOMAIN vms'[held.vm].drives = DOMAIN vms[held.vm].drives
           /\ vms'[held.vm].drives[held.at].iso = held.next
           /\ \A j \in DOMAIN vms[held.vm].drives \ {held.at} :
                 vms'[held.vm].drives[j] = vms[held.vm].drives[j]
           /\ Same(vms'[held.vm], vms[held.vm], {"bmc", "boot", "active", "defined"})
<1>1. /\ HeldType(held) /\ held.vm \in VMs /\ held.next \in Media
      /\ held.at \in DOMAIN vms[held.vm].drives
  BY DEF SaveCDROM, TypeInv, HeldType, Free, MediaInv
<1>2. vms' = [vms EXCEPT ![held.vm].drives[held.at].iso = held.next]
      /\ file' = vms'
  BY DEF SaveCDROM
<1>3. PICK v \in VMs, iso \in Media : v = held.vm /\ iso = held.next
  BY <1>1
<1>4. PICK i \in DOMAIN vms[v].drives : i = held.at
  BY <1>1, <1>3
<1>5. vms' = [vms EXCEPT ![v].drives[i].iso = iso]
  BY <1>2, <1>3, <1>4
<1>6. iso \in Media /\ i \in DOMAIN vms[v].drives /\ v \in VMs /\ file' = vms'
  BY <1>2, <1>3, <1>4
<1>7. /\ Changed(v) /\ DOMAIN vms'[v].drives = DOMAIN vms[v].drives
      /\ vms'[v].drives[i].iso = iso
      /\ \A j \in DOMAIN vms[v].drives \ {i} :
            vms'[v].drives[j] = vms[v].drives[j]
      /\ Same(vms'[v], vms[v], {"bmc", "boot", "active", "defined"})
  BY <1>5, <1>6, SavedMedium
<1> QED
  BY <1>1, <1>2, <1>3, <1>4, <1>7

(***************************************************************************)
(* Types.                                                                  *)
(***************************************************************************)
LEMMA TypeStep ==
    ASSUME TypeInv, ControlInv, MediaInv, [Next]_vars
    PROVE  TypeInv'
<1>1. ASSUME NEW v, Changed(v)
      PROVE  vms' \in [VMs -> Record] /\ file' \in [VMs -> Record]
  BY <1>1 DEF Changed, TypeInv
<1>2. ASSUME NEW v \in VMs, EndpointStep(v)
      PROVE  TypeInv'
  <2>1. UNCHANGED <<vms, file, guest, up, spent>>
    BY <1>2 DEF EndpointStep, ConfigureIPMI, DisableIPMI, Delete, ServeEnds,
                Reconcile, control, ghosts
  <2>2. endpoint' \in Endpoints
    <3>1. CASE ServeEnds(v)
      BY <3>1, ServeEndsMoves
    <3>2. ASSUME NEW bmc \in BMC, ConfigureIPMI(v, bmc)
          PROVE  endpoint' \in Endpoints
      BY <3>2, ConfigureMoves DEF Moved
    <3>3. CASE DisableIPMI(v) \/ Delete(v)
      BY <3>3, DisableMoves DEF Moved
    <3>4. CASE Reconcile(v)
      BY <3>4, ReconcileMoves
    <3> QED
      BY <1>2, <3>1, <3>2, <3>3, <3>4 DEF EndpointStep
  <2>3. held' = Free \/ HeldType(held')
    <3>1. ASSUME NEW bmc \in BMC, ConfigureIPMI(v, bmc)
          PROVE  held' = Free \/ HeldType(held')
      BY <3>1, ConfigureMoves DEF HeldType
    <3>2. CASE DisableIPMI(v) \/ Delete(v)
      BY <3>2 DEF DisableIPMI, Delete, HeldType
    <3>3. CASE ServeEnds(v) \/ Reconcile(v)
      BY <3>3 DEF ServeEnds, Reconcile, TypeInv, control
    <3> QED
      BY <1>2, <3>1, <3>2, <3>3 DEF EndpointStep
  <2>4. todo' \subseteq VMs
    BY <1>2 DEF EndpointStep, ConfigureIPMI, DisableIPMI, Delete, ServeEnds,
                Reconcile, control, TypeInv
  <2> QED
    BY <2>1, <2>2, <2>3, <2>4 DEF TypeInv, Endpoints
<1>3. ASSUME NEW v \in VMs, DriveStep(v)
      PROVE  TypeInv'
  <2>1. /\ UNCHANGED <<endpoint, todo, up, spent>>
        /\ vms' \in [VMs -> Record] /\ file' \in [VMs -> Record]
    BY <1>1, <1>3, DriveStepSaves DEF TypeInv
  <2>2. DOMAIN guest' = VMs /\ (held' = held \/ HeldType(held'))
    <3>1. ASSUME NEW i, NEW iso \in Media, Swapped(v, i, iso)
          PROVE  DOMAIN guest' = VMs /\ (held' = held \/ HeldType(held'))
      BY <3>1 DEF Swapped, TypeInv, HeldType
    <3> QED
      BY <1>3, <3>1, DriveStepMedia DEF TypeInv
  <2> QED
    BY <2>1, <2>2 DEF TypeInv
<1>4. ASSUME NEW v \in VMs,
             \/ \E b \in Overrides : SetIPMIBootFlags(v, b)
             \/ ProcessExited(v)
      PROVE  TypeInv'
  BY <1>1, <1>4, SavedFlags, SavedExit
  DEF SetIPMIBootFlags, ProcessExited, hardware, control, ghosts, TypeInv
<1>5. ASSUME NEW v \in VMs, Start(v) \/ Exit(v)
      PROVE  TypeInv'
  BY <1>5 DEF Start, Exit, control, TypeInv, HeldType
<1>6. CASE SaveIPMI
  BY <1>1, <1>6, SavedIPMI DEF SaveIPMI, hardware, ghosts, TypeInv
<1>7. CASE RollbackIPMI
  BY <1>7, RollbackMoves DEF RollbackIPMI, Moved, TypeInv, Endpoints
<1>8. CASE SaveCDROM
  BY <1>1, <1>8, SavedCDROM DEF SaveCDROM, hardware, TypeInv
<1>9. CASE RollbackCDROM
  BY <1>9 DEF RollbackCDROM, TypeInv
<1>10. CASE SaveStart
  BY <1>1, <1>10, SavedStart DEF SaveStart, hardware, With, TypeInv, HeldType
<1>11. CASE SaveDelete
  BY <1>1, <1>11, SavedDelete DEF SaveDelete, hardware, TypeInv
<1>12. CASE Crash \/ Close
  BY <1>12 DEF Crash, Close, Gone, TypeInv
<1>13. CASE NewManager
  BY <1>13, Restarted DEF NewManager, hardware, ghosts, TypeInv
<1>14. CASE Quiet
  BY <1>14 DEF Quiet, hardware, ghosts, TypeInv
<1> QED
  BY <1>2, <1>3, <1>4, <1>5, <1>6, <1>7, <1>8, <1>9, <1>10, <1>11, <1>12,
     <1>13, <1>14, StepCases

(***************************************************************************)
(* Control.                                                                *)
(***************************************************************************)
LEMMA HandlerRuns ==
    ASSUME TypeInv, ControlInv, held.kind # "free"
    PROVE  up /\ HeldType(held) /\ held.vm \in VMs
BY DEF TypeInv, ControlInv, HeldType, Free

LEMMA ControlStep ==
    ASSUME TypeInv, ControlInv, [Next]_vars
    PROVE  ControlInv'
<1>0. Free.kind = "free"
  BY DEF Free
<1>1. ASSUME NEW v \in VMs, NEW bmc \in BMC, ConfigureIPMI(v, bmc)
      PROVE  ControlInv'
  <2>1. up' /\ todo' = {}
    BY <1>1 DEF ConfigureIPMI, CanRequest, Serving, Idle
  <2> QED
    BY <1>0, <1>1, <2>1, ConfigureMoves DEF ControlInv
<1>2. ASSUME NEW v \in VMs, DisableIPMI(v) \/ Delete(v)
      PROVE  ControlInv'
  <2>1. up' /\ todo' = {} /\ held'.vm = v
    BY <1>2 DEF DisableIPMI, Delete, CanRequest, Serving, Idle
  <2> QED
    BY <1>2, <2>1, DisableMoves DEF ControlInv
<1>3. ASSUME NEW v \in VMs, ServeEnds(v)
      PROVE  ControlInv'
  <2>1. up /\ endpoint[v] # None
    BY <1>3 DEF ServeEnds
  <2>2. v \notin todo /\ (held.kind = "delete" => held.vm # v /\ held.vm \in VMs)
    BY <2>1, HandlerRuns DEF ControlInv
  <2>3. /\ \A w \in VMs \ {v} : endpoint'[w] = endpoint[w]
        /\ UNCHANGED <<vms, held, todo, up>>
    BY <1>3, ServeEndsMoves
  <2> QED
    BY <2>1, <2>2, <2>3 DEF ControlInv, TypeInv
<1>4. ASSUME NEW v \in VMs, Reconcile(v)
      PROVE  ControlInv'
  <2>1. up /\ v \in todo /\ todo' = todo \ {v} /\ UNCHANGED <<vms, held, up>>
    BY <1>4 DEF Reconcile
  <2> QED
    BY <1>4, <2>1, ReconcileMoves DEF ControlInv, TypeInv
<1>5. ASSUME NEW v \in VMs,
             \/ \E b \in Overrides : SetIPMIBootFlags(v, b)
             \/ ProcessExited(v)
      PROVE  ControlInv'
  <2>1. Changed(v) /\ vms'[v].bmc = vms[v].bmc
    BY <1>5, SavedFlags, SavedExit DEF Same
  <2>2. UNCHANGED <<endpoint, held, todo, up>>
    BY <1>5 DEF SetIPMIBootFlags, ProcessExited, hardware, control
  <2> QED
    BY <2>1, <2>2 DEF ControlInv, Changed, TypeInv
<1>6. ASSUME NEW v \in VMs, DriveStep(v)
      PROVE  ControlInv'
  <2>1. up' /\ todo' = {} /\ held = Free
    BY <1>6, DriveStepSaves
  <2>2. held' = Free \/ held'.kind = "cdrom"
    BY <1>6, <2>1, DriveStepMedia DEF Swapped
  <2> QED
    BY <1>0, <2>1, <2>2 DEF ControlInv
<1>7. ASSUME NEW v \in VMs, Start(v) \/ Exit(v)
      PROVE  ControlInv'
  <2>1. /\ UNCHANGED <<vms, endpoint, todo, up>>
        /\ held' = held \/ (up /\ held'.kind = "start")
    BY <1>7 DEF Start, Exit, CanHandle, Idle, control
  <2> QED
    BY <2>1 DEF ControlInv
<1>8. CASE SaveIPMI \/ RollbackIPMI \/ SaveCDROM \/ RollbackCDROM \/ SaveDelete
  <2>1. /\ held.kind \in {"bmc", "cdrom", "delete"} /\ held' = Free
        /\ UNCHANGED <<todo, up>>
    BY <1>8 DEF SaveIPMI, RollbackIPMI, SaveCDROM, RollbackCDROM, SaveDelete
  <2>2. up /\ todo = {}
    BY <2>1, HandlerRuns DEF ControlInv
  <2> QED
    BY <1>0, <2>1, <2>2 DEF ControlInv
<1>9. CASE SaveStart
  <2>1. held.kind = "start" /\ held' = Free /\ UNCHANGED <<endpoint, todo, up>>
    BY <1>9 DEF SaveStart, hardware
  <2>2. up
    BY <2>1, HandlerRuns
  <2>3. \A w \in VMs : vms'[w].bmc = vms[w].bmc
    BY <1>9, SavedStart DEF Changed, Same
  <2> QED
    BY <1>0, <2>1, <2>2, <2>3 DEF ControlInv, TypeInv
<1>10. CASE Crash \/ Close
  BY <1>0, <1>10 DEF Crash, Close, Gone, ControlInv
<1>11. CASE NewManager
  <2>1. /\ ~up /\ up' /\ UNCHANGED <<held, endpoint>>
        /\ todo' = {v \in VMs : file[v].bmc # None}
    BY <1>11 DEF NewManager, hardware
  <2>2. \A w \in VMs : vms'[w].bmc = file[w].bmc
    BY <1>11, Restarted DEF Same
  <2> QED
    BY <1>0, <2>1, <2>2 DEF ControlInv
<1>12. CASE Quiet
  BY <1>12 DEF Quiet, hardware, ControlInv
<1> QED
  BY <1>1, <1>2, <1>3, <1>4, <1>5, <1>6, <1>7, <1>8, <1>9, <1>10, <1>11,
     <1>12, StepCases DEF EndpointStep

(***************************************************************************)
(* Addresses.                                                              *)
(***************************************************************************)
LEMMA MovedReachable ==
    ASSUME NEW v \in VMs, EndpointsReachable, Moved(v)
    PROVE  EndpointsReachable'
BY DEF EndpointsReachable, Moved

LEMMA ReachableStep ==
    ASSUME TypeInv, ControlInv, EndpointsReachable, [Next]_vars
    PROVE  EndpointsReachable'
<1>1. ASSUME NEW v \in VMs, NEW bmc \in BMC, ConfigureIPMI(v, bmc)
      PROVE  EndpointsReachable'
  BY <1>1, ConfigureMoves, MovedReachable
<1>2. ASSUME NEW v \in VMs, DisableIPMI(v) \/ Delete(v)
      PROVE  EndpointsReachable'
  BY <1>2, DisableMoves, MovedReachable
<1>3. ASSUME NEW v \in VMs, ServeEnds(v)
      PROVE  EndpointsReachable'
  <2>1. endpoint[v] # None
    BY <1>3 DEF ServeEnds
  <2> QED
    BY <1>3, <2>1, ServeEndsMoves DEF EndpointsReachable
<1>4. ASSUME NEW v \in VMs, Reconcile(v)
      PROVE  EndpointsReachable'
  BY <1>4, ReconcileMoves DEF EndpointsReachable
<1>5. CASE RollbackIPMI
  BY <1>5, RollbackMoves, MovedReachable DEF HeldType
<1>6. CASE Crash \/ Close
  BY <1>6 DEF Crash, Close, Gone, EndpointsReachable
<1>7. CASE UNCHANGED <<endpoint, assigned, severed>>
  BY <1>7 DEF EndpointsReachable
<1>8. ASSUME NEW v \in VMs, DriveStep(v)
      PROVE  UNCHANGED <<endpoint, assigned, severed>>
  BY <1>8, DriveStepSaves
<1>9. ASSUME NEW v \in VMs, NEW b \in Overrides, SetIPMIBootFlags(v, b)
      PROVE  UNCHANGED <<endpoint, assigned, severed>>
  BY <1>9 DEF SetIPMIBootFlags, hardware
<1>10. ASSUME NEW v \in VMs, Start(v) \/ Exit(v) \/ ProcessExited(v)
       PROVE  UNCHANGED <<endpoint, assigned, severed>>
  BY <1>10 DEF Start, Exit, ProcessExited, hardware, ghosts
<1>11. ASSUME \/ SaveIPMI \/ SaveCDROM \/ RollbackCDROM \/ SaveStart
              \/ SaveDelete \/ NewManager \/ Quiet
       PROVE  UNCHANGED <<endpoint, assigned, severed>>
  BY <1>11 DEF SaveIPMI, SaveCDROM, RollbackCDROM, SaveStart, SaveDelete,
               NewManager, Quiet, hardware, ghosts
<1> QED
  BY <1>1, <1>2, <1>3, <1>4, <1>5, <1>6, <1>7, <1>8, <1>9, <1>10, <1>11,
     StepCases DEF EndpointStep

(***************************************************************************)
(* The record of the BMC.                                                  *)
(***************************************************************************)
LEMMA RecordKept ==
    ASSUME RecordInv, UNCHANGED <<endpoint, unsettled, todo, up>>,
           \A w \in VMs : vms'[w].bmc = vms[w].bmc,
           held.kind \notin {"bmc", "delete"}, held'.kind \notin {"bmc", "delete"}
    PROVE  RecordInv'
BY DEF RecordInv, Pending

LEMMA RecordStep ==
    ASSUME TypeInv, ControlInv, MediaInv, RecordInv, [Next]_vars
    PROVE  RecordInv'
<1>0. Free.kind = "free"
  BY DEF Free
<1>1. ASSUME NEW v \in VMs, NEW bmc \in BMC, ConfigureIPMI(v, bmc)
      PROVE  RecordInv'
  <2>1. up /\ held = Free /\ todo = {} /\ UNCHANGED <<vms, todo, up>>
    BY <1>1 DEF ConfigureIPMI, CanRequest, Serving, Idle
  <2>2. /\ \A w \in VMs \ {v} : endpoint'[w] = endpoint[w]
        /\ \A w \in VMs \ {v} : w \in unsettled' <=> w \in unsettled
    BY <1>1, ConfigureMoves DEF Moved, SettledBut
  <2>3. \/ /\ held'.kind = "bmc" /\ held'.vm = v /\ held'.next = bmc
           /\ Answers(endpoint'[v], bmc)
        \/ /\ held' = Free
           /\ v \in unsettled'
              \/ (v \notin unsettled /\ endpoint'[v] = endpoint[v])
    BY <1>1, ConfigureMoves
  <2> QED
    BY <1>0, <2>1, <2>2, <2>3 DEF RecordInv, Pending
<1>2. ASSUME NEW v \in VMs, DisableIPMI(v) \/ Delete(v)
      PROVE  RecordInv'
  <2>1. /\ up /\ held = Free /\ UNCHANGED <<vms, todo, up>>
        /\ held'.kind \in {"bmc", "delete"} /\ held'.vm = v
        /\ held'.kind = "bmc" => held'.next = None
    BY <1>2 DEF DisableIPMI, Delete, CanRequest, Serving, Idle
  <2>2. /\ \A w \in VMs \ {v} : endpoint'[w] = endpoint[w]
        /\ \A w \in VMs \ {v} : w \in unsettled' <=> w \in unsettled
        /\ endpoint'[v] = None
    BY <1>2, DisableMoves DEF Moved, SettledBut
  <2> QED
    BY <1>0, <2>1, <2>2 DEF RecordInv, Pending, Answers
<1>3. ASSUME NEW v \in VMs, ServeEnds(v)
      PROVE  RecordInv'
  <2>1. \A w \in VMs \ {v} : endpoint'[w] = endpoint[w]
    BY <1>3, ServeEndsMoves
  <2>2. unsettled' = unsettled \cup {v} /\ UNCHANGED <<vms, held, todo, up>>
    BY <1>3, ServeEndsMoves
  <2>3. held.kind = "bmc" => held.vm \in VMs
    BY HandlerRuns
  <2> QED
    BY <2>1, <2>2, <2>3 DEF RecordInv, Pending
<1>4. ASSUME NEW v \in VMs, Reconcile(v)
      PROVE  RecordInv'
  <2>1. up /\ v \in todo /\ todo' = todo \ {v} /\ UNCHANGED <<vms, held, up>>
    BY <1>4 DEF Reconcile
  <2>2. held.kind \notin {"bmc", "delete"}
    BY <2>1 DEF ControlInv
  <2>3. /\ \A w \in VMs \ {v} : endpoint'[w] = endpoint[w]
        /\ \A w \in VMs \ {v} : w \in unsettled' <=> w \in unsettled
        /\ v \in unsettled' \/ Answers(endpoint'[v], vms[v].bmc)
    BY <1>4, ReconcileMoves DEF SettledBut
  <2> QED
    BY <2>1, <2>2, <2>3 DEF RecordInv, Pending
<1>5. ASSUME NEW v \in VMs,
             \/ \E b \in Overrides : SetIPMIBootFlags(v, b)
             \/ ProcessExited(v)
      PROVE  RecordInv'
  <2>1. Changed(v) /\ vms'[v].bmc = vms[v].bmc
    BY <1>5, SavedFlags, SavedExit DEF Same
  <2>2. held = Free /\ UNCHANGED <<endpoint, unsettled, held, todo, up>>
    BY <1>5 DEF SetIPMIBootFlags, ProcessExited, CanHandle, Idle, hardware,
                control, ghosts
  <2> QED
    BY <1>0, <2>1, <2>2, RecordKept DEF Changed
<1>6. ASSUME NEW v \in VMs, DriveStep(v)
      PROVE  RecordInv'
  <2>1. /\ held = Free /\ UNCHANGED <<endpoint, unsettled, todo, up>>
        /\ \A w \in VMs : vms'[w].bmc = vms[w].bmc
    BY <1>6, DriveStepSaves DEF Changed, Same
  <2>2. held' = Free \/ held'.kind = "cdrom"
    BY <1>6, <2>1, DriveStepMedia DEF Swapped
  <2> QED
    BY <1>0, <2>1, <2>2, RecordKept
<1>7. ASSUME NEW v \in VMs, Start(v)
      PROVE  RecordInv'
  <2>1. /\ held = Free /\ held'.kind = "start"
        /\ UNCHANGED <<vms, endpoint, unsettled, todo, up>>
    BY <1>7 DEF Start, CanHandle, Idle
  <2> QED
    BY <1>0, <2>1, RecordKept
<1>8. ASSUME UNCHANGED <<vms, endpoint, unsettled, held, todo, up>>
      PROVE  RecordInv'
  BY <1>8 DEF RecordInv, Pending
<1>9. ASSUME NEW v \in VMs, Exit(v)
      PROVE  RecordInv'
  BY <1>8, <1>9 DEF Exit, control
<1>10. CASE SaveIPMI
  <2>1. /\ held.vm \in VMs /\ vms'[held.vm].bmc = held.next
        /\ \A w \in VMs \ {held.vm} : vms'[w] = vms[w]
    BY <1>10, SavedIPMI DEF HeldType, Changed
  <2>2. /\ held.kind = "bmc" /\ held' = Free
        /\ UNCHANGED <<endpoint, unsettled, todo, up>>
    BY <1>10 DEF SaveIPMI, hardware, ghosts
  <2> QED
    BY <1>0, <2>1, <2>2 DEF RecordInv, Pending
<1>11. CASE RollbackIPMI
  <2>1. /\ \A w \in VMs \ {held.vm} : endpoint'[w] = endpoint[w]
        /\ \A w \in VMs \ {held.vm} : w \in unsettled' <=> w \in unsettled
        /\ held.vm \in unsettled'
           \/ Answers(endpoint'[held.vm], vms[held.vm].bmc)
    BY <1>11, RollbackMoves DEF Moved, SettledBut
  <2>2. held' = Free /\ UNCHANGED <<vms, todo, up>>
    BY <1>11 DEF RollbackIPMI
  <2> QED
    BY <1>0, <2>1, <2>2 DEF RecordInv, Pending
<1>12. CASE SaveDelete
  <2>1. /\ held.kind = "delete" /\ held' = Free /\ UNCHANGED <<endpoint, todo, up>>
        /\ \A w \in VMs \ {held.vm} : w \in unsettled' <=> w \in unsettled
    BY <1>12 DEF SaveDelete, hardware
  <2>2. held.vm \in VMs /\ endpoint[held.vm] = None
    BY <2>1, HandlerRuns DEF ControlInv
  <2>3. /\ \A w \in VMs \ {held.vm} : vms'[w] = vms[w]
    BY <1>12, SavedDelete DEF Changed
  <2>4. held.vm \in unsettled' \/ vms'[held.vm].bmc = None
    BY <1>12, <2>2, NewRecord DEF SaveDelete, TypeInv
  <2> QED
    BY <1>0, <2>1, <2>2, <2>3, <2>4 DEF RecordInv, Pending, Answers
<1>13. CASE SaveCDROM
  <2>1. \A w \in VMs : vms'[w].bmc = vms[w].bmc
    BY <1>13, SavedCDROM DEF Changed, Same
  <2> QED
    BY <1>0, <1>13, <2>1, RecordKept DEF SaveCDROM, hardware
<1>14. CASE RollbackCDROM
  BY <1>0, <1>14, RecordKept DEF RollbackCDROM
<1>15. CASE SaveStart
  <2>1. \A w \in VMs : vms'[w].bmc = vms[w].bmc
    BY <1>15, SavedStart DEF Changed, Same
  <2> QED
    BY <1>0, <1>15, <2>1, RecordKept DEF SaveStart, hardware
<1>16. CASE Crash \/ Close
  BY <1>0, <1>16 DEF Crash, Close, Gone, RecordInv
<1>17. CASE NewManager
  <2>1. /\ ~up /\ UNCHANGED <<held, endpoint>>
        /\ todo' = {v \in VMs : file[v].bmc # None}
    BY <1>17 DEF NewManager, hardware
  <2>2. \A w \in VMs : vms'[w].bmc = file[w].bmc
    BY <1>17, Restarted DEF Same
  <2> QED
    BY <1>0, <2>1, <2>2 DEF ControlInv, RecordInv, Answers
<1>18. CASE Quiet
  BY <1>8, <1>18 DEF Quiet, hardware, ghosts
<1> QED
  BY <1>1, <1>2, <1>3, <1>4, <1>5, <1>6, <1>7, <1>9, <1>10, <1>11, <1>12,
     <1>13, <1>14, <1>15, <1>16, <1>17, <1>18, StepCases DEF EndpointStep

(***************************************************************************)
(* One-shot overrides.                                                     *)
(***************************************************************************)
LEMMA OneShotStep ==
    ASSUME TypeInv, MediaInv, OneShotIsOnce, [Next]_vars
    PROVE  OneShotIsOnce'
<1>1. ASSUME UNCHANGED <<vms, file, spent>>
      PROVE  OneShotIsOnce'
  BY <1>1 DEF OneShotIsOnce
<1>2. ASSUME NEW v \in VMs, Changed(v), spent' \subseteq spent \cup {v},
             v \in spent' => /\ vms'[v].boot # "once"
                             /\ v \in spent \/ file' = vms'
      PROVE  OneShotIsOnce'
  BY <1>2 DEF Changed, OneShotIsOnce, TypeInv
<1>3. ASSUME NEW v \in VMs, EndpointStep(v)
      PROVE  UNCHANGED <<vms, file, spent>>
  BY <1>3 DEF EndpointStep, ConfigureIPMI, DisableIPMI, Delete, ServeEnds,
              Reconcile, ghosts
<1>4. ASSUME NEW v \in VMs, NEW b \in Overrides, SetIPMIBootFlags(v, b)
      PROVE  OneShotIsOnce'
  BY <1>2, <1>4, SavedFlags DEF SetIPMIBootFlags
<1>5. ASSUME NEW v \in VMs, ProcessExited(v)
      PROVE  OneShotIsOnce'
  <2>1. Changed(v) /\ vms'[v].boot = vms[v].boot /\ UNCHANGED spent
    BY <1>5, SavedExit DEF ProcessExited, ghosts, Same
  <2> QED
    BY <1>2, <2>1 DEF OneShotIsOnce
<1>6. ASSUME NEW v \in VMs, DriveStep(v)
      PROVE  OneShotIsOnce'
  <2>1. /\ UNCHANGED spent
        /\ \/ UNCHANGED <<vms, file>>
           \/ Changed(v) /\ vms'[v].boot = vms[v].boot
    BY <1>6, DriveStepSaves DEF Same
  <2> QED
    BY <1>1, <1>2, <2>1 DEF OneShotIsOnce
<1>7. ASSUME NEW v \in VMs, Start(v) \/ Exit(v)
      PROVE  UNCHANGED <<vms, file, spent>>
  BY <1>7 DEF Start, Exit
<1>8. CASE SaveIPMI
  <2>1. /\ held.vm \in VMs /\ Changed(held.vm) /\ vms'[held.vm].boot # "once"
        /\ file' = vms' /\ UNCHANGED spent
    BY <1>8, SavedIPMI DEF SaveIPMI, ghosts, HeldType
  <2> QED
    BY <1>2, <2>1
<1>9. CASE SaveCDROM
  <2>1. /\ held.vm \in VMs /\ Changed(held.vm) /\ UNCHANGED spent
        /\ vms'[held.vm].boot = vms[held.vm].boot
    BY <1>9, SavedCDROM DEF SaveCDROM, HeldType, Same
  <2> QED
    BY <1>2, <2>1 DEF OneShotIsOnce
<1>10. CASE SaveStart
  <2>1. held.vm \in VMs /\ Changed(held.vm) /\ vms'[held.vm].boot # "once"
    BY <1>10, SavedStart DEF HeldType
  <2>2. \/ file' = vms' /\ spent' \subseteq spent \cup {held.vm}
        \/ UNCHANGED spent
    BY <1>10 DEF SaveStart, With
  <2> QED
    BY <1>2, <2>1, <2>2
<1>11. CASE SaveDelete
  <2>1. /\ held.vm \in VMs /\ Changed(held.vm) /\ UNCHANGED spent
        /\ \/ UNCHANGED <<vms, file>>
           \/ vms'[held.vm].boot = "no"
    BY <1>11, SavedDelete, NewRecord DEF SaveDelete, HeldType
  <2> QED
    BY <1>1, <1>2, <2>1
<1>12. CASE NewManager
  BY <1>12, Restarted DEF NewManager, ghosts, OneShotIsOnce, Same, TypeInv
<1>13. ASSUME RollbackIPMI \/ RollbackCDROM \/ Crash \/ Close \/ Quiet
       PROVE  UNCHANGED <<vms, file, spent>>
  BY <1>13 DEF RollbackIPMI, RollbackCDROM, Crash, Close, Gone, Quiet, ghosts
<1> QED
  BY <1>1, <1>3, <1>4, <1>5, <1>6, <1>7, <1>8, <1>9, <1>10, <1>11, <1>12,
     <1>13, StepCases

(***************************************************************************)
(* Media.  A machine whose guest and marks a step leaves alone stays as it *)
(* is, also when vms.json is replaced by what memory holds.                *)
(***************************************************************************)
After(v, drives) ==
    /\ DOMAIN guest'[v] = DOMAIN drives
    /\ \A i \in DOMAIN guest'[v] :
          \/ <<v, i>> \in strayed'
          \/ held'.kind = "cdrom" /\ held'.vm = v /\ held'.at = i
          \/ guest'[v][i] = drives[i].iso

Marked(v, i) == <<v, i>> \in strayed \/ Changing(v, i)
MarksKept(v) == \A i : Marked(v, i) => Marked(v, i)'
Busy(h) == h.kind \in {"cdrom", "start"}

LEMMA HoldsKept ==
    ASSUME NEW v \in VMs, NEW drives, Holds(v, drives), guest'[v] = guest[v],
           MarksKept(v)
    PROVE  After(v, drives)
BY DEF Holds, After, MarksKept, Marked, Changing

LEMMA MatchesNext ==
    ASSUME NEW v \in VMs,
           vms'[v].defined => file'[v].drives = vms'[v].drives,
           vms'[v].active /\ guest'[v] # None => After(v, vms'[v].drives),
           file'[v].active /\ guest'[v] # None => After(v, file'[v].drives)
    PROVE  Matches(v)'
BY DEF Matches, Holds, Changing, After

LEMMA MatchesKept ==
    ASSUME NEW v \in VMs, Matches(v), guest'[v] = guest[v], MarksKept(v),
           vms'[v].drives = vms[v].drives, vms'[v].defined = vms[v].defined,
           vms'[v].active => vms[v].active \/ Holds(v, vms[v].drives),
           file'[v] = vms'[v] \/ file'[v] = file[v]
    PROVE  Matches(v)'
<1>1. vms'[v].active /\ guest'[v] # None => After(v, vms'[v].drives)
  BY HoldsKept DEF Matches
<1>2. file[v].active /\ guest'[v] # None => After(v, file[v].drives)
  BY HoldsKept DEF Matches
<1>3. vms'[v].defined => file'[v].drives = vms'[v].drives
  BY DEF Matches
<1> QED
  BY <1>1, <1>2, <1>3, MatchesNext

LEMMA MediaSaved ==
    ASSUME MediaInv, NEW v \in VMs, Changed(v), UNCHANGED <<guest, strayed>>,
           ~Busy(held), ~Busy(held'),
           vms'[v].drives = vms[v].drives, vms'[v].defined = vms[v].defined,
           vms'[v].active => vms[v].active
    PROVE  MediaInv'
<1>1. \A w \in VMs : MarksKept(w)
  BY DEF MarksKept, Marked, Changing, Busy
<1>2. ASSUME NEW w \in VMs
      PROVE  Matches(w)'
  BY <1>1, MatchesKept DEF Changed, MediaInv
<1> QED
  BY <1>2 DEF MediaInv, Busy

LEMMA MediaQuiet ==
    ASSUME MediaInv, UNCHANGED <<vms, file, guest, strayed>>,
           held' = held \/ (~Busy(held) /\ ~Busy(held'))
    PROVE  MediaInv'
<1>1. \A w \in VMs : MarksKept(w)
  BY DEF MarksKept, Marked, Changing, Busy
<1>2. ASSUME NEW w \in VMs
      PROVE  Matches(w)'
  BY <1>1, MatchesKept DEF MediaInv
<1>3. CASE held' = held
  BY <1>2, <1>3 DEF MediaInv, Holds, Changing
<1>4. CASE ~Busy(held')
  BY <1>2, <1>4 DEF MediaInv, Busy
<1> QED
  BY <1>3, <1>4

(***************************************************************************)
(* UpdateCDROM has changed the medium of an active machine.                *)
(***************************************************************************)
LEMMA MediaSwapped ==
    ASSUME TypeInv, MediaInv, NEW v \in VMs, vms[v].defined,
           NEW i \in DOMAIN vms[v].drives, NEW iso \in Media, Swapped(v, i, iso)
    PROVE  MediaInv'
<1>0. /\ Free.kind = "free" /\ held = Free /\ UNCHANGED <<vms, file>>
      /\ vms[v].active /\ guest[v] # None
  BY DEF Free, Swapped
<1>1. Holds(v, vms[v].drives) /\ file[v].drives = vms[v].drives
  BY <1>0 DEF MediaInv, Matches
<1>2. \A w \in VMs : MarksKept(w)
  BY <1>0 DEF MarksKept, Marked, Changing, Swapped
<1>3. /\ \A w \in VMs \ {v} : guest'[w] = guest[w]
      /\ guest'[v] = [guest[v] EXCEPT ![i] = iso]
  BY DEF Swapped, TypeInv
<1>4. /\ DOMAIN guest'[v] = DOMAIN vms[v].drives /\ guest'[v][i] = iso
      /\ \A j \in DOMAIN guest[v] \ {i} : guest'[v][j] = guest[v][j]
  BY <1>1, <1>3 DEF Holds
<1>5. \A j : Marked(v, j) => <<v, j>> \in strayed'
  BY <1>0 DEF Marked, Changing, Swapped
<1>6. After(v, vms[v].drives)
  BY <1>1, <1>3, <1>4, <1>5 DEF After, Holds, Marked, Swapped
<1>7. ASSUME NEW w \in VMs
      PROVE  Matches(w)'
  <2>1. CASE w = v
    BY <1>0, <1>1, <1>6, <2>1, MatchesNext
  <2>2. CASE w # v
    BY <1>0, <1>2, <1>3, <2>2, MatchesKept DEF MediaInv
  <2> QED
    BY <2>1, <2>2
<1>8. held' = Free \/ held' = [kind |-> "cdrom", vm |-> v, next |-> iso, at |-> i]
  BY <1>0 DEF Swapped
<1> QED
  BY <1>0, <1>4, <1>7, <1>8 DEF MediaInv

LEMMA MediaDrives ==
    ASSUME TypeInv, MediaInv, NEW v \in VMs, DriveStep(v)
    PROVE  MediaInv'
<1>0. Free.kind = "free"
  BY DEF Free
<1>1. /\ held = Free /\ vms[v].defined
      /\ \/ UNCHANGED <<vms, file>>
         \/ /\ ~vms[v].active /\ UNCHANGED <<guest, strayed, held>>
            /\ Changed(v) /\ file' = vms' /\ ~vms'[v].active
  BY DriveStepSaves DEF Same
<1>2. CASE UNCHANGED <<vms, file>>
  BY <1>1, <1>2, DriveStepMedia, MediaSwapped, MediaQuiet
<1>3. CASE /\ ~vms[v].active /\ UNCHANGED <<guest, strayed, held>>
           /\ Changed(v) /\ file' = vms' /\ ~vms'[v].active
  <2>1. \A w \in VMs : MarksKept(w)
    BY <1>3 DEF MarksKept, Marked, Changing
  <2>2. ASSUME NEW w \in VMs
        PROVE  Matches(w)'
    <3>1. CASE w = v
      BY <1>3, <3>1, MatchesNext
    <3>2. CASE w # v
      BY <1>3, <2>1, <3>2, MatchesKept DEF MediaInv, Changed
    <3> QED
      BY <3>1, <3>2
  <2> QED
    BY <1>0, <1>1, <1>3, <2>2 DEF MediaInv
<1> QED
  BY <1>1, <1>2, <1>3

LEMMA MediaSaveCDROM ==
    ASSUME TypeInv, MediaInv, SaveCDROM
    PROVE  MediaInv'
<1> DEFINE v == held.vm
<1>0. /\ Free.kind = "free" /\ held' = Free /\ held.kind = "cdrom"
      /\ strayed' = strayed \ {<<v, held.at>>} /\ UNCHANGED guest /\ file' = vms'
  BY DEF Free, SaveCDROM, hardware
<1>1. /\ v \in VMs /\ \A w \in VMs \ {v} : vms'[w] = vms[w]
      /\ DOMAIN vms'[v].drives = DOMAIN vms[v].drives
      /\ vms'[v].drives[held.at].iso = held.next
      /\ \A j \in DOMAIN vms[v].drives \ {held.at} :
            vms'[v].drives[j] = vms[v].drives[j]
  BY SavedCDROM DEF HeldType, Changed
<1>2. vms[v].active /\ (guest[v] # None => guest[v][held.at] = held.next)
  BY <1>0 DEF MediaInv
<1>3. guest[v] # None => After(v, vms'[v].drives)
  <2>1. guest[v] # None => Holds(v, vms[v].drives)
    BY <1>1, <1>2 DEF MediaInv, Matches
  <2> QED
    BY <1>0, <1>1, <1>2, <2>1 DEF Holds, After, Changing
<1>4. ASSUME NEW w \in VMs
      PROVE  Matches(w)'
  <2>1. CASE w = v
    BY <1>0, <1>3, <2>1, MatchesNext
  <2>2. CASE w # v
    <3>1. MarksKept(w)
      BY <1>0, <2>2 DEF MarksKept, Marked, Changing
    <3> QED
      BY <1>0, <1>1, <2>2, <3>1, MatchesKept DEF MediaInv
  <2> QED
    BY <2>1, <2>2
<1> QED
  BY <1>0, <1>4 DEF MediaInv

LEMMA MediaRollback ==
    ASSUME TypeInv, ControlInv, MediaInv, RollbackCDROM
    PROVE  MediaInv'
<1> DEFINE v == held.vm
<1>0. /\ Free.kind = "free" /\ held' = Free /\ held.kind = "cdrom"
      /\ UNCHANGED <<vms, file>>
  BY DEF Free, RollbackCDROM
<1>1. v \in VMs
  BY <1>0, HandlerRuns
<1>2. /\ vms[v].active /\ file[v].drives = vms[v].drives
      /\ held.at \in DOMAIN vms[v].drives
      /\ guest[v] # None => Holds(v, vms[v].drives)
  BY <1>0, <1>1 DEF MediaInv, Matches
<1>3. /\ \A w \in VMs \ {v} : guest'[w] = guest[w]
      /\ \A d : d # <<v, held.at>> => (d \in strayed <=> d \in strayed')
  BY <1>1 DEF RollbackCDROM, TypeInv
<1>4. guest'[v] # None => After(v, vms[v].drives)
  <2>1. CASE /\ guest[v] # None
             /\ guest' = [guest EXCEPT ![v][held.at] = vms[v].drives[held.at].iso]
    <3>1. guest'[v] = [guest[v] EXCEPT ![held.at] = vms[v].drives[held.at].iso]
      BY <1>1, <2>1 DEF TypeInv
    <3>2. /\ DOMAIN guest'[v] = DOMAIN vms[v].drives
          /\ guest'[v][held.at] = vms[v].drives[held.at].iso
          /\ \A j \in DOMAIN guest[v] \ {held.at} : guest'[v][j] = guest[v][j]
      BY <1>2, <2>1, <3>1 DEF Holds
    <3> QED
      BY <1>0, <1>2, <1>3, <2>1, <3>2 DEF After, Holds, Changing
  <2>2. CASE guest[v] = None /\ UNCHANGED guest
    BY <2>2
  <2>3. CASE /\ guest[v] # None /\ strayed' = strayed \cup {<<v, held.at>>}
             /\ UNCHANGED guest
    BY <1>0, <1>2, <2>3 DEF After, Holds, Changing
  <2> QED
    BY <2>1, <2>2, <2>3 DEF RollbackCDROM
<1>5. ASSUME NEW w \in VMs
      PROVE  Matches(w)'
  <2>1. CASE w = v
    BY <1>0, <1>2, <1>4, <2>1, MatchesNext
  <2>2. CASE w # v
    <3>1. MarksKept(w)
      BY <1>0, <1>3, <2>2 DEF MarksKept, Marked, Changing
    <3> QED
      BY <1>0, <1>3, <2>2, <3>1, MatchesKept DEF MediaInv
  <2> QED
    BY <2>1, <2>2
<1> QED
  BY <1>0, <1>5 DEF MediaInv

LEMMA MediaStart ==
    ASSUME TypeInv, MediaInv, NEW v \in VMs, Start(v)
    PROVE  MediaInv'
<1>0. /\ Free.kind = "free" /\ held = Free /\ UNCHANGED <<vms, file>>
      /\ held' = [kind |-> "start", vm |-> v, next |-> vms[v].boot]
      /\ vms[v].defined /\ ~vms[v].active
      /\ strayed' = {d \in strayed : d[1] # v}
  BY DEF Free, Start, CanHandle, Idle
<1>1. guest'[v] = MediaOf(v) /\ \A w \in VMs \ {v} : guest'[w] = guest[w]
  BY DEF Start, TypeInv
<1>2. file[v].drives = vms[v].drives
  BY <1>0 DEF MediaInv, Matches
<1>3. After(v, vms[v].drives)
  BY <1>1 DEF MediaOf, After
<1>4. ASSUME NEW w \in VMs
      PROVE  Matches(w)'
  <2>1. CASE w = v
    BY <1>0, <1>2, <1>3, <2>1, MatchesNext
  <2>2. CASE w # v
    <3>1. MarksKept(w)
      BY <1>0, <2>2 DEF MarksKept, Marked, Changing
    <3> QED
      BY <1>0, <1>1, <2>2, <3>1, MatchesKept DEF MediaInv
  <2> QED
    BY <2>1, <2>2
<1>5. Holds(v, vms[v].drives)'
  BY <1>0, <1>3 DEF After, Holds, Changing
<1> QED
  BY <1>0, <1>4, <1>5 DEF MediaInv

LEMMA MediaExit ==
    ASSUME TypeInv, MediaInv, NEW v \in VMs, Exit(v)
    PROVE  MediaInv'
<1>0. /\ UNCHANGED <<vms, file, held>> /\ strayed' = {d \in strayed : d[1] # v}
      /\ guest'[v] = None /\ \A w \in VMs \ {v} : guest'[w] = guest[w]
  BY DEF Exit, control, TypeInv
<1>1. \A w \in VMs \ {v} : MarksKept(w)
  BY <1>0 DEF MarksKept, Marked, Changing
<1>2. ASSUME NEW w \in VMs
      PROVE  Matches(w)'
  <2>1. CASE w = v
    BY <1>0, <2>1, MatchesNext DEF MediaInv, Matches
  <2>2. CASE w # v
    BY <1>0, <1>1, <2>2, MatchesKept DEF MediaInv
  <2> QED
    BY <2>1, <2>2
<1>3. held = Free \/ held.vm \in VMs
  BY DEF TypeInv, HeldType
<1>4. CASE held = Free
  BY <1>0, <1>2, <1>4 DEF MediaInv, Free
<1>5. CASE held.vm = v
  BY <1>0, <1>2, <1>5 DEF MediaInv
<1>6. CASE held.vm \in VMs \ {v}
  <2>1. /\ held'.vm = held.vm /\ vms' = vms
        /\ guest'[held.vm] = guest[held.vm]
        /\ \A i : Marked(held.vm, i) => Marked(held.vm, i)'
    BY <1>0, <1>1, <1>6 DEF MarksKept
  <2>2. Holds(held.vm, vms[held.vm].drives) => Holds(held.vm, vms[held.vm].drives)'
    BY <2>1 DEF Holds, Marked
  <2> QED
    BY <1>0, <1>2, <2>1, <2>2 DEF MediaInv
<1> QED
  BY <1>3, <1>4, <1>5, <1>6

LEMMA MediaSaveStart ==
    ASSUME TypeInv, MediaInv, SaveStart
    PROVE  MediaInv'
<1>0. /\ Free.kind = "free" /\ held' = Free /\ held.kind = "start"
      /\ UNCHANGED <<guest, strayed>>
  BY DEF Free, SaveStart, hardware
<1>1. /\ held.vm \in VMs /\ Changed(held.vm)
      /\ vms'[held.vm].drives = vms[held.vm].drives
      /\ vms'[held.vm].defined = vms[held.vm].defined
  BY SavedStart DEF HeldType, Same
<1>2. /\ \A w \in VMs \ {held.vm} : vms'[w] = vms[w]
      /\ file' = vms' \/ file' = file
  BY <1>1 DEF Changed
<1>3. guest[held.vm] # None => Holds(held.vm, vms[held.vm].drives)
  BY <1>0 DEF MediaInv
<1>4. \A w \in VMs : MarksKept(w)
  BY <1>0 DEF MarksKept, Marked, Changing
<1>5. ASSUME NEW w \in VMs
      PROVE  Matches(w)'
  <2>1. CASE w # held.vm \/ guest[w] # None
    BY <1>0, <1>1, <1>2, <1>3, <1>4, <2>1, MatchesKept DEF MediaInv
  <2>2. CASE w = held.vm /\ guest[w] = None
    BY <1>0, <1>1, <1>2, <2>2, MatchesNext DEF MediaInv, Matches
  <2> QED
    BY <2>1, <2>2
<1> QED
  BY <1>0, <1>5 DEF MediaInv

LEMMA MediaDelete ==
    ASSUME TypeInv, MediaInv, SaveDelete
    PROVE  MediaInv'
<1>0. /\ Free.kind = "free" /\ held' = Free /\ held.kind = "delete"
      /\ UNCHANGED <<guest, strayed>>
  BY DEF Free, SaveDelete, hardware
<1>1. /\ held.vm \in VMs /\ Changed(held.vm)
      /\ vms'[held.vm] = Machine(FALSE) \/ UNCHANGED <<vms, file>>
  BY SavedDelete DEF HeldType
<1>2. CASE UNCHANGED <<vms, file>>
  BY <1>0, <1>2, MediaQuiet DEF Busy
<1>3. CASE vms'[held.vm] = Machine(FALSE)
  <2>1. ~vms'[held.vm].active /\ ~vms'[held.vm].defined
    BY <1>3, NewRecord
  <2>2. \A w \in VMs : MarksKept(w)
    BY <1>0 DEF MarksKept, Marked, Changing
  <2>3. ASSUME NEW w \in VMs
        PROVE  Matches(w)'
    <3>1. CASE w # held.vm
      BY <1>0, <1>1, <2>2, <3>1, MatchesKept DEF MediaInv, Changed
    <3>2. CASE w = held.vm
      <4>1. file[w].active /\ guest[w] # None => After(w, file[w].drives)
        BY <1>0, <2>2, HoldsKept DEF MediaInv, Matches
      <4> QED
        BY <1>0, <1>1, <2>1, <3>2, <4>1, MatchesNext DEF Changed
    <3> QED
      BY <3>1, <3>2
  <2> QED
    BY <1>0, <2>3 DEF MediaInv
<1> QED
  BY <1>1, <1>2, <1>3

LEMMA MediaGone ==
    ASSUME TypeInv, MediaInv, Gone
    PROVE  MediaInv'
<1>0. /\ Free.kind = "free" /\ held' = Free /\ UNCHANGED <<vms, file, guest>>
      /\ strayed' = IF held.kind = "cdrom"
                    THEN strayed \cup {<<held.vm, held.at>>} ELSE strayed
  BY DEF Free, Gone
<1>1. \A w \in VMs : MarksKept(w)
  BY <1>0 DEF MarksKept, Marked, Changing
<1>2. ASSUME NEW w \in VMs
      PROVE  Matches(w)'
  BY <1>0, <1>1, MatchesKept DEF MediaInv
<1> QED
  BY <1>0, <1>2 DEF MediaInv

LEMMA MediaRestarted ==
    ASSUME TypeInv, ControlInv, MediaInv, NewManager
    PROVE  MediaInv'
<1>0. /\ Free.kind = "free" /\ held = Free /\ UNCHANGED <<held, guest, strayed>>
      /\ file' = vms'
  BY DEF Free, NewManager, ControlInv, hardware, ghosts
<1>1. \A w \in VMs : /\ vms'[w].drives = file[w].drives
                     /\ vms'[w].active => file[w].active
  BY Restarted DEF Same
<1>2. \A w \in VMs : MarksKept(w)
  BY <1>0 DEF MarksKept, Marked, Changing
<1>3. ASSUME NEW w \in VMs
      PROVE  Matches(w)'
  <2>1. file[w].active /\ guest[w] # None => After(w, file[w].drives)
    BY <1>0, <1>2, HoldsKept DEF MediaInv, Matches
  <2> QED
    BY <1>0, <1>1, <2>1, MatchesNext
<1> QED
  BY <1>0, <1>3 DEF MediaInv

LEMMA MediaStep ==
    ASSUME TypeInv, ControlInv, MediaInv, [Next]_vars
    PROVE  MediaInv'
<1>0. Free.kind = "free"
  BY DEF Free
<1>1. ASSUME NEW v \in VMs, EndpointStep(v)
      PROVE  MediaInv'
  <2>1. UNCHANGED <<vms, file, guest, strayed>>
    BY <1>1 DEF EndpointStep, ConfigureIPMI, DisableIPMI, Delete, ServeEnds,
                Reconcile, ghosts
  <2>2. held' = held \/ (~Busy(held) /\ ~Busy(held'))
    BY <1>0, <1>1 DEF EndpointStep, ConfigureIPMI, DisableIPMI, Delete,
                      ServeEnds, Reconcile, CanRequest, Serving, Idle, control, Busy
  <2> QED
    BY <2>1, <2>2, MediaQuiet
<1>2. ASSUME NEW v \in VMs,
             \/ \E b \in Overrides : SetIPMIBootFlags(v, b)
             \/ ProcessExited(v)
      PROVE  MediaInv'
  <2>1. /\ Changed(v) /\ vms'[v].drives = vms[v].drives
        /\ vms'[v].defined = vms[v].defined
        /\ vms'[v].active => vms[v].active
    BY <1>2, SavedFlags, SavedExit DEF Same
  <2>2. held = Free /\ UNCHANGED <<guest, strayed, held>>
    BY <1>2 DEF SetIPMIBootFlags, ProcessExited, CanHandle, Idle, hardware,
                control, ghosts
  <2> QED
    BY <1>0, <2>1, <2>2, MediaSaved DEF Busy
<1>3. CASE SaveIPMI
  <2>1. /\ held.vm \in VMs /\ Changed(held.vm)
        /\ vms'[held.vm].drives = vms[held.vm].drives
        /\ vms'[held.vm].defined = vms[held.vm].defined
        /\ vms'[held.vm].active => vms[held.vm].active
    BY <1>3, SavedIPMI DEF HeldType, Same
  <2>2. held.kind = "bmc" /\ held' = Free /\ UNCHANGED <<guest, strayed>>
    BY <1>3 DEF SaveIPMI, hardware, ghosts
  <2> QED
    BY <1>0, <2>1, <2>2, MediaSaved DEF Busy
<1>4. CASE RollbackIPMI
  <2>1. held.kind = "bmc" /\ held' = Free /\ UNCHANGED <<vms, file, guest, strayed>>
    BY <1>4 DEF RollbackIPMI
  <2> QED
    BY <1>0, <2>1, MediaQuiet DEF Busy
<1>5. CASE Crash \/ Close
  BY <1>5, MediaGone DEF Crash, Close
<1>6. CASE Quiet
  BY <1>6, MediaQuiet DEF Quiet, hardware, ghosts
<1> QED
  BY <1>1, <1>2, <1>3, <1>4, <1>5, <1>6, MediaDrives, MediaSaveCDROM,
     MediaRollback, MediaStart, MediaExit, MediaSaveStart, MediaDelete,
     MediaRestarted, StepCases
-----------------------------------------------------------------------------
(***************************************************************************)
(* The invariant holds.                                                    *)
(***************************************************************************)
LEMMA InitInv ==
    ASSUME Init
    PROVE  IInv
<1>1. /\ vms = [v \in VMs |-> Machine(TRUE)] /\ file = vms
      /\ \A v \in VMs : vms[v] = Machine(TRUE) /\ endpoint[v] = None /\ guest[v] = None
      /\ todo = {} /\ held = Free /\ up = TRUE /\ spent = {} /\ unsettled = {}
      /\ Free.kind = "free"
  BY DEF Init, Free
<1>2. TypeInv
  BY <1>1, NewRecord DEF Init, TypeInv
<1>3. ControlInv /\ EndpointsReachable /\ OneShotIsOnce
  BY <1>1 DEF ControlInv, EndpointsReachable, OneShotIsOnce
<1>4. RecordInv
  BY <1>1, NewRecord DEF RecordInv, Pending, Answers
<1>5. MediaInv
  BY <1>1 DEF MediaInv, Matches
<1> QED
  BY <1>2, <1>3, <1>4, <1>5 DEF IInv

(***************************************************************************)
(* Endpoints, bridge addresses, records, media and boot overrides agree as *)
(* IInv says, whatever requests, failures, crashes and start-ups come in   *)
(* between: internal/ipmi/ipmi.go and the device requests of vm.go.        *)
(***************************************************************************)
THEOREM InvariantHolds == Spec => []IInv
<1>1. Init => IInv
  BY InitInv
<1>2. IInv /\ [Next]_vars => IInv'
  BY TypeStep, ControlStep, ReachableStep, RecordStep, MediaStep, OneShotStep
  DEF IInv
<1> QED
  BY <1>1, <1>2, PTL DEF Spec

(***************************************************************************)
(* No two virtual BMCs ever share an address, and the address of each is   *)
(* on the management bridge unless Reconcile took it for another machine   *)
(* recorded with it: Configure and disableLocked of internal/ipmi/ipmi.go, *)
(* through failing listeners, rollbacks, crashes and start-ups.            *)
(***************************************************************************)
THEOREM BMCsAreReachable == Spec => []EndpointsReachable
<1>1. IInv => EndpointsReachable
  BY DEF IInv
<1> QED
  BY <1>1, InvariantHolds, PTL

(***************************************************************************)
(* Between requests the endpoint of a machine serves what vms.json and     *)
(* memory record for it, at an address the bridge has, unless its server   *)
(* ended by itself, a Configure, a rollback, a Delete or the restoration   *)
(* of the machine failed, or Reconcile took its address: ConfigureIPMI,    *)
(* Delete and Reconcile.                                                   *)
(***************************************************************************)
THEOREM BMCsMatchTheRecord == Spec => []BMCMatchesRecord
<1>1. IInv => BMCMatchesRecord
  <2> SUFFICES ASSUME TypeInv, RecordInv, EndpointsReachable, Serving,
                      NEW v \in VMs \ (unsettled \cup severed)
               PROVE  IF vms[v].bmc = None THEN endpoint[v] = None
                      ELSE /\ Serves(endpoint[v], vms[v].bmc)
                           /\ endpoint[v].addr \in assigned
    BY DEF IInv, BMCMatchesRecord
  <2>1. up /\ held.kind = "free" /\ todo = {}
    BY DEF Serving, Idle, Free
  <2>2. ~Pending(v)
    BY <2>1 DEF Pending
  <2>3. Answers(endpoint[v], vms[v].bmc)
    BY <2>1, <2>2 DEF RecordInv
  <2> QED
    BY <2>3 DEF Answers, Serves, EndpointsReachable
<1> QED
  BY <1>1, InvariantHolds, PTL

(***************************************************************************)
(* Between requests the optical drives of a running guest hold what its    *)
(* definition says, but where a QMP command failed or App Runner died      *)
(* before its save: UpdateCDROM with its rollback, Start, and NewManager.  *)
(***************************************************************************)
THEOREM MediaMatchTheRecord == Spec => []MediaMatchRecord
<1>1. IInv => MediaMatchRecord
  <2> SUFFICES ASSUME MediaInv, Idle, NEW v \in VMs,
                      vms[v].active, guest[v] # None
               PROVE  /\ DOMAIN guest[v] = DOMAIN vms[v].drives
                      /\ \A i \in DOMAIN guest[v] :
                            <<v, i>> \in strayed
                            \/ guest[v][i] = vms[v].drives[i].iso
    BY DEF IInv, MediaMatchRecord
  <2>1. held.kind = "free"
    BY DEF Idle, Free
  <2>2. Holds(v, vms[v].drives)
    BY DEF MediaInv, Matches
  <2> QED
    BY <2>1, <2>2 DEF Holds, Changing
<1> QED
  BY <1>1, InvariantHolds, PTL

(***************************************************************************)
(* A machine that booted once with a one-shot override has it neither in   *)
(* memory nor in vms.json, so no later start and no restart uses it again: *)
(* SaveStart, SetIPMIBootFlags and NewManager.                             *)
(***************************************************************************)
THEOREM OverridesAreUsedOnce == Spec => []OneShotIsOnce
<1>1. IInv => OneShotIsOnce
  BY DEF IInv
<1> QED
  BY <1>1, InvariantHolds, PTL
=============================================================================
