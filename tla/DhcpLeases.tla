----------------------------- MODULE DhcpLeases -----------------------------
(***************************************************************************)
(* The DHCP leases of one managed bridge (internal/dhcp/dhcp.go): packets, *)
(* expiry, static reservations, the administrator's requests, changes of   *)
(* the address range and the lease file.  Manager.mu is held for a whole   *)
(* lookup or change of the table, so each is one action.  A packet is      *)
(* handled by a goroutine that keeps the range its listener was started    *)
(* with and may outlive the listener.  Packets that change no lease        *)
(* (INFORM, requests to another server, other operations) are left out.    *)
(***************************************************************************)
EXTENDS Naturals, FiniteSets

CONSTANTS
    Macs,        \* hardware addresses of guests
    Ids,         \* DHCP client identifiers; cloned guests may share one
    Ranges,      \* address ranges an administrator may configure
    PoolOffset,  \* poolStartOffset
    LeaseTime,   \* leaseDuration
    NoLease,
    NoRange,
    NoGrant,
    NoAddress,
    MaxTime,     \* bound on the clock
    MaxFailures  \* bound on failed writes of the lease file

Keys == Macs \cup Ids
Lease == [mac : Macs, address : Nat, expires : Nat,
          kind : {"dynamic", "static"}]
Grant == [address : Nat, until : Nat]

ASSUME DhcpAssumption ==
    /\ Macs \cap Ids = {}
    /\ Ranges \subseteq [base : Nat, size : Nat]
    /\ PoolOffset \in Nat \ {0, 1}
    /\ \A r \in Ranges : PoolOffset + 2 <= r.size
    /\ LeaseTime \in Nat \ {0}
    /\ NoLease \notin Lease
    /\ NoRange \notin Ranges
    /\ NoGrant \notin Grant
    /\ NoAddress \notin Nat
    /\ MaxTime \in Nat \ {0}
    /\ MaxFailures \in Nat

VARIABLES
    now,       \* the clock; 0 is Go's zero time, which static leases expire at
    config,    \* state.Bridges[bridge]: its range, NoRange if DHCP is disabled
    leases,    \* state.Leases[bridge], by client key
    file,      \* dhcp.json
    listener,  \* the range of the running listener, or NoRange
    late,      \* the range of the last stopped listener: handlers may run on
    grant,     \* history: the acknowledged address each guest relies on
    shared,    \* history: identifiers whose lease went from one MAC to another
    failures   \* failed writes so far

vars == <<now, config, leases, file, listener, late, grant, shared,
          failures>>

Table == [Keys -> Lease \cup {NoLease}]

TypeOK ==
    /\ now \in 1..MaxTime
    /\ config \in Ranges \cup {NoRange}
    /\ leases \in Table
    /\ file \in [config : Ranges \cup {NoRange}, leases : Table]
    /\ listener \in Ranges \cup {NoRange}
    /\ late \in Ranges \cup {NoRange}
    /\ grant \in [Macs -> Grant \cup {NoGrant}]
    /\ shared \subseteq Ids
    /\ failures \in 0..MaxFailures

Empty == [k \in Keys |-> NoLease]

Init ==
    /\ now = 1
    /\ config = NoRange
    /\ leases = Empty
    /\ file = [config |-> NoRange, leases |-> Empty]
    /\ listener = NoRange
    /\ late = NoRange
    /\ grant = [m \in Macs |-> NoGrant]
    /\ shared = {}
    /\ failures = 0
-----------------------------------------------------------------------------
\* ParseRange: the addresses of a range, as numbers.
Server(r) == r.base + 1
PoolStart(r) == r.base + PoolOffset
PoolEnd(r) == r.base + r.size - 2
Pool(r) == PoolStart(r)..PoolEnd(r)
StaticRange(r) == (r.base..(PoolStart(r) - 1)) \ {Server(r)}

\* clientKey: the identifier if the guest sends one, otherwise its MAC.
KeysOf(m) == {m} \cup Ids

Used(t) == {k \in Keys : t[k] # NoLease}
Own(t, m) == {k \in Keys : t[k] # NoLease /\ t[k].mac = m}
Taken(t) == {t[k].address : k \in Used(t)}
Without(t, K) == [k \in Keys |-> IF k \in K THEN NoLease ELSE t[k]]

\* The leases acquireLease keeps: dynamic ones in the pool that have not
\* expired, static ones below the pool.
Valid(r, l) ==
    IF l.kind = "static"
    THEN l.address \in StaticRange(r)
    ELSE l.expires > now /\ l.address \in Pool(r)
Purged(r) == Without(leases, {k \in Used(leases) : ~Valid(r, leases[k])})

\* A packet of m with this key takes the lease over from another MAC.
ChangesHands(r, key, m) ==
    /\ leases[key] # NoLease
    /\ leases[key].mac # m
    /\ Valid(r, leases[key])

SaveResults ==
    IF failures < MaxFailures THEN {"ok", "failed"} ELSE {"ok"}

Save(t, result) ==
    IF result = "ok"
    THEN /\ file' = [config |-> config, leases |-> t]
         /\ UNCHANGED failures
    ELSE /\ failures' = failures + 1
         /\ UNCHANGED file
-----------------------------------------------------------------------------
(***************************************************************************)
(* acquireLease, once it has purged the table (t).  Its outcomes: the      *)
(* table if it can be saved, the table that stays in memory if it cannot,  *)
(* and the address, which is NoAddress if the request is refused (nothing  *)
(* is saved then).  The requested address is NoAddress unless the packet   *)
(* insists on one.                                                         *)
(***************************************************************************)
Outcome(t, u, a) == [saved |-> t, unsaved |-> u, address |-> a]
Refused(t) == Outcome(t, t, NoAddress)

\* renewHardwareLeaseLocked: which lease of the MAC is continued.
Selected(t, key, m, req) ==
    LET own == Own(t, m)
        asked == {k \in own : t[k].address = req}
        latest == {k \in own : \A j \in own : t[j].expires <= t[k].expires}
    IN  IF asked # {} THEN asked ELSE IF key \in own THEN {key} ELSE latest

\* Mutant: a renewal does not extend the lease.
RenewedUnextended(l, m) == [l EXCEPT !.mac = m]

RenewedLease(l, m) ==
    [l EXCEPT !.mac = m,
              !.expires = IF l.kind = "static" THEN l.expires
                          ELSE now + LeaseTime]

Renewed(t, key, m, s) ==
    [Without(t, Own(t, m)) EXCEPT ![key] = RenewedLease(t[s], m)]

Renew(t, key, m, req) ==
    {IF req # NoAddress /\ req # t[s].address
     THEN Refused(t)
     ELSE LET u == Renewed(t, key, m, s) IN Outcome(u, u, t[s].address)
     : s \in Selected(t, key, m, req)}

\* The key is known but its lease belongs to another MAC: it changes hands.
TakenOver(t, key, m) ==
    [t EXCEPT ![key] = [@ EXCEPT !.mac = m, !.expires = now + LeaseTime]]

TakeOver(t, key, m, req) ==
    {IF req # NoAddress /\ req # t[key].address
     THEN Refused(t)
     ELSE LET u == TakenOver(t, key, m) IN Outcome(u, u, t[key].address)}

\* Mutant: a requested address is not looked up among the leases.
CandidatesUnchecked(t, r, req) ==
    IF req # NoAddress THEN Pool(r) \cap {req}
    ELSE {a \in Pool(r) \ Taken(t) : \A b \in Pool(r) \ Taken(t) : a <= b}

\* A new lease: the requested address if it is free, or the lowest free one.
Candidates(t, r, req) ==
    LET free == Pool(r) \ Taken(t)
    IN  IF req # NoAddress THEN free \cap {req}
        ELSE {a \in free : \A b \in free : a <= b}

NewLease(m, a) ==
    [mac |-> m, address |-> a, expires |-> now + LeaseTime,
     kind |-> "dynamic"]

Allocate(t, r, key, m, req) ==
    IF Candidates(t, r, req) = {}
    THEN {Refused(t)}
    ELSE {Outcome([t EXCEPT ![key] = NewLease(m, a)], t, a)
            : a \in Candidates(t, r, req)}

\* Mutant: leases are found by their key only, not by the MAC.
AcquireByKey(t, r, key, m, req) ==
    IF key \in Own(t, m) THEN Renew(t, key, m, req)
    ELSE IF t[key] # NoLease THEN TakeOver(t, key, m, req)
    ELSE Allocate(t, r, key, m, req)

Acquire(t, r, key, m, req) ==
    LET own == Own(t, m)
    IN  IF key \in own \/ (t[key] = NoLease /\ own # {})
        THEN Renew(t, key, m, req)
        ELSE IF t[key] # NoLease THEN TakeOver(t, key, m, req)
        ELSE Allocate(t, r, key, m, req)
-----------------------------------------------------------------------------
\* A packet reaches the handler of range r: the listener's, or a late one.
Handler(r) == r = listener \/ r = late

(***************************************************************************)
(* DISCOVER and REQUEST.  The guest relies on what a REQUEST is            *)
(* acknowledged, and on nothing after a NAK or when it starts over with a  *)
(* DISCOVER.                                                               *)
(***************************************************************************)
HandleAcquire(r, type, key, m, req) ==
    /\ Handler(r)
    /\ type = "request" \/ req = NoAddress
    /\ shared' = shared \cup {k \in {key} : ChangesHands(r, k, m)}
    /\ \E t \in {Purged(r)} : \E o \in Acquire(t, r, key, m, req) :
         \/ /\ o.address = NoAddress
            /\ leases' = o.saved
            /\ grant' = [grant EXCEPT ![m] = NoGrant]
            /\ UNCHANGED <<file, failures>>
         \/ /\ o.address # NoAddress
            /\ \E result \in SaveResults :
                 /\ leases' = IF result = "ok" THEN o.saved ELSE o.unsaved
                 /\ Save(o.saved, result)
                 /\ grant' = [grant EXCEPT ![m] =
                      IF type = "request" /\ result = "ok"
                      THEN [address |-> o.address, until |-> now + LeaseTime]
                      ELSE NoGrant]
    /\ UNCHANGED <<now, config, listener, late>>

Discover(r, key, m) == HandleAcquire(r, "discover", key, m, NoAddress)
Request(r, key, m, req) == HandleAcquire(r, "request", key, m, req)

\* RELEASE and DECLINE: releaseLease looks the lease up by its key alone.
Release(r, key, m) ==
    /\ Handler(r)
    /\ grant' = [grant EXCEPT ![m] = NoGrant]
    /\ IF key \in Used(leases) /\ leases[key].kind = "dynamic"
       THEN /\ leases' = Without(leases, {key})
            /\ \E result \in SaveResults : Save(leases', result)
       ELSE UNCHANGED <<leases, file, failures>>
    /\ UNCHANGED <<now, config, listener, late, shared>>
-----------------------------------------------------------------------------
Administration == UNCHANGED <<now, config, listener, late, grant, shared>>

ClearDynamicLeases ==
    /\ leases' = Without(leases, {k \in Used(leases) :
                                    leases[k].kind = "dynamic"})
    /\ \E result \in SaveResults : Save(leases', result)
    /\ Administration

DeleteLease(m) ==
    /\ Own(leases, m) # {}
    /\ leases' = Without(leases, Own(leases, m))
    /\ \E result \in SaveResults : Save(leases', result)
    /\ Administration

(***************************************************************************)
(* SetStaticLease walks the table in no particular order, drops the MAC's  *)
(* own leases as it meets them and gives up when it meets the address in   *)
(* another lease: what it has dropped by then stays dropped.               *)
(***************************************************************************)
Conflict(m, a) == \E k \in Used(leases) \ Own(leases, m) :
                    leases[k].address = a

Reserved(m, a) ==
    [Without(leases, Own(leases, m)) EXCEPT ![m] =
       [mac |-> m, address |-> a, expires |-> 0, kind |-> "static"]]

CanReserve(a) ==
    /\ config # NoRange
    /\ a \in StaticRange(config)

SetStaticLease(m, a) ==
    /\ CanReserve(a)
    /\ ~Conflict(m, a)
    /\ leases' = Reserved(m, a)
    /\ \E result \in SaveResults : Save(leases', result)
    /\ Administration

SetStaticLeaseRefused(m, a) ==
    /\ CanReserve(a)
    /\ Conflict(m, a)
    /\ \E dropped \in SUBSET Own(leases, m) :
         leases' = Without(leases, dropped)
    /\ UNCHANGED <<file, failures>>
    /\ Administration
-----------------------------------------------------------------------------
(***************************************************************************)
(* Configure is refused while VMs use the bridge, which is while it has a  *)
(* listener.  A new range forgets the leases, as do enabling and disabling *)
(* DHCP; if the file cannot be written everything is put back.             *)
(***************************************************************************)
LeasesUnder(r) == IF r = config /\ r # NoRange THEN leases ELSE Empty

CanConfigure == listener = NoRange

Configure(r) ==
    /\ CanConfigure
    /\ config' = r
    /\ leases' = LeasesUnder(r)
    /\ file' = [config |-> config', leases |-> leases']
    /\ UNCHANGED <<now, listener, late, grant, shared, failures>>

\* The first VM on the bridge starts the listener, the last one stops it.
StartListener ==
    /\ listener = NoRange
    /\ config # NoRange
    /\ listener' = config
    /\ UNCHANGED <<now, config, leases, file, late, grant, shared, failures>>

StopListener ==
    /\ listener # NoRange
    /\ listener' = NoRange
    /\ late' = listener
    /\ UNCHANGED <<now, config, leases, file, grant, shared, failures>>

\* All bridges share one file: a save for another one writes this table too.
SaveForOtherBridge ==
    /\ file' = [config |-> config, leases |-> leases]
    /\ UNCHANGED <<now, config, leases, listener, late, grant, shared,
                   failures>>

\* Time passes; a guest stops using what has expired.
Tick ==
    /\ now < MaxTime
    /\ now' = now + 1
    /\ grant' = [m \in Macs |->
         IF grant[m] # NoGrant /\ grant[m].until <= now'
         THEN NoGrant ELSE grant[m]]
    /\ UNCHANGED <<config, leases, file, listener, late, shared,
                   failures>>

(***************************************************************************)
(* App Runner ends and starts again.  load keeps one lease of each MAC,    *)
(* the one that expires last (the order of keys, which decides between     *)
(* equals, is left open).  If the consolidated table cannot be saved App   *)
(* Runner does not start, which is the same as starting later.             *)
(***************************************************************************)
Canonical(t, K) ==
    /\ K \subseteq Used(t)
    /\ \A k \in K : \A j \in Own(t, t[k].mac) :
         t[j].expires <= t[k].expires /\ (j \in K => j = k)
    /\ \A j \in Used(t) : \E k \in K : t[k].mac = t[j].mac

Restart ==
    /\ config' = file.config
    /\ \E K \in SUBSET Keys :
         /\ Canonical(file.leases, K)
         /\ leases' = Without(file.leases, Keys \ K)
    /\ file' = [file EXCEPT !.leases = leases']
    /\ listener' = NoRange
    /\ late' = NoRange
    /\ UNCHANGED <<now, grant, shared, failures>>
-----------------------------------------------------------------------------
Addresses == UNION {Pool(r) \cup StaticRange(r) : r \in Ranges}

Packet ==
    \E r \in Ranges, m \in Macs : \E key \in KeysOf(m) :
       \/ Discover(r, key, m)
       \/ \E req \in Addresses \cup {NoAddress} : Request(r, key, m, req)
       \/ Release(r, key, m)

Administrator ==
    \/ ClearDynamicLeases
    \/ \E r \in Ranges \cup {NoRange} : Configure(r)
    \/ \E m \in Macs :
         \/ DeleteLease(m)
         \/ \E a \in Addresses : SetStaticLease(m, a)
         \/ \E a \in Addresses : SetStaticLeaseRefused(m, a)

Next ==
    \/ Packet
    \/ Administrator
    \/ StartListener
    \/ StopListener
    \/ SaveForOtherBridge
    \/ Tick
    \/ Restart

Spec == Init /\ [][Next]_vars
-----------------------------------------------------------------------------
Distinct(t) ==
    \A j, k \in Used(t) : t[j].address = t[k].address => j = k

(***************************************************************************)
(* No address is leased twice, in memory or in the file: not by requests   *)
(* for a certain address, identifiers that move between MACs, static       *)
(* reservations, packets of an old range or failed writes (acquireLease,   *)
(* renewHardwareLeaseLocked, SetStaticLease).                              *)
(***************************************************************************)
AddressesUnique == Distinct(leases) /\ Distinct(file.leases)

Consolidated(t, ids) ==
    \A m \in Macs : \A j, k \in Own(t, m) :
      j = k \/ j \in ids \/ k \in ids

(***************************************************************************)
(* A MAC has one lease whatever keys its guest uses (firmware without an   *)
(* identifier, then an operating system with one), unless it has taken one *)
(* over from a guest with the same identifier (acquireLease and load       *)
(* consolidate leases).                                                    *)
(***************************************************************************)
OneLeaseUnlessShared ==
    Consolidated(leases, shared) /\ Consolidated(file.leases, shared)

(***************************************************************************)
(* The listener serves the configured range: Configure waits for the last  *)
(* user.  And the file always has the configuration in force.              *)
(***************************************************************************)
ListenerIsCurrent ==
    /\ listener \in {NoRange, config}
    /\ file.config = config

\* Lease l is worth grant g under range r.
Backs(l, g, r) ==
    /\ l.address = g.address
    /\ IF l.kind = "static"
       THEN l.address \in StaticRange(r)
       ELSE l.address \in Pool(r) /\ l.expires >= g.until

Holds(t, m, g, r) == \E k \in Own(t, m) : Backs(t[k], g, r)

\* Guest m may still use what it was acknowledged, and the server knows.
Protected(m) ==
    /\ config # NoRange
    /\ grant[m] # NoGrant
    /\ Holds(leases, m, grant[m], config)
    /\ Holds(file.leases, m, grant[m], config)

\* What may end the protection of m's grant before it expires:
Administered == \/ ClearDynamicLeases
                \/ \E r \in Ranges \cup {NoRange} : Configure(r)
MacAdministered(m) ==
    \/ DeleteLease(m)
    \/ \E a \in Addresses : SetStaticLease(m, a) \/ SetStaticLeaseRefused(m, a)
\* another guest sends the identifier under which m holds its lease,
Seized(m) ==
    \E r \in Ranges, n \in Macs \ {m} :
      \E key \in KeysOf(n) \cap Own(leases, m) :
       \/ Discover(r, key, n)
       \/ \E req \in Addresses \cup {NoAddress} : Request(r, key, n, req)
       \/ Release(r, key, n)
\* a packet is handled under an earlier range,
LatePacket(m) ==
    \E r \in Ranges \ {config} :
       /\ Handler(r)
       /\ \E key \in KeysOf(m) :
            \/ \E req \in Addresses \cup {NoAddress} : Request(r, key, m, req)
            \/ Discover(r, key, m)
\* or load finds two leases of m that expire together.
Tied(m) ==
    \E j, k \in Own(file.leases, m) :
       j # k /\ file.leases[j].expires = file.leases[k].expires

(***************************************************************************)
(* An acknowledged lease lasts.  What a guest is told is in memory and in  *)
(* the file for at least as long, and the server keeps it there until it   *)
(* expires, the guest gives it up or sends another request, over restarts, *)
(* failed writes and whatever other guests ask for.  The exceptions are    *)
(* named above.                                                            *)
(***************************************************************************)
Acknowledged(m) == grant'[m] \notin {grant[m], NoGrant}

GrantsLast ==
    [][\A m \in Macs :
         /\ Acknowledged(m) => Protected(m)' \/ LatePacket(m)
         /\ grant'[m] = grant[m] /\ Protected(m) =>
              \/ Protected(m)'
              \/ Administered
              \/ MacAdministered(m)
              \/ Seized(m)
              \/ \E n \in Macs : LatePacket(n)
              \/ Restart /\ Tied(m)]_vars
=============================================================================
