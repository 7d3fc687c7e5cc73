-------------------------- MODULE DhcpLeasesProofs --------------------------
(***************************************************************************)
(* Proofs about DhcpLeases: for any number of guests, identifiers, ranges  *)
(* and addresses, no address is leased twice and acknowledged leases last. *)
(***************************************************************************)
EXTENDS DhcpLeases, TLAPS

\* A lease under a MAC key belongs to that MAC.
MacKeys(t) == \A m \in Macs : m \in Used(t) => t[m].mac = m

\* What every version of the table satisfies.
Good(t, ids) ==
    /\ t \in Table
    /\ Distinct(t)
    /\ MacKeys(t)
    /\ Consolidated(t, ids)

\* No lease of m outlives the one that has the address m was acknowledged.
Latest(t, m, g) ==
    \A j, k \in Own(t, m) :
       t[k].address = g.address => t[j].expires <= t[k].expires

Bounded(t) == \A k \in Used(t) : t[k].expires <= now + LeaseTime

GrantsOK ==
    \A m \in Macs : grant[m] # NoGrant =>
       /\ now < grant[m].until
       /\ Latest(leases, m, grant[m])
       /\ Latest(file.leases, m, grant[m])

IInv ==
    /\ TypeOK
    /\ Good(leases, shared)
    /\ Good(file.leases, shared)
    /\ Bounded(leases)
    /\ Bounded(file.leases)
    /\ ListenerIsCurrent
    /\ GrantsOK
-----------------------------------------------------------------------------
\* What a deletion leaves in the table.
LEMMA WithoutFacts ==
    ASSUME NEW t \in Table, NEW K
    PROVE  /\ Without(t, K) \in Table
           /\ Used(Without(t, K)) = Used(t) \ K
           /\ \A m, k : k \in Own(Without(t, K), m) <=> k \in Own(t, m) \ K
           /\ \A k \in Keys \ K : Without(t, K)[k] = t[k]
  BY DEF Without, Table, Used, Own

\* Deleting leases keeps a table good.
LEMMA WithoutGood ==
    ASSUME NEW t, NEW ids, Good(t, ids), NEW K
    PROVE  Good(Without(t, K), ids)
  <1>1. t \in Table  BY DEF Good
  <1>2. \A k \in Used(Without(t, K)) : k \in Used(t) /\ Without(t, K)[k] = t[k]
    BY <1>1, WithoutFacts DEF Used
  <1>3. Distinct(Without(t, K))  BY <1>2 DEF Good, Distinct
  <1>4. MacKeys(Without(t, K))  BY <1>2 DEF Good, MacKeys
  <1>5. Consolidated(Without(t, K), ids)
    BY <1>1, WithoutFacts DEF Good, Consolidated
  <1> QED  BY <1>1, <1>3, <1>4, <1>5, WithoutFacts DEF Good

\* What writing one lease does to the table.
LEMMA PutFacts ==
    ASSUME NEW t \in Table, NEW key \in Keys, NEW l \in Lease
    PROVE  LET u == [t EXCEPT ![key] = l]
           IN  /\ u \in Table
               /\ u[key] = l
               /\ Used(u) = Used(t) \cup {key}
               /\ \A k \in Keys \ {key} : u[k] = t[k]
               /\ key \in Own(u, l.mac)
               /\ \A m : \A k \in Own(u, m) :
                    (k = key /\ l.mac = m) \/ (k # key /\ k \in Own(t, m))
               /\ \A m : \A k \in Own(t, m) : k = key \/ k \in Own(u, m)
  BY DhcpAssumption DEF Table, Used, Own

\* Writing a lease keeps a table good if its address is free and its MAC has
\* no other lease, or takes over a shared identifier.
LEMMA PutGood ==
    ASSUME NEW t, NEW ids, Good(t, ids), NEW key \in Keys, NEW l \in Lease,
           \A k \in Used(t) \ {key} : t[k].address # l.address,
           key \in Macs => l.mac = key,
           key \in ids \/ Own(t, l.mac) \subseteq {key}
    PROVE  Good([t EXCEPT ![key] = l], ids)
  <1> DEFINE u == [t EXCEPT ![key] = l]
  <1>1. t \in Table  BY DEF Good
  <1>2. /\ u \in Table
        /\ u[key] = l
        /\ \A k \in Used(u) : k = key \/ (k \in Used(t) /\ u[k] = t[k])
        /\ \A m : \A k \in Own(u, m) :
             (k = key /\ l.mac = m) \/ (k # key /\ k \in Own(t, m))
    BY <1>1, DhcpAssumption DEF Table, Used, Own
  <1> HIDE DEF u
  <1>4. Distinct(u)  BY <1>2 DEF Good, Distinct
  <1>5. MacKeys(u)  BY <1>2 DEF Good, MacKeys
  <1>6. Consolidated(u, ids)  BY <1>2 DEF Good, Consolidated
  <1>7. Good(u, ids)  BY <1>2, <1>4, <1>5, <1>6 DEF Good
  <1> QED  BY <1>7 DEF u

\* Knowing more shared identifiers does no harm.
LEMMA GoodMonotone ==
    ASSUME NEW t, NEW ids, NEW more, ids \subseteq more, Good(t, ids)
    PROVE  Good(t, more)
  BY DEF Good, Consolidated

\* The empty table is good.
LEMMA EmptyGood ==
    ASSUME NEW ids
    PROVE  Good(Empty, ids) /\ Used(Empty) = {}
  <1>1. Empty \in Table  BY DEF Empty, Table
  <1>2. Used(Empty) = {}  BY DEF Empty, Used
  <1> QED  BY <1>1, <1>2 DEF Good, Distinct, MacKeys, Consolidated, Own, Used
-----------------------------------------------------------------------------
\* What acquireLease makes of the table when guest m asks under key: a good
\* table, in which the other guests have no new leases and keep the valid ones
\* that are not filed under key.
TableOK(u, r, key, m, ids) ==
    /\ Good(u, ids)
    /\ Bounded(u)
    /\ \A n \in Macs \ {m} : \A k \in Own(u, n) :
         k \in Own(leases, n) /\ u[k] = leases[k]
    /\ \A n \in Macs \ {m} : \A k \in Own(leases, n) :
         k # key /\ Valid(r, leases[k]) => k \in Own(u, n) /\ u[k] = leases[k]

AckOf(a) == [address |-> a, until |-> now + LeaseTime]

\* What is acknowledged has a lease of the same length, m's last to expire.
AckOK(u, a, m, r) ==
    /\ a \in Nat
    /\ Holds(u, m, AckOf(a), r)
    /\ Latest(u, m, AckOf(a))

OutcomeOK(o, r, key, m, ids) ==
    /\ TableOK(o.saved, r, key, m, ids)
    /\ TableOK(o.unsaved, r, key, m, ids)
    /\ o.address # NoAddress => AckOK(o.saved, o.address, m, r)

\* Addresses of a range are natural numbers.
LEMMA RangeFacts ==
    ASSUME NEW r \in Ranges
    PROVE  Pool(r) \subseteq Nat /\ StaticRange(r) \subseteq Nat
  BY DhcpAssumption DEF Pool, PoolStart, PoolEnd, StaticRange, Server

\* The purge at the start of acquireLease leaves valid leases only.
LEMMA PurgedOK ==
    ASSUME Good(leases, shared), Bounded(leases),
           NEW r \in Ranges, NEW m \in Macs, NEW key \in Keys
    PROVE  /\ TableOK(Purged(r), r, key, m, shared)
           /\ \A k \in Used(Purged(r)) : Valid(r, Purged(r)[k])
           /\ ChangesHands(r, key, m) <=>
                key \in Used(Purged(r)) \ Own(Purged(r), m)
  <1> DEFINE bad == {k \in Used(leases) : ~Valid(r, leases[k])}
             t == Purged(r)
  <1>1. leases \in Table  BY DEF Good
  <1>2. t = Without(leases, bad)  BY DEF Purged
  <1> HIDE DEF bad, t
  <1>3. Good(t, shared)  BY <1>2, WithoutGood
  <1>4. \A k \in Used(t) : k \in Used(leases) \ bad /\ t[k] = leases[k]
    BY <1>1, <1>2, WithoutFacts DEF Used
  <1>5. \A n, k : k \in Own(t, n) <=> k \in Own(leases, n) \ bad
    BY <1>1, <1>2, WithoutFacts
  <1>6. \A k \in Used(t) : Valid(r, t[k])  BY <1>4 DEF bad
  <1>7. Bounded(t)  BY <1>4 DEF Bounded
  <1>8. \A n : \A k \in Own(t, n) : k \in Own(leases, n) /\ t[k] = leases[k]
    BY <1>4, <1>5 DEF Own, Used
  <1>9. \A n : \A k \in Own(leases, n) :
           Valid(r, leases[k]) => k \in Own(t, n) /\ t[k] = leases[k]
    BY <1>5, <1>8 DEF bad
  <1>10. TableOK(t, r, key, m, shared)  BY <1>3, <1>7, <1>8, <1>9 DEF TableOK
  <1>11. ChangesHands(r, key, m) <=> key \in Used(t) \ Own(t, m)
    <2>1. ChangesHands(r, key, m) <=>
            key \in (Used(leases) \ Own(leases, m)) \ bad
      BY DEF ChangesHands, bad, Used, Own
    <2>2. Used(t) = Used(leases) \ bad
      BY <1>1, <1>2, WithoutFacts DEF Used
    <2> QED  BY <1>5, <2>1, <2>2
  <1> QED  BY <1>6, <1>10, <1>11 DEF t

\* Writing a lease of m under key, whatever m's other leases became.
LEMMA PutOK ==
    ASSUME NEW t, NEW r, NEW key \in Keys, NEW m \in Macs, NEW ids,
           TableOK(t, r, key, m, shared), shared \subseteq ids,
           NEW l \in Lease, l.mac = m,
           key \in Macs => key = m,
           l.expires <= now + LeaseTime,
           \A k \in Used(t) \ {key} : t[k].address # l.address,
           key \in ids \/ Own(t, m) \subseteq {key}
    PROVE  TableOK([t EXCEPT ![key] = l], r, key, m, ids)
  <1> DEFINE u == [t EXCEPT ![key] = l]
  <1>1. Good(t, ids)  BY GoodMonotone DEF TableOK
  <1>2. t \in Table  BY <1>1 DEF Good
  <1>3. Good(u, ids)  BY <1>1, PutGood
  <1>4. /\ u[key] = l
        /\ \A k \in Used(u) : k = key \/ (k \in Used(t) /\ u[k] = t[k])
        /\ \A n \in Macs \ {m} : \A k \in Own(u, n) :
             k \in Own(t, n) /\ u[k] = t[k]
        /\ \A n \in Macs \ {m} : \A k \in Own(t, n) :
             k # key => k \in Own(u, n) /\ u[k] = t[k]
    BY <1>2, DhcpAssumption DEF Table, Used, Own
  <1> HIDE DEF u
  <1>5. Bounded(u)  BY <1>4 DEF Bounded, TableOK
  <1>6. \A n \in Macs \ {m} : \A k \in Own(u, n) :
           k \in Own(leases, n) /\ u[k] = leases[k]
    BY <1>4 DEF TableOK
  <1>7. \A n \in Macs \ {m} : \A k \in Own(leases, n) :
           k # key /\ Valid(r, leases[k]) => k \in Own(u, n) /\ u[k] = leases[k]
    BY <1>4 DEF TableOK
  <1>8. TableOK(u, r, key, m, ids)  BY <1>3, <1>5, <1>6, <1>7 DEF TableOK
  <1> QED  BY <1>8 DEF u

\* A valid lease of m that is extended, or static, is worth its acknowledgement.
LEMMA PutAck ==
    ASSUME NEW t \in Table, NEW r \in Ranges, NEW key \in Keys, NEW m \in Macs,
           NEW l \in Lease, l.mac = m, now \in Nat,
           IF l.kind = "static" THEN l.address \in StaticRange(r)
           ELSE l.address \in Pool(r) /\ l.expires = now + LeaseTime,
           \A k \in Used(t) \ {key} : t[k].address # l.address,
           \A j \in Own(t, m) : j # key => t[j].expires <= l.expires
    PROVE  AckOK([t EXCEPT ![key] = l], l.address, m, r)
  <1> DEFINE u == [t EXCEPT ![key] = l]
  <1>1. /\ u[key] = l
        /\ key \in Own(u, m)
        /\ \A k \in Own(u, m) : k = key \/ (k \in Own(t, m) /\ u[k] = t[k])
        /\ \A k \in Used(u) \ {key} : k \in Used(t) /\ u[k] = t[k]
    BY DhcpAssumption DEF Table, Used, Own
  <1> HIDE DEF u
  <1>2. l.address \in Nat /\ l.expires \in Nat  BY DEF Lease
  <1>3. Backs(l, AckOf(l.address), r)
    BY <1>2, DhcpAssumption DEF Backs, AckOf
  <1>4. Holds(u, m, AckOf(l.address), r)  BY <1>1, <1>3 DEF Holds
  <1>5. \A k \in Own(u, m) : u[k].address = l.address => k = key
    BY <1>1 DEF Own, Used
  <1>6. \A j \in Own(u, m) : u[j].expires <= l.expires  BY <1>1, <1>2
  <1>7. Latest(u, m, AckOf(l.address))
    BY <1>1, <1>5, <1>6 DEF Latest, AckOf
  <1>8. AckOK(u, l.address, m, r)  BY <1>2, <1>4, <1>7 DEF AckOK
  <1> QED  BY <1>8 DEF u
-----------------------------------------------------------------------------
\* The table acquireLease works on: purged, for guest m under key.
Working(t, r, key, m) ==
    /\ TableOK(t, r, key, m, shared)
    /\ \A k \in Used(t) : Valid(r, t[k])

\* A refusal changes nothing more.
LEMMA RefusedOK ==
    ASSUME NEW t, NEW r, NEW key, NEW m, NEW ids, shared \subseteq ids,
           Working(t, r, key, m)
    PROVE  OutcomeOK(Refused(t), r, key, m, ids)
  <1>1. TableOK(t, r, key, m, ids)  BY GoodMonotone DEF Working, TableOK
  <1> QED  BY <1>1 DEF OutcomeOK, Refused, Outcome

\* renewHardwareLeaseLocked: the continued lease is m's only one.
LEMMA RenewOK ==
    ASSUME NEW t, NEW r \in Ranges, NEW m \in Macs, NEW key \in KeysOf(m),
           NEW req, NEW ids, shared \subseteq ids, now \in Nat,
           Working(t, r, key, m), key \in Own(t, m) \/ key \notin Used(t),
           NEW o \in Renew(t, key, m, req)
    PROVE  OutcomeOK(o, r, key, m, ids)
  <1> DEFINE w == Without(t, Own(t, m))
             G(s) == [w EXCEPT ![key] = RenewedLease(t[s], m)]
  <1>1. PICK s \in Selected(t, key, m, req) :
          o = IF req # NoAddress /\ req # t[s].address
              THEN Refused(t)
              ELSE Outcome(Renewed(t, key, m, s), Renewed(t, key, m, s),
                           t[s].address)
    BY DEF Renew
  <1>2. s \in Own(t, m)  BY DEF Selected
  <1>3. t \in Table  BY DEF Working, TableOK, Good
  <1>4. key \in Keys /\ (key \in Macs => key = m)
    BY DhcpAssumption DEF KeysOf, Keys
  <1>5. CASE req # NoAddress /\ req # t[s].address
    BY <1>1, <1>5, RefusedOK
  <1>6. CASE ~(req # NoAddress /\ req # t[s].address)
    <2> DEFINE l == RenewedLease(t[s], m)
    <2>1. /\ w \in Table
          /\ \A k \in Used(w) : k \in Used(t) \ Own(t, m) /\ w[k] = t[k]
          /\ \A n, k : k \in Own(w, n) <=> k \in Own(t, n) \ Own(t, m)
      BY <1>3, WithoutFacts DEF Used
    <2>2. Good(w, shared)  BY WithoutGood DEF Working, TableOK
    <2> HIDE DEF w
    <2>3. \A n \in Macs \ {m} : \A k :
             /\ k \in Own(w, n) <=> k \in Own(t, n)
             /\ k \in Own(w, n) => w[k] = t[k]
      BY <2>1 DEF Own, Used
    <2>4. TableOK(w, r, key, m, shared)
      BY <2>1, <2>2, <2>3 DEF Working, TableOK, Bounded
    <2>5. t[s] \in Lease /\ s \in Used(t)
      BY <1>2, <1>3 DEF Own, Used, Table
    <2>6. /\ l \in Lease /\ l.mac = m /\ l.kind = t[s].kind
          /\ l.address = t[s].address
          /\ l.expires = IF t[s].kind = "static" THEN t[s].expires
                         ELSE now + LeaseTime
      <3> DEFINE e == IF t[s].kind = "static" THEN t[s].expires
                      ELSE now + LeaseTime
      <3>1. e \in Nat  BY <2>5, DhcpAssumption DEF Lease
      <3>2. l = [t[s] EXCEPT !.mac = m, !.expires = e]  BY DEF RenewedLease
      <3> HIDE DEF e, l
      <3>3. /\ l \in Lease /\ l.mac = m /\ l.kind = t[s].kind
            /\ l.address = t[s].address /\ l.expires = e
        BY <2>5, <3>1, <3>2 DEF Lease
      <3> QED  BY <3>3 DEF e
    <2> HIDE DEF l
    <2>7. l.expires <= now + LeaseTime
      BY <2>5, <2>6, DhcpAssumption DEF Working, TableOK, Bounded
    <2>8. \A k \in Used(w) : w[k].address # l.address
      BY <1>2, <2>1, <2>5, <2>6 DEF Working, TableOK, Good, Distinct
    <2>9. Own(w, m) = {}  BY <2>1
    <2>10. TableOK([w EXCEPT ![key] = l], r, key, m, ids)
      BY <1>4, <2>4, <2>6, <2>7, <2>8, <2>9, PutOK
    <2>11. IF l.kind = "static" THEN l.address \in StaticRange(r)
           ELSE l.address \in Pool(r) /\ l.expires = now + LeaseTime
      BY <2>5, <2>6 DEF Working, Valid
    <2>12. AckOK([w EXCEPT ![key] = l], l.address, m, r)
      BY <1>4, <2>1, <2>6, <2>8, <2>9, <2>11, PutAck
    <2>13. o = Outcome([w EXCEPT ![key] = l], [w EXCEPT ![key] = l], l.address)
      BY <1>1, <1>6, <2>6 DEF Renewed, w, l
    <2> QED  BY <2>10, <2>12, <2>13 DEF OutcomeOK, Outcome
  <1> QED  BY <1>5, <1>6

\* A lease that changes hands: the key is then a shared identifier.
LEMMA TakeOverOK ==
    ASSUME NEW t, NEW r \in Ranges, NEW m \in Macs, NEW key \in KeysOf(m),
           NEW req, NEW ids, shared \subseteq ids, key \in ids, now \in Nat,
           Working(t, r, key, m), key \in Used(t), key \notin Own(t, m),
           NEW o \in TakeOver(t, key, m, req)
    PROVE  OutcomeOK(o, r, key, m, ids)
  <1> DEFINE l == [t[key] EXCEPT !.mac = m, !.expires = now + LeaseTime]
  <1>1. t \in Table  BY DEF Working, TableOK, Good
  <1>2. key \in Keys /\ (key \in Macs => key = m)
    BY DhcpAssumption DEF KeysOf, Keys
  <1>3. CASE req # NoAddress /\ req # t[key].address
    BY <1>3, RefusedOK DEF TakeOver
  <1>4. CASE ~(req # NoAddress /\ req # t[key].address)
    <2>1. t[key] \in Lease  BY <1>1 DEF Used, Table
    <2>2. /\ l \in Lease /\ l.mac = m /\ l.kind = t[key].kind
          /\ l.address = t[key].address /\ l.expires = now + LeaseTime
      <3>1. now + LeaseTime \in Nat  BY DhcpAssumption
      <3>2. l = [t[key] EXCEPT !.mac = m, !.expires = now + LeaseTime]  OBVIOUS
      <3> HIDE DEF l
      <3> QED  BY <2>1, <3>1, <3>2 DEF Lease
    <2>3. o = Outcome([t EXCEPT ![key] = l], [t EXCEPT ![key] = l], l.address)
      BY <1>1, <1>2, <1>4, <2>2 DEF TakeOver, TakenOver, Table
    <2> HIDE DEF l
    <2>4. \A k \in Used(t) \ {key} : t[k].address # l.address
      BY <2>2 DEF Working, TableOK, Good, Distinct
    <2>5. l.expires <= now + LeaseTime  BY <2>2, DhcpAssumption
    <2>6. TableOK([t EXCEPT ![key] = l], r, key, m, ids)
      BY <1>2, <2>2, <2>4, <2>5, PutOK DEF Working
    <2>7. IF l.kind = "static" THEN l.address \in StaticRange(r)
          ELSE l.address \in Pool(r) /\ l.expires = now + LeaseTime
      BY <2>2 DEF Working, Valid
    <2>8. \A j \in Own(t, m) : t[j].expires <= l.expires
      BY <2>2 DEF Working, TableOK, Bounded, Own, Used
    <2>9. AckOK([t EXCEPT ![key] = l], l.address, m, r)
      BY <1>1, <1>2, <2>2, <2>4, <2>7, <2>8, PutAck
    <2> QED  BY <2>3, <2>6, <2>9 DEF OutcomeOK, Outcome
  <1> QED  BY <1>3, <1>4

\* A new lease has an address that no lease in the table has.
LEMMA AllocateOK ==
    ASSUME NEW t, NEW r \in Ranges, NEW m \in Macs, NEW key \in KeysOf(m),
           NEW req, NEW ids, shared \subseteq ids, now \in Nat,
           Working(t, r, key, m), Own(t, m) = {},
           NEW o \in Allocate(t, r, key, m, req)
    PROVE  OutcomeOK(o, r, key, m, ids)
  <1>1. t \in Table  BY DEF Working, TableOK, Good
  <1>2. key \in Keys /\ (key \in Macs => key = m)
    BY DhcpAssumption DEF KeysOf, Keys
  <1>3. CASE Candidates(t, r, req) = {}
    BY <1>3, RefusedOK DEF Allocate
  <1>4. CASE Candidates(t, r, req) # {}
    <2>1. PICK a \in Candidates(t, r, req) :
            o = Outcome([t EXCEPT ![key] = NewLease(m, a)], t, a)
      BY <1>4 DEF Allocate
    <2> DEFINE l == NewLease(m, a)
    <2>2. a \in Pool(r) /\ a \notin Taken(t)  BY DEF Candidates
    <2>3. a \in Nat  BY <2>2, RangeFacts
    <2>4. /\ l \in Lease /\ l.mac = m /\ l.kind = "dynamic" /\ l.address = a
          /\ l.expires = now + LeaseTime
      BY <2>3, DhcpAssumption DEF NewLease, Lease
    <2> HIDE DEF l
    <2>5. \A k \in Used(t) : t[k].address # l.address
      BY <2>2, <2>4 DEF Taken
    <2>6. l.expires <= now + LeaseTime  BY <2>4, DhcpAssumption
    <2>7. TableOK([t EXCEPT ![key] = l], r, key, m, ids)
      BY <1>2, <2>4, <2>5, <2>6, PutOK DEF Working
    <2>8. AckOK([t EXCEPT ![key] = l], l.address, m, r)
      BY <1>1, <1>2, <2>2, <2>4, <2>5, PutAck
    <2>9. TableOK(t, r, key, m, ids)  BY GoodMonotone DEF Working, TableOK
    <2>10. o = Outcome([t EXCEPT ![key] = l], t, l.address)
      BY <2>1, <2>4 DEF l
    <2> QED  BY <2>7, <2>8, <2>9, <2>10 DEF OutcomeOK, Outcome
  <1> QED  BY <1>3, <1>4

SharedAfter(r, key, m) ==
    shared \cup {k \in {key} : ChangesHands(r, k, m)}

\* acquireLease as a whole.
LEMMA AcquireOK ==
    ASSUME Good(leases, shared), Bounded(leases), now \in Nat,
           NEW r \in Ranges, NEW m \in Macs, NEW key \in KeysOf(m), NEW req,
           NEW o \in Acquire(Purged(r), r, key, m, req)
    PROVE  OutcomeOK(o, r, key, m, SharedAfter(r, key, m))
  <1> DEFINE t == Purged(r)
             ids == SharedAfter(r, key, m)
  <1>1. shared \subseteq ids  BY DEF SharedAfter
  <1>2. Working(t, r, key, m)
    BY PurgedOK DEF Working, KeysOf, Keys
  <1>3. o \in IF key \in Own(t, m) \/ (key \notin Used(t) /\ Own(t, m) # {})
              THEN Renew(t, key, m, req)
              ELSE IF key \in Used(t) THEN TakeOver(t, key, m, req)
              ELSE Allocate(t, r, key, m, req)
    <2>1. key \in Used(t) <=> t[key] # NoLease  BY DEF Used, KeysOf, Keys
    <2> QED  BY <2>1 DEF Acquire
  <1>4. key
 \in Used(t) /\ key \notin Own(t, m) => key \in ids
    BY PurgedOK DEF SharedAfter, KeysOf, Keys
  <1> HIDE DEF t, ids
  <1>5. Own(t, m) \subseteq Used(t)  BY DEF Own, Used
  <1>6. OutcomeOK(o, r, key, m, ids)
    <2>1. CASE key \in Own(t, m) \/ (key \notin Used(t) /\ Own(t, m) # {})
      BY <1>1, <1>2, <1>3, <2>1, RenewOK
    <2>2. CASE key \in Used(t) /\ key \notin Own(t, m)
      BY <1>1, <1>2, <1>3, <1>4, <2>2, TakeOverOK
    <2>3. CASE key \notin Used(t) /\ Own(t, m) = {}
      BY <1>1, <1>2, <1>3, <1>5, <2>3, AllocateOK
    <2> QED  BY <2>1, <2>2, <2>3
  <1> QED  BY <1>6 DEF ids
-----------------------------------------------------------------------------
\* A guest that only loses leases keeps its latest one the latest.
LEMMA LatestShrinks ==
    ASSUME NEW t, NEW u, NEW m, NEW g, Latest(t, m, g),
           \A k \in Own(u, m) : k \in Own(t, m) /\ u[k] = t[k]
    PROVE  Latest(u, m, g)
  BY DEF Latest

\* Deleting leases disturbs nothing the invariant says about a table.
LEMMA WithoutOK ==
    ASSUME NEW t, NEW ids, Good(t, ids), Bounded(t), NEW K
    PROVE  /\ Good(Without(t, K), ids)
           /\ Bounded(Without(t, K))
           /\ \A m, g : Latest(t, m, g) => Latest(Without(t, K), m, g)
           /\ \A k \in Keys \ K : Without(t, K)[k] = t[k]
           /\ \A m, k : k \in Own(Without(t, K), m) <=> k \in Own(t, m) \ K
  <1>1. t \in Table  BY DEF Good
  <1>2. /\ \A k \in Used(Without(t, K)) :
             k \in Used(t) /\ Without(t, K)[k] = t[k]
        /\ \A m, k : k \in Own(Without(t, K), m) <=> k \in Own(t, m) \ K
        /\ \A k \in Keys \ K : Without(t, K)[k] = t[k]
    BY <1>1, WithoutFacts DEF Used
  <1>3. \A m : \A k \in Own(Without(t, K), m) :
           k \in Own(t, m) /\ Without(t, K)[k] = t[k]
    BY <1>2 DEF Own, Used
  <1>4. \A m, g : Latest(t, m, g) => Latest(Without(t, K), m, g)
    BY <1>3 DEF Latest
  <1>5. Bounded(Without(t, K))  BY <1>2 DEF Bounded
  <1> QED  BY <1>2, <1>4, <1>5, WithoutGood

\* saveLocked: the file has the configuration and the table, or what it had.
LEMMA SaveFacts ==
    ASSUME TypeOK, ListenerIsCurrent, NEW t \in Table,
           NEW result \in SaveResults, Save(t, result)
    PROVE  /\ file' = [config |-> config, leases |-> t] \/ file' = file
           /\ result = "ok" => file' = [config |-> config, leases |-> t]
           /\ file' \in [config : Ranges \cup {NoRange}, leases : Table]
           /\ file'.config = config
           /\ file'.leases = t \/ file'.leases = file.leases
           /\ failures' \in 0..MaxFailures
  BY DhcpAssumption DEF Save, SaveResults, TypeOK, ListenerIsCurrent

\* What a packet changes.
LEMMA HandleAcquireEffect ==
    ASSUME NEW r, NEW type, NEW key, NEW m, NEW req,
           HandleAcquire(r, type, key, m, req)
    PROVE  \E o \in Acquire(Purged(r), r, key, m, req), result \in SaveResults :
             /\ leases' = IF o.address # NoAddress /\ result = "failed"
                          THEN o.unsaved ELSE o.saved
             /\ IF o.address # NoAddress
                THEN Save(o.saved, result)
                ELSE UNCHANGED <<file, failures>>
             /\ grant' = [grant EXCEPT ![m] =
                  IF type = "request" /\ o.address # NoAddress
                     /\ result = "ok"
                  THEN [address |-> o.address, until |-> now + LeaseTime]
                  ELSE NoGrant]
  <1>1. "ok" \in SaveResults  BY DEF SaveResults
  <1>2. \A result \in SaveResults : result = "ok" <=> result # "failed"
    BY DEF SaveResults
  <1> QED  BY <1>1, <1>2 DEF HandleAcquire

\* A packet keeps the invariant.
LEMMA HandleAcquireStep ==
    ASSUME IInv, NEW r \in Ranges, NEW m \in Macs, NEW key \in KeysOf(m),
           NEW type, NEW req, HandleAcquire(r, type, key, m, req)
    PROVE  IInv'
  <1> DEFINE ids == SharedAfter(r, key, m)
  <1>1. PICK o \in Acquire(Purged(r), r, key, m, req), result \in SaveResults :
         /\ leases' = IF o.address # NoAddress /\ result = "failed"
                      THEN o.unsaved ELSE o.saved
         /\ IF o.address # NoAddress
            THEN Save(o.saved, result)
            ELSE UNCHANGED <<file, failures>>
         /\ grant' = [grant EXCEPT ![m] =
              IF type = "request" /\ o.address # NoAddress /\ result = "ok"
              THEN [address |-> o.address, until |-> now + LeaseTime]
              ELSE NoGrant]
    BY HandleAcquireEffect
  <1>2. TypeOK /\ ListenerIsCurrent /\ now \in Nat  BY DEF IInv, TypeOK
  <1>3. /\ UNCHANGED <<now, config, listener>>
        /\ shared' = ids
        /\ UNCHANGED late
    BY DEF HandleAcquire, SharedAfter
  <1>4. OutcomeOK(o, r, key, m, ids)  BY <1>2, AcquireOK DEF IInv
  <1>5. shared \subseteq ids /\ ids \subseteq Ids
    <2>1. key \in Used(Purged(r)) \ Own(Purged(r), m) => key \in Ids
      BY PurgedOK, DhcpAssumption
      DEF IInv, KeysOf, Keys, TableOK, Good, MacKeys, Own, Used
    <2>2. ChangesHands(r, key, m) <=>
            key \in Used(Purged(r)) \ Own(Purged(r), m)
      BY PurgedOK DEF IInv, KeysOf, Keys
    <2> QED  BY <1>2, <2>1, <2>2 DEF SharedAfter, TypeOK
  <1> HIDE DEF ids
  <1>6. /\ leases' \in {o.saved, o.unsaved}
        /\ TableOK(leases', r, key, m, ids)
    BY <1>1, <1>4 DEF OutcomeOK
  <1>7. o.saved \in Table  BY <1>4 DEF OutcomeOK, TableOK, Good
  <1>8. /\ file' \in [config : Ranges \cup {NoRange}, leases : Table]
        /\ file'.config = config
        /\ file'.leases = o.saved \/ file'.leases = file.leases
        /\ failures' \in 0..MaxFailures
    <2>1. CASE o.address # NoAddress  BY <1>1, <1>2, <1>7, <2>1, SaveFacts
    <2>2. CASE o.address = NoAddress
      BY <1>1, <1>2, <2>2 DEF TypeOK, ListenerIsCurrent
    <2> QED  BY <2>1, <2>2
  <1>9. Good(leases', ids) /\ Good(file'.leases, ids)
    BY <1>4, <1>5, <1>6, <1>8, GoodMonotone DEF TableOK, OutcomeOK, IInv
  <1>10. Bounded(leases)' /\ Bounded(file.leases)'
    BY <1>3, <1>4, <1>6, <1>8 DEF TableOK, OutcomeOK, IInv, Bounded
  <1>11. o.address # NoAddress => o.address \in Nat
    BY <1>4 DEF OutcomeOK, AckOK
  <1>12. grant' \in [Macs -> Grant \cup {NoGrant}]
    BY <1>1, <1>2, <1>11, DhcpAssumption DEF TypeOK, Grant
  <1>13. TypeOK'
    BY <1>2, <1>3, <1>5, <1>8, <1>9, <1>12 DEF TypeOK, Good
  <1>14. ListenerIsCurrent'  BY <1>2, <1>3, <1>8 DEF ListenerIsCurrent
  <1>15. ASSUME NEW n \in Macs, grant'[n] # NoGrant
         PROVE  /\ now < grant'[n].until
                /\ Latest(leases', n, grant'[n])
                /\ Latest(file'.leases, n, grant'[n])
    <2>1. CASE n # m
      <3>1. grant'[n] = grant[n]  BY <1>1, <1>2, <2>1 DEF TypeOK
      <3>2. /\ now < grant[n].until
            /\ Latest(leases, n, grant[n])
            /\ Latest(file.leases, n, grant[n])
        BY <1>15, <3>1 DEF IInv, GrantsOK
      <3>3. Latest(leases', n, grant[n])
        BY <1>6, <2>1, <3>2, LatestShrinks DEF TableOK
      <3>4. Latest(o.saved, n, grant[n])
        BY <1>4, <2>1, <3>2, LatestShrinks DEF TableOK, OutcomeOK
      <3> QED  BY <1>8, <3>1, <3>2, <3>3, <3>4
    <2>2. CASE n = m
      <3>1. /\ type = "request" /\ o.address # NoAddress /\ result = "ok"
            /\ grant'[m] = AckOf(o.address)
        BY <1>1, <1>2, <1>15, <2>2 DEF TypeOK, AckOf
      <3>2. leases' = o.saved /\ file'.leases = o.saved
        BY <1>1, <1>2, <1>7, <3>1, SaveFacts
      <3>3. Latest(o.saved, m, AckOf(o.address))
        BY <1>4, <3>1 DEF OutcomeOK, AckOK
      <3>4. now < AckOf(o.address).until
        BY <1>2, DhcpAssumption DEF AckOf
      <3> QED  BY <2>2, <3>1, <3>2, <3>3, <3>4
    <2> QED  BY <2>1, <2>2
  <1>16. GrantsOK'  BY <1>3, <1>15 DEF GrantsOK
  <1> QED  BY <1>3, <1>9, <1>10, <1>13, <1>14, <1>16 DEF IInv

\* A change of the table by anyone but acquireLease keeps the invariant if
\* the new table is good and leaves no guest with a later lease than it had.
LEMMA TableStep ==
    ASSUME IInv, Good(leases', shared), Bounded(leases'),
           \A n \in Macs : grant[n] # NoGrant =>
              Latest(leases', n, grant[n]) \/ grant'[n] = NoGrant,
           UNCHANGED <<now, config, listener, shared>>,
           UNCHANGED late,
           grant' \in [Macs -> Grant \cup {NoGrant}],
           \A n \in Macs : grant'[n] \in {grant[n], NoGrant},
           \/ UNCHANGED <<file, failures>>
           \/ \E result \in SaveResults : Save(leases', result)
    PROVE  IInv'
  <1>1. TypeOK /\ ListenerIsCurrent /\ leases' \in Table  BY DEF IInv, Good
  <1>2. /\ file' \in [config : Ranges \cup {NoRange}, leases : Table]
        /\ file'.config = config
        /\ file'.leases = leases' \/ file'.leases = file.leases
        /\ failures' \in 0..MaxFailures
    <2>1. CASE UNCHANGED <<file, failures>>
      BY <1>1, <2>1 DEF TypeOK, ListenerIsCurrent
    <2>2. CASE \E result \in SaveResults : Save(leases', result)
      BY <1>1, <2>2, SaveFacts
    <2> QED  BY <2>1, <2>2
  <1>3. Good(leases', shared') /\ Good(file'.leases, shared')
    BY <1>2 DEF IInv
  <1>4. Bounded(leases)' /\ Bounded(file.leases)'
    BY <1>2 DEF IInv, Bounded
  <1>5. TypeOK'  BY <1>1, <1>2 DEF TypeOK
  <1>6. ListenerIsCurrent'  BY <1>1, <1>2 DEF ListenerIsCurrent
  <1>7. ASSUME NEW n \in Macs, grant'[n] # NoGrant
        PROVE  /\ now < grant'[n].until
               /\ Latest(leases', n, grant'[n])
               /\ Latest(file'.leases, n, grant'[n])
    BY <1>2, <1>7 DEF IInv, GrantsOK
  <1>8. GrantsOK'  BY <1>7 DEF GrantsOK
  <1> QED  BY <1>3, <1>4, <1>5, <1>6, <1>8 DEF IInv

\* Deleting leases keeps the invariant.
LEMMA DeletionStep ==
    ASSUME IInv, NEW K, leases' = Without(leases, K),
           UNCHANGED <<now, config, listener, shared>>,
           UNCHANGED late,
           grant' \in [Macs -> Grant \cup {NoGrant}],
           \A n \in Macs : grant'[n] \in {grant[n], NoGrant},
           \/ UNCHANGED <<file, failures>>
           \/ \E result \in SaveResults : Save(leases', result)
    PROVE  IInv'
  <1>1. Good(leases', shared) /\ Bounded(leases')  BY WithoutOK DEF IInv
  <1>2. \A n \in Macs : grant[n] # NoGrant => Latest(leases', n, grant[n])
    BY WithoutOK DEF IInv, GrantsOK
  <1> QED  BY <1>1, <1>2, TableStep

\* RELEASE and DECLINE.
LEMMA ReleaseStep ==
    ASSUME IInv, NEW r, NEW key, NEW m \in Macs, Release(r, key, m)
    PROVE  IInv'
  <1>1. /\ UNCHANGED <<now, config, listener, shared>>
        /\ UNCHANGED late
        /\ grant' \in [Macs -> Grant \cup {NoGrant}]
        /\ \A n \in Macs : grant'[n] \in {grant[n], NoGrant}
    BY DEF Release, IInv, TypeOK
  <1>2. CASE leases' = Without(leases, {key})
             /\ \E result \in SaveResults : Save(leases', result)
    BY <1>1, <1>2, DeletionStep
  <1>3. CASE UNCHANGED <<leases, file, failures>>
    BY <1>1, <1>3, TableStep DEF IInv, GrantsOK, Bounded
  <1> QED  BY <1>2, <1>3 DEF Release

\* Requests of the administrator that delete leases, a refused reservation
\* among them.
LEMMA DeletingStep ==
    ASSUME IInv,
           \/ ClearDynamicLeases
           \/ \E m \in Macs : DeleteLease(m)
           \/ \E m \in Macs, a \in Addresses : SetStaticLeaseRefused(m, a)
    PROVE  IInv'
  <1>1. \E K : leases' = Without(leases, K)
    BY DEF ClearDynamicLeases, DeleteLease, SetStaticLeaseRefused
  <1>2. /\ Administration
        /\ \/ UNCHANGED <<file, failures>>
           \/ \E result \in SaveResults : Save(leases', result)
    BY DEF ClearDynamicLeases, DeleteLease, SetStaticLeaseRefused
  <1>3. grant' \in [Macs -> Grant \cup {NoGrant}]
    BY <1>2 DEF Administration, IInv, TypeOK
  <1> QED  BY <1>1, <1>2, <1>3, DeletionStep DEF Administration

\* An accepted reservation replaces the MAC's leases.
LEMMA ReserveStep ==
    ASSUME IInv, NEW m \in Macs, NEW a \in Addresses, SetStaticLease(m, a)
    PROVE  IInv'
  <1> DEFINE w == Without(leases, Own(leases, m))
             l == [mac |-> m, address |-> a, expires |-> 0, kind |-> "static"]
  <1>1. /\ leases' = [w EXCEPT ![m] = l]
        /\ Administration
        /\ \E result \in SaveResults : Save(leases', result)
        /\ ~Conflict(m, a)
        /\ a \in StaticRange(config) /\ config \in Ranges
    BY DEF SetStaticLease, Reserved, CanReserve, IInv, TypeOK
  <1>2. a \in Nat /\ now \in Nat  BY <1>1, RangeFacts DEF IInv, TypeOK
  <1>3. l \in Lease /\ l.mac = m /\ l.address = a /\ l.expires = 0
    BY <1>2 DEF Lease
  <1>4. leases \in Table  BY DEF IInv, Good
  <1>5. /\ w \in Table
        /\ \A k \in Used(w) : k \in Used(leases) \ Own(leases, m)
                             /\ w[k] = leases[k]
        /\ \A n, k : k \in Own(w, n) <=> k \in Own(leases, n) \ Own(leases, m)
    BY <1>4, WithoutFacts DEF Used
  <1>6. Good(w, shared) /\ Bounded(w)  BY WithoutOK DEF IInv
  <1> HIDE DEF w, l
  <1>7. \A k \in Used(w) : w[k].address # l.address
    BY <1>1, <1>3, <1>5 DEF Conflict
  <1>8. Own(w, m) = {}  BY <1>5
  <1>9. m \in Keys  BY DEF Keys
  <1>10. Good(leases', shared)
    BY <1>1, <1>3, <1>6, <1>7, <1>8, <1>9, PutGood
  <1>11. /\ leases'[m] = l
         /\ \A k \in Used(leases') : k = m \/ (k \in Used(w) /\ leases'[k] = w[k])
         /\ \A n \in Macs \ {m} : \A k \in Own(leases', n) :
              k \in Own(w, n) /\ leases'[k] = w[k]
         /\ Own(leases', m) \subseteq {m}
    BY <1>1, <1>3, <1>5, <1>8, <1>9, DhcpAssumption DEF Table, Used, Own
  <1>12. Bounded(leases')
    BY <1>2, <1>3, <1>6, <1>11, DhcpAssumption DEF Bounded
  <1>13. ASSUME NEW n \in Macs, grant[n] # NoGrant
         PROVE  Latest(leases', n, grant[n])
    <2>1. CASE n = m  BY <1>3, <1>11, <2>1 DEF Latest
    <2>2. CASE n # m
      <3>1. \A k \in Own(leases', n) :
              k \in Own(leases, n) /\ leases'[k] = leases[k]
        BY <1>5, <1>11, <2>2 DEF Own, Used
      <3>2. Latest(leases, n, grant[n])  BY <1>13 DEF IInv, GrantsOK
      <3> QED  BY <3>1, <3>2, LatestShrinks
    <2> QED  BY <2>1, <2>2
  <1>14. grant' \in [Macs -> Grant \cup {NoGrant}]
    BY <1>1 DEF Administration, IInv, TypeOK
  <1> QED  BY <1>1, <1>10, <1>12, <1>13, <1>14, TableStep DEF Administration

\* Configure.
LEMMA ConfigureStep ==
    ASSUME IInv, NEW r \in Ranges \cup {NoRange}, Configure(r)
    PROVE  IInv'
  <1>1. /\ config' = r /\ listener = NoRange
        /\ leases' \in {leases, Empty}
        /\ file' = [config |-> r, leases |-> leases']
        /\ UNCHANGED <<now, listener, late, grant, shared, failures>>
    BY DEF Configure, CanConfigure, LeasesUnder
  <1>2. /\ Good(leases', shared')
        /\ Bounded(leases)'
        /\ \A m \in Macs : grant[m] # NoGrant => Latest(leases', m, grant[m])
    <2>1. CASE leases' = leases  BY <1>1, <2>1 DEF IInv, GrantsOK, Bounded
    <2>2. CASE leases' = Empty
      BY <1>1, <2>2, EmptyGood DEF Bounded, Latest, Own, Used
    <2> QED  BY <1>1, <2>1, <2>2
  <1>3. file'.leases = leases' /\ file'.config = r  BY <1>1
  <1>4. TypeOK'  BY <1>1, <1>2, <1>3 DEF IInv, TypeOK, Good
  <1>5. ListenerIsCurrent'  BY <1>1, <1>3 DEF ListenerIsCurrent
  <1>6. Bounded(file.leases)'  BY <1>2, <1>3 DEF Bounded
  <1>7. GrantsOK'  BY <1>1, <1>2, <1>3 DEF IInv, GrantsOK
  <1> QED  BY <1>2, <1>3, <1>4, <1>5, <1>6, <1>7 DEF IInv

\* The listener starts and stops, and time passes.
LEMMA QuietStep ==
    ASSUME IInv, StartListener \/ StopListener \/ Tick
    PROVE  IInv'
  <1>1. UNCHANGED <<config, leases, file, shared, failures>>
    BY DEF StartListener, StopListener, Tick
  <1>2. /\ now' \in 1..MaxTime /\ now <= now'
        /\ listener' \in {NoRange, config, listener}
        /\ late' \in {late, listener}
    BY DhcpAssumption DEF StartListener, StopListener, Tick, IInv, TypeOK
  <1>3. /\ grant' \in [Macs -> Grant \cup {NoGrant}]
        /\ \A m \in Macs : grant'[m] = NoGrant
             \/ (grant'[m] = grant[m] /\ now' < grant[m].until)
    <2>1. CASE StartListener \/ StopListener
      BY <2>1 DEF StartListener, StopListener, IInv, TypeOK, GrantsOK
    <2>2. CASE Tick
      <3>1. \A m \in Macs : grant[m] # NoGrant =>
              grant[m] \in Grant /\ grant[m].until \in Nat
        BY DEF IInv, TypeOK, Grant
      <3> QED  BY <2>2, <3>1 DEF Tick, IInv, TypeOK
    <2> QED  BY <2>1, <2>2
  <1>4. TypeOK'  BY <1>1, <1>2, <1>3 DEF IInv, TypeOK
  <1>5. ListenerIsCurrent'
    BY <1>1, <1>2 DEF IInv, ListenerIsCurrent
  <1>6. Bounded(leases)' /\ Bounded(file.leases)'
    <2>1. \A t \in Table : \A k \in Used(t) : t[k].expires \in Nat
      BY DEF Table, Used, Lease
    <2> QED  BY <1>1, <1>2, <2>1, DhcpAssumption DEF IInv, TypeOK, Good, Bounded
  <1>7. GrantsOK'  BY <1>1, <1>3 DEF IInv, GrantsOK
  <1> QED  BY <1>1, <1>4, <1>5, <1>6, <1>7 DEF IInv

\* saveLocked, called for another bridge: the file is as good as the memory.
LEMMA SharedFileStep ==
    ASSUME IInv, SaveForOtherBridge
    PROVE  IInv'
  <1>1. /\ UNCHANGED <<now, config, leases, listener, late, grant, shared,
                       failures>>
        /\ file' = [config |-> config, leases |-> leases]
    BY DEF SaveForOtherBridge
  <1>2. file'.config = config /\ file'.leases = leases  BY <1>1
  <1>3. TypeOK'  BY <1>1 DEF IInv, TypeOK
  <1>4. GrantsOK'  BY <1>1, <1>2 DEF IInv, GrantsOK
  <1>5. Bounded(leases)' /\ Bounded(file.leases)'
    BY <1>1, <1>2 DEF IInv, Bounded
  <1> QED  BY <1>1, <1>2, <1>3, <1>4, <1>5 DEF IInv, ListenerIsCurrent

\* load.
LEMMA RestartStep ==
    ASSUME IInv, Restart
    PROVE  IInv'
  <1>1. PICK K \in SUBSET Keys : leases' = Without(file.leases, Keys \ K)
    BY DEF Restart
  <1>2. /\ config' = file.config
        /\ file' = [file EXCEPT !.leases = leases']
        /\ listener' = NoRange /\ late' = NoRange
        /\ UNCHANGED <<now, grant, shared, failures>>
    BY DEF Restart
  <1>3. /\ Good(leases', shared)
        /\ Bounded(leases')
        /\ \A m \in Macs : grant[m] # NoGrant => Latest(leases', m, grant[m])
    BY <1>1, WithoutOK DEF IInv, GrantsOK
  <1>4. file'.leases = leases' /\ file'.config = config' /\ config' = config
        /\ file' \in [config : Ranges \cup {NoRange}, leases : Table]
    BY <1>2, <1>3 DEF IInv, TypeOK, ListenerIsCurrent, Good
  <1>5. TypeOK'  BY <1>2, <1>3, <1>4 DEF IInv, TypeOK, Good
  <1>6. ListenerIsCurrent'  BY <1>2, <1>4 DEF ListenerIsCurrent
  <1>7. Bounded(leases)' /\ Bounded(file.leases)'
    BY <1>2, <1>3, <1>4 DEF Bounded
  <1>8. GrantsOK'  BY <1>2, <1>3, <1>4 DEF IInv, GrantsOK
  <1> QED  BY <1>2, <1>3, <1>4, <1>5, <1>6, <1>7, <1>8 DEF IInv
-----------------------------------------------------------------------------
\* App Runner starts in a good state.
LEMMA InitInvariant == Init => IInv
  <1> SUFFICES ASSUME Init PROVE IInv  OBVIOUS
  <1>1. Good(Empty, {}) /\ Used(Empty) = {} /\ Empty \in Table
    BY EmptyGood DEF Good
  <1>2. leases = Empty /\ file.leases = Empty /\ file.config = NoRange
        /\ file \in [config : Ranges \cup {NoRange}, leases : Table]
    BY <1>1 DEF Init
  <1>3. TypeOK  BY <1>1, <1>2, DhcpAssumption DEF Init, TypeOK
  <1>4. ListenerIsCurrent  BY <1>2 DEF Init, ListenerIsCurrent
  <1>5. Bounded(Empty)  BY <1>1 DEF Bounded
  <1>6. GrantsOK  BY DEF Init, GrantsOK
  <1> QED  BY <1>1, <1>2, <1>3, <1>4, <1>5, <1>6 DEF Init, IInv

\* Every step keeps the invariant.
LEMMA NextInvariant == IInv /\ [Next]_vars => IInv'
  <1> SUFFICES ASSUME IInv, [Next]_vars PROVE IInv'  OBVIOUS
  <1>1. CASE Packet
    <2>1. PICK r \in Ranges, m \in Macs : \E key \in KeysOf(m) :
            \/ Discover(r, key, m)
            \/ \E req \in Addresses \cup {NoAddress} : Request(r, key, m, req)
            \/ Release(r, key, m)
      BY <1>1 DEF Packet
    <2> QED  BY <2>1, HandleAcquireStep, ReleaseStep DEF Discover, Request
  <1>2. CASE Administrator
    BY <1>2, DeletingStep, ReserveStep, ConfigureStep DEF Administrator
  <1>3. CASE StartListener \/ StopListener \/ Tick  BY <1>3, QuietStep
  <1>4. CASE Restart  BY <1>4, RestartStep
  <1>5. CASE SaveForOtherBridge  BY <1>5, SharedFileStep
  <1>6. CASE UNCHANGED vars
    BY <1>6 DEF vars, IInv, TypeOK, Bounded, ListenerIsCurrent, GrantsOK
  <1> QED  BY <1>1, <1>2, <1>3, <1>4, <1>5, <1>6 DEF Next

(***************************************************************************)
(* The inductive invariant of the leases: good tables in memory and file,  *)
(* a current listener, and acknowledged leases that are the last of their  *)
(* guest to expire.                                                        *)
(***************************************************************************)
THEOREM InvariantHolds == Spec => []IInv
  BY InitInvariant, NextInvariant, PTL DEF Spec

\* Every variable of the lease table's model keeps its type.
THEOREM TypeCorrect == Spec => []TypeOK
  <1>1. IInv => TypeOK  BY DEF IInv
  <1> QED  BY <1>1, InvariantHolds, PTL

(***************************************************************************)
(* acquireLease, SetStaticLease and load never lease an address twice,     *)
(* whatever guests ask for and administrators do.                          *)
(***************************************************************************)
THEOREM AddressesAlwaysUnique == Spec => []AddressesUnique
  <1>1. IInv => AddressesUnique  BY DEF IInv, Good, AddressesUnique
  <1> QED  BY <1>1, InvariantHolds, PTL

\* A MAC has two leases only if it took one over with a shared identifier.
THEOREM LeasesConsolidated == Spec => []OneLeaseUnlessShared
  <1>1. IInv => OneLeaseUnlessShared
    BY DEF IInv, Good, OneLeaseUnlessShared
  <1> QED  BY <1>1, InvariantHolds, PTL

\* The listener always serves the configured range.
THEOREM ListenerAlwaysCurrent == Spec => []ListenerIsCurrent
  <1>1. IInv => ListenerIsCurrent  BY DEF IInv
  <1> QED  BY <1>1, InvariantHolds, PTL
-----------------------------------------------------------------------------
\* The lease behind a grant, under the range in force.
LEMMA WitnessKept ==
    ASSUME NEW t, NEW u, NEW m, NEW g, NEW r, NEW k \in Own(t, m),
           Backs(t[k], g, r), k \in Own(u, m), u[k] = t[k]
    PROVE  Holds(u, m, g, r)
  BY DEF Holds

Kept(m) ==
    \/ grant'[m] # grant[m]
    \/ Protected(m)'
    \/ Administered
    \/ MacAdministered(m)
    \/ Seized(m)
    \/ \E n \in Macs : LatePacket(n)
    \/ Restart /\ Tied(m)

\* Protection lasts if the table in memory still has the lease, and so has
\* what is written to the file.
LEMMA StillProtected ==
    ASSUME NEW m \in Macs, Protected(m), UNCHANGED config,
           grant'[m] = grant[m],
           Holds(leases', m, grant[m], config),
           \/ file'.leases = file.leases
           \/ Holds(file'.leases, m, grant[m], config)
    PROVE  Protected(m)'
  BY DEF Protected

\* A packet of another guest does not end m's protection unless it is late or
\* names m's key.
LEMMA PacketKeeps ==
    ASSUME IInv, NEW m \in Macs, Protected(m),
           NEW r \in Ranges, NEW n \in Macs, NEW key \in KeysOf(n),
           NEW type, NEW req, HandleAcquire(r, type, key, n, req),
           r = config, n # m, key \notin Own(leases, m)
    PROVE  Protected(m)'
  <1>1. PICK o \in Acquire(Purged(r), r, key, n, req), result \in SaveResults :
         /\ leases' = IF o.address # NoAddress /\ result = "failed"
                      THEN o.unsaved ELSE o.saved
         /\ IF o.address # NoAddress
            THEN Save(o.saved, result)
            ELSE UNCHANGED <<file, failures>>
         /\ grant' = [grant EXCEPT ![n] =
              IF type = "request" /\ o.address # NoAddress /\ result = "ok"
              THEN [address |-> o.address, until |-> now + LeaseTime]
              ELSE NoGrant]
    BY HandleAcquireEffect
  <1>2. TypeOK /\ ListenerIsCurrent /\ now \in Nat  BY DEF IInv, TypeOK
  <1>3. OutcomeOK(o, r, key, n, SharedAfter(r, key, n))
    BY <1>2, AcquireOK DEF IInv
  <1>4. PICK k \in Own(leases, m) : Backs(leases[k], grant[m], config)
    BY DEF Protected, Holds
  <1>5. Valid(r, leases[k])
    <2>1. leases[k] \in Lease
      BY <1>2, <1>4 DEF Own, Used, TypeOK, Table
    <2>2. grant[m] \in Grant /\ now < grant[m].until
      BY <1>2 DEF Protected, TypeOK, IInv, GrantsOK
    <2>3. leases[k].expires \in Nat /\ grant[m].until \in Nat
      BY <2>1, <2>2 DEF Lease, Grant
    <2> QED  BY <1>2, <1>4, <2>2, <2>3 DEF Backs, Valid
  <1>6. k # key  BY <1>4
  <1>7. \A u \in {o.saved, o.unsaved} : k \in Own(u, m) /\ u[k] = leases[k]
    BY <1>3, <1>4, <1>5, <1>6 DEF OutcomeOK, TableOK
  <1>8. \A u \in {o.saved, o.unsaved} : Holds(u, m, grant[m], config)
    BY <1>4, <1>7, WitnessKept
  <1>9. leases' \in {o.saved, o.unsaved}  BY <1>1
  <1>10. o.saved \in Table  BY <1>3 DEF OutcomeOK, TableOK, Good
  <1>11. file'.leases = o.saved \/ file'.leases = file.leases
    <2>1. CASE o.address # NoAddress  BY <1>1, <1>2, <1>10, <2>1, SaveFacts
    <2>2. CASE o.address = NoAddress  BY <1>1, <2>2
    <2> QED  BY <2>1, <2>2
  <1>12. grant'[m] = grant[m]  BY <1>1, <1>2 DEF TypeOK
  <1>13. UNCHANGED config  BY DEF HandleAcquire
  <1> QED  BY <1>8, <1>9, <1>11, <1>12, <1>13, StillProtected

\* What a guest is acknowledged under the range in force is protected.
LEMMA AckProtects ==
    ASSUME IInv, NEW r \in Ranges, NEW m \in Macs, NEW key \in KeysOf(m),
           NEW type, NEW req, HandleAcquire(r, type, key, m, req),
           r = config, grant'[m] # NoGrant
    PROVE  Protected(m)'
  <1>1. PICK o \in Acquire(Purged(r), r, key, m, req), result \in SaveResults :
         /\ leases' = IF o.address # NoAddress /\ result = "failed"
                      THEN o.unsaved ELSE o.saved
         /\ IF o.address # NoAddress
            THEN Save(o.saved, result)
            ELSE UNCHANGED <<file, failures>>
         /\ grant' = [grant EXCEPT ![m] =
              IF type = "request" /\ o.address # NoAddress /\ result = "ok"
              THEN [address |-> o.address, until |-> now + LeaseTime]
              ELSE NoGrant]
    BY HandleAcquireEffect
  <1>2. TypeOK /\ ListenerIsCurrent /\ now \in Nat  BY DEF IInv, TypeOK
  <1>3. OutcomeOK(o, r, key, m, SharedAfter(r, key, m))
    BY <1>2, AcquireOK DEF IInv
  <1>4. /\ o.address # NoAddress /\ result = "ok"
        /\ grant'[m] = AckOf(o.address)
    BY <1>1, <1>2 DEF TypeOK, AckOf
  <1>5. o.saved \in Table  BY <1>3 DEF OutcomeOK, TableOK, Good
  <1>6. leases' = o.saved /\ file'.leases = o.saved
    BY <1>1, <1>2, <1>4, <1>5, SaveFacts
  <1>7. Holds(o.saved, m, AckOf(o.address), r)
    BY <1>3, <1>4 DEF OutcomeOK, AckOK
  <1>8. config' = config /\ config # NoRange
    BY DhcpAssumption DEF HandleAcquire
  <1> QED  BY <1>4, <1>6, <1>7, <1>8 DEF Protected

\* A deletion that spares m's leases spares its protection.
LEMMA DeletionSpares ==
    ASSUME IInv, NEW m \in Macs, Protected(m), NEW K,
           leases' = Without(leases, K), K \cap Own(leases, m) = {},
           UNCHANGED config, grant'[m] = grant[m],
           \/ UNCHANGED <<file, failures>>
           \/ \E result \in SaveResults : Save(leases', result)
    PROVE  Protected(m)'
  <1>1. TypeOK /\ ListenerIsCurrent /\ leases \in Table  BY DEF IInv, TypeOK
  <1>2. PICK k \in Own(leases, m) : Backs(leases[k], grant[m], config)
    BY DEF Protected, Holds
  <1>3. k \in Own(leases', m) /\ leases'[k] = leases[k]
    BY <1>1, <1>2, WithoutFacts DEF Own, Used
  <1>4. Holds(leases', m, grant[m], config)  BY <1>2, <1>3, WitnessKept
  <1>5. leases' \in Table  BY <1>1, WithoutFacts
  <1>6. file'.leases = leases' \/ file'.leases = file.leases
    BY <1>1, <1>5, SaveFacts
  <1> QED  BY <1>4, <1>6, StillProtected

\* A reservation for another MAC spares m's protection.
LEMMA ReserveSpares ==
    ASSUME IInv, NEW m \in Macs, Protected(m),
           NEW n \in Macs \ {m}, NEW a \in Addresses, SetStaticLease(n, a)
    PROVE  Protected(m)'
  <1> DEFINE w == Without(leases, Own(leases, n))
             l == [mac |-> n, address |-> a, expires |-> 0, kind |-> "static"]
  <1>1. /\ leases' = [w EXCEPT ![n] = l]
        /\ Administration
        /\ \E result \in SaveResults : Save(leases', result)
    BY DEF SetStaticLease, Reserved
  <1>2. TypeOK /\ ListenerIsCurrent /\ leases \in Table  BY DEF IInv, TypeOK
  <1>3. PICK k \in Own(leases, m) : Backs(leases[k], grant[m], config)
    BY DEF Protected, Holds
  <1>4. k # n /\ k \in Keys
    BY <1>3 DEF IInv, Good, MacKeys, Own, Used
  <1>5. w \in Table /\ k \in Own(w, m) /\ w[k] = leases[k]
    BY <1>2, <1>3, <1>4, WithoutFacts DEF Own, Used
  <1>6. leases' \in Table
    <2>1. IInv'  BY ReserveStep
    <2> QED  BY <2>1 DEF IInv, TypeOK
  <1> HIDE DEF w, l
  <1>7. k \in Own(leases', m) /\ leases'[k] = leases[k]
    BY <1>1, <1>4, <1>5 DEF Own, Used, Table
  <1>8. Holds(leases', m, grant[m], config)  BY <1>3, <1>7, WitnessKept
  <1>9. file'.leases = leases' \/ file'.leases = file.leases
    BY <1>1, <1>2, <1>6, SaveFacts
  <1> QED  BY <1>1, <1>8, <1>9, StillProtected DEF Administration

\* load keeps the lease of m that expires last, which backs its grant.
LEMMA RestartSpares ==
    ASSUME IInv, NEW m \in Macs, Protected(m), Restart, ~Tied(m)
    PROVE  Protected(m)'
  <1> DEFINE t == file.leases
  <1>1. PICK K \in SUBSET Keys :
          Canonical(t, K) /\ leases' = Without(t, Keys \ K)
    BY DEF Restart
  <1>2. /\ config' = config /\ config # NoRange
        /\ file'.leases = leases' /\ grant' = grant
    BY DEF Restart, IInv, TypeOK, ListenerIsCurrent, Protected
  <1>3. t \in Table /\ Latest(t, m, grant[m])
    BY DEF IInv, Good, Protected, GrantsOK
  <1>4. PICK k \in Own(t, m) : Backs(t[k], grant[m], config)
    BY DEF Protected, Holds
  <1> HIDE DEF t
  <1>5. PICK j \in K : t[j].mac = t[k].mac
    BY <1>1, <1>4 DEF Canonical, Own, Used
  <1>6. j \in Own(t, m)  BY <1>1, <1>4, <1>5 DEF Canonical, Own, Used
  <1>7. t[k].expires <= t[j].expires /\ t[j].expires <= t[k].expires
    <2>1. t[k].expires <= t[j].expires
      BY <1>1, <1>4, <1>5 DEF Canonical, Own, Used
    <2>2. t[j].expires <= t[k].expires
      BY <1>3, <1>4, <1>6 DEF Latest, Backs
    <2> QED  BY <2>1, <2>2
  <1>8. t[k] \in Lease /\ t[j] \in Lease
    BY <1>3, <1>4, <1>6 DEF Own, Used, Table
  <1>9. t[k].expires = t[j].expires  BY <1>7, <1>8 DEF Lease
  <1>10. k = j  BY <1>4, <1>6, <1>9 DEF Tied, t
  <1>11. k \in Own(leases', m) /\ leases'[k] = t[k]
    BY <1>1, <1>3, <1>4, <1>5, <1>10, WithoutFacts DEF Own, Used
  <1>12. Holds(leases', m, grant[m], config)  BY <1>4, <1>11, WitnessKept
  <1> QED  BY <1>2, <1>12 DEF Protected, t

\* A step of a guest n under key, seen from m.
LEMMA GuestStep ==
    ASSUME IInv, NEW m \in Macs, NEW r \in Ranges, NEW n \in Macs,
           NEW key \in KeysOf(n),
           \/ Discover(r, key, n)
           \/ \E req \in Addresses \cup {NoAddress} : Request(r, key, n, req)
           \/ Release(r, key, n)
    PROVE  /\ Acknowledged(m) => Protected(m)' \/ LatePacket(m)
           /\ Protected(m) => Kept(m)
  <1>1. grant \in [Macs -> Grant \cup {NoGrant}]  BY DEF IInv, TypeOK
  <1>2. CASE Release(r, key, n)
    <2>1. grant' = [grant EXCEPT ![n] = NoGrant] /\ UNCHANGED config
      BY <1>2 DEF Release
    <2>2. ~Acknowledged(m)  BY <1>1, <2>1 DEF Acknowledged
    <2>3. ASSUME Protected(m) PROVE Kept(m)
      <3>1. CASE n = m
        BY <1>1, <2>1, <2>3, <3>1 DEF Kept, Protected
      <3>2. CASE n # m /\ key \in Own(leases, m)
        BY <1>2, <3>2 DEF Kept, Seized
      <3>3. CASE n # m /\ key \notin Own(leases, m)
        <4>1. grant'[m] = grant[m]  BY <1>1, <2>1, <3>3
        <4>2. CASE leases' = Without(leases, {key})
                   /\ \E result \in SaveResults : Save(leases', result)
          <5>1. {key} \cap Own(leases, m) = {}  BY <3>3
          <5>2. Protected(m)'
            BY <2>1, <2>3, <4>1, <4>2, <5>1, DeletionSpares
          <5> QED  BY <5>2 DEF Kept
        <4>3. CASE UNCHANGED <<leases, file, failures>>
          BY <2>1, <2>3, <4>1, <4>3 DEF Kept, Protected
        <4> QED  BY <1>2, <4>2, <4>3 DEF Release
      <3> QED  BY <3>1, <3>2, <3>3
    <2> QED  BY <2>2, <2>3
  <1>3. ASSUME NEW type, NEW req \in Addresses \cup {NoAddress},
               HandleAcquire(r, type, key, n, req),
               \/ Discover(r, key, n)
               \/ Request(r, key, n, req)
        PROVE  /\ Acknowledged(m) => Protected(m)' \/ LatePacket(m)
               /\ Protected(m) => Kept(m)
    <2>1. CASE r # config
      <3>1. LatePacket(n)
        BY <1>3, <2>1 DEF LatePacket, HandleAcquire
      <3>2. Acknowledged(m) => m = n
        BY <1>1, <1>3 DEF Acknowledged, HandleAcquire
      <3> QED  BY <3>1, <3>2 DEF Kept
    <2>2. CASE r = config /\ n = m
      <3>1. grant'[m] # NoGrant => Protected(m)'
        BY <1>3, <2>2, AckProtects
      <3>2. Acknowledged(m) => grant'[m] # NoGrant  BY DEF Acknowledged
      <3>3. Protected(m) => grant[m] # NoGrant  BY DEF Protected
      <3> QED  BY <3>1, <3>2, <3>3 DEF Kept
    <2>3. CASE r = config /\ n # m
      <3>1. grant'[m] = grant[m]
        BY <1>1, <1>3, <2>3 DEF HandleAcquire
      <3>2. ~Acknowledged(m)  BY <3>1 DEF Acknowledged
      <3>3. CASE key \in Own(leases, m)
        <4>1. Seized(m)  BY <1>3, <2>3, <3>3 DEF Seized
        <4> QED  BY <3>2, <4>1 DEF Kept
      <3>4. CASE key \notin Own(leases, m)
        <4>1. Protected(m) => Protected(m)'
          BY <1>3, <2>3, <3>4, PacketKeeps
        <4> QED  BY <3>2, <4>1 DEF Kept
      <3> QED  BY <3>3, <3>4
    <2> QED  BY <2>1, <2>2, <2>3
  <1> QED  BY <1>2, <1>3 DEF Discover, Request

\* A request of the administrator, seen from m.
LEMMA AdministratorStep ==
    ASSUME IInv, NEW m \in Macs, Administrator
    PROVE  ~Acknowledged(m) /\ (Protected(m) => Kept(m))
  <1>1. grant' = grant
    BY DEF Administrator, ClearDynamicLeases, Configure, DeleteLease,
           SetStaticLease, SetStaticLeaseRefused, Administration
  <1>2. ~Acknowledged(m)  BY <1>1 DEF Acknowledged
  <1>3. ASSUME Protected(m) PROVE Kept(m)
    <2>1. CASE ClearDynamicLeases \/ \E r \in Ranges \cup {NoRange} : Configure(r)
      BY <2>1 DEF Kept, Administered
    <2>2. ASSUME NEW n \in Macs, DeleteLease(n)
          PROVE  Kept(m)
      <3>1. CASE n = m  BY <2>2, <3>1 DEF Kept, MacAdministered
      <3>2. CASE n # m
        <4>1. Own(leases, n) \cap Own(leases, m) = {}  BY <3>2 DEF Own, Used
        <4>2. Protected(m)'
          BY <1>1, <1>3, <2>2, <4>1, DeletionSpares
          DEF DeleteLease, Administration
        <4> QED  BY <4>2 DEF Kept
      <3> QED  BY <3>1, <3>2
    <2>3. ASSUME NEW n \in Macs, NEW a \in Addresses,
                 SetStaticLease(n, a) \/ SetStaticLeaseRefused(n, a)
          PROVE  Kept(m)
      <3>1. CASE n = m  BY <2>3, <3>1 DEF Kept, MacAdministered
      <3>2. CASE n # m /\ SetStaticLease(n, a)
        BY <1>3, <3>2, ReserveSpares DEF Kept
      <3>3. CASE n # m /\ SetStaticLeaseRefused(n, a)
        <4>1. PICK dropped \in SUBSET Own(leases, n) :
                leases' = Without(leases, dropped)
          BY <3>3 DEF SetStaticLeaseRefused
        <4>2. dropped \cap Own(leases, m) = {}  BY <3>3 DEF Own, Used
        <4>3. Protected(m)'
          BY <1>1, <1>3, <3>3, <4>1, <4>2, DeletionSpares
          DEF SetStaticLeaseRefused, Administration
        <4> QED  BY <4>3 DEF Kept
      <3> QED  BY <2>3, <3>1, <3>2, <3>3
    <2> QED  BY <2>1, <2>2, <2>3 DEF Administrator
  <1> QED  BY <1>2, <1>3

\* The listener and the clock, seen from m.
LEMMA QuietSpares ==
    ASSUME IInv, NEW m \in Macs, StartListener \/ StopListener \/ Tick
    PROVE  ~Acknowledged(m) /\ (Protected(m) => Kept(m))
  <1>1. UNCHANGED <<config, leases, file>> /\ grant'[m] \in {grant[m], NoGrant}
    BY DEF StartListener, StopListener, Tick, IInv, TypeOK
  <1> QED  BY <1>1 DEF Acknowledged, Kept, Protected

\* Every step keeps what guests rely on, or is one of the exceptions.
LEMMA StepKeepsGrants ==
    ASSUME IInv, [Next]_vars
    PROVE  [\A m \in Macs :
              /\ Acknowledged(m) => Protected(m)' \/ LatePacket(m)
              /\ Protected(m) => Kept(m)]_vars
  <1> SUFFICES ASSUME Next, NEW m \in Macs
               PROVE  /\ Acknowledged(m) => Protected(m)' \/ LatePacket(m)
                      /\ Protected(m) => Kept(m)
    OBVIOUS
  <1>1. CASE Packet
    <2>1. PICK r \in Ranges, n \in Macs : \E key \in KeysOf(n) :
            \/ Discover(r, key, n)
            \/ \E req \in Addresses \cup {NoAddress} : Request(r, key, n, req)
            \/ Release(r, key, n)
      BY <1>1 DEF Packet
    <2> QED  BY <2>1, GuestStep
  <1>2. CASE Administrator  BY <1>2, AdministratorStep
  <1>3. CASE StartListener \/ StopListener \/ Tick  BY <1>3, QuietSpares
  <1>4. CASE Restart
    <2>1. ~Acknowledged(m)  BY <1>4 DEF Restart, Acknowledged
    <2>2. Protected(m) => Kept(m)  BY <1>4, RestartSpares DEF Kept
    <2> QED  BY <2>1, <2>2
  <1>5. CASE SaveForOtherBridge
    <2>1. file'.leases = leases /\ UNCHANGED <<config, leases, grant>>
      BY <1>5 DEF SaveForOtherBridge
    <2> QED  BY <2>1 DEF Acknowledged, Kept, Protected
  <1> QED  BY <1>1, <1>2, <1>3, <1>4, <1>5 DEF Next

(***************************************************************************)
(* An acknowledged lease is in memory and in the file, and stays there     *)
(* until it expires, its guest gives it up, an administrator interferes,   *)
(* another guest uses the same identifier, a packet of an earlier range is *)
(* handled or two leases of the guest tie at a restart.                    *)
(***************************************************************************)
THEOREM GrantsAlwaysLast == Spec => GrantsLast
  <1>1. IInv /\ [Next]_vars =>
          [\A m \in Macs :
             /\ Acknowledged(m) => Protected(m)' \/ LatePacket(m)
             /\ grant'[m] = grant[m] /\ Protected(m) =>
                  \/ Protected(m)'
                  \/ Administered
                  \/ MacAdministered(m)
                  \/ Seized(m)
                  \/ \E n \in Macs : LatePacket(n)
                  \/ Restart /\ Tied(m)]_vars
    BY StepKeepsGrants DEF Kept
  <1> QED  BY <1>1, InvariantHolds, PTL DEF Spec, GrantsLast
=============================================================================
