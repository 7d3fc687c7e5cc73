------------------------ MODULE SerialConsoleProofs ------------------------
(***************************************************************************)
(* Safety of the serial console hub, for every number of QEMU processes,   *)
(* sessions, clients and restarts and every size of the history and of the *)
(* output channels.                                                        *)
(***************************************************************************)
EXTENDS SerialConsole, SequenceTheorems, TLAPS

Elements(seq) == {seq[i] : i \in DOMAIN seq}

(***************************************************************************)
(* Processes are started one after the other, each when all before it are  *)
(* dead; while a start is under way no other process is alive.             *)
(***************************************************************************)
ProcessInv ==
    /\ \A p, q \in Runs : q < p /\ proc[p] # "unused" => proc[q] = "dead"
    /\ path # None => proc[path] # "unused"
    /\ \A r \in Runs : watch[r].pc # "none" => proc[r] # "unused"
    /\ starter.pc # "idle" =>
         /\ starter.run \in Runs
         /\ proc[starter.run] # "unused"
         /\ \A r \in Runs : proc[r] = "alive" => r = starter.run
         /\ watch[starter.run].pc = "none"

(***************************************************************************)
(* The session a start has made is new, belongs to the run that is started *)
(* and is stopped once the start has failed.                               *)
(***************************************************************************)
StarterInv ==
    /\ starter.pc \in {"dial", "set", "lock", "delete"} =>
         /\ starter.session \in Sessions
         /\ sess[starter.session].pc = "new"
         /\ sess[starter.session].run = starter.run
         /\ starter.boot => sess[starter.session].adopted
    /\ starter.pc \in {"lock", "delete"} => sess[starter.session].stop
    /\ starter.pc = "set" => starter.conn = starter.run
    /\ starter.pc = "hub" /\ starter.run \notin overlap => hub = None

(***************************************************************************)
(* Whoever is about to close a session has stopped it.                     *)
(***************************************************************************)
StopperInv ==
    /\ \A r \in Runs : watch[r].pc = "lock" =>
         watch[r].session \in Sessions /\ sess[watch[r].session].stop
    /\ closer.pc = "lock" =>
         closer.session \in Sessions /\ sess[closer.session].stop

(***************************************************************************)
(* A session that has not been stopped is the one in the map.  The map     *)
(* holds a session as long as a start or a watcher will forget it, unless  *)
(* the start-up loop made it.                                              *)
(***************************************************************************)
HubInv ==
    /\ \A s \in Sessions : sess[s].pc # "unused" /\ ~sess[s].stop => hub = s
    /\ hub # None =>
         /\ sess[hub].pc # "unused"
         /\ \/ sess[hub].adopted
            \/ starter.pc \in {"dial", "set", "lock", "delete"}
               /\ starter.session = hub
            \/ \E r \in Runs : watch[r].pc = "waiting"

(***************************************************************************)
(* Session and client know of each other, and only a session that runs has *)
(* a connection for the client.                                            *)
(***************************************************************************)
AttachInv ==
    /\ \A s \in Sessions :
         /\ sess[s].attached # NoClient =>
              /\ client[sess[s].attached].pc = "attached"
              /\ client[sess[s].attached].session = s
              /\ client[sess[s].attached].open
         /\ sess[s].upstream # None =>
              sess[s].pc \in {"read", "publish", "lost"}
         /\ sess[s].pc = "unused" => sess[s] = NewSession
    /\ \A c \in Clients :
         /\ client[c].pc \in {"found", "attached"} =>
              client[c].session \in Sessions
         /\ client[c].open => client[c].pc = "attached"

(***************************************************************************)
(* The connection that is read is the one that is written to, until the    *)
(* process at its other end has died.                                      *)
(***************************************************************************)
UpstreamInv ==
    \A s \in Sessions : sess[s].upstream # None =>
        /\ sess[s].pc \in {"read", "publish"} =>
             sess[s].conn = sess[s].upstream
        /\ sess[s].pc = "lost" => proc[sess[s].upstream] = "dead"

(***************************************************************************)
(* A run that was started after its predecessor was cleaned up meets no    *)
(* watcher but its own, and the map holds no session of another run while  *)
(* it listens.                                                             *)
(***************************************************************************)
OwnInv ==
    \A r \in Runs \ overlap : proc[r] = "alive" =>
        /\ \A q \in Runs \ {r} : watch[q].pc \in {"none", "done"}
        /\ path = r /\ hub # None => sess[hub].run = r

(***************************************************************************)
(* Such a run is connected to no session but its own; a stopped session    *)
(* may connect to it and is refused by setUpstream.                        *)
(***************************************************************************)
ConnectionInv ==
    \A r \in Runs \ overlap : \A s \in Sessions :
        /\ sess[s].upstream = r => sess[s].run = r
        /\ sess[s].conn = r =>
             \/ sess[s].run = r
             \/ sess[s].pc = "set" /\ sess[s].stop
             \/ sess[s].pc = "done"

(***************************************************************************)
(* Output comes from the process it was read from.                         *)
(***************************************************************************)
OutputInv ==
    /\ \A r \in Runs : \A b \in Elements(pending[r]) :
          b \in DOMAIN emitter /\ emitter[b] = r
    /\ \A s \in Sessions :
          \A b \in Elements(sess[s].buf) \cup Elements(sess[s].published) :
             /\ b \in DOMAIN emitter
             /\ emitter[b] \in overlap \/ emitter[b] = sess[s].run

(***************************************************************************)
(* The first part of RunHasItsConsole; the others follow from OutputInv    *)
(* and ConnectionInv.                                                      *)
(***************************************************************************)
ConsoleOfItsOwn ==
    \A r \in Runs \ overlap :
        watch[r].pc = "waiting" /\ proc[r] = "alive" /\ closer = NoStopper =>
            hub # None /\ sess[hub].run = r /\ sess[hub].upstream = r

(***************************************************************************)
(* The last output is part of all output.                                  *)
(***************************************************************************)
HistoryInv ==
    \A s \in Sessions : Len(sess[s].history) <= Len(sess[s].published)

IInv ==
    /\ TypeOK
    /\ HistoryInv
    /\ ProcessInv
    /\ StarterInv
    /\ StopperInv
    /\ HubInv
    /\ AttachInv
    /\ UpstreamInv
    /\ OwnInv
    /\ ConnectionInv
    /\ OutputInv
    /\ StoppedHoldsNothing
    /\ ConsoleOfItsOwn

(***************************************************************************)
(* The invariant contains the two properties.                              *)
(***************************************************************************)
LEMMA InvariantImplies ==
    IInv => TypeOK /\ StoppedHoldsNothing /\ RunHasItsConsole
<1> SUFFICES ASSUME IInv PROVE RunHasItsConsole
  BY DEF IInv
<1>1. ASSUME NEW r \in Runs \ overlap, NEW s \in Sessions,
             NEW i \in DOMAIN sess[s].published,
             emitter[sess[s].published[i]] = r
      PROVE  sess[s].run = r
  <2>1. sess[s].published[i] \in Elements(sess[s].published)
    BY DEF Elements
  <2>2. QED BY <1>1, <2>1 DEF IInv, OutputInv
<1>2. ASSUME NEW r \in Runs \ overlap, NEW c \in Clients, WritesTo(c) = r
      PROVE  sess[client[c].session].run = r
  <2>1. r # None
    BY ConsoleConstants DEF None
  <2>2. client[c].pc = "attached" /\ sess[client[c].session].upstream = r
    BY <1>2, <2>1 DEF WritesTo
  <2>3. client[c].session \in Sessions
    BY <2>2 DEF IInv, AttachInv
  <2>4. QED BY <2>2, <2>3 DEF IInv, ConnectionInv
<1>3. QED
  BY <1>1, <1>2 DEF IInv, ConsoleOfItsOwn, RunHasItsConsole

(***************************************************************************)
(* What the model's operators on bytes do.                                 *)
(***************************************************************************)
LEMMA ElementsOfNothing == Elements(<<>>) = {}
BY DEF Elements

LEMMA ElementsOfConcat ==
    ASSUME NEW a \in Seq(Bytes), NEW b \in Seq(Bytes)
    PROVE  /\ a \o b \in Seq(Bytes)
           /\ Len(a \o b) = Len(a) + Len(b)
           /\ Elements(a \o b) \subseteq Elements(a) \cup Elements(b)
<1>1. a \o b \in Seq(Bytes) /\ Len(a \o b) = Len(a) + Len(b)
  OBVIOUS
<1>2. ASSUME NEW i \in DOMAIN (a \o b)
      PROVE  (a \o b)[i] \in Elements(a) \cup Elements(b)
  <2>1. i \in 1..(Len(a) + Len(b))
    OBVIOUS
  <2>2. CASE i <= Len(a)
    <3>1. (a \o b)[i] = a[i] /\ i \in DOMAIN a
      BY <2>1, <2>2
    <3>2. QED BY <3>1 DEF Elements
  <2>3. CASE i > Len(a)
    <3>1. (a \o b)[i] = b[i - Len(a)] /\ i - Len(a) \in DOMAIN b
      BY <2>1, <2>3
    <3>2. QED BY <3>1 DEF Elements
  <2>4. QED BY <2>1, <2>2, <2>3
<1>3. QED BY <1>1, <1>2 DEF Elements

LEMMA ElementsOfAppend ==
    ASSUME NEW a \in Seq(Bytes), NEW b \in Bytes
    PROVE  /\ Append(a, b) \in Seq(Bytes)
           /\ Elements(Append(a, b)) \subseteq Elements(a) \cup {b}
<1>1. ASSUME NEW i \in DOMAIN Append(a, b)
      PROVE  Append(a, b)[i] \in Elements(a) \cup {b}
  <2>1. i \in 1..(Len(a) + 1)
    OBVIOUS
  <2>2. CASE i = Len(a) + 1
    BY <2>2
  <2>3. CASE i # Len(a) + 1
    <3>1. Append(a, b)[i] = a[i] /\ i \in DOMAIN a
      BY <2>1, <2>3
    <3>2. QED BY <3>1 DEF Elements
  <2>4. QED BY <2>2, <2>3
<1>2. QED BY <1>1 DEF Elements

LEMMA LastOfBytes ==
    ASSUME NEW bytes \in Seq(Bytes)
    PROVE  /\ LastOf(HistoryLimit, bytes) \in Seq(Bytes)
           /\ Len(LastOf(HistoryLimit, bytes)) <= Len(bytes)
BY ConsoleConstants DEF LastOf

(***************************************************************************)
(* Sessions, clients and watchers by their fields.                         *)
(***************************************************************************)
LEMMA Fields ==
    ASSUME TypeOK
    PROVE  /\ \A s \in Sessions :
                /\ sess[s] \in Session
                /\ sess[s].upstream \in MaybeRun
                /\ sess[s].conn \in MaybeRun
                /\ sess[s].run \in MaybeRun
                /\ sess[s].attached \in Clients \cup {NoClient}
                /\ sess[s].history \in Seq(Bytes)
                /\ sess[s].published \in Seq(Bytes)
                /\ sess[s].buf \in Seq(Bytes)
           /\ \A c \in Clients :
                /\ client[c] \in Client
                /\ client[c].session \in MaybeSession
                /\ client[c].queue \in Seq(Chunk)
                /\ client[c].received \in Seq(Bytes)
           /\ \A r \in Runs : pending[r] \in Seq(Bytes)
BY DEF TypeOK, Session, Client

(***************************************************************************)
(* A client whose channel is open is the attachment of its session.        *)
(***************************************************************************)
LEMMA OpenClients ==
    ASSUME IInv, NEW c \in Clients, client[c].open
    PROVE  /\ client[c].pc = "attached"
           /\ client[c].session \in Sessions
           /\ sess[client[c].session].attached = c
BY DEF IInv, AttachInv, StoppedHoldsNothing

(***************************************************************************)
(* Before the first start there is nothing to go wrong.                    *)
(***************************************************************************)
LEMMA InitEstablishes == Init => IInv
<1> SUFFICES ASSUME Init PROVE IInv
  OBVIOUS
<1> USE ConsoleConstants DEF Init, None, MaybeRun, MaybeSession
<1>1. NewSession \in Session /\ NewClient \in Client
  BY DEF NewSession, NewClient, Session, Client
<1>2. TypeOK
  BY <1>1 DEF TypeOK, Idle, NoStopper, StarterPC, StopperPC
<1>3. HistoryInv /\ UpstreamInv /\ OwnInv /\ ConnectionInv /\ AttachInv
  BY DEF HistoryInv, UpstreamInv, OwnInv, ConnectionInv, AttachInv,
         NewSession, NewClient
<1>4. ProcessInv /\ StarterInv /\ StopperInv /\ HubInv
  BY DEF ProcessInv, StarterInv, StopperInv, HubInv, NewSession, Idle,
         NoStopper
<1>5. OutputInv
  BY ElementsOfNothing DEF OutputInv, NewSession
<1>6. StoppedHoldsNothing /\ ConsoleOfItsOwn
  BY DEF StoppedHoldsNothing, ConsoleOfItsOwn, NewSession, NewClient,
         NoStopper
<1>7. QED
  BY <1>2, <1>3, <1>4, <1>5, <1>6 DEF IInv

(***************************************************************************)
(* QEMU: a process dies, its guest prints a byte.                          *)
(***************************************************************************)
LEMMA QemuPreserves ==
    ASSUME IInv, NEW r \in Runs, Exit(r) \/ Emit(r)
    PROVE  IInv'
<1> USE ConsoleConstants DEF None, MaybeRun
<1>0. /\ UNCHANGED <<hub, sess, client, starter, watch, closer, path,
                     overlap, restarts>>
      /\ proc' \in [Runs -> {"unused", "alive", "dead"}]
      /\ \A q \in Runs : /\ proc'[q] = "unused" <=> proc[q] = "unused"
                         /\ proc'[q] = "alive" => proc[q] = "alive"
                         /\ proc[q] = "dead" => proc'[q] = "dead"
  BY DEF IInv, TypeOK, Exit, Emit, aux
<1>1. /\ pending' \in [Runs -> Seq(Bytes)]
      /\ emitter' \in Seq(Runs) /\ Len(emitter') <= MaxOutput
      /\ \A b \in DOMAIN emitter : b \in DOMAIN emitter'
                                   /\ emitter'[b] = emitter[b]
      /\ \A q \in Runs : \A b \in Elements(pending'[q]) :
            b \in DOMAIN emitter' /\ emitter'[b] = q
  <2>1. CASE Exit(r)
    BY <2>1 DEF IInv, TypeOK, OutputInv, Exit, aux
  <2>2. CASE Emit(r)
    <3>1. /\ emitter' = Append(emitter, r)
          /\ Len(emitter) + 1 \in Bytes
          /\ pending' = [pending EXCEPT ![r] = Append(@, Len(emitter) + 1)]
          /\ emitter \in Seq(Runs) /\ pending \in [Runs -> Seq(Bytes)]
      BY <2>2 DEF Emit, IInv, TypeOK, Bytes
    <3>2. /\ emitter' \in Seq(Runs) /\ Len(emitter') <= MaxOutput
          /\ emitter'[Len(emitter) + 1] = r
          /\ Len(emitter) + 1 \in DOMAIN emitter'
          /\ \A b \in DOMAIN emitter : b \in DOMAIN emitter'
                                       /\ emitter'[b] = emitter[b]
      BY <3>1, <2>2 DEF Emit, Bytes
    <3>3. pending' \in [Runs -> Seq(Bytes)]
      BY <3>1, ElementsOfAppend
    <3>4. ASSUME NEW q \in Runs, NEW b \in Elements(pending'[q])
          PROVE  b \in DOMAIN emitter' /\ emitter'[b] = q
      <4>1. \/ b \in Elements(pending[q])
            \/ q = r /\ b = Len(emitter) + 1
        BY <3>1, <3>4, ElementsOfAppend
      <4>2. QED BY <3>2, <4>1 DEF IInv, OutputInv
    <3>5. QED BY <3>2, <3>3, <3>4
  <2>3. QED BY <2>1, <2>2
<1>2. TypeOK'
  BY <1>0, <1>1 DEF IInv, TypeOK
<1>3. /\ HistoryInv' /\ StarterInv' /\ StopperInv' /\ HubInv'
      /\ AttachInv' /\ StoppedHoldsNothing'
  <2>1. HistoryInv' /\ StarterInv' /\ StopperInv'
    BY <1>0 DEF IInv, HistoryInv, StarterInv, StopperInv
  <2>2. HubInv' /\ AttachInv'
    BY <1>0 DEF IInv, HubInv, AttachInv
  <2>3. StoppedHoldsNothing'
    BY <1>0 DEF IInv, StoppedHoldsNothing, Closing
  <2>4. QED BY <2>1, <2>2, <2>3
<1>4. ProcessInv'
  BY <1>0 DEF IInv, ProcessInv, TypeOK
<1>5. UpstreamInv'
  BY <1>0, Fields DEF IInv, UpstreamInv
<1>6. OwnInv' /\ ConnectionInv'
  BY <1>0 DEF IInv, OwnInv, ConnectionInv
<1>7. OutputInv'
  BY <1>0, <1>1 DEF IInv, OutputInv
<1>8. ConsoleOfItsOwn'
  BY <1>0 DEF IInv, ConsoleOfItsOwn
<1>9. QED
  BY <1>2, <1>3, <1>4, <1>5, <1>6, <1>7, <1>8 DEF IInv

(***************************************************************************)
(* A process is started: if nothing of an earlier run is left, every       *)
(* session that was ever made has been stopped.                            *)
(***************************************************************************)
LEMMA SpawnPreserves ==
    ASSUME IInv, NEW r \in Runs, Spawn(r)
    PROVE  IInv'
<1> USE ConsoleConstants DEF None, MaybeRun
<1>0. /\ UNCHANGED <<hub, sess, client, watch, closer, pending, emitter,
                     restarts>>
      /\ proc[r] = "unused" /\ starter.pc = "idle" /\ closer = NoStopper
      /\ proc' = [proc EXCEPT ![r] = "alive"] /\ path' = r
      /\ starter' = [Idle EXCEPT !.pc = "hub", !.run = r]
      /\ overlap \subseteq overlap' /\ overlap' \subseteq overlap \cup {r}
      /\ \A q \in Runs : q < r => proc[q] = "dead"
      /\ proc \in [Runs -> {"unused", "alive", "dead"}]
  BY DEF Spawn, IInv, TypeOK
<1>1. starter' = [pc |-> "hub", run |-> r, session |-> None, conn |-> None,
                  boot |-> FALSE]
  BY <1>0 DEF Idle
<1>2. r \notin overlap' =>
         /\ \A q \in Runs : watch[q].pc \in {"none", "done"}
         /\ hub = None
  <2>1. SUFFICES ASSUME r \notin overlap'
                 PROVE  /\ \A q \in Runs : watch[q].pc \in {"none", "done"}
                        /\ hub = None
    OBVIOUS
  <2>2. /\ \A q \in Runs : watch[q].pc \in {"none", "done"}
        /\ hub # None => ~sess[hub].adopted
    BY <2>1 DEF Spawn, Unfinished
  <2>3. hub = None
    BY <1>0, <2>2 DEF IInv, HubInv
  <2>4. QED BY <2>2, <2>3
<1>3. TypeOK'
  <2>1. starter' \in [pc : StarterPC, run : MaybeRun, session : MaybeSession,
                      conn : MaybeRun, boot : BOOLEAN]
    BY <1>1 DEF StarterPC, MaybeSession
  <2>2. /\ proc' \in [Runs -> {"unused", "alive", "dead"}]
        /\ path' \in MaybeRun /\ overlap' \subseteq Runs
    BY <1>0 DEF IInv, TypeOK
  <2>3. QED BY <1>0, <2>1, <2>2 DEF IInv, TypeOK
<1>4. watch[r].pc = "none"
  BY <1>0 DEF IInv, ProcessInv, TypeOK, StopperPC
<1>5. ProcessInv'
  <2>1. \A q \in Runs : proc[q] = "alive" => FALSE
    BY <1>0 DEF IInv, ProcessInv
  <2>2. QED BY <1>0, <1>1, <1>4, <2>1 DEF IInv, ProcessInv
<1>6. StarterInv'
  BY <1>0, <1>1, <1>2 DEF StarterInv
<1>7. StopperInv' /\ HistoryInv' /\ AttachInv'
  BY <1>0 DEF IInv, StopperInv, HistoryInv, AttachInv
<1>8. HubInv'
  BY <1>0 DEF IInv, HubInv
<1>9. UpstreamInv'
  <2>1. \A q \in Runs : proc[q] = "dead" => proc'[q] = "dead"
    BY <1>0
  <2>2. QED BY <1>0, <2>1, Fields DEF IInv, UpstreamInv
<1>10. OwnInv' /\ ConnectionInv'
  <2>1. \A q \in Runs : proc'[q] = "alive" => q = r
    BY <1>0 DEF IInv, ProcessInv
  <2>2. QED BY <1>0, <1>2, <2>1 DEF IInv, OwnInv, ConnectionInv
<1>11. OutputInv'
  BY <1>0 DEF IInv, OutputInv
<1>12. StoppedHoldsNothing'
  BY <1>0, <1>1 DEF IInv, StoppedHoldsNothing, Closing
<1>13. ConsoleOfItsOwn'
  BY <1>0, <1>4 DEF IInv, ConsoleOfItsOwn, ProcessInv
<1>14. QED
  BY <1>3, <1>5, <1>6, <1>7, <1>8, <1>9, <1>10, <1>11, <1>12, <1>13 DEF IInv

(***************************************************************************)
(* A session is stopped by somebody who will close it.                     *)
(***************************************************************************)
LEMMA Stopped ==
    ASSUME IInv, NEW s \in Sessions, CloseStop(s)
    PROVE  /\ sess' \in [Sessions -> Session]
           /\ sess'[s].stop
           /\ \A t \in Sessions :
                /\ t # s => sess'[t] = sess[t]
                /\ sess'[t].pc = sess[t].pc
                /\ sess'[t].run = sess[t].run
                /\ sess'[t].adopted = sess[t].adopted
                /\ sess'[t].attached = sess[t].attached
                /\ sess'[t].upstream = sess[t].upstream
                /\ sess'[t].conn = sess[t].conn
                /\ sess'[t].history = sess[t].history
                /\ sess'[t].published = sess[t].published
                /\ sess'[t].buf = sess[t].buf
                /\ sess[t].stop => sess'[t].stop
<1> DEFINE new == [sess[s] EXCEPT !.stop = TRUE]
<1>1. sess[s] \in Session
  BY Fields DEF IInv
<1>2. /\ new \in Session
      /\ new.stop
      /\ new.pc = sess[s].pc /\ new.run = sess[s].run
      /\ new.adopted = sess[s].adopted /\ new.attached = sess[s].attached
      /\ new.upstream = sess[s].upstream /\ new.conn = sess[s].conn
      /\ new.history = sess[s].history /\ new.published = sess[s].published
      /\ new.buf = sess[s].buf
  BY <1>1 DEF Session
<1>3. sess' = [sess EXCEPT ![s] = new] /\ sess \in [Sessions -> Session]
  BY DEF CloseStop, IInv, TypeOK
<1> HIDE DEF new
<1>4. QED BY <1>2, <1>3

(***************************************************************************)
(* The locked half of close.                                               *)
(***************************************************************************)
LEMMA Closed ==
    ASSUME IInv, NEW s \in Sessions, CloseLocked(s)
    PROVE  /\ sess' \in [Sessions -> Session]
           /\ client' \in [Clients -> Client]
           /\ pending' \in [Runs -> Seq(Bytes)]
           /\ sess'[s].upstream = None /\ sess'[s].attached = NoClient
           /\ sess'[s].conn \in {sess[s].conn, None}
           /\ \A t \in Sessions :
                /\ t # s => sess'[t] = sess[t]
                /\ sess'[t].stop = sess[t].stop
                /\ sess'[t].pc = sess[t].pc
                /\ sess'[t].run = sess[t].run
                /\ sess'[t].adopted = sess[t].adopted
                /\ sess'[t].history = sess[t].history
                /\ sess'[t].published = sess[t].published
                /\ sess'[t].buf = sess[t].buf
           /\ \A c \in Clients :
                /\ c # sess[s].attached => client'[c] = client[c]
                /\ c = sess[s].attached => ~client'[c].open
                /\ client'[c].pc = client[c].pc
                /\ client'[c].session = client[c].session
           /\ \A r \in Runs : pending'[r] \in {pending[r], <<>>}
<1>0. /\ sess \in [Sessions -> Session] /\ client \in [Clients -> Client]
      /\ pending \in [Runs -> Seq(Bytes)]
  BY DEF IInv, TypeOK
<1> DEFINE new == [Detached(sess[s]) EXCEPT
                     !.upstream = None,
                     !.conn = IF sess[s].upstream = None
                              THEN sess[s].conn ELSE None]
<1>1. /\ new \in Session
      /\ new.upstream = None /\ new.attached = NoClient
      /\ new.conn \in {sess[s].conn, None}
      /\ new.stop = sess[s].stop /\ new.pc = sess[s].pc
      /\ new.run = sess[s].run /\ new.adopted = sess[s].adopted
      /\ new.history = sess[s].history /\ new.published = sess[s].published
      /\ new.buf = sess[s].buf
  <2> DEFINE old == sess[s]
             conn == IF old.upstream = None THEN old.conn ELSE None
  <2>1. old \in Session
    BY <1>0
  <2>2. conn \in MaybeRun /\ conn \in {old.conn, None} /\ None \in MaybeRun
    BY <2>1 DEF Session, MaybeRun
  <2>3. new = [old EXCEPT !.attached = NoClient, !.upstream = None,
                          !.conn = conn]
    BY <2>1 DEF Detached, Session
  <2> HIDE DEF conn, new
  <2>4. QED BY <2>1, <2>2, <2>3 DEF Session
<1>2. sess' = [sess EXCEPT ![s] = new]
  BY DEF CloseLocked
<1> HIDE DEF new
<1>3. ASSUME NEW c \in Clients
      PROVE  /\ client'[c] \in Client
             /\ c # sess[s].attached => client'[c] = client[c]
             /\ c = sess[s].attached => ~client'[c].open
             /\ client'[c].pc = client[c].pc
             /\ client'[c].session = client[c].session
  <2>1. client[c] \in Client
    BY <1>0
  <2>2. client'[c] = IF c = sess[s].attached
                     THEN [client[c] EXCEPT !.open = FALSE] ELSE client[c]
    BY DEF CloseLocked, ChannelClosed
  <2>3. QED BY <2>1, <2>2 DEF Client
<1>4. client' \in [Clients -> Client]
  BY <1>3 DEF CloseLocked, ChannelClosed
<1>5. /\ pending' \in [Runs -> Seq(Bytes)]
      /\ \A r \in Runs : pending'[r] \in {pending[r], <<>>}
  <2>1. sess[s].upstream \in MaybeRun
    BY Fields DEF IInv
  <2>2. CASE sess[s].upstream = None
    BY <1>0, <2>2 DEF CloseLocked
  <2>3. CASE sess[s].upstream # None
    <3>1. pending' = [pending EXCEPT ![sess[s].upstream] = <<>>]
      BY <2>3 DEF CloseLocked
    <3>2. <<>> \in Seq(Bytes)
      OBVIOUS
    <3>3. QED BY <1>0, <2>1, <2>3, <3>1, <3>2 DEF MaybeRun
  <2>4. QED BY <2>2, <2>3
<1>6. QED BY <1>0, <1>1, <1>2, <1>3, <1>4, <1>5

(***************************************************************************)
(* Closing a stopped session keeps what does not depend on who closes it.  *)
(***************************************************************************)
LEMMA CloseKeeps ==
    ASSUME IInv, NEW s \in Sessions, CloseLocked(s), sess[s].stop,
           UNCHANGED <<hub, proc, path, aux>>
    PROVE  /\ HistoryInv' /\ AttachInv' /\ UpstreamInv' /\ ConnectionInv'
           /\ OutputInv'
           /\ sess[s].pc # "unused"
           /\ \A t \in Sessions : t # s =>
                /\ sess'[t].upstream = sess[t].upstream
                /\ sess'[t].attached = sess[t].attached
           /\ \A c \in Clients : client'[c].open =>
                sess'[client'[c].session].attached = c
<1> USE ConsoleConstants DEF None, MaybeRun
<1>0. UNCHANGED <<emitter, overlap>>
  BY DEF aux
<1>1. sess[s].pc # "unused"
  BY DEF IInv, AttachInv, NewSession
<1>2. HistoryInv'
  BY Closed DEF IInv, HistoryInv
<1>3. ASSUME NEW t \in Sessions
      PROVE  /\ sess'[t].attached # NoClient =>
                  /\ client'[sess'[t].attached].pc = "attached"
                  /\ client'[sess'[t].attached].session = t
                  /\ client'[sess'[t].attached].open
             /\ sess'[t].upstream # None =>
                  sess'[t].pc \in {"read", "publish", "lost"}
             /\ sess'[t].pc = "unused" => sess'[t] = NewSession
  <2>1. CASE t = s
    BY <1>1, <2>1, Closed
  <2>2. CASE t # s
    <3>1. sess'[t] = sess[t]
      BY <2>2, Closed
    <3>2. ASSUME sess[t].attached # NoClient
          PROVE  /\ client'[sess[t].attached].pc = "attached"
                 /\ client'[sess[t].attached].session = t
                 /\ client'[sess[t].attached].open
      <4>1. /\ sess[t].attached \in Clients
            /\ client[sess[t].attached].pc = "attached"
            /\ client[sess[t].attached].session = t
            /\ client[sess[t].attached].open
        BY <3>2, Fields DEF IInv, AttachInv
      <4>2. sess[s].attached # sess[t].attached
        BY <2>2, <3>2, <4>1 DEF IInv, AttachInv
      <4>3. QED BY <4>1, <4>2, Closed
    <3>3. QED BY <3>1, <3>2 DEF IInv, AttachInv
  <2>3. QED BY <2>1, <2>2
<1>4. ASSUME NEW c \in Clients
      PROVE  /\ client'[c].pc \in {"found", "attached"} =>
                  client'[c].session \in Sessions
             /\ client'[c].open => client[c].open /\ c # sess[s].attached
             /\ client'[c].open => client'[c].pc = "attached"
  BY Closed DEF IInv, AttachInv
<1>5. AttachInv'
  BY <1>3, <1>4 DEF AttachInv
<1>6. UpstreamInv'
  <2>1. ASSUME NEW t \in Sessions, sess'[t].upstream # None
        PROVE  t # s /\ sess'[t] = sess[t]
    BY <2>1, Closed
  <2>2. QED BY <2>1 DEF IInv, UpstreamInv
<1>7. ConnectionInv'
  <2>1. \A t \in Sessions : /\ sess'[t].upstream \in {sess[t].upstream, None}
                            /\ sess'[t].conn \in {sess[t].conn, None}
                            /\ sess'[t].run = sess[t].run
                            /\ sess'[t].pc = sess[t].pc
                            /\ sess'[t].stop = sess[t].stop
    BY Closed
  <2>2. ASSUME NEW r \in Runs \ overlap, NEW t \in Sessions
        PROVE  /\ sess'[t].upstream = r => sess'[t].run = r
               /\ sess'[t].conn = r => \/ sess'[t].run = r
                                       \/ sess'[t].pc = "set" /\ sess'[t].stop
                                       \/ sess'[t].pc = "done"
    <3>1. r # None
      OBVIOUS
    <3>2. /\ sess'[t].upstream = r => sess[t].upstream = r
          /\ sess'[t].conn = r => sess[t].conn = r
      BY <2>1, <3>1
    <3>3. QED BY <2>1, <3>2 DEF IInv, ConnectionInv
  <2>3. QED BY <1>0, <2>2 DEF ConnectionInv
<1>8. OutputInv'
  <2>1. \A r \in Runs : \A b \in Elements(pending'[r]) :
            b \in Elements(pending[r])
    BY Closed, ElementsOfNothing
  <2>2. \A t \in Sessions : /\ sess'[t].buf = sess[t].buf
                            /\ sess'[t].published = sess[t].published
                            /\ sess'[t].run = sess[t].run
    BY Closed
  <2>3. QED BY <1>0, <2>1, <2>2 DEF IInv, OutputInv
<1>9. ASSUME NEW c \in Clients, client'[c].open
      PROVE  sess'[client'[c].session].attached = c
  <2>1. /\ client[c].open /\ c # sess[s].attached
        /\ client'[c].session = client[c].session
        /\ client[c].session \in Sessions
        /\ sess[client[c].session].attached = c
    <3>1. client[c].open /\ c # sess[s].attached
      BY <1>4, <1>9
    <3>2. client'[c].session = client[c].session
      BY Closed
    <3>3. client[c].session \in Sessions
      BY <3>1 DEF IInv, AttachInv
    <3>4. QED BY <3>1, <3>2, <3>3 DEF IInv, StoppedHoldsNothing
  <2>2. client[c].session # s
    BY <2>1
  <2>3. \A t \in Sessions : t # s => sess'[t] = sess[t]
    BY Closed
  <2>4. QED BY <2>1, <2>2, <2>3
<1>10. \A t \in Sessions : t # s =>
          /\ sess'[t].upstream = sess[t].upstream
          /\ sess'[t].attached = sess[t].attached
  BY Closed
<1>11. QED
  BY <1>1, <1>2, <1>5, <1>6, <1>7, <1>8, <1>9, <1>10

(***************************************************************************)
(* Hub.Start takes the session in the map or makes one.                    *)
(***************************************************************************)
LEMMA StartReturnsToIdle ==
    ASSUME IInv, starter.pc # "idle", StartReturns
    PROVE  /\ starter' = Idle
           /\ starter' \in [pc : StarterPC, run : MaybeRun,
                            session : MaybeSession, conn : MaybeRun,
                            boot : BOOLEAN]
           /\ starter'.pc = "idle"
           /\ starter.run \in Runs
           /\ watch' \in [Runs -> [pc : StopperPC, session : MaybeSession]]
           /\ \A q \in Runs :
                /\ q # starter.run \/ starter.boot => watch'[q] = watch[q]
                /\ q = starter.run /\ ~starter.boot =>
                     watch'[q].pc = "waiting"
<1>1. starter.run \in Runs
  BY DEF IInv, ProcessInv
<1>2. starter' \in [pc : StarterPC, run : MaybeRun, session : MaybeSession,
                    conn : MaybeRun, boot : BOOLEAN]
  BY DEF StartReturns, Idle, StarterPC, MaybeRun, MaybeSession
<1>3. watch \in [Runs -> [pc : StopperPC, session : MaybeSession]]
  BY DEF IInv, TypeOK
<1>4. QED BY <1>1, <1>2, <1>3 DEF StartReturns, Idle, StopperPC

LEMMA HubStartPreserves ==
    ASSUME IInv, HubStart
    PROVE  IInv'
<1> USE ConsoleConstants DEF None, MaybeRun, MaybeSession
<1>0. /\ starter.pc = "hub"
      /\ UNCHANGED <<client, qemu, closer, aux>>
      /\ UNCHANGED <<proc, path, pending, emitter, overlap, restarts>>
      /\ starter.run \in Runs
      /\ sess \in [Sessions -> Session] /\ hub \in MaybeSession
      /\ \A r \in Runs : proc[r] = "alive" => r = starter.run
      /\ watch[starter.run].pc = "none"
  BY DEF HubStart, qemu, aux, IInv, TypeOK, ProcessInv
<1>1. CASE hub # None /\ StartReturns /\ UNCHANGED <<hub, sess>>
  <2>0. /\ starter' \in [pc : StarterPC, run : MaybeRun,
                         session : MaybeSession, conn : MaybeRun,
                         boot : BOOLEAN]
        /\ starter'.pc = "idle"
        /\ watch' \in [Runs -> [pc : StopperPC, session : MaybeSession]]
        /\ \A q \in Runs :
             /\ q # starter.run => watch'[q] = watch[q]
             /\ watch'[q] # watch[q] => watch'[q].pc = "waiting"
             /\ watch[q].pc = "waiting" => watch'[q].pc = "waiting"
             /\ watch'[q].pc = "lock" => watch'[q] = watch[q]
    BY <1>0, <1>1, StartReturnsToIdle
  <2>1. TypeOK'
    BY <1>0, <1>1, <2>0 DEF IInv, TypeOK
  <2>2. HistoryInv' /\ AttachInv' /\ UpstreamInv' /\ ConnectionInv'
        /\ OutputInv'
    BY <1>0, <1>1 DEF IInv, HistoryInv, AttachInv, UpstreamInv,
                      ConnectionInv, OutputInv
  <2>3. ProcessInv'
    BY ZenonT(60), <1>0, <1>1, <2>0 DEF IInv, ProcessInv
  <2>4. StarterInv' /\ StopperInv'
    BY <1>0, <1>1, <2>0 DEF IInv, StarterInv, StopperInv
  <2>5. HubInv'
    BY <1>0, <1>1, <2>0 DEF IInv, HubInv
  <2>6. OwnInv'
    BY <1>0, <1>1, <2>0 DEF IInv, OwnInv
  <2>7. StoppedHoldsNothing'
    BY <1>0, <1>1, <2>0 DEF IInv, StoppedHoldsNothing, Closing
  <2>8. ConsoleOfItsOwn'
    <3>1. starter.run \in overlap
      BY <1>0, <1>1 DEF IInv, StarterInv
    <3>2. QED BY <1>0, <1>1, <2>0, <3>1 DEF IInv, ConsoleOfItsOwn
  <2>9. QED
    BY <2>1, <2>2, <2>3, <2>4, <2>5, <2>6, <2>7, <2>8 DEF IInv
<1>2. ASSUME hub = None, NEW s \in Sessions, sess[s].pc = "unused",
             hub' = s, watch' = watch,
             sess' = [sess EXCEPT ![s].pc = "new", ![s].run = starter.run,
                                  ![s].adopted = starter.boot],
             starter' = [starter EXCEPT !.pc = "dial", !.session = s]
      PROVE  IInv'
  <2>1. /\ sess[s] = NewSession /\ sess[s] \in Session
        /\ starter.boot \in BOOLEAN
        /\ starter \in [pc : StarterPC, run : MaybeRun,
                        session : MaybeSession, conn : MaybeRun,
                        boot : BOOLEAN]
    BY <1>2, Fields DEF IInv, TypeOK, AttachInv
  <2> DEFINE new == [sess[s] EXCEPT !.pc = "new", !.run = starter.run,
                                    !.adopted = starter.boot]
  <2>2. /\ new \in Session
        /\ new.pc = "new" /\ new.run = starter.run /\ ~new.stop
        /\ new.adopted = starter.boot
        /\ new.upstream = None /\ new.conn = None
        /\ new.attached = NoClient
        /\ new.history = <<>> /\ new.published = <<>> /\ new.buf = <<>>
    <3>1. /\ ~sess[s].stop /\ sess[s].upstream = None
          /\ sess[s].conn = None /\ sess[s].attached = NoClient
          /\ sess[s].history = <<>> /\ sess[s].published = <<>>
          /\ sess[s].buf = <<>>
      BY <2>1 DEF NewSession
    <3>2. new \in Session
      BY <1>0, <2>1 DEF Session
    <3>3. QED BY <2>1, <3>1, <3>2 DEF Session
  <2>3. sess' = [sess EXCEPT ![s] = new]
    BY <1>2
  <2> HIDE DEF new
  <2>4. /\ starter' \in [pc : StarterPC, run : MaybeRun,
                         session : MaybeSession, conn : MaybeRun,
                         boot : BOOLEAN]
        /\ starter'.pc = "dial" /\ starter'.session = s
        /\ starter'.run = starter.run /\ starter'.boot = starter.boot
    BY <1>2, <2>1 DEF StarterPC
  <2>5. /\ sess' \in [Sessions -> Session]
        /\ sess'[s] = new
        /\ \A t \in Sessions \ {s} : sess'[t] = sess[t]
    BY <1>0, <2>2, <2>3
  <2>6. s # None
    OBVIOUS
  <2>7. TypeOK'
    BY <1>0, <1>2, <2>4, <2>5 DEF IInv, TypeOK
  <2>8. HistoryInv' /\ UpstreamInv'
    BY <1>0, <2>2, <2>5 DEF IInv, HistoryInv, UpstreamInv
  <2>9. AttachInv'
    BY <1>0, <2>2, <2>5 DEF IInv, AttachInv
  <2>10. ConnectionInv'
    BY <1>0, <2>2, <2>5 DEF IInv, ConnectionInv
  <2>11. OutputInv'
    BY <1>0, <2>2, <2>5, ElementsOfNothing DEF IInv, OutputInv
  <2>12. ProcessInv'
    BY <1>0, <1>2, <2>4 DEF IInv, ProcessInv
  <2>13. StarterInv'
    BY <2>2, <2>4, <2>5 DEF StarterInv
  <2>14. StopperInv'
    <3>1. sess[s].stop = FALSE
      BY <2>1 DEF NewSession
    <3>2. QED BY <1>0, <1>2, <2>5, <3>1 DEF IInv, StopperInv
  <2>15. HubInv'
    BY <1>2, <2>2, <2>4, <2>5 DEF IInv, HubInv
  <2>16. OwnInv'
    BY <1>0, <1>2, <2>2, <2>5 DEF IInv, OwnInv
  <2>17. StoppedHoldsNothing'
    <3>1. ASSUME NEW t \in Sessions, sess'[t].stop, ~Closing(t)'
          PROVE  sess'[t].upstream = None /\ sess'[t].attached = NoClient
      BY <1>0, <1>2, <2>2, <2>5, <3>1 DEF IInv, StoppedHoldsNothing, Closing
    <3>2. ASSUME NEW c \in Clients, client[c].open
          PROVE  sess'[client[c].session].attached = c
      <4>1. client[c].session \in Sessions
            /\ sess[client[c].session].attached = c
        BY <3>2 DEF IInv, AttachInv, StoppedHoldsNothing
      <4>2. sess[s].attached = NoClient
        BY <2>1 DEF NewSession
      <4>3. QED BY <2>5, <4>1, <4>2
    <3>3. QED BY <1>0, <3>1, <3>2 DEF StoppedHoldsNothing
  <2>18. ConsoleOfItsOwn'
    BY <1>0, <1>2 DEF IInv, ConsoleOfItsOwn
  <2>19. QED
    BY <2>7, <2>8, <2>9, <2>10, <2>11, <2>12, <2>13, <2>14, <2>15, <2>16,
       <2>17, <2>18 DEF IInv
<1>3. QED BY <1>1, <1>2 DEF HubStart

(***************************************************************************)
(* Stopping a session keeps what does not depend on who stops it.          *)
(***************************************************************************)
LEMMA StopKeeps ==
    ASSUME IInv, NEW s \in Sessions, CloseStop(s), sess[s].pc # "unused",
           UNCHANGED <<client, qemu, aux>>
    PROVE  /\ HistoryInv' /\ AttachInv' /\ UpstreamInv' /\ ConnectionInv'
           /\ OutputInv'
           /\ sess' \in [Sessions -> Session]
           /\ UNCHANGED <<hub, watch, closer>> =>
                OwnInv' /\ ConsoleOfItsOwn' /\ StopperInv'
           /\ \A c \in Clients : client'[c].open =>
                sess'[client'[c].session].attached = c
<1> USE ConsoleConstants DEF None, MaybeRun, MaybeSession
<1>0. UNCHANGED <<client, proc, path, pending, emitter, overlap, restarts>>
  BY DEF qemu, aux
<1>1. HistoryInv'
  BY Stopped DEF IInv, HistoryInv
<1>2. AttachInv'
  <2>1. ASSUME NEW t \in Sessions, sess'[t].pc = "unused"
        PROVE  sess'[t] = NewSession
    BY <2>1, Stopped DEF IInv, AttachInv
  <2>2. \A t \in Sessions : /\ sess'[t].attached = sess[t].attached
                            /\ sess'[t].upstream = sess[t].upstream
                            /\ sess'[t].pc = sess[t].pc
    BY Stopped
  <2>3. QED BY <1>0, <2>1, <2>2 DEF IInv, AttachInv
<1>3. UpstreamInv'
  <2>1. \A t \in Sessions : /\ sess'[t].conn = sess[t].conn
                            /\ sess'[t].upstream = sess[t].upstream
                            /\ sess'[t].pc = sess[t].pc
    BY Stopped
  <2>2. QED BY <1>0, <2>1 DEF IInv, UpstreamInv
<1>4. ConnectionInv'
  <2>1. \A t \in Sessions : /\ sess'[t].conn = sess[t].conn
                            /\ sess'[t].upstream = sess[t].upstream
                            /\ sess'[t].run = sess[t].run
                            /\ sess'[t].pc = sess[t].pc
                            /\ sess[t].stop => sess'[t].stop
    BY Stopped
  <2>2. ASSUME NEW r \in Runs \ overlap, NEW t \in Sessions
        PROVE  /\ sess'[t].upstream = r => sess'[t].run = r
               /\ sess'[t].conn = r =>
                    \/ sess'[t].run = r
                    \/ sess'[t].pc = "set" /\ sess'[t].stop
                    \/ sess'[t].pc = "done"
    BY <2>1 DEF IInv, ConnectionInv
  <2>3. QED BY <1>0, <2>2 DEF ConnectionInv
<1>5. OutputInv'
  <2>1. \A t \in Sessions : /\ sess'[t].buf = sess[t].buf
                            /\ sess'[t].published = sess[t].published
                            /\ sess'[t].run = sess[t].run
    BY Stopped
  <2>2. QED BY <1>0, <2>1 DEF IInv, OutputInv
<1>6. ASSUME UNCHANGED <<hub, watch, closer>>
      PROVE  OwnInv' /\ ConsoleOfItsOwn' /\ StopperInv'
  <2>1. \A t \in Sessions : /\ sess'[t].run = sess[t].run
                            /\ sess'[t].upstream = sess[t].upstream
                            /\ sess[t].stop => sess'[t].stop
    BY Stopped
  <2>2. hub \in MaybeSession
    BY DEF IInv, TypeOK
  <2>3. OwnInv'
    BY <1>0, <1>6, <2>1, <2>2 DEF IInv, OwnInv
  <2>4. ConsoleOfItsOwn'
    BY <1>0, <1>6, <2>1, <2>2 DEF IInv, ConsoleOfItsOwn
  <2>5. StopperInv'
    BY <1>0, <1>6, <2>1 DEF IInv, StopperInv
  <2>6. QED BY <2>3, <2>4, <2>5
<1>7. ASSUME NEW c \in Clients, client'[c].open
      PROVE  sess'[client'[c].session].attached = c
  <2>1. /\ client[c].session \in Sessions
        /\ sess[client[c].session].attached = c
    BY <1>0, <1>7 DEF IInv, AttachInv, StoppedHoldsNothing
  <2>2. QED BY ZenonT(60), <1>0, <2>1, Stopped
<1>8. sess' \in [Sessions -> Session]
  BY Stopped
<1>9. QED BY <1>1, <1>2, <1>3, <1>4, <1>5, <1>6, <1>7, <1>8

(***************************************************************************)
(* Hub.Start dials; a start that gives up stops its session.               *)
(***************************************************************************)
LEMMA StartDialPreserves ==
    ASSUME IInv, StartDial
    PROVE  IInv'
<1> USE ConsoleConstants DEF None, MaybeRun, MaybeSession
<1> DEFINE s == starter.session
<1>0. /\ starter.pc = "dial"
      /\ UNCHANGED <<hub, client, watch, qemu, closer, aux>>
      /\ UNCHANGED <<proc, path, pending, emitter, overlap, restarts>>
      /\ starter.run \in Runs /\ s \in Sessions
      /\ sess[s].pc = "new" /\ sess[s].run = starter.run
      /\ starter.boot => sess[s].adopted
      /\ starter \in [pc : StarterPC, run : MaybeRun,
                      session : MaybeSession, conn : MaybeRun,
                      boot : BOOLEAN]
  BY DEF StartDial, qemu, aux, IInv, TypeOK, ProcessInv, StarterInv
<1>1. ASSUME Listening(path), sess' = sess,
             starter' = [starter EXCEPT !.pc = "set", !.conn = path]
      PROVE  IInv'
  <2>1. path \in Runs /\ path = starter.run
    <3>1. path # None /\ proc[path] = "alive" /\ path \in MaybeRun
      BY <1>1 DEF Listening, IInv, TypeOK
    <3>2. path \in Runs
      BY <3>1
    <3>3. QED BY <1>0, <3>1, <3>2 DEF IInv, ProcessInv
  <2>2. /\ starter' \in [pc : StarterPC, run : MaybeRun,
                         session : MaybeSession, conn : MaybeRun,
                         boot : BOOLEAN]
        /\ starter'.pc = "set" /\ starter'.session = s
        /\ starter'.run = starter.run /\ starter'.conn = starter.run
        /\ starter'.boot = starter.boot
    BY <1>0, <1>1, <2>1 DEF StarterPC
  <2>3. TypeOK'
    BY <1>0, <1>1, <2>2 DEF IInv, TypeOK
  <2>4. HistoryInv' /\ AttachInv' /\ UpstreamInv' /\ ConnectionInv'
        /\ OutputInv' /\ OwnInv' /\ ConsoleOfItsOwn' /\ StopperInv'
    BY <1>0, <1>1 DEF IInv, HistoryInv, AttachInv, UpstreamInv,
       ConnectionInv, OutputInv, OwnInv, ConsoleOfItsOwn, StopperInv
  <2>5. ProcessInv'
    BY <1>0, <2>2 DEF IInv, ProcessInv
  <2>6. StarterInv'
    BY <1>0, <1>1, <2>2 DEF StarterInv
  <2>7. HubInv'
    BY <1>0, <1>1, <2>2 DEF IInv, HubInv
  <2>8. StoppedHoldsNothing'
    BY <1>0, <1>1, <2>2 DEF IInv, StoppedHoldsNothing, Closing
  <2>9. QED BY <2>3, <2>4, <2>5, <2>6, <2>7, <2>8 DEF IInv
<1>2. ASSUME CloseStop(s), starter' = [starter EXCEPT !.pc = "lock"]
      PROVE  IInv'
  <2> HIDE DEF s
  <2>1. /\ starter' \in [pc : StarterPC, run : MaybeRun,
                         session : MaybeSession, conn : MaybeRun,
                         boot : BOOLEAN]
        /\ starter'.pc = "lock" /\ starter'.session = s
        /\ starter'.run = starter.run /\ starter'.boot = starter.boot
    BY <1>0, <1>2 DEF StarterPC, s
  <2>2. /\ HistoryInv' /\ AttachInv' /\ UpstreamInv' /\ ConnectionInv'
        /\ OutputInv' /\ OwnInv' /\ ConsoleOfItsOwn' /\ StopperInv'
        /\ sess' \in [Sessions -> Session]
    BY <1>0, <1>2, StopKeeps
  <2>3. TypeOK'
    BY <1>0, <2>1, <2>2 DEF IInv, TypeOK
  <2>4. ProcessInv'
    BY <1>0, <2>1 DEF IInv, ProcessInv
  <2>5. StarterInv'
    BY <1>0, <1>2, <2>1, Stopped DEF StarterInv
  <2>6. HubInv'
    <3>1. \A t \in Sessions : sess'[t].pc # "unused" /\ ~sess'[t].stop =>
             hub = t
      BY <1>0, <1>2, Stopped DEF IInv, HubInv
    <3>2. hub # None =>
             /\ sess'[hub].pc # "unused"
             /\ \/ sess'[hub].adopted
                \/ starter'.pc = "lock" /\ starter'.session = hub
                \/ \E r \in Runs : watch[r].pc = "waiting"
      <4>1. SUFFICES ASSUME hub # None
                     PROVE  /\ sess'[hub].pc # "unused"
                            /\ \/ sess'[hub].adopted
                               \/ starter'.session = hub
                               \/ \E r \in Runs : watch[r].pc = "waiting"
        BY <2>1
      <4>2. hub \in Sessions
        BY <4>1 DEF IInv, TypeOK
      <4>3. /\ sess'[hub].pc = sess[hub].pc
            /\ sess'[hub].adopted = sess[hub].adopted
        BY <1>0, <1>2, <4>2, Stopped
      <4>4. starter'.session = starter.session
        BY <2>1 DEF s
      <4>5. QED BY <4>1, <4>3, <4>4 DEF IInv, HubInv
    <3>3. QED BY <1>0, <2>1, <3>1, <3>2 DEF HubInv
  <2>7. StoppedHoldsNothing'
    <3>1. ASSUME NEW t \in Sessions, sess'[t].stop, ~Closing(t)'
          PROVE  sess'[t].upstream = None /\ sess'[t].attached = NoClient
      <4>1. t # s
        BY <2>1, <3>1 DEF Closing
      <4>2. sess'[t] = sess[t]
        BY <1>0, <1>2, <4>1, Stopped
      <4>3. ~Closing(t)
        BY <1>0, <3>1 DEF Closing
      <4>4. QED BY <3>1, <4>2, <4>3 DEF IInv, StoppedHoldsNothing
    <3>2. ASSUME NEW c \in Clients, client[c].open
          PROVE  sess'[client[c].session].attached = c
      BY <1>0, <1>2, <3>2, Stopped DEF IInv, AttachInv, StoppedHoldsNothing
    <3>3. QED BY <1>0, <3>1, <3>2 DEF StoppedHoldsNothing
  <2>8. QED BY <2>2, <2>3, <2>4, <2>5, <2>6, <2>7 DEF IInv
<1>3. QED BY <1>1, <1>2 DEF StartDial

(***************************************************************************)
(* Hub.Start has connected: the session takes the connection, or was       *)
(* stopped meanwhile and refuses it.                                       *)
(***************************************************************************)
LEMMA StartUpstreamPreserves ==
    ASSUME IInv, StartUpstream
    PROVE  IInv'
<1> USE ConsoleConstants DEF None, MaybeRun, MaybeSession
<1> DEFINE s == starter.session
<1>0. /\ starter.pc = "set"
      /\ UNCHANGED <<hub, client, proc, path, closer>>
      /\ UNCHANGED <<emitter, overlap, restarts>>
      /\ starter.run \in Runs /\ s \in Sessions
      /\ starter.conn = starter.run
      /\ sess[s].pc = "new" /\ sess[s].run = starter.run
      /\ starter.boot => sess[s].adopted
      /\ sess[s] \in Session
      /\ watch[starter.run].pc = "none"
      /\ \A r \in Runs : proc[r] = "alive" => r = starter.run
      /\ starter \in [pc : StarterPC, run : MaybeRun,
                      session : MaybeSession, conn : MaybeRun,
                      boot : BOOLEAN]
      /\ sess \in [Sessions -> Session] /\ hub \in MaybeSession
  BY Fields
  DEF StartUpstream, aux, IInv, TypeOK, ProcessInv, StarterInv
<1>1. CASE /\ CanSetUpstream(s)
           /\ sess' = [sess EXCEPT ![s].upstream = starter.conn,
                                   ![s].conn = starter.conn,
                                   ![s].pc = "read"]
           /\ StartReturns
           /\ UNCHANGED pending
  <2> DEFINE new == [sess[s] EXCEPT !.upstream = starter.conn,
                                    !.conn = starter.conn, !.pc = "read"]
  <2>1. /\ new \in Session
        /\ new.pc = "read" /\ new.run = starter.run /\ ~new.stop
        /\ new.upstream = starter.run /\ new.conn = starter.run
        /\ new.adopted = sess[s].adopted /\ new.attached = sess[s].attached
        /\ new.history = sess[s].history
        /\ new.published = sess[s].published /\ new.buf = sess[s].buf
    BY <1>0, <1>1 DEF Session, CanSetUpstream
  <2>2. sess' = [sess EXCEPT ![s] = new]
    BY <1>1
  <2> HIDE DEF new, s
  <2>3. /\ sess' \in [Sessions -> Session]
        /\ sess'[s] = new
        /\ \A t \in Sessions \ {s} : sess'[t] = sess[t]
    BY <1>0, <2>1, <2>2
  <2>4. hub = s /\ s # None
    BY <1>0, <1>1 DEF IInv, HubInv, CanSetUpstream
  <2>5. /\ starter' \in [pc : StarterPC, run : MaybeRun,
                         session : MaybeSession, conn : MaybeRun,
                         boot : BOOLEAN]
        /\ starter'.pc = "idle"
        /\ watch' \in [Runs -> [pc : StopperPC, session : MaybeSession]]
        /\ \A q \in Runs :
             /\ q # starter.run => watch'[q] = watch[q]
             /\ watch'[q] # watch[q] => watch'[q].pc = "waiting"
             /\ watch[q].pc = "waiting" => watch'[q].pc = "waiting"
             /\ watch'[q].pc = "lock" => watch'[q] = watch[q]
        /\ ~starter.boot => watch'[starter.run].pc = "waiting"
    BY <1>0, <1>1, StartReturnsToIdle
  <2>6. TypeOK'
    BY <1>0, <1>1, <2>3, <2>5 DEF IInv, TypeOK
  <2>7. HistoryInv'
    BY <2>1, <2>3 DEF IInv, HistoryInv
  <2>8. ProcessInv'
    BY <1>0, <2>5 DEF IInv, ProcessInv
  <2>9. StarterInv' /\ StopperInv'
    BY <1>0, <1>1, <2>3, <2>5
    DEF IInv, StarterInv, StopperInv, CanSetUpstream
  <2>10. HubInv'
    BY ZenonT(60), <1>0, <2>1, <2>3, <2>4, <2>5 DEF HubInv, IInv
  <2>11. AttachInv'
    BY <1>0, <2>1, <2>3 DEF IInv, AttachInv
  <2>12. UpstreamInv' /\ ConnectionInv'
    BY <1>0, <2>1, <2>3 DEF IInv, UpstreamInv, ConnectionInv
  <2>13. OwnInv'
    BY <1>0, <2>1, <2>3, <2>4, <2>5 DEF IInv, OwnInv
  <2>14. OutputInv'
    BY <1>0, <1>1, <2>1, <2>3 DEF IInv, OutputInv
  <2>15. StoppedHoldsNothing'
    <3>1. ASSUME NEW t \in Sessions, sess'[t].stop, ~Closing(t)'
          PROVE  sess'[t].upstream = None /\ sess'[t].attached = NoClient
      <4>1. t # s /\ sess'[t] = sess[t]
        BY <2>1, <2>3, <3>1
      <4>2. ~Closing(t)
        BY <1>0, <2>5, <3>1 DEF Closing
      <4>3. QED BY <3>1, <4>1, <4>2 DEF IInv, StoppedHoldsNothing
    <3>2. ASSUME NEW c \in Clients, client[c].open
          PROVE  sess'[client[c].session].attached = c
      <4>1. client[c].session \in Sessions
            /\ sess[client[c].session].attached = c
        BY <3>2, OpenClients
      <4>2. \A t \in Sessions : sess'[t].attached = sess[t].attached
        BY <2>1, <2>3
      <4>3. QED BY <4>1, <4>2
    <3>3. QED BY <1>0, <3>1, <3>2 DEF StoppedHoldsNothing
  <2>16. ConsoleOfItsOwn'
    BY <1>0, <2>1, <2>3, <2>4 DEF ConsoleOfItsOwn
  <2>17. QED
    BY <2>6, <2>7, <2>8, <2>9, <2>10, <2>11, <2>12, <2>13, <2>14, <2>15,
       <2>16 DEF IInv
<1>2. CASE /\ ~CanSetUpstream(s)
           /\ starter' = [starter EXCEPT !.pc = "delete", !.conn = None]
           /\ pending' = [pending EXCEPT ![starter.conn] = <<>>]
           /\ UNCHANGED <<sess, watch>>
  <2>1. /\ starter' \in [pc : StarterPC, run : MaybeRun,
                         session : MaybeSession, conn : MaybeRun,
                         boot : BOOLEAN]
        /\ starter'.pc = "delete" /\ starter'.session = s
        /\ starter'.run = starter.run /\ starter'.boot = starter.boot
    BY <1>0, <1>2 DEF StarterPC
  <2>2. pending \in [Runs -> Seq(Bytes)] /\ <<>> \in Seq(Bytes)
    BY DEF IInv, TypeOK
  <2>3. /\ pending' \in [Runs -> Seq(Bytes)]
        /\ \A r \in Runs : pending'[r] \in {pending[r], <<>>}
    BY <1>0, <1>2, <2>2
  <2>4. TypeOK'
    BY <1>0, <1>2, <2>1, <2>3 DEF IInv, TypeOK
  <2>5. HistoryInv' /\ AttachInv' /\ UpstreamInv' /\ ConnectionInv'
        /\ OwnInv' /\ ConsoleOfItsOwn' /\ StopperInv'
    BY <1>0, <1>2 DEF IInv, HistoryInv, AttachInv, UpstreamInv,
       ConnectionInv, OwnInv, ConsoleOfItsOwn, StopperInv
  <2>6. OutputInv'
    <3>1. \A r \in Runs : \A b \in Elements(pending'[r]) :
              b \in Elements(pending[r])
      BY <2>3, ElementsOfNothing
    <3>2. QED BY <1>0, <1>2, <3>1 DEF IInv, OutputInv
  <2>7. ProcessInv'
    BY <1>0, <1>2, <2>1 DEF IInv, ProcessInv
  <2>8. StarterInv'
    BY <1>0, <1>2, <2>1 DEF StarterInv, CanSetUpstream
  <2>9. HubInv'
    BY <1>0, <1>2, <2>1 DEF IInv, HubInv
  <2>10. StoppedHoldsNothing'
    BY <1>0, <1>2, <2>1 DEF IInv, StoppedHoldsNothing, Closing
  <2>11. QED
    BY <2>4, <2>5, <2>6, <2>7, <2>8, <2>9, <2>10 DEF IInv
<1>3. QED BY <1>1, <1>2 DEF StartUpstream

(***************************************************************************)
(* A start that failed closes its session and forgets it.                  *)
(***************************************************************************)
LEMMA StartFailClosePreserves ==
    ASSUME IInv, StartFailClose
    PROVE  IInv'
<1> USE ConsoleConstants DEF None, MaybeRun, MaybeSession
<1> DEFINE s == starter.session
<1>0. /\ starter.pc = "lock"
      /\ CloseLocked(s)
      /\ UNCHANGED <<hub, watch, proc, path, closer, aux>>
      /\ UNCHANGED <<emitter, overlap, restarts>>
      /\ starter.run \in Runs /\ s \in Sessions /\ sess[s].stop
      /\ sess[s].pc = "new" /\ sess[s].run = starter.run
      /\ starter.boot => sess[s].adopted
      /\ watch[starter.run].pc = "none"
      /\ \A r \in Runs : proc[r] = "alive" => r = starter.run
      /\ starter \in [pc : StarterPC, run : MaybeRun,
                      session : MaybeSession, conn : MaybeRun,
                      boot : BOOLEAN]
      /\ hub \in MaybeSession
  BY DEF StartFailClose, aux, IInv, TypeOK, ProcessInv, StarterInv
<1>1. /\ starter' \in [pc : StarterPC, run : MaybeRun,
                       session : MaybeSession, conn : MaybeRun,
                       boot : BOOLEAN]
      /\ starter'.pc = "delete" /\ starter'.session = s
      /\ starter'.run = starter.run /\ starter'.boot = starter.boot
  BY <1>0 DEF StarterPC, StartFailClose
<1> HIDE DEF s
<1>2. /\ sess' \in [Sessions -> Session]
      /\ client' \in [Clients -> Client]
      /\ pending' \in [Runs -> Seq(Bytes)]
      /\ sess'[s].upstream = None /\ sess'[s].attached = NoClient
      /\ \A t \in Sessions : /\ sess'[t].stop = sess[t].stop
                             /\ sess'[t].pc = sess[t].pc
                             /\ sess'[t].run = sess[t].run
                             /\ sess'[t].adopted = sess[t].adopted
  BY <1>0, Closed
<1>3. /\ HistoryInv' /\ AttachInv' /\ UpstreamInv' /\ ConnectionInv'
      /\ OutputInv'
      /\ \A t \in Sessions : t # s =>
           /\ sess'[t].upstream = sess[t].upstream
           /\ sess'[t].attached = sess[t].attached
      /\ \A c \in Clients : client'[c].open =>
           sess'[client'[c].session].attached = c
  BY <1>0, CloseKeeps
<1>4. TypeOK'
  BY <1>0, <1>1, <1>2 DEF IInv, TypeOK
<1>5. ProcessInv'
  BY <1>0, <1>1 DEF IInv, ProcessInv
<1>6. StarterInv' /\ StopperInv'
  BY <1>0, <1>1, <1>2 DEF IInv, StarterInv, StopperInv
<1>7. HubInv'
  BY ZenonT(60), <1>0, <1>1, <1>2 DEF IInv, HubInv, s
<1>8. OwnInv'
  BY <1>0, <1>2 DEF IInv, OwnInv
<1>9. StoppedHoldsNothing'
  <2>1. ASSUME NEW t \in Sessions, sess'[t].stop, ~Closing(t)'
        PROVE  sess'[t].upstream = None /\ sess'[t].attached = NoClient
    <3>1. CASE t = s
      BY <1>2, <3>1
    <3>2. CASE t # s
      <4>1. ~Closing(t)
        BY <1>0, <2>1, <3>2 DEF Closing, s
      <4>2. sess[t].stop
        BY <1>2, <2>1
      <4>3. QED BY <1>3, <3>2, <4>1, <4>2 DEF IInv, StoppedHoldsNothing
    <3>3. QED BY <3>1, <3>2
  <2>2. QED BY <1>3, <2>1 DEF StoppedHoldsNothing
<1>10. ConsoleOfItsOwn'
  BY <1>0 DEF ConsoleOfItsOwn
<1>11. QED
  BY <1>3, <1>4, <1>5, <1>6, <1>7, <1>8, <1>9, <1>10 DEF IInv

LEMMA StartFailDeletePreserves ==
    ASSUME IInv, StartFailDelete
    PROVE  IInv'
<1> USE ConsoleConstants DEF None, MaybeRun, MaybeSession
<1> DEFINE s == starter.session
<1>0. /\ starter.pc = "delete"
      /\ UNCHANGED <<client, watch, pending, closer>>
      /\ UNCHANGED <<emitter, overlap, restarts>>
      /\ hub' = IF hub = s THEN None ELSE hub
      /\ sess' = [sess EXCEPT ![s].pc = "done"]
      /\ starter.run \in Runs /\ s \in Sessions /\ sess[s].stop
      /\ sess[s].pc = "new" /\ sess[s].upstream = None
      /\ sess[s] \in Session /\ sess \in [Sessions -> Session]
      /\ proc[starter.run] # "unused"
      /\ watch[starter.run].pc = "none"
      /\ \A r \in Runs : proc[r] = "alive" => r = starter.run
      /\ hub \in MaybeSession
  BY Fields DEF StartFailDelete, aux, IInv, TypeOK, ProcessInv, StarterInv,
                AttachInv
<1>1. /\ starter' \in [pc : StarterPC, run : MaybeRun,
                       session : MaybeSession, conn : MaybeRun,
                       boot : BOOLEAN]
      /\ starter'.pc = "idle"
  BY DEF StartFailDelete, Idle, StarterPC
<1>2. /\ proc' \in [Runs -> {"unused", "alive", "dead"}]
      /\ path' \in {path, None}
      /\ \A q \in Runs : /\ proc'[q] = "unused" <=> proc[q] = "unused"
                         /\ proc'[q] = "alive" => proc[q] = "alive"
                         /\ proc[q] = "dead" => proc'[q] = "dead"
  BY ZenonT(60), <1>0 DEF StartFailDelete, IInv, TypeOK
<1> DEFINE new == [sess[s] EXCEPT !.pc = "done"]
<1>3. /\ new \in Session
      /\ new.pc = "done" /\ new.run = sess[s].run /\ new.stop
      /\ new.upstream = sess[s].upstream /\ new.conn = sess[s].conn
      /\ new.attached = sess[s].attached
      /\ new.history = sess[s].history
      /\ new.published = sess[s].published /\ new.buf = sess[s].buf
  BY <1>0 DEF Session
<1>4. sess' = [sess EXCEPT ![s] = new]
  BY <1>0
<1> HIDE DEF new
<1>5. /\ sess' \in [Sessions -> Session]
      /\ sess'[s] = new
      /\ \A t \in Sessions \ {s} : sess'[t] = sess[t]
  BY <1>0, <1>3, <1>4
<1>6. TypeOK'
  BY <1>0, <1>1, <1>2, <1>5 DEF IInv, TypeOK
<1>7. HistoryInv'
  BY <1>3, <1>5 DEF IInv, HistoryInv
<1>8. ProcessInv'
  BY SMTT(30), <1>0, <1>1, <1>2 DEF IInv, ProcessInv, TypeOK
<1>9. StarterInv'
  BY <1>1 DEF StarterInv
<1>10. StopperInv'
  BY <1>0, <1>3, <1>5 DEF IInv, StopperInv
<1>11. HubInv'
  BY <1>0, <1>1, <1>3, <1>5 DEF IInv, HubInv
<1>12. AttachInv'
  BY <1>0, <1>3, <1>5 DEF IInv, AttachInv
<1>13. UpstreamInv'
  BY <1>0, <1>2, <1>3, <1>5, Fields DEF IInv, UpstreamInv
<1>14. ConnectionInv'
  BY <1>0, <1>3, <1>5 DEF IInv, ConnectionInv
<1>15. OwnInv'
  BY <1>0, <1>2, <1>3, <1>5 DEF IInv, OwnInv
<1>16. OutputInv'
  BY <1>0, <1>3, <1>5 DEF IInv, OutputInv
<1>17. StoppedHoldsNothing'
  <2>1. ASSUME NEW t \in Sessions, sess'[t].stop, ~Closing(t)'
        PROVE  sess'[t].upstream = None /\ sess'[t].attached = NoClient
    <3>1. /\ sess'[t].upstream = sess[t].upstream
          /\ sess'[t].attached = sess[t].attached /\ sess[t].stop
      BY <1>0, <1>3, <1>5, <2>1
    <3>2. ~Closing(t)
      BY <1>0, <2>1 DEF Closing
    <3>3. QED BY <3>1, <3>2 DEF IInv, StoppedHoldsNothing
  <2>2. ASSUME NEW c \in Clients, client[c].open
        PROVE  sess'[client[c].session].attached = c
    <3>1. client[c].session \in Sessions
          /\ sess[client[c].session].attached = c
      BY <2>2, OpenClients
    <3>2. \A t \in Sessions : sess'[t].attached = sess[t].attached
      BY <1>3, <1>5
    <3>3. QED BY <3>1, <3>2
  <2>3. QED BY <1>0, <2>1, <2>2 DEF StoppedHoldsNothing
<1>18. ConsoleOfItsOwn'
  BY <1>0, <1>2 DEF ConsoleOfItsOwn
<1>19. QED
  BY <1>6, <1>7, <1>8, <1>9, <1>10, <1>11, <1>12, <1>13, <1>14, <1>15,
     <1>16, <1>17, <1>18 DEF IInv

(***************************************************************************)
(* The watcher of a dead process stops the session in the map.             *)
(***************************************************************************)
LEMMA StopPreserves ==
    ASSUME IInv, NEW r \in Runs, Stop(r)
    PROVE  IInv'
<1> USE ConsoleConstants DEF None, MaybeRun, MaybeSession
<1>0. /\ watch[r].pc = "waiting" /\ proc[r] = "dead"
      /\ hub' = None
      /\ UNCHANGED <<client, starter, qemu, closer, aux>>
      /\ UNCHANGED <<client, starter, proc, path, pending, closer, emitter,
                     overlap, restarts>>
      /\ hub \in MaybeSession /\ sess \in [Sessions -> Session]
      /\ watch \in [Runs -> [pc : StopperPC, session : MaybeSession]]
      /\ \A q \in Runs \ overlap : proc[q] # "alive"
  <2>1. \A q \in Runs \ overlap : proc[q] # "alive"
    BY DEF Stop, IInv, OwnInv
  <2>2. QED BY <2>1 DEF Stop, qemu, aux, IInv, TypeOK
<1>1. /\ watch' \in [Runs -> [pc : StopperPC, session : MaybeSession]]
      /\ watch'[r] = [pc |-> IF hub = None THEN "sockets" ELSE "lock",
                      session |-> hub]
      /\ \A q \in Runs \ {r} : watch'[q] = watch[q]
  BY <1>0 DEF Stop, StopperPC
<1>2. /\ HistoryInv' /\ AttachInv' /\ UpstreamInv' /\ ConnectionInv'
      /\ OutputInv'
      /\ sess' \in [Sessions -> Session]
      /\ \A c \in Clients : client'[c].open =>
           sess'[client'[c].session].attached = c
      /\ \A t \in Sessions :
           /\ t # hub => sess'[t] = sess[t]
           /\ t = hub => sess'[t].stop
           /\ sess'[t].pc = sess[t].pc /\ sess'[t].run = sess[t].run
           /\ sess'[t].adopted = sess[t].adopted
           /\ sess[t].stop => sess'[t].stop
  <2>1. CASE hub = None
    <3>1. sess' = sess
      BY <2>1 DEF Stop
    <3>2. \A t \in Sessions : t # hub
      BY <2>1
    <3>3. HistoryInv' /\ AttachInv' /\ UpstreamInv' /\ ConnectionInv'
          /\ OutputInv'
      BY <1>0, <3>1 DEF IInv, HistoryInv, AttachInv, UpstreamInv,
                        ConnectionInv, OutputInv
    <3>4. QED BY <1>0, <3>1, <3>2, <3>3, OpenClients
  <2>2. CASE hub # None
    <3>1. hub \in Sessions /\ CloseStop(hub) /\ sess[hub].pc # "unused"
      BY <1>0, <2>2 DEF Stop, IInv, HubInv
    <3>2. QED BY <1>0, <3>1, StopKeeps, Stopped
  <2>3. QED BY <2>1, <2>2
<1>3. TypeOK'
  BY <1>0, <1>1, <1>2 DEF IInv, TypeOK
<1>4. ProcessInv'
  BY <1>0, <1>1 DEF IInv, ProcessInv
<1>5. StarterInv'
  <2>1. \A t \in Sessions : /\ sess'[t].pc = sess[t].pc
                            /\ sess'[t].run = sess[t].run
                            /\ sess'[t].adopted = sess[t].adopted
                            /\ sess[t].stop => sess'[t].stop
    BY <1>2
  <2>2. hub' = None /\ UNCHANGED <<starter, overlap>>
    BY <1>0
  <2>3. QED BY <2>1, <2>2 DEF IInv, StarterInv
<1>6. StopperInv'
  <2>1. ASSUME NEW q \in Runs, watch'[q].pc = "lock"
        PROVE  watch'[q].session \in Sessions /\ sess'[watch'[q].session].stop
    <3>1. CASE q = r
      <4>1. hub # None /\ watch'[q].session = hub
        BY <1>1, <2>1, <3>1
      <4>2. hub \in Sessions
        BY <1>0, <4>1
      <4>3. QED BY <1>2, <4>1, <4>2
    <3>2. CASE q # r
      BY <1>1, <1>2, <2>1, <3>2 DEF IInv, StopperInv
    <3>3. QED BY <3>1, <3>2
  <2>2. closer.pc = "lock" =>
          closer.session \in Sessions /\ sess'[closer.session].stop
    BY <1>2 DEF IInv, StopperInv
  <2>3. QED BY <1>0, <2>1, <2>2 DEF StopperInv
<1>7. HubInv'
  BY <1>0, <1>2 DEF IInv, HubInv
<1>8. OwnInv' /\ ConsoleOfItsOwn'
  BY <1>0 DEF OwnInv, ConsoleOfItsOwn
<1>9. StoppedHoldsNothing'
  <2>1. ASSUME NEW t \in Sessions, sess'[t].stop, ~Closing(t)'
        PROVE  sess'[t].upstream = None /\ sess'[t].attached = NoClient
    <3>1. t # hub
      BY <1>0, <1>1, <2>1 DEF Closing
    <3>2. ~Closing(t)
      BY <1>0, <1>1, <2>1 DEF Closing
    <3>3. sess'[t] = sess[t]
      BY <1>2, <3>1
    <3>4. QED BY <2>1, <3>2, <3>3 DEF IInv, StoppedHoldsNothing
  <2>2. QED BY <1>2, <2>1 DEF StoppedHoldsNothing
<1>10. QED
  BY <1>2, <1>3, <1>4, <1>5, <1>6, <1>7, <1>8, <1>9 DEF IInv

(***************************************************************************)
(* The watcher closes what it has stopped and removes the sockets.         *)
(***************************************************************************)
LEMMA StopClosePreserves ==
    ASSUME IInv, NEW r \in Runs, StopClose(r)
    PROVE  IInv'
<1> USE ConsoleConstants DEF None, MaybeRun, MaybeSession
<1> DEFINE s == watch[r].session
<1>0. /\ watch[r].pc = "lock"
      /\ CloseLocked(s)
      /\ UNCHANGED <<hub, starter, proc, path, closer, aux>>
      /\ UNCHANGED <<emitter, overlap, restarts>>
      /\ s \in Sessions /\ sess[s].stop
      /\ hub \in MaybeSession
      /\ watch \in [Runs -> [pc : StopperPC, session : MaybeSession]]
      /\ \A q \in Runs \ overlap : proc[q] = "alive" => q = r
  <2>1. watch[r].pc = "lock"
    BY DEF StopClose
  <2>2. \A q \in Runs \ overlap : proc[q] = "alive" => q = r
    BY <2>1 DEF IInv, OwnInv
  <2>3. QED
    BY <2>1, <2>2 DEF StopClose, aux, IInv, TypeOK, StopperInv
<1>1. /\ watch' \in [Runs -> [pc : StopperPC, session : MaybeSession]]
      /\ watch'[r] = [pc |-> "sockets", session |-> None]
      /\ \A q \in Runs \ {r} : watch'[q] = watch[q]
  BY <1>0 DEF StopClose, StopperPC
<1> HIDE DEF s
<1>2. /\ sess' \in [Sessions -> Session]
      /\ client' \in [Clients -> Client]
      /\ pending' \in [Runs -> Seq(Bytes)]
      /\ sess'[s].upstream = None /\ sess'[s].attached = NoClient
      /\ \A t \in Sessions : /\ sess'[t].stop = sess[t].stop
                             /\ sess'[t].pc = sess[t].pc
                             /\ sess'[t].run = sess[t].run
                             /\ sess'[t].adopted = sess[t].adopted
  BY <1>0, Closed
<1>3. /\ HistoryInv' /\ AttachInv' /\ UpstreamInv' /\ ConnectionInv'
      /\ OutputInv'
      /\ \A t \in Sessions : t # s =>
           /\ sess'[t].upstream = sess[t].upstream
           /\ sess'[t].attached = sess[t].attached
      /\ \A c \in Clients : client'[c].open =>
           sess'[client'[c].session].attached = c
  BY <1>0, CloseKeeps
<1>4. TypeOK'
  BY <1>0, <1>1, <1>2 DEF IInv, TypeOK
<1>5. ProcessInv'
  BY <1>0, <1>1 DEF IInv, ProcessInv
<1>6. StarterInv' /\ StopperInv'
  <2>1. StarterInv'
    BY <1>0, <1>2 DEF IInv, StarterInv
  <2>2. ASSUME NEW q \in Runs, watch'[q].pc = "lock"
        PROVE  watch'[q].session \in Sessions /\ sess'[watch'[q].session].stop
    <3>1. q # r /\ watch'[q] = watch[q]
      BY <1>1, <2>2
    <3>2. QED BY <1>2, <2>2, <3>1 DEF IInv, StopperInv
  <2>3. closer.pc = "lock" =>
          closer.session \in Sessions /\ sess'[closer.session].stop
    BY <1>2 DEF IInv, StopperInv
  <2>4. QED BY <1>0, <2>1, <2>2, <2>3 DEF StopperInv
<1>7. HubInv'
  BY <1>0, <1>1, <1>2 DEF IInv, HubInv
<1>8. OwnInv'
  BY <1>0, <1>1, <1>2 DEF IInv, OwnInv
<1>9. StoppedHoldsNothing'
  <2>1. ASSUME NEW t \in Sessions, sess'[t].stop, ~Closing(t)'
        PROVE  sess'[t].upstream = None /\ sess'[t].attached = NoClient
    <3>1. CASE t = s
      BY <1>2, <3>1
    <3>2. CASE t # s
      <4>1. ~Closing(t)
        BY <1>0, <1>1, <2>1, <3>2 DEF Closing, s
      <4>2. sess[t].stop
        BY <1>2, <2>1
      <4>3. QED BY <1>3, <3>2, <4>1, <4>2 DEF IInv, StoppedHoldsNothing
    <3>3. QED BY <3>1, <3>2
  <2>2. QED BY <1>3, <2>1 DEF StoppedHoldsNothing
<1>10. ConsoleOfItsOwn'
  BY <1>0, <1>1 DEF ConsoleOfItsOwn
<1>11. QED
  BY <1>3, <1>4, <1>5, <1>6, <1>7, <1>8, <1>9, <1>10 DEF IInv

LEMMA RemoveSocketsPreserves ==
    ASSUME IInv, NEW r \in Runs, RemoveSockets(r)
    PROVE  IInv'
<1> USE ConsoleConstants DEF None, MaybeRun, MaybeSession
<1>0. /\ watch[r].pc = "sockets" /\ path' = None
      /\ UNCHANGED <<hub, sess, client, starter, proc, pending, closer,
                     emitter, overlap, restarts>>
      /\ watch' \in [Runs -> [pc : StopperPC, session : MaybeSession]]
      /\ watch'[r].pc = "done"
      /\ \A q \in Runs \ {r} : watch'[q] = watch[q]
  BY DEF RemoveSockets, aux, IInv, TypeOK, StopperPC
<1>1. TypeOK'
  BY <1>0 DEF IInv, TypeOK
<1>2. HistoryInv' /\ AttachInv' /\ UpstreamInv' /\ ConnectionInv'
      /\ OutputInv'
  BY <1>0 DEF IInv, HistoryInv, AttachInv, UpstreamInv, ConnectionInv,
              OutputInv
<1>3. ProcessInv'
  BY <1>0 DEF IInv, ProcessInv
<1>4. StarterInv' /\ StopperInv'
  BY <1>0 DEF IInv, StarterInv, StopperInv
<1>5. HubInv'
  BY <1>0 DEF IInv, HubInv
<1>6. OwnInv' /\ ConsoleOfItsOwn'
  BY <1>0 DEF IInv, OwnInv, ConsoleOfItsOwn
<1>7. StoppedHoldsNothing'
  BY <1>0 DEF IInv, StoppedHoldsNothing, Closing
<1>8. QED
  BY <1>1, <1>2, <1>3, <1>4, <1>5, <1>6, <1>7 DEF IInv

(***************************************************************************)
(* The ordered exit of App Runner forgets and closes the session.          *)
(***************************************************************************)
LEMMA HubClosePreserves ==
    ASSUME IInv, HubClose
    PROVE  IInv'
<1> USE ConsoleConstants DEF None, MaybeRun, MaybeSession
<1>0. /\ hub # None /\ hub \in Sessions /\ hub' = None
      /\ closer = NoStopper
      /\ CloseStop(hub) /\ sess[hub].pc # "unused"
      /\ UNCHANGED <<client, starter, watch, qemu, aux>>
      /\ UNCHANGED <<client, starter, watch, proc, path, pending, emitter,
                     overlap, restarts>>
      /\ closer' = [pc |-> "lock", session |-> hub]
  BY DEF HubClose, qemu, aux, IInv, TypeOK, HubInv
<1>1. /\ HistoryInv' /\ AttachInv' /\ UpstreamInv' /\ ConnectionInv'
      /\ OutputInv'
      /\ sess' \in [Sessions -> Session]
      /\ \A c \in Clients : client'[c].open =>
           sess'[client'[c].session].attached = c
  BY <1>0, StopKeeps
<1>2. \A t \in Sessions :
        /\ t # hub => sess'[t] = sess[t]
        /\ t = hub => sess'[t].stop
        /\ sess'[t].pc = sess[t].pc /\ sess'[t].run = sess[t].run
        /\ sess'[t].adopted = sess[t].adopted
        /\ sess[t].stop => sess'[t].stop
  BY <1>0, Stopped
<1>3. TypeOK'
  <2>1. closer' \in [pc : StopperPC, session : MaybeSession]
    BY <1>0 DEF StopperPC
  <2>2. QED BY <1>0, <1>1, <2>1 DEF IInv, TypeOK
<1>4. ProcessInv'
  BY <1>0 DEF IInv, ProcessInv
<1>5. StarterInv' /\ StopperInv'
  BY ZenonT(60), <1>0, <1>2 DEF IInv, StarterInv, StopperInv
<1>6. HubInv'
  BY <1>0, <1>2 DEF IInv, HubInv
<1>7. OwnInv' /\ ConsoleOfItsOwn'
  BY <1>0 DEF IInv, OwnInv, ConsoleOfItsOwn, NoStopper
<1>8. StoppedHoldsNothing'
  <2>1. ASSUME NEW t \in Sessions, sess'[t].stop, ~Closing(t)'
        PROVE  sess'[t].upstream = None /\ sess'[t].attached = NoClient
    <3>1. t # hub
      BY <1>0, <2>1 DEF Closing
    <3>2. ~Closing(t)
      BY <1>0, <2>1 DEF Closing, NoStopper
    <3>3. sess'[t] = sess[t]
      BY <1>2, <3>1
    <3>4. QED BY <2>1, <3>2, <3>3 DEF IInv, StoppedHoldsNothing
  <2>2. QED BY <1>1, <2>1 DEF StoppedHoldsNothing
<1>9. QED
  BY <1>1, <1>3, <1>4, <1>5, <1>6, <1>7, <1>8 DEF IInv

LEMMA HubCloseSessionPreserves ==
    ASSUME IInv, HubCloseSession
    PROVE  IInv'
<1> USE ConsoleConstants DEF None, MaybeRun, MaybeSession
<1> DEFINE s == closer.session
<1>0. /\ closer.pc = "lock"
      /\ CloseLocked(s)
      /\ UNCHANGED <<hub, starter, watch, proc, path, aux>>
      /\ UNCHANGED <<emitter, overlap, restarts>>
      /\ s \in Sessions /\ sess[s].stop
      /\ hub \in MaybeSession
      /\ closer' = [pc |-> "done", session |-> None]
  BY DEF HubCloseSession, aux, IInv, TypeOK, StopperInv
<1> HIDE DEF s
<1>2. /\ sess' \in [Sessions -> Session]
      /\ client' \in [Clients -> Client]
      /\ pending' \in [Runs -> Seq(Bytes)]
      /\ sess'[s].upstream = None /\ sess'[s].attached = NoClient
      /\ \A t \in Sessions : /\ sess'[t].stop = sess[t].stop
                             /\ sess'[t].pc = sess[t].pc
                             /\ sess'[t].run = sess[t].run
                             /\ sess'[t].adopted = sess[t].adopted
  BY <1>0, Closed
<1>3. /\ HistoryInv' /\ AttachInv' /\ UpstreamInv' /\ ConnectionInv'
      /\ OutputInv'
      /\ \A t \in Sessions : t # s =>
           /\ sess'[t].upstream = sess[t].upstream
           /\ sess'[t].attached = sess[t].attached
      /\ \A c \in Clients : client'[c].open =>
           sess'[client'[c].session].attached = c
  BY <1>0, CloseKeeps
<1>4. TypeOK'
  <2>1. closer' \in [pc : StopperPC, session : MaybeSession]
    BY <1>0 DEF StopperPC
  <2>2. QED BY <1>0, <1>2, <2>1 DEF IInv, TypeOK
<1>5. ProcessInv'
  BY <1>0 DEF IInv, ProcessInv
<1>6. StarterInv' /\ StopperInv'
  BY <1>0, <1>2 DEF IInv, StarterInv, StopperInv
<1>7. HubInv'
  BY <1>0, <1>2 DEF IInv, HubInv
<1>8. OwnInv'
  BY <1>0, <1>2 DEF IInv, OwnInv
<1>9. StoppedHoldsNothing'
  <2>1. ASSUME NEW t \in Sessions, sess'[t].stop, ~Closing(t)'
        PROVE  sess'[t].upstream = None /\ sess'[t].attached = NoClient
    <3>1. CASE t = s
      BY <1>2, <3>1
    <3>2. CASE t # s
      <4>1. ~Closing(t)
        BY <1>0, <2>1, <3>2 DEF Closing, s
      <4>2. sess[t].stop
        BY <1>2, <2>1
      <4>3. QED BY <1>3, <3>2, <4>1, <4>2 DEF IInv, StoppedHoldsNothing
    <3>3. QED BY <3>1, <3>2
  <2>2. QED BY <1>3, <2>1 DEF StoppedHoldsNothing
<1>10. ConsoleOfItsOwn'
  BY <1>0 DEF ConsoleOfItsOwn, NoStopper
<1>11. QED
  BY <1>3, <1>4, <1>5, <1>6, <1>7, <1>8, <1>9, <1>10 DEF IInv

(***************************************************************************)
(* Steps of sessions and clients keep what is known of the processes, the  *)
(* map and those who start and stop sessions.                              *)
(***************************************************************************)
LEMMA SessionStepKeeps ==
    ASSUME IInv, UNCHANGED <<hub, starter, watch, closer, proc, path, aux>>,
           \A t \in Sessions :
              /\ sess'[t].stop = sess[t].stop
              /\ sess'[t].run = sess[t].run
              /\ sess'[t].adopted = sess[t].adopted
              /\ \/ sess'[t].pc = sess[t].pc
                 \/ /\ sess[t].pc \notin {"unused", "new"}
                    /\ sess'[t].pc \notin {"unused", "new"}
    PROVE  /\ ProcessInv' /\ StarterInv' /\ StopperInv' /\ HubInv' /\ OwnInv'
           /\ \A t \in Sessions : Closing(t)' <=> Closing(t)
           /\ UNCHANGED <<emitter, overlap, restarts>>
<1> USE ConsoleConstants DEF None, MaybeRun, MaybeSession
<1>0. /\ UNCHANGED <<emitter, overlap, restarts>>
      /\ hub \in MaybeSession
  BY DEF aux, IInv, TypeOK
<1>1. ProcessInv'
  BY <1>0 DEF IInv, ProcessInv
<1>2. StarterInv'
  BY <1>0 DEF IInv, StarterInv
<1>3. StopperInv'
  BY <1>0 DEF IInv, StopperInv
<1>4. HubInv'
  BY <1>0 DEF IInv, HubInv
<1>5. OwnInv'
  BY <1>0 DEF IInv, OwnInv
<1>6. \A t \in Sessions : Closing(t)' <=> Closing(t)
  BY DEF Closing
<1>7. QED BY <1>0, <1>1, <1>2, <1>3, <1>4, <1>5, <1>6

(***************************************************************************)
(* Reading moves what has arrived into the buffer of the session.          *)
(***************************************************************************)
LEMMA ReadPreserves ==
    ASSUME IInv, NEW s \in Sessions, Read(s)
    PROVE  IInv'
<1> USE ConsoleConstants DEF None, MaybeRun, MaybeSession
<1> DEFINE r == sess[s].conn
           new == [sess[s] EXCEPT !.buf = pending[r], !.pc = "publish"]
<1>0. /\ sess[s].pc = "read" /\ r \in Runs
      /\ sess' = [sess EXCEPT ![s].buf = pending[r], ![s].pc = "publish"]
      /\ pending' = [pending EXCEPT ![r] = <<>>]
      /\ UNCHANGED <<hub, client, starter, watch, closer, proc, path, aux>>
      /\ sess[s] \in Session /\ sess \in [Sessions -> Session]
      /\ pending \in [Runs -> Seq(Bytes)] /\ pending[r] \in Seq(Bytes)
  BY Fields DEF Read, IInv, TypeOK
<1>1. /\ new \in Session
      /\ new.pc = "publish" /\ new.buf = pending[r]
      /\ new.stop = sess[s].stop /\ new.run = sess[s].run
      /\ new.adopted = sess[s].adopted
      /\ new.upstream = sess[s].upstream /\ new.conn = sess[s].conn
      /\ new.attached = sess[s].attached
      /\ new.history = sess[s].history /\ new.published = sess[s].published
  BY <1>0 DEF Session
<1>2. sess' = [sess EXCEPT ![s] = new]
  BY <1>0
<1> HIDE DEF new
<1>3. /\ sess' \in [Sessions -> Session]
      /\ sess'[s] = new
      /\ \A t \in Sessions \ {s} : sess'[t] = sess[t]
  BY <1>0, <1>1, <1>2
<1>4. /\ pending' \in [Runs -> Seq(Bytes)]
      /\ \A q \in Runs : pending'[q] \in {pending[q], <<>>}
  <2>1. <<>> \in Seq(Bytes)
    OBVIOUS
  <2>2. QED BY <1>0, <2>1
<1>5. /\ ProcessInv' /\ StarterInv' /\ StopperInv' /\ HubInv' /\ OwnInv'
      /\ \A t \in Sessions : Closing(t)' <=> Closing(t)
      /\ UNCHANGED <<emitter, overlap, restarts>>
  BY <1>0, <1>1, <1>3, SessionStepKeeps
<1>6. TypeOK'
  BY <1>0, <1>3, <1>4, <1>5 DEF IInv, TypeOK
<1>7. HistoryInv' /\ UpstreamInv'
  BY SMTT(30), <1>0, <1>1, <1>3 DEF IInv, HistoryInv, UpstreamInv
<1>8. AttachInv'
  <2>1. \A t \in Sessions : /\ sess'[t].attached = sess[t].attached
                            /\ sess'[t].upstream = sess[t].upstream
                            /\ \/ sess'[t] = sess[t]
                               \/ sess'[t].pc = "publish"
    BY <1>0, <1>1, <1>3
  <2>2. UNCHANGED client
    BY <1>0
  <2>3. QED BY <2>1, <2>2 DEF IInv, AttachInv
<1>9. ConnectionInv'
  BY <1>0, <1>1, <1>3, <1>5 DEF IInv, ConnectionInv
<1>10. OutputInv'
  <2>1. ASSUME NEW q \in Runs, NEW b \in Elements(pending'[q])
        PROVE  b \in DOMAIN emitter /\ emitter[b] = q
    BY <1>4, ElementsOfNothing DEF IInv, OutputInv
  <2>2. ASSUME NEW b \in Elements(new.buf)
        PROVE  b \in DOMAIN emitter
               /\ (emitter[b] \in overlap \/ emitter[b] = sess[s].run)
    <3>1. b \in DOMAIN emitter /\ emitter[b] = r
      BY <1>0, <1>1 DEF IInv, OutputInv
    <3>2. r \in overlap \/ sess[s].run = r
      BY <1>0 DEF IInv, ConnectionInv
    <3>3. QED BY <3>1, <3>2
  <2>3. QED BY <1>1, <1>3, <1>5, <2>1, <2>2 DEF IInv, OutputInv
<1>11. StoppedHoldsNothing'
  <2>1. \A t \in Sessions : /\ sess'[t].stop = sess[t].stop
                            /\ sess'[t].upstream = sess[t].upstream
                            /\ sess'[t].attached = sess[t].attached
    BY <1>1, <1>3
  <2>2. ASSUME NEW c \in Clients, client[c].open
        PROVE  sess'[client[c].session].attached = c
    BY <2>1, <2>2, OpenClients
  <2>3. QED BY <1>0, <1>5, <2>1, <2>2 DEF IInv, StoppedHoldsNothing
<1>12. ConsoleOfItsOwn'
  BY SMTT(30), <1>0, <1>1, <1>3, <1>5 DEF IInv, ConsoleOfItsOwn, TypeOK
<1>13. QED
  BY <1>5, <1>6, <1>7, <1>8, <1>9, <1>10, <1>11, <1>12 DEF IInv

(***************************************************************************)
(* A step of a session that keeps its client and its output.               *)
(***************************************************************************)
LEMMA ConnectionStepPreserves ==
    ASSUME IInv, NEW s \in Sessions, NEW new \in Session,
           sess' = [sess EXCEPT ![s] = new],
           UNCHANGED <<hub, client, starter, watch, closer, proc, path, aux>>,
           pending' \in [Runs -> Seq(Bytes)],
           \A q \in Runs : pending'[q] \in {pending[q], <<>>},
           sess[s].pc \notin {"unused", "new"},
           new.pc \notin {"unused", "new"},
           new.stop = sess[s].stop, new.run = sess[s].run,
           new.adopted = sess[s].adopted, new.attached = sess[s].attached,
           new.history = sess[s].history,
           new.published = sess[s].published, new.buf = sess[s].buf,
           new.upstream = sess[s].upstream \/ ~sess[s].stop,
           new.upstream # None => new.pc \in {"read", "publish", "lost"},
           new.upstream # None /\ new.pc \in {"read", "publish"} =>
                new.conn = new.upstream,
           new.upstream # None /\ new.pc = "lost" =>
                proc[new.upstream] = "dead",
           \A r \in Runs \ overlap :
                /\ new.upstream = r => new.run = r
                /\ new.conn = r => \/ new.run = r
                                   \/ new.pc = "set" /\ new.stop
                                   \/ new.pc = "done",
           sess[s].upstream = None \/ new.upstream = sess[s].upstream
    PROVE  IInv'
<1> USE ConsoleConstants DEF None, MaybeRun, MaybeSession
<1>1. /\ sess' \in [Sessions -> Session]
      /\ sess'[s] = new
      /\ \A t \in Sessions \ {s} : sess'[t] = sess[t]
  BY DEF IInv, TypeOK
<1>2. /\ ProcessInv' /\ StarterInv' /\ StopperInv' /\ HubInv' /\ OwnInv'
      /\ \A t \in Sessions : Closing(t)' <=> Closing(t)
      /\ UNCHANGED <<emitter, overlap, restarts>>
  BY <1>1, SessionStepKeeps
<1>3. TypeOK'
  BY <1>1, <1>2 DEF IInv, TypeOK
<1>4. HistoryInv'
  BY <1>1 DEF IInv, HistoryInv
<1>5. AttachInv'
  BY <1>1 DEF IInv, AttachInv
<1>6. UpstreamInv'
  BY <1>1 DEF IInv, UpstreamInv
<1>7. ConnectionInv'
  BY <1>1, <1>2 DEF IInv, ConnectionInv
<1>8. OutputInv'
  <2>1. \A q \in Runs : \A b \in Elements(pending'[q]) :
            b \in Elements(pending[q])
    BY ElementsOfNothing
  <2>2. \A t \in Sessions : /\ sess'[t].buf = sess[t].buf
                            /\ sess'[t].published = sess[t].published
                            /\ sess'[t].run = sess[t].run
    BY <1>1
  <2>3. QED BY <1>2, <2>1, <2>2 DEF IInv, OutputInv
<1>9. StoppedHoldsNothing'
  <2>1. \A t \in Sessions :
           /\ sess'[t].stop = sess[t].stop
           /\ sess[t].stop => sess'[t].upstream = sess[t].upstream
           /\ sess'[t].attached = sess[t].attached
    BY <1>1
  <2>2. ASSUME NEW c \in Clients, client[c].open
        PROVE  sess'[client[c].session].attached = c
    BY <2>1, <2>2, OpenClients
  <2>3. QED BY <1>2, <2>1, <2>2 DEF IInv, StoppedHoldsNothing
<1>10. ConsoleOfItsOwn'
  <2>1. \A t \in Sessions :
           /\ sess'[t].run = sess[t].run
           /\ sess[t].upstream # None => sess'[t].upstream = sess[t].upstream
    BY <1>1
  <2>2. hub \in MaybeSession
    BY DEF IInv, TypeOK
  <2>3. QED BY <1>2, <2>1, <2>2 DEF IInv, ConsoleOfItsOwn
<1>11. QED
  BY <1>2, <1>3, <1>4, <1>5, <1>6, <1>7, <1>8, <1>9, <1>10 DEF IInv

LEMMA ReadFailsPreserves ==
    ASSUME IInv, NEW s \in Sessions, ReadFails(s)
    PROVE  IInv'
<1> USE ConsoleConstants DEF None, MaybeRun, MaybeSession
<1> DEFINE new == [sess[s] EXCEPT !.conn = None, !.pc = "lost"]
<1>0. /\ sess[s].pc = "read"
      /\ sess[s].conn # None => proc[sess[s].conn] = "dead"
      /\ sess' = [sess EXCEPT ![s] = new]
      /\ UNCHANGED <<hub, client, starter, watch, closer, proc, path, aux>>
      /\ pending' = pending
      /\ sess[s] \in Session
      /\ pending \in [Runs -> Seq(Bytes)]
  BY Fields DEF ReadFails, qemu, IInv, TypeOK
<1>1. /\ new \in Session
      /\ new.pc = "lost" /\ new.conn = None
      /\ new.stop = sess[s].stop /\ new.run = sess[s].run
      /\ new.adopted = sess[s].adopted
      /\ new.upstream = sess[s].upstream
      /\ new.attached = sess[s].attached /\ new.buf = sess[s].buf
      /\ new.history = sess[s].history /\ new.published = sess[s].published
  BY <1>0 DEF Session
<1> HIDE DEF new
<1>2. new.upstream # None => proc[new.upstream] = "dead"
  BY <1>0, <1>1 DEF IInv, UpstreamInv
<1>3. \A r \in Runs \ overlap : new.upstream = r => new.run = r
  BY <1>1 DEF IInv, ConnectionInv
<1>4. QED
  BY <1>0, <1>1, <1>2, <1>3, ConnectionStepPreserves

(***************************************************************************)
(* Reconnecting: a session that has not been stopped is in the map, so it  *)
(* connects to a run of its own; a stopped one may connect to another run  *)
(* and is refused.                                                         *)
(***************************************************************************)
LEMMA RedialPreserves ==
    ASSUME IInv, NEW s \in Sessions, Redial(s)
    PROVE  IInv'
<1> USE ConsoleConstants DEF None, MaybeRun, MaybeSession
<1>0. /\ sess[s].pc = "dial"
      /\ UNCHANGED <<hub, client, starter, watch, closer, proc, path, aux>>
      /\ pending' = pending
      /\ sess[s] \in Session
      /\ pending \in [Runs -> Seq(Bytes)]
      /\ sess[s].upstream = None
  BY Fields DEF Redial, qemu, IInv, TypeOK, AttachInv
<1>1. CASE Listening(path)
           /\ sess' = [sess EXCEPT ![s].conn = path, ![s].pc = "set"]
  <2> DEFINE new == [sess[s] EXCEPT !.conn = path, !.pc = "set"]
  <2>1. path \in Runs /\ proc[path] = "alive"
    BY <1>1 DEF Listening, IInv, TypeOK
  <2>2. /\ new \in Session
        /\ new.pc = "set" /\ new.conn = path
        /\ new.stop = sess[s].stop /\ new.run = sess[s].run
        /\ new.adopted = sess[s].adopted
        /\ new.upstream = sess[s].upstream
        /\ new.attached = sess[s].attached /\ new.buf = sess[s].buf
        /\ new.history = sess[s].history
        /\ new.published = sess[s].published
    BY <1>0, <2>1 DEF Session
  <2>3. sess' = [sess EXCEPT ![s] = new]
    BY <1>1
  <2> HIDE DEF new
  <2>4. path \in overlap \/ new.run = path \/ new.stop
    <3>1. SUFFICES ASSUME path \notin overlap, ~new.stop
                   PROVE  new.run = path
      OBVIOUS
    <3>2. hub = s
      BY <1>0, <2>2, <3>1 DEF IInv, HubInv
    <3>3. QED BY <2>1, <2>2, <3>1, <3>2 DEF IInv, OwnInv
  <2>5. \A r \in Runs \ overlap :
           /\ new.upstream = r => new.run = r
           /\ new.conn = r => new.run = r \/ (new.pc = "set" /\ new.stop)
    <3>1. ASSUME NEW r \in Runs PROVE new.upstream # r
      BY <1>0, <2>2
    <3>2. ASSUME NEW r \in Runs \ overlap, new.conn = r
          PROVE  new.run = r \/ (new.pc = "set" /\ new.stop)
      <4>1. r = path /\ new.pc = "set" /\ path \notin overlap
        BY <2>2, <3>2
      <4>2. QED BY <2>4, <4>1
    <3>3. QED BY <3>1, <3>2
  <2>6. QED BY ZenonT(60), <1>0, <2>2, <2>3, <2>5, ConnectionStepPreserves
<1>2. CASE sess[s].stop /\ sess' = [sess EXCEPT ![s].pc = "done"]
  <2> DEFINE new == [sess[s] EXCEPT !.pc = "done"]
  <2>1. /\ new \in Session
        /\ new.pc = "done" /\ new.conn = sess[s].conn
        /\ new.stop = sess[s].stop /\ new.run = sess[s].run
        /\ new.adopted = sess[s].adopted
        /\ new.upstream = sess[s].upstream
        /\ new.attached = sess[s].attached /\ new.buf = sess[s].buf
        /\ new.history = sess[s].history
        /\ new.published = sess[s].published
    BY <1>0 DEF Session
  <2>2. sess' = [sess EXCEPT ![s] = new]
    BY <1>2
  <2> HIDE DEF new
  <2>3. QED BY <1>0, <2>1, <2>2, ConnectionStepPreserves
<1>3. QED BY <1>1, <1>2 DEF Redial

LEMMA SetUpstreamPreserves ==
    ASSUME IInv, NEW s \in Sessions, SetUpstream(s)
    PROVE  IInv'
<1> USE ConsoleConstants DEF None, MaybeRun, MaybeSession
<1> DEFINE r == sess[s].conn
<1>0. /\ sess[s].pc = "set"
      /\ UNCHANGED <<hub, client, starter, watch, closer, proc, path, aux>>
      /\ sess[s] \in Session /\ r \in MaybeRun
      /\ pending \in [Runs -> Seq(Bytes)] /\ <<>> \in Seq(Bytes)
      /\ sess[s].upstream = None
  <2>1. /\ sess[s].pc = "set"
        /\ UNCHANGED <<hub, client, starter, watch, closer, proc, path, aux>>
    BY DEF SetUpstream
  <2>2. sess[s] \in Session /\ r \in MaybeRun
    BY Fields DEF IInv
  <2>3. pending \in [Runs -> Seq(Bytes)] /\ <<>> \in Seq(Bytes)
    BY DEF IInv, TypeOK
  <2>4. sess[s].upstream = None
    BY <2>1 DEF IInv, AttachInv
  <2>5. QED BY <2>1, <2>2, <2>3, <2>4
<1>1. CASE /\ CanSetUpstream(s)
           /\ sess' = [sess EXCEPT ![s].upstream = r, ![s].pc = "read"]
           /\ UNCHANGED pending
  <2> DEFINE new == [sess[s] EXCEPT !.upstream = r, !.pc = "read"]
  <2>1. /\ new \in Session
        /\ new.pc = "read" /\ new.conn = r /\ new.upstream = r
        /\ new.stop = sess[s].stop /\ new.run = sess[s].run
        /\ new.adopted = sess[s].adopted
        /\ new.attached = sess[s].attached /\ new.buf = sess[s].buf
        /\ new.history = sess[s].history
        /\ new.published = sess[s].published
    BY <1>0 DEF Session
  <2>2. sess' = [sess EXCEPT ![s] = new] /\ pending' = pending
        /\ ~sess[s].stop
    BY <1>1 DEF CanSetUpstream
  <2> HIDE DEF new
  <2>3. \A q \in Runs \ overlap : /\ new.upstream = q => new.run = q
                                  /\ new.conn = q => new.run = q
    BY <1>0, <2>1, <2>2 DEF IInv, ConnectionInv
  <2>4. QED BY ZenonT(60), <1>0, <2>1, <2>2, <2>3, ConnectionStepPreserves
<1>2. CASE /\ ~CanSetUpstream(s)
           /\ sess' = [sess EXCEPT ![s].conn = None, ![s].pc = "done"]
           /\ pending' = [pending EXCEPT ![r] = <<>>]
  <2> DEFINE new == [sess[s] EXCEPT !.conn = None, !.pc = "done"]
  <2>1. /\ new \in Session
        /\ new.pc = "done" /\ new.conn = None
        /\ new.upstream = sess[s].upstream
        /\ new.stop = sess[s].stop /\ new.run = sess[s].run
        /\ new.adopted = sess[s].adopted
        /\ new.attached = sess[s].attached /\ new.buf = sess[s].buf
        /\ new.history = sess[s].history
        /\ new.published = sess[s].published
    BY <1>0 DEF Session
  <2>2. sess' = [sess EXCEPT ![s] = new]
    BY <1>2
  <2> HIDE DEF new
  <2>3. /\ pending' \in [Runs -> Seq(Bytes)]
        /\ \A q \in Runs : pending'[q] \in {pending[q], <<>>}
    BY <1>0, <1>2
  <2>4. QED BY <1>0, <2>1, <2>2, <2>3, ConnectionStepPreserves
<1>3. QED BY <1>1, <1>2 DEF SetUpstream

(***************************************************************************)
(* A session lets its client go.                                           *)
(***************************************************************************)
LEMMA ChannelCloses ==
    ASSUME IInv, NEW s \in Sessions, client' = ChannelClosed(client, sess[s])
    PROVE  /\ client' \in [Clients -> Client]
           /\ \A c \in Clients :
                /\ c # sess[s].attached => client'[c] = client[c]
                /\ c = sess[s].attached => ~client'[c].open
                /\ client'[c].pc = client[c].pc
                /\ client'[c].session = client[c].session
<1>1. ASSUME NEW c \in Clients
      PROVE  /\ client'[c] \in Client
             /\ c # sess[s].attached => client'[c] = client[c]
             /\ c = sess[s].attached => ~client'[c].open
             /\ client'[c].pc = client[c].pc
             /\ client'[c].session = client[c].session
  <2>1. client[c] \in Client
    BY Fields DEF IInv
  <2>2. client'[c] = IF c = sess[s].attached
                     THEN [client[c] EXCEPT !.open = FALSE] ELSE client[c]
    BY DEF ChannelClosed
  <2>3. QED BY <2>1, <2>2 DEF Client
<1>2. QED BY <1>1 DEF ChannelClosed

(***************************************************************************)
(* A step after which the session has no client, with or without having    *)
(* had one.                                                                *)
(***************************************************************************)
LEMMA DetachKeeps ==
    ASSUME IInv, NEW s \in Sessions, NEW new \in Session,
           sess' = [sess EXCEPT ![s] = new],
           new.attached = NoClient,
           client' = ChannelClosed(client, sess[s]),
           sess[s].pc # "unused", new.pc # "unused",
           new.upstream # None => new.pc \in {"read", "publish", "lost"}
    PROVE  /\ AttachInv'
           /\ \A c \in Clients : client'[c].open =>
                sess'[client'[c].session].attached = c
<1> USE ConsoleConstants DEF None, MaybeRun
<1>0. /\ sess'[s] = new
      /\ \A t \in Sessions \ {s} : sess'[t] = sess[t]
  BY DEF IInv, TypeOK
<1>1. ASSUME NEW t \in Sessions
      PROVE  /\ sess'[t].attached # NoClient =>
                  /\ client'[sess'[t].attached].pc = "attached"
                  /\ client'[sess'[t].attached].session = t
                  /\ client'[sess'[t].attached].open
             /\ sess'[t].upstream # None =>
                  sess'[t].pc \in {"read", "publish", "lost"}
             /\ sess'[t].pc = "unused" => sess'[t] = NewSession
  <2>1. CASE t = s
    BY <1>0, <2>1
  <2>2. CASE t # s
    <3>1. sess'[t] = sess[t]
      BY <1>0, <2>2
    <3>2. ASSUME sess[t].attached # NoClient
          PROVE  /\ client'[sess[t].attached].pc = "attached"
                 /\ client'[sess[t].attached].session = t
                 /\ client'[sess[t].attached].open
      <4>1. /\ sess[t].attached \in Clients
            /\ client[sess[t].attached].pc = "attached"
            /\ client[sess[t].attached].session = t
            /\ client[sess[t].attached].open
        BY <3>2, Fields DEF IInv, AttachInv
      <4>2. sess[s].attached # sess[t].attached
        BY <2>2, <3>2, <4>1 DEF IInv, AttachInv
      <4>3. QED BY <4>1, <4>2, ChannelCloses
    <3>3. QED BY <3>1, <3>2 DEF IInv, AttachInv
  <2>3. QED BY <2>1, <2>2
<1>2. ASSUME NEW c \in Clients
      PROVE  /\ client'[c].pc \in {"found", "attached"} =>
                  client'[c].session \in Sessions
             /\ client'[c].open => client[c].open /\ c # sess[s].attached
             /\ client'[c].open => client'[c].pc = "attached"
  BY ChannelCloses DEF IInv, AttachInv
<1>3. ASSUME NEW c \in Clients, client'[c].open
      PROVE  sess'[client'[c].session].attached = c
  <2>1. client[c].open /\ c # sess[s].attached
    BY <1>2, <1>3
  <2>2. client'[c].session = client[c].session
    BY ChannelCloses
  <2>3. client[c].session \in Sessions
        /\ sess[client[c].session].attached = c
    BY <2>1, OpenClients
  <2>4. client[c].session # s
    BY <2>1, <2>3
  <2>5. QED BY <1>0, <2>2, <2>3, <2>4
<1>4. QED BY <1>1, <1>2, <1>3 DEF AttachInv

(***************************************************************************)
(* A lost session lets its client go, then ends or reconnects.             *)
(***************************************************************************)
LEMMA LostUpstreamPreserves ==
    ASSUME IInv, NEW s \in Sessions, LostUpstream(s)
    PROVE  IInv'
<1> USE ConsoleConstants DEF None, MaybeRun, MaybeSession
<1> DEFINE new == [Detached(sess[s]) EXCEPT
                     !.upstream = None,
                     !.pc = IF sess[s].stop THEN "done" ELSE "dial"]
<1>0. /\ sess[s].pc = "lost"
      /\ sess' = [sess EXCEPT ![s] = new]
      /\ client' = ChannelClosed(client, sess[s])
      /\ UNCHANGED <<hub, starter, watch, closer, proc, path, aux>>
      /\ pending' = pending
      /\ sess[s] \in Session /\ hub \in MaybeSession
  BY Fields DEF LostUpstream, qemu, IInv, TypeOK
<1>1. /\ new \in Session
      /\ new.pc \in {"done", "dial"} /\ new.conn = sess[s].conn
      /\ new.upstream = None /\ new.attached = NoClient
      /\ new.stop = sess[s].stop /\ new.run = sess[s].run
      /\ new.adopted = sess[s].adopted /\ new.buf = sess[s].buf
      /\ new.history = sess[s].history /\ new.published = sess[s].published
  BY <1>0 DEF Session, Detached
<1> HIDE DEF new
<1>2. /\ sess' \in [Sessions -> Session]
      /\ sess'[s] = new
      /\ \A t \in Sessions \ {s} : sess'[t] = sess[t]
  BY <1>0, <1>1 DEF IInv, TypeOK
<1>3. /\ ProcessInv' /\ StarterInv' /\ StopperInv' /\ HubInv' /\ OwnInv'
      /\ \A t \in Sessions : Closing(t)' <=> Closing(t)
      /\ UNCHANGED <<emitter, overlap, restarts>>
  BY <1>0, <1>1, <1>2, SessionStepKeeps
<1>4. /\ AttachInv'
      /\ \A c \in Clients : client'[c].open =>
           sess'[client'[c].session].attached = c
  BY <1>0, <1>1, DetachKeeps
<1>5. TypeOK'
  BY <1>0, <1>2, <1>3, ChannelCloses DEF IInv, TypeOK
<1>6. HistoryInv' /\ UpstreamInv'
  BY <1>0, <1>1, <1>2 DEF IInv, HistoryInv, UpstreamInv
<1>7. ConnectionInv'
  <2>1. ASSUME NEW r \in Runs \ overlap, new.conn = r
        PROVE  new.run = r
    BY <1>0, <1>1, <2>1 DEF IInv, ConnectionInv
  <2>2. QED BY <1>1, <1>2, <1>3, <2>1 DEF IInv, ConnectionInv
<1>8. OutputInv'
  BY <1>0, <1>1, <1>2, <1>3 DEF IInv, OutputInv
<1>9. StoppedHoldsNothing'
  <2>1. ASSUME NEW t \in Sessions, sess'[t].stop, ~Closing(t)
        PROVE  sess'[t].upstream = None /\ sess'[t].attached = NoClient
    BY <1>1, <1>2, <2>1 DEF IInv, StoppedHoldsNothing
  <2>2. QED BY <1>3, <1>4, <2>1 DEF StoppedHoldsNothing
<1>10. ConsoleOfItsOwn'
  <2>1. sess[s].upstream # None => proc[sess[s].upstream] = "dead"
    BY <1>0 DEF IInv, UpstreamInv
  <2>2. QED BY <1>0, <1>2, <1>3, <2>1 DEF IInv, ConsoleOfItsOwn
<1>11. QED
  BY <1>3, <1>4, <1>5, <1>6, <1>7, <1>8, <1>9, <1>10 DEF IInv

(***************************************************************************)
(* Publishing: to the history, and to the client or to nobody any more.    *)
(***************************************************************************)
LEMMA PublishPreserves ==
    ASSUME IInv, NEW s \in Sessions, Publish(s)
    PROVE  IInv'
<1> USE ConsoleConstants DEF None, MaybeRun, MaybeSession
<1> DEFINE old == sess[s]
           new == [old EXCEPT !.history = LastOf(HistoryLimit, @ \o old.buf),
                              !.published = @ \o old.buf,
                              !.buf = <<>>, !.pc = "read"]
<1>0. /\ old.pc = "publish"
      /\ UNCHANGED <<hub, starter, watch, closer, proc, path, aux>>
      /\ pending' = pending
      /\ old \in Session /\ hub \in MaybeSession
      /\ old.history \in Seq(Bytes) /\ old.published \in Seq(Bytes)
      /\ old.buf \in Seq(Bytes)
      /\ old.attached \in Clients \cup {NoClient}
      /\ Len(old.history) <= Len(old.published)
      /\ client \in [Clients -> Client]
  BY Fields DEF Publish, qemu, IInv, TypeOK, HistoryInv
<1>1. /\ old.history \o old.buf \in Seq(Bytes)
      /\ old.published \o old.buf \in Seq(Bytes)
      /\ Len(old.history \o old.buf) <= Len(old.published \o old.buf)
      /\ LastOf(HistoryLimit, old.history \o old.buf) \in Seq(Bytes)
      /\ Len(LastOf(HistoryLimit, old.history \o old.buf))
            <= Len(old.published \o old.buf)
  <2>1. /\ old.history \o old.buf \in Seq(Bytes)
        /\ old.published \o old.buf \in Seq(Bytes)
        /\ Len(old.history \o old.buf) = Len(old.history) + Len(old.buf)
        /\ Len(old.published \o old.buf) = Len(old.published) + Len(old.buf)
    BY <1>0, ElementsOfConcat
  <2> DEFINE bytes == old.history \o old.buf
             all == old.published \o old.buf
             last == LastOf(HistoryLimit, bytes)
  <2>2. bytes \in Seq(Bytes) /\ all \in Seq(Bytes)
    BY <2>1
  <2>3. Len(bytes) <= Len(all)
    BY <1>0, <2>1
  <2> HIDE DEF bytes, all
  <2>4. last \in Seq(Bytes) /\ Len(last) <= Len(bytes)
    BY <2>2, LastOfBytes
  <2> HIDE DEF last
  <2>5. Len(last) \in Nat /\ Len(bytes) \in Nat /\ Len(all) \in Nat
    BY <2>2, <2>4
  <2>6. Len(last) <= Len(all)
    BY <2>3, <2>4, <2>5
  <2>7. QED BY <2>2, <2>3, <2>4, <2>6 DEF bytes, all, last
<1>2. /\ new \in Session
      /\ new.pc = "read" /\ new.conn = old.conn
      /\ new.upstream = old.upstream /\ new.attached = old.attached
      /\ new.stop = old.stop /\ new.run = old.run
      /\ new.adopted = old.adopted /\ new.buf = <<>>
      /\ new.published = old.published \o old.buf
      /\ Len(new.history) <= Len(new.published)
  <2> DEFINE last == LastOf(HistoryLimit, old.history \o old.buf)
             all == old.published \o old.buf
             nothing == <<>>
  <2>1. last \in Seq(Bytes) /\ all \in Seq(Bytes) /\ nothing \in Seq(Bytes)
        /\ Len(last) <= Len(all)
    <3>1. nothing \in Seq(Bytes)
      OBVIOUS
    <3>2. last \in Seq(Bytes) /\ all \in Seq(Bytes)
          /\ Len(last) <= Len(all)
      BY ONLY <1>1
    <3>3. QED BY <3>1, <3>2
  <2>2. new = [old EXCEPT !.history = last, !.published = all,
                          !.buf = nothing, !.pc = "read"]
    OBVIOUS
  <2> HIDE DEF last, all, nothing, new
  <2>3. /\ new \in Session
        /\ new.pc = "read" /\ new.conn = old.conn
        /\ new.upstream = old.upstream /\ new.attached = old.attached
        /\ new.stop = old.stop /\ new.run = old.run
        /\ new.adopted = old.adopted /\ new.buf = nothing
        /\ new.published = all /\ new.history = last
    BY <1>0, <2>1, <2>2 DEF Session
  <2>4. QED BY <2>1, <2>3 DEF all, nothing
<1> HIDE DEF new
<1>3. PICK next \in {new, Detached(new)} :
        /\ sess' = [sess EXCEPT ![s] = next]
        /\ \/ /\ next = new /\ old.attached = NoClient /\ client' = client
           \/ /\ next = new /\ old.attached # NoClient
              /\ client' = [client EXCEPT ![old.attached].queue =
                                Append(@, ChunkOf(old.buf, new.published))]
           \/ /\ next = Detached(new)
              /\ client' = ChannelClosed(client, old)
  BY DEF Publish, new
<1>4. /\ next \in Session
      /\ next.pc = "read" /\ next.conn = old.conn
      /\ next.upstream = old.upstream
      /\ next.stop = old.stop /\ next.run = old.run
      /\ next.adopted = old.adopted /\ next.buf = <<>>
      /\ next.published = old.published \o old.buf
      /\ Len(next.history) <= Len(next.published)
      /\ next = new => next.attached = old.attached
      /\ next = Detached(new) => next.attached = NoClient
  BY <1>2, <1>3 DEF Session, Detached
<1>5. /\ sess' \in [Sessions -> Session]
      /\ sess'[s] = next
      /\ \A t \in Sessions \ {s} : sess'[t] = sess[t]
  BY <1>3, <1>4 DEF IInv, TypeOK
<1>6. /\ ProcessInv' /\ StarterInv' /\ StopperInv' /\ HubInv' /\ OwnInv'
      /\ \A t \in Sessions : Closing(t)' <=> Closing(t)
      /\ UNCHANGED <<emitter, overlap, restarts>>
  BY <1>0, <1>4, <1>5, SessionStepKeeps
<1>7. /\ client' \in [Clients -> Client]
      /\ AttachInv'
      /\ \A c \in Clients : client'[c].open =>
           sess'[client'[c].session].attached = c
      /\ \A t \in Sessions : sess'[t].attached \in {sess[t].attached, NoClient}
  <2> DEFINE chunk == ChunkOf(old.buf, new.published)
  <2>0. chunk \in Chunk
    <3> DEFINE bytes == old.buf
               all == new.published
    <3>1. bytes \in Seq(Bytes)
      BY <1>0
    <3>2. all \in Seq(Bytes)
      BY <1>1, <1>2
    <3> HIDE DEF bytes, all
    <3>3. ChunkOf(bytes, all) \in Chunk
      BY <3>1, <3>2 DEF Chunk, ChunkOf
    <3>4. QED BY <3>3 DEF bytes, all
  <2> HIDE DEF chunk
  <2>1. CASE next = Detached(new) /\ client' = ChannelClosed(client, old)
    <3>1. /\ AttachInv'
          /\ \A c \in Clients : client'[c].open =>
               sess'[client'[c].session].attached = c
      BY <1>0, <1>3, <1>4, <2>1, DetachKeeps DEF IInv, AttachInv
    <3>2. client' \in [Clients -> Client]
      BY <2>1, ChannelCloses
    <3>3. QED BY <1>4, <1>5, <2>1, <3>1, <3>2
  <2>2. CASE next = new /\ \/ client' = client
                           \/ /\ old.attached # NoClient
                              /\ client' = [client EXCEPT
                                    ![old.attached].queue = Append(@, chunk)]
    <3>1. /\ client' \in [Clients -> Client]
          /\ \A c \in Clients : /\ client'[c].pc = client[c].pc
                                /\ client'[c].open = client[c].open
                                /\ client'[c].session = client[c].session
      <4>1. CASE client' = client
        BY <1>0, <4>1
      <4>2. CASE /\ old.attached # NoClient
                 /\ client' = [client EXCEPT
                                 ![old.attached].queue = Append(@, chunk)]
        <5> DEFINE c == old.attached
                   queue == Append(client[c].queue, chunk)
                   newClient == [client[c] EXCEPT !.queue = queue]
        <5>1. c \in Clients /\ client[c] \in Client
              /\ client[c].queue \in Seq(Chunk)
          BY <1>0, <4>2, Fields DEF IInv
        <5>2. queue \in Seq(Chunk)
          BY <2>0, <5>1
        <5>3. client' = [client EXCEPT ![c] = newClient]
          BY <4>2
        <5> HIDE DEF queue
        <5>4. /\ newClient \in Client
              /\ newClient.pc = client[c].pc
              /\ newClient.open = client[c].open
              /\ newClient.session = client[c].session
          BY <5>1, <5>2 DEF Client
        <5> HIDE DEF newClient
        <5>5. QED BY <1>0, <5>1, <5>3, <5>4
      <4>3. QED BY <2>2, <4>1, <4>2
    <3>2. \A t \in Sessions : /\ sess'[t].attached = sess[t].attached
                              /\ sess'[t].upstream = sess[t].upstream
      BY <1>4, <1>5, <2>2
    <3>3. AttachInv'
      <4>1. ASSUME NEW t \in Sessions, sess[t].attached # NoClient
            PROVE  /\ client'[sess[t].attached].pc = "attached"
                   /\ client'[sess[t].attached].session = t
                   /\ client'[sess[t].attached].open
        BY <3>1, <4>1, Fields DEF IInv, AttachInv
      <4>2. QED
        BY SMTT(30), <1>0, <1>4, <1>5, <3>1, <3>2, <4>1 DEF IInv, AttachInv
    <3>4. ASSUME NEW c \in Clients, client'[c].open
          PROVE  sess'[client'[c].session].attached = c
      <4>1. client[c].open /\ client'[c].session = client[c].session
        BY <3>1, <3>4
      <4>2. /\ client[c].session \in Sessions
            /\ sess[client[c].session].attached = c
        BY <4>1, OpenClients
      <4>3. QED BY <3>2, <4>1, <4>2
    <3>5. QED BY <3>1, <3>2, <3>3, <3>4
  <2>3. QED BY <1>3, <2>1, <2>2 DEF chunk
<1>8. TypeOK'
  BY <1>0, <1>5, <1>6, <1>7 DEF IInv, TypeOK
<1>9. HistoryInv' /\ UpstreamInv'
  BY ZenonT(60), <1>0, <1>4, <1>5 DEF IInv, HistoryInv, UpstreamInv
<1>10. ConnectionInv'
  BY <1>0, <1>4, <1>5, <1>6 DEF IInv, ConnectionInv
<1>11. OutputInv'
  <2>1. ASSUME NEW b \in Elements(next.buf) \cup Elements(next.published)
        PROVE  b \in DOMAIN emitter
               /\ (emitter[b] \in overlap \/ emitter[b] = old.run)
    <3>1. b \in Elements(old.buf) \cup Elements(old.published)
      <4>1. CASE b \in Elements(next.buf)
        BY <1>4, <4>1, ElementsOfNothing
      <4>2. CASE b \in Elements(next.published)
        <5>1. Elements(old.published \o old.buf)
                 \subseteq Elements(old.published) \cup Elements(old.buf)
          BY <1>0, ElementsOfConcat
        <5>2. next.published = old.published \o old.buf
          BY <1>4
        <5>3. QED BY <4>2, <5>1, <5>2
      <4>3. QED BY <2>1, <4>1, <4>2
    <3>2. \A x \in Elements(sess[s].buf) \cup Elements(sess[s].published) :
             /\ x \in DOMAIN emitter
             /\ emitter[x] \in overlap \/ emitter[x] = sess[s].run
      BY DEF IInv, OutputInv
    <3>3. QED BY <3>1, <3>2
  <2>2. ASSUME NEW t \in Sessions,
               NEW b \in Elements(sess'[t].buf)
                            \cup Elements(sess'[t].published)
        PROVE  b \in DOMAIN emitter
               /\ (emitter[b] \in overlap \/ emitter[b] = sess'[t].run)
    <3>1. CASE t = s
      BY <1>4, <1>5, <2>1, <2>2, <3>1
    <3>2. CASE t # s
      <4>1. sess'[t] = sess[t]
        BY <1>5, <3>2
      <4>2. QED BY <2>2, <4>1 DEF IInv, OutputInv
    <3>3. QED BY <3>1, <3>2
  <2>3. QED BY <1>0, <1>6, <2>2 DEF IInv, OutputInv
<1>12. StoppedHoldsNothing'
  <2>1. \A t \in Sessions : /\ sess'[t].stop = sess[t].stop
                            /\ sess'[t].upstream = sess[t].upstream
    BY <1>4, <1>5
  <2>2. QED BY <1>6, <1>7, <2>1 DEF IInv, StoppedHoldsNothing
<1>13. ConsoleOfItsOwn'
  <2>1. \A t \in Sessions : /\ sess'[t].run = sess[t].run
                            /\ sess'[t].upstream = sess[t].upstream
    BY <1>4, <1>5
  <2>2. QED BY <1>0, <1>6, <2>1 DEF IInv, ConsoleOfItsOwn
<1>14. QED
  BY <1>6, <1>7, <1>8, <1>9, <1>10, <1>11, <1>12, <1>13 DEF IInv

(***************************************************************************)
(* A request that holds no attachment may look for one or give up, and a   *)
(* relay may take what is queued for it: the sessions do not notice.       *)
(***************************************************************************)
LEMMA ClientStepKeeps ==
    ASSUME IInv,
           UNCHANGED <<hub, sess, starter, watch, closer, qemu, aux>>,
           client' \in [Clients -> Client],
           \A c \in Clients :
              \/ /\ client'[c].pc = client[c].pc
                 /\ client'[c].session = client[c].session
                 /\ client'[c].open = client[c].open
              \/ /\ client[c].pc # "attached"
                 /\ ~client'[c].open
                 /\ \/ client'[c].pc = "closed"
                    \/ /\ client'[c].pc = "found"
                       /\ client'[c].session \in Sessions
    PROVE  IInv'
<1> USE ConsoleConstants DEF None, MaybeRun, MaybeSession
<1>0. /\ UNCHANGED <<hub, sess, starter, watch, closer, proc, path, pending,
                     emitter, overlap, restarts>>
  BY DEF qemu, aux
<1>1. TypeOK' /\ HistoryInv' /\ ProcessInv' /\ StarterInv' /\ StopperInv'
  BY <1>0 DEF IInv, TypeOK, HistoryInv, ProcessInv, StarterInv, StopperInv
<1>2. HubInv' /\ UpstreamInv' /\ OwnInv' /\ ConsoleOfItsOwn'
  BY <1>0 DEF IInv, HubInv, UpstreamInv, OwnInv, ConsoleOfItsOwn
<1>3. ConnectionInv'
  BY <1>0 DEF IInv, ConnectionInv
<1>4. OutputInv'
  BY <1>0 DEF IInv, OutputInv
<1>5. AttachInv'
  <2>1. ASSUME NEW s \in Sessions, sess[s].attached # NoClient
        PROVE  /\ client'[sess[s].attached].pc = "attached"
               /\ client'[sess[s].attached].session = s
               /\ client'[sess[s].attached].open
    <3>1. /\ sess[s].attached \in Clients
          /\ client[sess[s].attached].pc = "attached"
          /\ client[sess[s].attached].session = s
          /\ client[sess[s].attached].open
      BY <2>1, Fields DEF IInv, AttachInv
    <3>2. QED BY <3>1
  <2>2. ASSUME NEW c \in Clients
        PROVE  /\ client'[c].pc \in {"found", "attached"} =>
                    client'[c].session \in Sessions
               /\ client'[c].open => client'[c].pc = "attached"
    BY DEF IInv, AttachInv
  <2>3. QED BY <1>0, <2>1, <2>2 DEF IInv, AttachInv
<1>6. StoppedHoldsNothing'
  <2>1. ASSUME NEW c \in Clients, client'[c].open
        PROVE  sess[client'[c].session].attached = c
    <3>1. client[c].open /\ client'[c].session = client[c].session
      BY <2>1
    <3>2. QED BY <3>1, OpenClients
  <2>2. QED BY <1>0, <2>1 DEF IInv, StoppedHoldsNothing, Closing
<1>7. QED BY <1>1, <1>2, <1>3, <1>4, <1>5, <1>6 DEF IInv

LEMMA LookUpPreserves ==
    ASSUME IInv, NEW c \in Clients, LookUp(c)
    PROVE  IInv'
<1> USE ConsoleConstants DEF None, MaybeSession
<1> DEFINE new == IF hub = None THEN ClosedClient
                  ELSE [client[c] EXCEPT !.session = hub, !.pc = "found"]
<1>0. /\ client[c].pc = "new"
      /\ client' = [client EXCEPT ![c] = new]
      /\ UNCHANGED <<hub, sess, starter, watch, closer, qemu, aux>>
      /\ client[c] \in Client /\ hub \in MaybeSession
      /\ client \in [Clients -> Client]
  BY Fields DEF LookUp, IInv, TypeOK
<1>1. ~client[c].open
  BY <1>0 DEF IInv, AttachInv
<1>2. /\ new \in Client /\ ~new.open
      /\ new.pc = "closed" \/ (new.pc = "found" /\ new.session \in Sessions)
  <2>1. CASE hub = None
    <3>1. NewClient \in Client
      BY DEF Client, NewClient
    <3>2. ClosedClient \in Client /\ ClosedClient.pc = "closed"
          /\ ~ClosedClient.open
      BY <3>1 DEF Client, ClosedClient, NewClient
    <3>3. QED BY <2>1, <3>2
  <2>2. CASE hub # None
    BY <1>0, <1>1, <2>2 DEF Client
  <2>3. QED BY <2>1, <2>2
<1> HIDE DEF new
<1>3. QED BY <1>0, <1>2, ClientStepKeeps

LEMMA ReceivePreserves ==
    ASSUME IInv, NEW c \in Clients, Receive(c)
    PROVE  IInv'
<1> DEFINE received == client[c].received \o Head(client[c].queue).bytes
           rest == Tail(client[c].queue)
           new == [client[c] EXCEPT !.received = received, !.queue = rest]
<1>0. /\ client' = [client EXCEPT ![c] = new]
      /\ UNCHANGED <<hub, sess, starter, watch, closer, qemu, aux>>
      /\ client[c].queue # <<>>
      /\ client[c] \in Client
      /\ client[c].queue \in Seq(Chunk)
      /\ client[c].received \in Seq(Bytes)
      /\ client \in [Clients -> Client]
  BY Fields DEF Receive, IInv, TypeOK
<1>1. received \in Seq(Bytes) /\ rest \in Seq(Chunk)
  <2> DEFINE queue == client[c].queue
  <2>1. queue \in Seq(Chunk) /\ queue # <<>>
    BY <1>0
  <2> HIDE DEF queue
  <2>2. Head(queue) \in Chunk /\ Tail(queue) \in Seq(Chunk)
    BY <2>1
  <2>3. Head(queue).bytes \in Seq(Bytes)
    BY <2>2 DEF Chunk
  <2>4. QED BY <1>0, <2>2, <2>3, ElementsOfConcat DEF queue
<1> HIDE DEF received, rest
<1>2. /\ new \in Client
      /\ new.pc = client[c].pc /\ new.session = client[c].session
      /\ new.open = client[c].open
  BY <1>0, <1>1 DEF Client
<1> HIDE DEF new
<1>3. QED BY <1>0, <1>2, ClientStepKeeps

(***************************************************************************)
(* A session that has a connection and no client takes the client that     *)
(* asks, which is nobody's attachment so far; otherwise the request ends.  *)
(***************************************************************************)
LEMMA AttachPreserves ==
    ASSUME IInv, NEW c \in Clients, Attach(c)
    PROVE  IInv'
<1> USE ConsoleConstants DEF None, MaybeRun, MaybeSession
<1> DEFINE s == client[c].session
<1>0. /\ client[c].pc = "found"
      /\ UNCHANGED <<hub, starter, watch, qemu, closer, aux>>
      /\ client[c] \in Client /\ client \in [Clients -> Client]
      /\ s \in Sessions
      /\ sess[s] \in Session /\ sess \in [Sessions -> Session]
  BY Fields DEF Attach, IInv, TypeOK, AttachInv
<1>1. CASE ~CanAttach(sess[s]) /\ sess' = sess
           /\ client' = [client EXCEPT ![c] = ClosedClient]
  <2>1. NewClient \in Client
    BY DEF Client, NewClient
  <2>2. ClosedClient \in Client /\ ClosedClient.pc = "closed"
        /\ ~ClosedClient.open
    BY <2>1 DEF Client, ClosedClient, NewClient
  <2>3. QED BY <1>0, <1>1, <2>2, ClientStepKeeps
<1>2. CASE /\ CanAttach(sess[s])
           /\ sess' = [sess EXCEPT ![s].attached = c]
           /\ client' = [client EXCEPT
                 ![c].pc = "attached",
                 ![c].open = TRUE,
                 ![c].from = Len(sess[s].published) - Len(sess[s].history),
                 ![c].queue = IF sess[s].history = <<>> THEN <<>>
                    ELSE <<ChunkOf(sess[s].history, sess[s].published)>>]
  <2> DEFINE from == Len(sess[s].published) - Len(sess[s].history)
             queue == IF sess[s].history = <<>> THEN <<>>
                      ELSE <<ChunkOf(sess[s].history, sess[s].published)>>
             new == [client[c] EXCEPT !.pc = "attached", !.open = TRUE,
                                      !.from = from, !.queue = queue]
  <2>1. from \in Nat /\ queue \in Seq(Chunk)
    <3>1. /\ sess[s].published \in Seq(Bytes)
          /\ sess[s].history \in Seq(Bytes)
          /\ Len(sess[s].history) <= Len(sess[s].published)
      BY <1>0, Fields DEF IInv, HistoryInv
    <3>2. from \in Nat
      BY <3>1
    <3>3. queue \in Seq(Chunk)
      <4>1. ChunkOf(sess[s].history, sess[s].published) \in Chunk
        BY <3>1 DEF Chunk, ChunkOf
      <4>2. QED BY <4>1
    <3>4. QED BY <3>2, <3>3
  <2>2. client' = [client EXCEPT ![c] = new]
    BY <1>2
  <2> HIDE DEF from, queue
  <2>3. /\ new \in Client
        /\ new.pc = "attached" /\ new.open /\ new.session = s
    BY <1>0, <2>1 DEF Client
  <2> HIDE DEF new
  <2>4. /\ client' \in [Clients -> Client]
        /\ client'[c] = new
        /\ \A d \in Clients \ {c} : client'[d] = client[d]
    BY <1>0, <2>2, <2>3
  <2>5. /\ sess' \in [Sessions -> Session]
        /\ sess'[s] = [sess[s] EXCEPT !.attached = c]
        /\ \A t \in Sessions \ {s} : sess'[t] = sess[t]
    <3>1. [sess[s] EXCEPT !.attached = c] \in Session
      BY <1>0 DEF Session
    <3>2. QED BY <1>0, <1>2, <3>1
  <2>6. /\ sess'[s].attached = c
        /\ \A t \in Sessions :
              /\ sess'[t].stop = sess[t].stop
              /\ sess'[t].upstream = sess[t].upstream
              /\ sess'[t].conn = sess[t].conn
              /\ sess'[t].history = sess[t].history
              /\ sess'[t].published = sess[t].published
              /\ sess'[t].buf = sess[t].buf
              /\ sess'[t].pc = sess[t].pc
              /\ sess'[t].run = sess[t].run
              /\ sess'[t].adopted = sess[t].adopted
    <3> DEFINE old == sess[s]
               taken == [old EXCEPT !.attached = c]
    <3>1. /\ taken.attached = c
          /\ taken.stop = old.stop /\ taken.upstream = old.upstream
          /\ taken.conn = old.conn /\ taken.history = old.history
          /\ taken.published = old.published /\ taken.buf = old.buf
          /\ taken.pc = old.pc /\ taken.run = old.run
          /\ taken.adopted = old.adopted
      BY <1>0 DEF Session
    <3>2. sess'[s] = taken /\ \A t \in Sessions \ {s} : sess'[t] = sess[t]
      BY <2>5
    <3> HIDE DEF taken
    <3>3. QED BY <3>1, <3>2
  <2>7. /\ sess[s].upstream # None /\ sess[s].attached = NoClient
        /\ sess[s].pc # "unused"
        /\ \A t \in Sessions : sess[t].attached # c
    BY <1>0, <1>2 DEF CanAttach, IInv, AttachInv
  <2>8. UNCHANGED <<hub, starter, watch, closer, proc, path, pending, aux>>
    BY <1>0 DEF qemu
  <2>9. /\ ProcessInv' /\ StarterInv' /\ StopperInv' /\ HubInv' /\ OwnInv'
        /\ \A t \in Sessions : Closing(t)' <=> Closing(t)
        /\ UNCHANGED <<emitter, overlap, restarts>>
    BY <2>6, <2>8, SessionStepKeeps
  <2>10. TypeOK'
    <3>1. sess' \in [Sessions -> Session] /\ client' \in [Clients -> Client]
      BY <2>4, <2>5
    <3>2. QED BY <2>8, <2>9, <3>1 DEF IInv, TypeOK
  <2>11. HistoryInv' /\ UpstreamInv'
    <3>1. HistoryInv'
      BY <2>6 DEF IInv, HistoryInv
    <3>2. UpstreamInv'
      BY <2>6, <2>8 DEF IInv, UpstreamInv
    <3>3. QED BY <3>1, <3>2
  <2>12. ConnectionInv'
    <3>1. \A t \in Sessions : /\ sess'[t].upstream = sess[t].upstream
                              /\ sess'[t].conn = sess[t].conn
                              /\ sess'[t].run = sess[t].run
                              /\ sess'[t].pc = sess[t].pc
                              /\ sess'[t].stop = sess[t].stop
      BY <2>6
    <3>2. ASSUME NEW r \in Runs \ overlap, NEW t \in Sessions
          PROVE  /\ sess'[t].upstream = r => sess'[t].run = r
                 /\ sess'[t].conn = r =>
                      \/ sess'[t].run = r
                      \/ sess'[t].pc = "set" /\ sess'[t].stop
                      \/ sess'[t].pc = "done"
      BY <3>1 DEF IInv, ConnectionInv
    <3>3. QED BY <2>9, <3>2 DEF ConnectionInv
  <2>13. OutputInv'
    BY <2>6, <2>8, <2>9 DEF IInv, OutputInv
  <2>14. ConsoleOfItsOwn'
    <3>1. \A t \in Sessions : /\ sess'[t].run = sess[t].run
                              /\ sess'[t].upstream = sess[t].upstream
      BY <2>6
    <3>2. hub \in MaybeSession
      BY DEF IInv, TypeOK
    <3>3. QED BY <2>8, <2>9, <3>1, <3>2 DEF IInv, ConsoleOfItsOwn
  <2>15. AttachInv'
    <3>1. ASSUME NEW t \in Sessions, sess'[t].attached # NoClient
          PROVE  /\ client'[sess'[t].attached].pc = "attached"
                 /\ client'[sess'[t].attached].session = t
                 /\ client'[sess'[t].attached].open
      <4>1. CASE t = s
        BY <2>3, <2>4, <2>6, <4>1
      <4>2. CASE t # s
        <5>1. sess'[t] = sess[t]
          BY <2>5, <4>2
        <5>2. /\ sess[t].attached \in Clients \ {c}
              /\ client[sess[t].attached].pc = "attached"
              /\ client[sess[t].attached].session = t
              /\ client[sess[t].attached].open
          BY <2>7, <3>1, <5>1, Fields DEF IInv, AttachInv
        <5>3. QED BY <2>4, <5>1, <5>2
      <4>3. QED BY <4>1, <4>2
    <3>2. ASSUME NEW t \in Sessions
          PROVE  /\ sess'[t].upstream # None =>
                      sess'[t].pc \in {"read", "publish", "lost"}
                 /\ sess'[t].pc = "unused" => sess'[t] = NewSession
      BY <2>5, <2>6, <2>7 DEF IInv, AttachInv
    <3>3. ASSUME NEW d \in Clients
          PROVE  /\ client'[d].pc \in {"found", "attached"} =>
                      client'[d].session \in Sessions
                 /\ client'[d].open => client'[d].pc = "attached"
      BY <1>0, <2>3, <2>4 DEF IInv, AttachInv
    <3>4. QED BY <3>1, <3>2, <3>3 DEF AttachInv
  <2>16. StoppedHoldsNothing'
    <3>1. ASSUME NEW t \in Sessions, sess'[t].stop, ~Closing(t)
          PROVE  sess'[t].upstream = None /\ sess'[t].attached = NoClient
      <4>1. sess[t].upstream = None /\ sess[t].attached = NoClient
        BY <2>6, <3>1 DEF IInv, StoppedHoldsNothing
      <4>2. QED BY <2>5, <2>6, <2>7, <4>1
    <3>2. ASSUME NEW d \in Clients, client'[d].open
          PROVE  sess'[client'[d].session].attached = d
      <4>1. CASE d = c
        BY <2>3, <2>4, <2>6, <4>1
      <4>2. CASE d # c
        <5>1. client'[d] = client[d]
          BY <2>4, <4>2
        <5>2. client[d].session \in Sessions
              /\ sess[client[d].session].attached = d
          BY <3>2, <5>1, OpenClients
        <5>3. client[d].session # s
          BY <2>7, <5>2
        <5>4. QED BY <2>5, <5>1, <5>2, <5>3
      <4>3. QED BY <4>1, <4>2
    <3>3. QED BY <2>9, <3>1, <3>2 DEF StoppedHoldsNothing
  <2>17. QED
    BY <2>9, <2>10, <2>11, <2>12, <2>13, <2>14, <2>15, <2>16 DEF IInv
<1>3. QED BY <1>1, <1>2 DEF Attach

(***************************************************************************)
(* A relay ends: its attachment is given back, unless the session has let  *)
(* it go before.                                                           *)
(***************************************************************************)
LEMMA ClosePreserves ==
    ASSUME IInv, NEW c \in Clients, Close(c)
    PROVE  IInv'
<1> USE ConsoleConstants DEF None, MaybeRun, MaybeSession
<1> DEFINE s == client[c].session
           next == IF sess[s].attached = c THEN Detached(sess[s]) ELSE sess[s]
<1>0. /\ client[c].pc = "attached"
      /\ UNCHANGED <<hub, starter, watch, closer, proc, path, pending, aux>>
      /\ client \in [Clients -> Client]
      /\ s \in Sessions
      /\ sess[s] \in Session /\ sess \in [Sessions -> Session]
  BY Fields DEF Close, qemu, IInv, TypeOK, AttachInv
<1>1. sess' = [sess EXCEPT ![s] = next]
      /\ client' = [client EXCEPT ![c] = ClosedClient]
  <2>1. CASE sess[s].attached = c
    BY <2>1 DEF Close
  <2>2. CASE sess[s].attached # c
    BY <1>0, <2>2 DEF Close
  <2>3. QED BY <2>1, <2>2
<1>2. /\ next \in Session
      /\ next.attached # c
      /\ next.attached \in {sess[s].attached, NoClient}
      /\ next.stop = sess[s].stop /\ next.upstream = sess[s].upstream
      /\ next.conn = sess[s].conn /\ next.history = sess[s].history
      /\ next.published = sess[s].published /\ next.buf = sess[s].buf
      /\ next.pc = sess[s].pc /\ next.run = sess[s].run
      /\ next.adopted = sess[s].adopted
      /\ sess[s].attached # c => next = sess[s]
  <2>1. CASE sess[s].attached = c
    BY <1>0, <2>1 DEF Detached, Session
  <2>2. CASE sess[s].attached # c
    BY <1>0, <2>2
  <2>3. QED BY <2>1, <2>2
<1> HIDE DEF next
<1>3. /\ sess' \in [Sessions -> Session]
      /\ sess'[s] = next
      /\ \A t \in Sessions \ {s} : sess'[t] = sess[t]
  BY <1>0, <1>1, <1>2
<1>4. \A t \in Sessions : /\ sess'[t].stop = sess[t].stop
                          /\ sess'[t].upstream = sess[t].upstream
                          /\ sess'[t].conn = sess[t].conn
                          /\ sess'[t].history = sess[t].history
                          /\ sess'[t].published = sess[t].published
                          /\ sess'[t].buf = sess[t].buf
                          /\ sess'[t].pc = sess[t].pc
                          /\ sess'[t].run = sess[t].run
                          /\ sess'[t].adopted = sess[t].adopted
  BY <1>2, <1>3
<1>5. /\ client' \in [Clients -> Client]
      /\ client'[c].pc = "closed" /\ ~client'[c].open
      /\ \A d \in Clients \ {c} : client'[d] = client[d]
  <2>1. NewClient \in Client
    BY DEF Client, NewClient
  <2>2. ClosedClient \in Client /\ ClosedClient.pc = "closed"
        /\ ~ClosedClient.open
    BY <2>1 DEF Client, ClosedClient, NewClient
  <2>3. QED BY <1>0, <1>1, <2>2
<1>6. /\ ProcessInv' /\ StarterInv' /\ StopperInv' /\ HubInv' /\ OwnInv'
      /\ \A t \in Sessions : Closing(t)' <=> Closing(t)
      /\ UNCHANGED <<emitter, overlap, restarts>>
  BY <1>0, <1>4, SessionStepKeeps
<1>7. TypeOK'
  BY <1>0, <1>3, <1>5, <1>6 DEF IInv, TypeOK
<1>8. HistoryInv'
  BY <1>4 DEF IInv, HistoryInv
<1>9. UpstreamInv'
  BY <1>0, <1>4 DEF IInv, UpstreamInv
<1>10. ConnectionInv'
  <2>1. \A t \in Sessions : /\ sess'[t].upstream = sess[t].upstream
                            /\ sess'[t].conn = sess[t].conn
                            /\ sess'[t].run = sess[t].run
                            /\ sess'[t].pc = sess[t].pc
                            /\ sess'[t].stop = sess[t].stop
    BY <1>4
  <2>2. ASSUME NEW r \in Runs \ overlap, NEW t \in Sessions
        PROVE  /\ sess'[t].upstream = r => sess'[t].run = r
               /\ sess'[t].conn = r =>
                    \/ sess'[t].run = r
                    \/ sess'[t].pc = "set" /\ sess'[t].stop
                    \/ sess'[t].pc = "done"
    BY <2>1 DEF IInv, ConnectionInv
  <2>3. QED BY <1>6, <2>2 DEF ConnectionInv
<1>11. OutputInv'
  BY <1>0, <1>4, <1>6 DEF IInv, OutputInv
<1>12. ConsoleOfItsOwn'
  <2>1. \A t \in Sessions : /\ sess'[t].run = sess[t].run
                            /\ sess'[t].upstream = sess[t].upstream
    BY <1>4
  <2>2. hub \in MaybeSession
    BY DEF IInv, TypeOK
  <2>3. QED BY <1>0, <1>6, <2>1, <2>2 DEF IInv, ConsoleOfItsOwn
<1>13. AttachInv'
  <2>1. ASSUME NEW t \in Sessions, sess'[t].attached # NoClient
        PROVE  /\ client'[sess'[t].attached].pc = "attached"
               /\ client'[sess'[t].attached].session = t
               /\ client'[sess'[t].attached].open
    <3>1. sess'[t].attached = sess[t].attached
      BY <1>2, <1>3, <2>1
    <3>2. /\ sess[t].attached \in Clients
          /\ client[sess[t].attached].pc = "attached"
          /\ client[sess[t].attached].session = t
          /\ client[sess[t].attached].open
      BY <2>1, <3>1, Fields DEF IInv, AttachInv
    <3>3. sess[t].attached # c
      BY <1>2, <1>3, <3>1, <3>2
    <3>4. QED BY <1>5, <3>1, <3>2, <3>3
  <2>2. ASSUME NEW t \in Sessions
        PROVE  /\ sess'[t].upstream # None =>
                    sess'[t].pc \in {"read", "publish", "lost"}
               /\ sess'[t].pc = "unused" => sess'[t] = NewSession
    <3>1. ASSUME sess'[t].pc = "unused" PROVE sess'[t] = NewSession
      <4>1. sess[t] = NewSession
        BY <1>4, <3>1 DEF IInv, AttachInv
      <4>2. sess'[t] = sess[t]
        <5>1. CASE t = s
          <6>1. sess[s].attached # c
            BY <4>1, <5>1 DEF NewSession
          <6>2. QED BY <1>2, <1>3, <5>1, <6>1
        <5>2. CASE t # s
          BY <1>3, <5>2
        <5>3. QED BY <5>1, <5>2
      <4>3. QED BY <4>1, <4>2
    <3>2. QED BY <1>4, <3>1 DEF IInv, AttachInv
  <2>3. ASSUME NEW d \in Clients
        PROVE  /\ client'[d].pc \in {"found", "attached"} =>
                    client'[d].session \in Sessions
               /\ client'[d].open => client'[d].pc = "attached"
    BY <1>5 DEF IInv, AttachInv
  <2>4. QED BY <2>1, <2>2, <2>3 DEF AttachInv
<1>14. StoppedHoldsNothing'
  <2>1. ASSUME NEW t \in Sessions, sess'[t].stop, ~Closing(t)
        PROVE  sess'[t].upstream = None /\ sess'[t].attached = NoClient
    <3>1. sess[t].upstream = None /\ sess[t].attached = NoClient
      BY <1>4, <2>1 DEF IInv, StoppedHoldsNothing
    <3>2. QED BY <1>2, <1>3, <1>4, <3>1
  <2>2. ASSUME NEW d \in Clients, client'[d].open
        PROVE  sess'[client'[d].session].attached = d
    <3>1. d # c /\ client'[d] = client[d]
      BY <1>5, <2>2
    <3>2. client[d].session \in Sessions
          /\ sess[client[d].session].attached = d
      BY <2>2, <3>1, OpenClients
    <3>3. sess'[client[d].session] = sess[client[d].session]
      BY <1>2, <1>3, <3>1, <3>2
    <3>4. QED BY <3>1, <3>2, <3>3
  <2>3. QED BY <1>6, <2>1, <2>2 DEF StoppedHoldsNothing
<1>15. QED
  BY <1>6, <1>7, <1>8, <1>9, <1>10, <1>11, <1>12, <1>13, <1>14 DEF IInv

(***************************************************************************)
(* App Runner comes back: what it had is stopped and holds nothing, and at *)
(* most one process is alive for the start-up loop to adopt.               *)
(***************************************************************************)
LEMMA RestartPreserves ==
    ASSUME IInv, Restart
    PROVE  IInv'
<1> USE ConsoleConstants DEF None, MaybeRun, MaybeSession
<1>0. /\ starter.pc = "idle" /\ restarts < MaxRestarts
      /\ restarts' = restarts + 1
      /\ hub' = None /\ closer' = NoStopper
      /\ watch' = [r \in Runs |-> NoStopper]
      /\ pending' = [r \in Runs |-> <<>>]
      /\ proc' = proc /\ path' = path
      /\ emitter' = emitter /\ overlap' = overlap
  BY DEF Restart
<1>1. ASSUME NEW s \in Sessions
      PROVE  /\ sess'[s] \in Session
             /\ sess'[s].upstream = None /\ sess'[s].conn = None
             /\ sess'[s].attached = NoClient
             /\ sess'[s].history = sess[s].history
             /\ sess'[s].published = sess[s].published
             /\ sess'[s].buf = sess[s].buf /\ sess'[s].run = sess[s].run
             /\ sess'[s].pc = "unused" => sess'[s] = NewSession
             /\ sess'[s].pc # "unused" => sess'[s].stop
  <2> DEFINE old == sess[s]
             new == [old EXCEPT !.stop = TRUE, !.upstream = None,
                        !.conn = None, !.attached = NoClient, !.pc = "done"]
  <2>1. sess'[s] = IF old.pc = "unused" THEN old ELSE new
    BY DEF Restart
  <2>2. old \in Session
    BY Fields DEF IInv
  <2>3. CASE old.pc = "unused"
    <3>1. sess'[s] = sess[s] /\ sess[s] = NewSession
      BY <2>1, <2>3 DEF IInv, AttachInv
    <3>2. QED BY <2>2, <2>3, <3>1 DEF NewSession
  <2>4. CASE old.pc # "unused"
    <3>1. /\ new \in Session
          /\ new.upstream = None /\ new.conn = None
          /\ new.attached = NoClient
          /\ new.history = old.history /\ new.published = old.published
          /\ new.buf = old.buf /\ new.run = old.run
          /\ new.pc = "done" /\ new.stop
      BY <2>2 DEF Session
    <3>2. sess'[s] = new
      BY <2>1, <2>4
    <3> HIDE DEF new
    <3>3. QED BY <3>1, <3>2
  <2>5. QED BY <2>3, <2>4
<1>2. sess' \in [Sessions -> Session]
  BY <1>1 DEF Restart
<1>3. /\ client' \in [Clients -> Client]
      /\ \A c \in Clients : client'[c].pc \in {"new", "closed"}
                            /\ ~client'[c].open
  <2>1. NewClient \in Client /\ NewClient.pc = "new" /\ ~NewClient.open
    BY DEF Client, NewClient
  <2>2. ClosedClient \in Client /\ ClosedClient.pc = "closed"
        /\ ~ClosedClient.open
    BY <2>1 DEF Client, ClosedClient, NewClient
  <2>3. client' = [c \in Clients |-> IF client[c].pc = "new" THEN NewClient
                                                      ELSE ClosedClient]
    BY DEF Restart
  <2>4. QED BY <2>1, <2>2, <2>3
<1>4. /\ \A r \in Runs : watch'[r].pc = "none"
      /\ closer'.pc = "none"
  BY <1>0 DEF NoStopper
<1>5. /\ starter' \in [pc : StarterPC, run : MaybeRun, session : MaybeSession,
                       conn : MaybeRun, boot : BOOLEAN]
      /\ starter'.pc \in {"idle", "hub"}
      /\ starter'.pc = "hub" => /\ starter'.run \in Runs
                                /\ proc[starter'.run] = "alive"
  <2>1. \/ starter' = Idle
        \/ \E r \in Runs : /\ proc[r] = "alive"
                           /\ starter' = [Idle EXCEPT !.pc = "hub", !.run = r,
                                                      !.boot = TRUE]
    BY DEF Restart
  <2>2. CASE starter' = Idle
    BY <2>2 DEF Idle, StarterPC
  <2>3. ASSUME NEW r \in Runs, proc[r] = "alive",
               starter' = [Idle EXCEPT !.pc = "hub", !.run = r, !.boot = TRUE]
        PROVE  /\ starter' \in [pc : StarterPC, run : MaybeRun,
                                session : MaybeSession, conn : MaybeRun,
                                boot : BOOLEAN]
               /\ starter'.pc = "hub"
               /\ starter'.run \in Runs /\ proc[starter'.run] = "alive"
    <3>1. starter' = [pc |-> "hub", run |-> r, session |-> None,
                      conn |-> None, boot |-> TRUE]
      BY <2>3 DEF Idle
    <3>2. starter' \in [pc : StarterPC, run : MaybeRun,
                         session : MaybeSession, conn : MaybeRun,
                         boot : BOOLEAN]
      BY <3>1 DEF StarterPC
    <3>3. starter'.pc = "hub" /\ starter'.run = r
      BY <3>1
    <3>4. QED BY <2>3, <3>2, <3>3
  <2>4. QED BY <2>1, <2>2, <2>3
<1>6. TypeOK'
  <2>1. /\ watch' \in [Runs -> [pc : StopperPC, session : MaybeSession]]
        /\ closer' \in [pc : StopperPC, session : MaybeSession]
    BY <1>0 DEF NoStopper, StopperPC
  <2>2. pending' \in [Runs -> Seq(Bytes)]
    BY <1>0
  <2>3. restarts' \in 0..MaxRestarts
    BY <1>0 DEF IInv, TypeOK
  <2>4. hub' \in MaybeSession
    BY <1>0
  <2>5. QED BY <1>0, <1>2, <1>3, <1>5, <2>1, <2>2, <2>3, <2>4 DEF IInv, TypeOK
<1>7. HistoryInv'
  BY <1>1 DEF IInv, HistoryInv
<1>8. ProcessInv'
  <2>1. ASSUME NEW q \in Runs, proc[q] = "alive", starter'.pc # "idle"
        PROVE  q = starter'.run
    <3>1. starter'.run \in Runs /\ proc[starter'.run] = "alive"
      BY <1>5, <2>1
    <3>2. ~(q < starter'.run) /\ ~(starter'.run < q)
      BY <2>1, <3>1 DEF IInv, ProcessInv
    <3>3. q \in Nat /\ starter'.run \in Nat
      BY <3>1
    <3>4. QED BY <3>2, <3>3
  <2>2. QED BY <1>0, <1>4, <1>5, <2>1 DEF IInv, ProcessInv
<1>9. StarterInv' /\ StopperInv'
  BY <1>0, <1>4, <1>5 DEF StarterInv, StopperInv
<1>10. HubInv' /\ OwnInv' /\ ConsoleOfItsOwn'
  BY <1>0, <1>1, <1>4 DEF HubInv, OwnInv, ConsoleOfItsOwn
<1>11. AttachInv' /\ UpstreamInv' /\ ConnectionInv'
  BY <1>1, <1>3 DEF AttachInv, UpstreamInv, ConnectionInv
<1>12. OutputInv'
  <2>1. \A r \in Runs : Elements(pending'[r]) = {}
    BY <1>0, ElementsOfNothing
  <2>2. \A s \in Sessions :
           \A b \in Elements(sess'[s].buf) \cup Elements(sess'[s].published) :
              /\ b \in DOMAIN emitter
              /\ emitter[b] \in overlap \/ emitter[b] = sess'[s].run
    BY <1>1 DEF IInv, OutputInv
  <2>3. QED BY <1>0, <2>1, <2>2 DEF OutputInv
<1>13. StoppedHoldsNothing'
  BY <1>1, <1>3 DEF StoppedHoldsNothing
<1>14. QED
  BY <1>6, <1>7, <1>8, <1>9, <1>10, <1>11, <1>12, <1>13 DEF IInv

(***************************************************************************)
(* Every step of the specification preserves the invariant.                *)
(***************************************************************************)
LEMMA NextPreserves ==
    ASSUME IInv, [Next]_vars
    PROVE  IInv'
<1>1. CASE UNCHANGED vars
  <2>1. UNCHANGED <<hub, sess, client, starter, watch, closer, qemu, aux>>
    BY <1>1 DEF vars
  <2>2. client' \in [Clients -> Client]
    BY <2>1 DEF IInv, TypeOK
  <2>3. QED BY <2>1, <2>2, ClientStepKeeps
<1>2. ASSUME NEW r \in Runs, Exit(r) \/ Emit(r) \/ Spawn(r) \/ WatchStep(r)
      PROVE  IInv'
  BY <1>2, QemuPreserves, SpawnPreserves, StopPreserves, StopClosePreserves,
     RemoveSocketsPreserves DEF WatchStep
<1>3. CASE StartStep
  BY <1>3, HubStartPreserves, StartDialPreserves, StartUpstreamPreserves,
     StartFailClosePreserves, StartFailDeletePreserves DEF StartStep
<1>4. ASSUME NEW s \in Sessions, RunStep(s) PROVE IInv'
  BY <1>4, ReadPreserves, ReadFailsPreserves, PublishPreserves,
     LostUpstreamPreserves, RedialPreserves, SetUpstreamPreserves DEF RunStep
<1>5. ASSUME NEW c \in Clients,
             LookUp(c) \/ Attach(c) \/ Receive(c) \/ Close(c)
      PROVE  IInv'
  BY <1>5, LookUpPreserves, AttachPreserves, ReceivePreserves, ClosePreserves
<1>6. CASE HubClose \/ HubCloseSession \/ Restart
  BY <1>6, HubClosePreserves, HubCloseSessionPreserves, RestartPreserves
<1>7. QED
  BY <1>1, <1>2, <1>3, <1>4, <1>5, <1>6 DEF Next

(***************************************************************************)
(* The inductive invariant holds in every state of the console hub of one  *)
(* machine: starts, watchers, the reader of each session, clients and the  *)
(* ordered exit take their critical sections in any order.                 *)
(***************************************************************************)
THEOREM InvariantHolds == Spec => []IInv
<1>1. Init => IInv
  BY InitEstablishes
<1>2. IInv /\ [Next]_vars => IInv'
  BY NextPreserves
<1>3. QED BY <1>1, <1>2, PTL DEF Spec

(***************************************************************************)
(* Every variable of the hub keeps its type.                               *)
(***************************************************************************)
THEOREM TypeCorrect == Spec => []TypeOK
<1>1. IInv => TypeOK
  BY DEF IInv
<1>2. QED BY <1>1, InvariantHolds, PTL

(***************************************************************************)
(* In whatever order close, setUpstream, attach and publish (hub.go) take  *)
(* the mutex of a session: once its closing is over a session holds no     *)
(* connection and no client, and a client whose channel is open is the one *)
(* its session knows and will let go.                                      *)
(***************************************************************************)
THEOREM StoppedSessionsHoldNothing == Spec => []StoppedHoldsNothing
<1>1. IInv => StoppedHoldsNothing
  BY DEF IInv
<1>2. QED BY <1>1, InvariantHolds, PTL

(***************************************************************************)
(* A run that Hypervisor.Start started after everything of its predecessor *)
(* was cleaned up is in the map with a session of its own, connected to    *)
(* it, as long as it lives; its output and what is typed into it pass      *)
(* through no session of another run.                                      *)
(***************************************************************************)
THEOREM RunsHaveTheirConsole == Spec => []RunHasItsConsole
<1>1. IInv => RunHasItsConsole
  BY InvariantImplies
<1>2. QED BY <1>1, InvariantHolds, PTL
-----------------------------------------------------------------------------
(***************************************************************************)
(* The order of the output.  The history is the last part of what the      *)
(* session published, and a request that is not attached has got nothing.  *)
(***************************************************************************)
IsLastOf(part, all) ==
    /\ Len(part) <= Len(all)
    /\ part = SubSeq(all, Len(all) - Len(part) + 1, Len(all))

OrderInv ==
    /\ \A s \in Sessions : IsLastOf(sess[s].history, sess[s].published)
    /\ \A c \in Clients : client[c].pc \in {"new", "found"} =>
         /\ client[c].from = 0
         /\ client[c].received = <<>>
         /\ client[c].queue = <<>>
    /\ DeliveredInOrder

(***************************************************************************)
(* Stretches of what is published, when more is published.                 *)
(***************************************************************************)
LEMMA StretchStays ==
    ASSUME NEW all \in Seq(Bytes), NEW more \in Seq(Bytes),
           NEW from \in Nat, NEW to \in Nat, to <= Len(all)
    PROVE  SubSeq(all \o more, from + 1, to) = SubSeq(all, from + 1, to)
<1>1. CASE to < from + 1
  BY <1>1, SubSeqEmpty
<1>2. CASE from + 1 <= to
  <2>1. from + 1 \in 1..Len(all) /\ to \in 1..Len(all)
    BY <1>2
  <2>2. QED BY <2>1, SubSeqOfConcat1
<1>3. QED BY <1>1, <1>2

LEMMA StretchIsNew ==
    ASSUME NEW all \in Seq(Bytes), NEW more \in Seq(Bytes)
    PROVE  SubSeq(all \o more, Len(all) + 1, Len(all) + Len(more)) = more
<1>1. Len(all) \in Nat /\ Len(more) \in Nat
  OBVIOUS
<1>2. CASE Len(more) = 0
  <2>1. more = <<>>
    BY <1>2, EmptySeq
  <2>2. SubSeq(all \o more, Len(all) + 1, Len(all) + Len(more)) = <<>>
    BY <1>1, <1>2, SubSeqEmpty
  <2>3. QED BY <2>1, <2>2
<1>3. CASE Len(more) # 0
  <2>1. /\ Len(all) + 1 \in Len(all) + 1 .. Len(all) + Len(more)
        /\ Len(all) + Len(more) \in Len(all) + 1 .. Len(all) + Len(more)
    BY <1>1, <1>3
  <2>2. SubSeq(all \o more, Len(all) + 1, Len(all) + Len(more))
          = SubSeq(more, Len(all) + 1 - Len(all),
                   Len(all) + Len(more) - Len(all))
    BY <2>1, SubSeqOfConcat2
  <2>3. Len(all) + 1 - Len(all) = 1
        /\ Len(all) + Len(more) - Len(all) = Len(more)
    BY <1>1
  <2>4. QED BY <2>2, <2>3, SubSeqFull
<1>4. QED BY <1>2, <1>3

LEMMA StretchesJoin ==
    ASSUME NEW all \in Seq(Bytes),
           NEW from \in Nat, NEW mid \in Nat, NEW to \in Nat,
           from <= mid, mid <= to, to <= Len(all)
    PROVE  SubSeq(all, from + 1, mid) \o SubSeq(all, mid + 1, to)
             = SubSeq(all, from + 1, to)
<1>1. /\ from + 1 \in 1..Len(all) + 1
      /\ mid \in (from + 1) - 1 .. Len(all)
      /\ to \in mid .. Len(all)
  OBVIOUS
<1>2. QED BY <1>1, ConcatAdjacentSubSeq

(***************************************************************************)
(* publish keeps the history the last part of the output.                  *)
(***************************************************************************)
LEMMA LastGoesOn ==
    ASSUME NEW all \in Seq(Bytes), NEW part \in Seq(Bytes),
           NEW more \in Seq(Bytes), IsLastOf(part, all)
    PROVE  IsLastOf(part \o more, all \o more)
<1>1. PICK a \in Nat, p \in Nat, m \in Nat, d \in Nat :
         a = Len(all) /\ p = Len(part) /\ m = Len(more) /\ d = a - p
  <2>1. /\ Len(all) \in Nat /\ Len(part) \in Nat /\ Len(more) \in Nat
        /\ Len(all) - Len(part) \in Nat
    BY DEF IsLastOf
  <2>2. QED BY <2>1
<1>2. PICK long \in Seq(Bytes) : long = all \o more /\ Len(long) = a + m
  BY <1>1, ElementsOfConcat
<1>3. part = SubSeq(long, d + 1, a)
  <2>1. part = SubSeq(all, d + 1, a)
    BY <1>1 DEF IsLastOf
  <2>2. SubSeq(long, d + 1, a) = SubSeq(all, d + 1, a)
    BY <1>1, <1>2, StretchStays
  <2>3. QED BY <2>1, <2>2
<1>4. more = SubSeq(long, a + 1, a + m)
  BY <1>1, <1>2, StretchIsNew
<1>5. SubSeq(long, d + 1, a) \o SubSeq(long, a + 1, a + m)
        = SubSeq(long, d + 1, a + m)
  <2>1. d <= a /\ a <= a + m /\ a + m <= Len(long) /\ a + m \in Nat
    BY <1>1, <1>2
  <2>2. QED BY <2>1, StretchesJoin
<1>6. part \o more = SubSeq(long, d + 1, a + m)
  BY <1>3, <1>4, <1>5
<1>7. Len(part \o more) = p + m
  BY <1>1, ElementsOfConcat
<1>8. d + 1 = (a + m) - (p + m) + 1 /\ p + m <= a + m
  BY <1>1
<1>9. QED BY <1>2, <1>6, <1>7, <1>8 DEF IsLastOf

LEMMA LastOfLast ==
    ASSUME NEW all \in Seq(Bytes), NEW part \in Seq(Bytes),
           IsLastOf(part, all)
    PROVE  IsLastOf(LastOf(HistoryLimit, part), all)
<1>1. CASE Len(part) <= HistoryLimit
  BY <1>1 DEF LastOf
<1>2. CASE ~(Len(part) <= HistoryLimit)
  <2>1. PICK a \in Nat, p \in Nat, l \in Nat \ {0}, d \in Nat, e \in Nat :
           /\ a = Len(all) /\ p = Len(part) /\ l = HistoryLimit
           /\ d = a - p /\ e = p - l
    BY <1>2, ConsoleConstants DEF IsLastOf
  <2>2. part = SubSeq(all, d + 1, a)
    BY <2>1 DEF IsLastOf
  <2>3. LastOf(HistoryLimit, part) = SubSeq(part, e + 1, p)
    BY <1>2, <2>1 DEF LastOf
  <2>4. SubSeq(SubSeq(all, d + 1, a), e + 1, p)
          = SubSeq(all, (d + 1) + (e + 1) - 1, (d + 1) + p - 1)
    <3>1. /\ d + 1 \in 1..Len(all) /\ a \in 1..Len(all)
          /\ e + 1 \in 1..a - (d + 1) + 1 /\ p \in 1..a - (d + 1) + 1
      BY <1>2, <2>1
    <3>2. QED BY <3>1, SubSeqOfSubSeq
  <2>5. (d + 1) + (e + 1) - 1 = a - l + 1 /\ (d + 1) + p - 1 = a
    BY <2>1
  <2>6. LastOf(HistoryLimit, part) = SubSeq(all, a - l + 1, a)
    BY <2>2, <2>3, <2>4, <2>5
  <2>7. Len(LastOf(HistoryLimit, part)) = l
    <3>1. e + 1 <= p /\ p - (e + 1) + 1 = l
      BY <1>2, <2>1
    <3>2. \A i \in (e + 1)..p : part[i] \in Bytes
      BY <2>1
    <3>3. Len(SubSeq(part, e + 1, p)) = p - (e + 1) + 1
      BY <3>1, <3>2, SubSeqProperties
    <3>4. QED BY <2>3, <3>1, <3>3
  <2>8. l <= a
    BY <1>2, <2>1
  <2>9. QED BY <2>1, <2>6, <2>7, <2>8 DEF IsLastOf
<1>3. QED BY <1>1, <1>2

(***************************************************************************)
(* A stream stays in order when its session publishes more and does not    *)
(* send it, when it does, and when the client reads.                       *)
(***************************************************************************)
LEMMA StreamFields ==
    ASSUME NEW stream \in Client
    PROVE  /\ stream.from \in Nat /\ stream.received \in Seq(Bytes)
           /\ stream.queue \in Seq(Chunk) /\ Len(stream.queue) \in Nat
           /\ Len(stream.received) \in Nat
           /\ \A i \in 1..Len(stream.queue) :
                /\ stream.queue[i] \in Chunk
                /\ stream.queue[i].bytes \in Seq(Bytes)
                /\ stream.queue[i].end \in Nat
           /\ \A i \in 1..Len(stream.queue) + 1 : Reached(stream, i) \in Nat
<1>1. /\ stream.from \in Nat /\ stream.received \in Seq(Bytes)
      /\ stream.queue \in Seq(Chunk) /\ Len(stream.queue) \in Nat
      /\ Len(stream.received) \in Nat
  BY DEF Client
<1>2. ASSUME NEW i \in 1..Len(stream.queue)
      PROVE  /\ stream.queue[i] \in Chunk
             /\ stream.queue[i].bytes \in Seq(Bytes)
             /\ stream.queue[i].end \in Nat
  <2>1. stream.queue[i] \in Chunk
    BY <1>1, ElementOfSeq
  <2>2. QED BY <2>1 DEF Chunk
<1>3. ASSUME NEW i \in 1..Len(stream.queue) + 1
      PROVE  Reached(stream, i) \in Nat
  <2>1. CASE i = 1
    BY <1>1, <2>1 DEF Reached
  <2>2. CASE i # 1
    <3>1. i - 1 \in 1..Len(stream.queue)
      BY <1>1, <2>2
    <3>2. QED BY <1>2, <2>2, <3>1 DEF Reached
  <2>3. QED BY <2>1, <2>2
<1>4. QED BY <1>1, <1>2, <1>3

LEMMA OrderStays ==
    ASSUME NEW stream \in Client, NEW all \in Seq(Bytes),
           NEW more \in Seq(Bytes), InOrder(stream, all), ~stream.open
    PROVE  InOrder(stream, all \o more)
<1> DEFINE long == all \o more
<1>1. Len(all) \in Nat /\ Len(long) \in Nat /\ Len(all) <= Len(long)
  BY ElementsOfConcat
<1>2. /\ Reached(stream, 1) <= Len(long)
      /\ stream.received = SubSeq(long, stream.from + 1, Reached(stream, 1))
  <2>1. 1 \in 1..Len(stream.queue) + 1
    BY StreamFields
  <2>2. stream.from \in Nat /\ Reached(stream, 1) \in Nat
    BY <2>1, StreamFields
  <2>3. /\ Reached(stream, 1) <= Len(all)
        /\ stream.received = SubSeq(all, stream.from + 1, Reached(stream, 1))
    BY DEF InOrder
  <2>4. SubSeq(long, stream.from + 1, Reached(stream, 1))
          = SubSeq(all, stream.from + 1, Reached(stream, 1))
    BY <2>2, <2>3, StretchStays
  <2>5. Reached(stream, 1) <= Len(long)
    BY <1>1, <2>2, <2>3
  <2> HIDE DEF long
  <2>6. QED BY <2>3, <2>4, <2>5
<1>3. ASSUME NEW i \in 1..Len(stream.queue)
      PROVE  /\ Reached(stream, i) <= stream.queue[i].end
             /\ stream.queue[i].end <= Len(long)
             /\ stream.queue[i].bytes =
                    SubSeq(long, Reached(stream, i) + 1, stream.queue[i].end)
  <2>1. i \in 1..Len(stream.queue) + 1
    BY StreamFields
  <2>2. Reached(stream, i) \in Nat /\ stream.queue[i].end \in Nat
    BY <2>1, StreamFields
  <2>3. /\ Reached(stream, i) <= stream.queue[i].end
        /\ stream.queue[i].end <= Len(all)
        /\ stream.queue[i].bytes =
               SubSeq(all, Reached(stream, i) + 1, stream.queue[i].end)
    BY DEF InOrder
  <2>4. SubSeq(long, Reached(stream, i) + 1, stream.queue[i].end)
          = SubSeq(all, Reached(stream, i) + 1, stream.queue[i].end)
    BY <2>2, <2>3, StretchStays
  <2>5. stream.queue[i].end <= Len(long)
    BY <1>1, <2>2, <2>3
  <2> HIDE DEF long
  <2>6. QED BY <2>3, <2>4, <2>5
<1> HIDE DEF long
<1>4. InOrder(stream, long)
  BY <1>2, <1>3 DEF InOrder
<1>5. QED BY <1>4 DEF long

LEMMA OrderWhenSent ==
    ASSUME NEW stream \in Client, NEW all \in Seq(Bytes),
           NEW more \in Seq(Bytes), InOrder(stream, all), stream.open,
           NEW new \in Client,
           new.queue = Append(stream.queue, ChunkOf(more, all \o more)),
           new.from = stream.from, new.received = stream.received
    PROVE  InOrder(new, all \o more)
<1> DEFINE long == all \o more
           n == Len(stream.queue)
           chunk == ChunkOf(more, long)
<1>1. /\ Len(all) \in Nat /\ Len(more) \in Nat /\ Len(long) \in Nat
      /\ Len(long) = Len(all) + Len(more)
      /\ n \in Nat
  BY ElementsOfConcat, StreamFields
<1>2. /\ Len(new.queue) = n + 1
      /\ \A i \in 1..n : new.queue[i] = stream.queue[i]
      /\ new.queue[n + 1] = chunk
  <2>1. stream.queue \in Seq(Chunk)
    BY StreamFields
  <2>2. chunk \in Chunk
    <3>1. long \in Seq(Bytes)
      BY ElementsOfConcat
    <3> HIDE DEF long
    <3>2. QED BY <3>1 DEF Chunk, ChunkOf
  <2> HIDE DEF chunk
  <2>3. new.queue = Append(stream.queue, chunk)
    BY DEF chunk
  <2>4. QED BY <2>1, <2>2, <2>3, AppendProperties
<1>3. chunk.bytes = more /\ chunk.end = Len(long)
  BY DEF ChunkOf
<1> HIDE DEF long, chunk
<1>4. \A i \in 1..n + 1 : Reached(new, i) = Reached(stream, i)
  <2> SUFFICES ASSUME NEW i \in 1..n + 1
               PROVE  Reached(new, i) = Reached(stream, i)
    OBVIOUS
  <2>1. CASE i = 1
    BY <2>1 DEF Reached
  <2>2. CASE i # 1
    <3>1. i - 1 \in 1..n
      BY <1>1, <2>2
    <3>2. QED BY <1>2, <2>2, <3>1 DEF Reached
  <2>3. QED BY <2>1, <2>2
<1>5. Reached(new, n + 2) = Len(long)
  <2>1. n + 2 # 1 /\ (n + 2) - 1 = n + 1
    BY <1>1
  <2>2. QED BY <1>2, <1>3, <2>1 DEF Reached
<1>6. Reached(stream, n + 1) = Len(all)
  BY DEF InOrder
<1>7. /\ Reached(new, 1) <= Len(long)
      /\ new.received = SubSeq(long, new.from + 1, Reached(new, 1))
  <2>1. 1 \in 1..n + 1
    BY <1>1
  <2>2. stream.from \in Nat /\ Reached(stream, 1) \in Nat
    BY <2>1, StreamFields
  <2>3. /\ Reached(stream, 1) <= Len(all)
        /\ stream.received = SubSeq(all, stream.from + 1, Reached(stream, 1))
    BY DEF InOrder
  <2>4. SubSeq(long, stream.from + 1, Reached(stream, 1))
          = SubSeq(all, stream.from + 1, Reached(stream, 1))
    BY <2>2, <2>3, StretchStays DEF long
  <2>5. Reached(new, 1) = Reached(stream, 1)
    BY <1>4, <2>1
  <2>6. Reached(new, 1) <= Len(long)
    BY <1>1, <2>2, <2>3, <2>5
  <2>7. QED BY <2>3, <2>4, <2>5, <2>6
<1>8. ASSUME NEW i \in 1..n + 1
      PROVE  /\ Reached(new, i) <= new.queue[i].end
             /\ new.queue[i].end <= Len(long)
             /\ new.queue[i].bytes =
                    SubSeq(long, Reached(new, i) + 1, new.queue[i].end)
  <2>1. CASE i \in 1..n
    <3>1. Reached(stream, i) \in Nat /\ stream.queue[i].end \in Nat
      BY <2>1, StreamFields
    <3>2. /\ Reached(stream, i) <= stream.queue[i].end
          /\ stream.queue[i].end <= Len(all)
          /\ stream.queue[i].bytes =
                 SubSeq(all, Reached(stream, i) + 1, stream.queue[i].end)
      BY <2>1 DEF InOrder
    <3>3. SubSeq(long, Reached(stream, i) + 1, stream.queue[i].end)
            = SubSeq(all, Reached(stream, i) + 1, stream.queue[i].end)
      BY <3>1, <3>2, StretchStays DEF long
    <3>4. new.queue[i] = stream.queue[i] /\ Reached(new, i) = Reached(stream, i)
      BY <1>2, <1>4, <2>1
    <3>5. new.queue[i].end <= Len(long)
      BY <1>1, <3>1, <3>2, <3>4
    <3>6. QED BY <3>2, <3>3, <3>4, <3>5
  <2>2. CASE i = n + 1
    <3>1. new.queue[i].bytes = more /\ new.queue[i].end = Len(long)
      BY <1>2, <1>3, <2>2
    <3>2. Reached(new, i) = Len(all)
      BY <1>4, <1>6, <2>2
    <3>3. more = SubSeq(long, Len(all) + 1, Len(long))
      BY <1>1, StretchIsNew DEF long
    <3>4. QED BY <1>1, <3>1, <3>2, <3>3
  <2>3. QED BY <1>1, <2>1, <2>2
<1>9. InOrder(new, long)
  <2>1. (n + 1) + 1 = n + 2
    BY <1>1
  <2>2. Len(long) = Reached(new, Len(new.queue) + 1)
    BY <1>2, <1>5, <2>1
  <2>3. \A i \in 1..Len(new.queue) :
             /\ Reached(new, i) <= new.queue[i].end
             /\ new.queue[i].end <= Len(long)
             /\ new.queue[i].bytes =
                    SubSeq(long, Reached(new, i) + 1, new.queue[i].end)
    BY <1>2, <1>8
  <2>4. QED BY <1>7, <2>2, <2>3 DEF InOrder
<1>10. QED BY <1>9 DEF long

LEMMA OrderWhenRead ==
    ASSUME NEW stream \in Client, NEW all \in Seq(Bytes),
           InOrder(stream, all), stream.queue # <<>>,
           NEW new \in Client,
           new.queue = Tail(stream.queue), new.from = stream.from,
           new.received = stream.received \o Head(stream.queue).bytes,
           new.open = stream.open
    PROVE  InOrder(new, all)
<1> DEFINE n == Len(stream.queue)
           chunk == stream.queue[1]
<1>1. n \in Nat \ {0} /\ Len(all) \in Nat
  BY StreamFields, EmptySeq
<1>2. /\ Len(new.queue) = n - 1
      /\ \A i \in 1..n - 1 : new.queue[i] = stream.queue[i + 1]
      /\ Head(stream.queue) = chunk
  <2>1. stream.queue \in Seq(Chunk)
    BY StreamFields
  <2>2. QED BY <2>1, HeadTailProperties
<1>3. /\ stream.from \in Nat /\ Reached(stream, 1) \in Nat
      /\ chunk.end \in Nat /\ chunk.bytes \in Seq(Bytes)
      /\ stream.received \in Seq(Bytes) /\ Len(stream.received) \in Nat
  BY <1>1, StreamFields
<1>4. /\ Reached(stream, 1) <= Len(all)
      /\ stream.received = SubSeq(all, stream.from + 1, Reached(stream, 1))
      /\ Reached(stream, 1) <= chunk.end /\ chunk.end <= Len(all)
      /\ chunk.bytes = SubSeq(all, Reached(stream, 1) + 1, chunk.end)
  <2>1. 1 \in 1..n
    BY <1>1
  <2>2. QED BY <2>1 DEF InOrder
<1> HIDE DEF chunk
<1>5. Reached(stream, 1) = stream.from + Len(stream.received)
  BY DEF Reached
<1>6. new.received = SubSeq(all, stream.from + 1, chunk.end)
  <2>1. stream.from <= Reached(stream, 1)
    BY <1>3, <1>5
  <2>2. SubSeq(all, stream.from + 1, Reached(stream, 1))
          \o SubSeq(all, Reached(stream, 1) + 1, chunk.end)
          = SubSeq(all, stream.from + 1, chunk.end)
    BY ZenonT(60), <1>3, <1>4, <2>1, StretchesJoin
  <2>3. QED BY <1>2, <1>4, <2>2
<1>7. Reached(new, 1) = chunk.end
  <2>1. Len(chunk.bytes) = chunk.end - Reached(stream, 1)
    <3>1. PICK r \in Nat, e \in Nat : /\ r = Reached(stream, 1)
                                      /\ e = chunk.end
                                      /\ r <= e /\ e <= Len(all)
      BY <1>3, <1>4
    <3>2. \A i \in (r + 1)..e : all[i] \in Bytes
      BY <3>1
    <3>3. Len(SubSeq(all, r + 1, e)) = IF r + 1 <= e THEN e - (r + 1) + 1 ELSE 0
      BY <3>1, <3>2, SubSeqProperties
    <3>4. Len(SubSeq(all, r + 1, e)) = e - r
      BY <3>1, <3>3
    <3>5. QED BY <1>4, <3>1, <3>4
  <2>2. Len(new.received) = Len(stream.received) + Len(chunk.bytes)
    BY <1>2, <1>3, ElementsOfConcat
  <2>3. Reached(new, 1) = stream.from + Len(new.received)
    BY DEF Reached
  <2>4. PICK f \in Nat, l \in Nat, e \in Nat :
           f = stream.from /\ l = Len(stream.received) /\ e = chunk.end
    BY <1>3
  <2>5. Reached(new, 1) = f + (l + (e - (f + l)))
    BY <1>5, <2>1, <2>2, <2>3, <2>4
  <2>6. f + (l + (e - (f + l))) = e
    BY <2>4
  <2>7. QED BY <2>4, <2>5, <2>6
<1>8. \A i \in 1..n : Reached(new, i) = Reached(stream, i + 1)
  <2> SUFFICES ASSUME NEW i \in 1..n
               PROVE  Reached(new, i) = Reached(stream, i + 1)
    OBVIOUS
  <2>1. i + 1 # 1 /\ (i + 1) - 1 = i
    BY <1>1
  <2>2. Reached(stream, i + 1) = stream.queue[i].end
    BY <2>1 DEF Reached
  <2>3. CASE i = 1
    BY <1>7, <2>2, <2>3 DEF chunk
  <2>4. CASE i # 1
    <3>1. i - 1 \in 1..n - 1 /\ (i - 1) + 1 = i
      BY <1>1, <2>4
    <3>2. Reached(new, i) = new.queue[i - 1].end
      BY <2>4 DEF Reached
    <3>3. QED BY <1>2, <2>2, <3>1, <3>2
  <2>5. QED BY <2>3, <2>4
<1>9. ASSUME NEW i \in 1..Len(new.queue)
      PROVE  /\ Reached(new, i) <= new.queue[i].end
             /\ new.queue[i].end <= Len(all)
             /\ new.queue[i].bytes =
                    SubSeq(all, Reached(new, i) + 1, new.queue[i].end)
  <2>1. i \in 1..n /\ i \in 1..n - 1 /\ i + 1 \in 1..n
    BY <1>1, <1>2
  <2>2. new.queue[i] = stream.queue[i + 1]
        /\ Reached(new, i) = Reached(stream, i + 1)
    BY <1>2, <1>8, <2>1
  <2>3. QED BY <2>1, <2>2 DEF InOrder
<1>10. ASSUME new.open PROVE Len(all) = Reached(new, Len(new.queue) + 1)
  <2>1. Len(new.queue) + 1 = n /\ n \in 1..n
    BY <1>1, <1>2
  <2>2. Len(all) = Reached(stream, n + 1)
    BY <1>10 DEF InOrder
  <2>3. QED BY <1>8, <2>1, <2>2
<1>11. Reached(new, 1) <= Len(all)
       /\ new.received = SubSeq(all, new.from + 1, Reached(new, 1))
  BY <1>4, <1>6, <1>7
<1>12. QED BY <1>9, <1>10, <1>11 DEF InOrder

(***************************************************************************)
(* Most steps leave the output and the streams alone, or end a stream.     *)
(***************************************************************************)
OutputKept ==
    \A s \in Sessions : /\ sess'[s].history = sess[s].history
                        /\ sess'[s].published = sess[s].published

StreamsKept ==
    \A c \in Clients :
        \/ /\ client'[c].pc = client[c].pc
           /\ client'[c].session = client[c].session
           /\ client'[c].queue = client[c].queue
           /\ client'[c].received = client[c].received
           /\ client'[c].from = client[c].from
           /\ client'[c].open => client[c].open
        \/ client'[c] \in {NewClient, ClosedClient}

LEMMA OrderKept ==
    ASSUME IInv, OrderInv, OutputKept, StreamsKept
    PROVE  OrderInv'
<1>1. \A s \in Sessions : IsLastOf(sess'[s].history, sess'[s].published)
  BY DEF OrderInv, OutputKept
<1>2. ASSUME NEW c \in Clients
      PROVE  /\ client'[c].pc \in {"new", "found"} =>
                  /\ client'[c].from = 0
                  /\ client'[c].received = <<>>
                  /\ client'[c].queue = <<>>
             /\ client'[c].session # None =>
                  InOrder(client'[c], sess'[client'[c].session].published)
  <2>1. CASE client'[c] \in {NewClient, ClosedClient}
    BY <2>1 DEF NewClient, ClosedClient
  <2>2. CASE /\ client'[c].pc = client[c].pc
             /\ client'[c].session = client[c].session
             /\ client'[c].queue = client[c].queue
             /\ client'[c].received = client[c].received
             /\ client'[c].from = client[c].from
             /\ client'[c].open => client[c].open
    <3>1. ASSUME client'[c].session # None
          PROVE  InOrder(client'[c], sess'[client'[c].session].published)
      <4>1. client[c].session \in Sessions
        BY <2>2, <3>1, Fields DEF IInv, MaybeSession
      <4>2. InOrder(client[c], sess[client[c].session].published)
        BY <2>2, <3>1 DEF OrderInv, DeliveredInOrder
      <4>3. sess'[client'[c].session].published
              = sess[client[c].session].published
        BY <2>2, <4>1 DEF OutputKept
      <4>4. \A all : InOrder(client[c], all) => InOrder(client'[c], all)
        <5>1. \A i : Reached(client'[c], i) = Reached(client[c], i)
          BY <2>2 DEF Reached
        <5>2. QED BY <2>2, <5>1 DEF InOrder
      <4>5. QED BY <4>2, <4>3, <4>4
    <3>2. QED BY <2>2, <3>1 DEF OrderInv
  <2>3. QED BY <2>1, <2>2 DEF StreamsKept
<1>3. QED BY <1>1, <1>2 DEF OrderInv, DeliveredInOrder

(***************************************************************************)
(* Closing a channel leaves what was sent on it.                           *)
(***************************************************************************)
LEMMA ChannelKept ==
    ASSUME IInv, NEW s \in Sessions, client' = ChannelClosed(client, sess[s])
    PROVE  StreamsKept
<1> SUFFICES ASSUME NEW c \in Clients
             PROVE  /\ client'[c].pc = client[c].pc
                    /\ client'[c].session = client[c].session
                    /\ client'[c].queue = client[c].queue
                    /\ client'[c].received = client[c].received
                    /\ client'[c].from = client[c].from
                    /\ client'[c].open => client[c].open
  BY DEF StreamsKept
<1>1. client[c] \in Client
  BY Fields DEF IInv
<1>2. client'[c] = IF c = sess[s].attached
                   THEN [client[c] EXCEPT !.open = FALSE] ELSE client[c]
  BY DEF ChannelClosed
<1>3. QED BY <1>1, <1>2 DEF Client

(***************************************************************************)
(* The steps that change a session or its client without publishing.       *)
(***************************************************************************)
LEMMA FieldsKept ==
    ASSUME IInv, NEW s \in Sessions, NEW new,
           sess' = [sess EXCEPT ![s] = new],
           new.history = sess[s].history, new.published = sess[s].published
    PROVE  OutputKept
BY DEF OutputKept, IInv, TypeOK

LEMMA ClosingKeepsOrder ==
    ASSUME IInv, NEW s \in Sessions, CloseLocked(s)
    PROVE  OutputKept /\ StreamsKept
<1> DEFINE new == [Detached(sess[s]) EXCEPT
                     !.upstream = None,
                     !.conn = IF sess[s].upstream = None
                              THEN sess[s].conn ELSE None]
<1>1. /\ sess' = [sess EXCEPT ![s] = new]
      /\ client' = ChannelClosed(client, sess[s])
      /\ sess[s] \in Session
  BY Fields DEF CloseLocked, IInv
<1>2. new.history = sess[s].history /\ new.published = sess[s].published
  BY <1>1 DEF Detached, Session
<1> HIDE DEF new
<1>3. OutputKept
  BY <1>1, <1>2, FieldsKept
<1>4. StreamsKept
  BY <1>1, ChannelKept
<1>5. QED BY <1>3, <1>4

LEMMA QemuKeepsOrder ==
    ASSUME IInv, OrderInv, NEW r \in Runs,
           Exit(r) \/ Emit(r) \/ Spawn(r) \/ WatchStep(r)
    PROVE  OrderInv'
<1>1. CASE Exit(r) \/ Emit(r) \/ Spawn(r) \/ RemoveSockets(r)
  <2>1. sess' = sess /\ client' = client
    BY <1>1 DEF Exit, Emit, Spawn, RemoveSockets
  <2>2. OutputKept /\ StreamsKept
    BY <2>1 DEF OutputKept, StreamsKept
  <2>3. QED BY <2>2, OrderKept
<1>2. CASE Stop(r)
  <2>1. client' = client /\ (sess' = sess \/ (hub # None /\ CloseStop(hub)))
    BY <1>2 DEF Stop
  <2>2. OutputKept
    <3>1. CASE sess' = sess
      BY <3>1 DEF OutputKept
    <3>2. CASE hub # None /\ CloseStop(hub)
      <4>1. hub \in Sessions
        BY <3>2 DEF IInv, TypeOK, MaybeSession
      <4>2. QED BY <3>2, <4>1, Stopped DEF OutputKept
    <3>3. QED BY <2>1, <3>1, <3>2
  <2>3. StreamsKept
    BY <2>1 DEF StreamsKept
  <2>4. QED BY <2>2, <2>3, OrderKept
<1>3. CASE StopClose(r)
  <2>1. watch[r].session \in Sessions /\ CloseLocked(watch[r].session)
    BY <1>3 DEF StopClose, IInv, StopperInv
  <2>2. QED BY <2>1, ClosingKeepsOrder, OrderKept
<1>4. QED BY <1>1, <1>2, <1>3 DEF WatchStep

LEMMA StartKeepsOrder ==
    ASSUME IInv, OrderInv, StartStep
    PROVE  OrderInv'
<1> DEFINE s == starter.session
<1>1. CASE HubStart
  <2>1. client' = client
    BY <1>1 DEF HubStart
  <2>2. OutputKept
    <3>1. CASE sess' = sess
      BY <3>1 DEF OutputKept
    <3>2. ASSUME NEW t \in Sessions,
                 sess' = [sess EXCEPT ![t].pc = "new",
                                      ![t].run = starter.run,
                                      ![t].adopted = starter.boot]
          PROVE  OutputKept
      <4> DEFINE new == [sess[t] EXCEPT !.pc = "new", !.run = starter.run,
                                        !.adopted = starter.boot]
      <4>1. new.history = sess[t].history
            /\ new.published = sess[t].published
        BY Fields DEF IInv, Session
      <4>2. sess' = [sess EXCEPT ![t] = new]
        BY <3>2
      <4> HIDE DEF new
      <4>3. QED BY <4>1, <4>2, FieldsKept
    <3>3. QED BY <1>1, <3>1, <3>2 DEF HubStart
  <2>3. QED BY <2>1, <2>2, OrderKept DEF StreamsKept
<1>2. CASE StartDial
  <2>1. client' = client /\ s \in Sessions
        /\ (sess' = sess \/ CloseStop(s))
    BY <1>2 DEF StartDial, IInv, StarterInv
  <2>2. OutputKept
    BY <2>1, Stopped DEF OutputKept
  <2>3. QED BY <2>1, <2>2, OrderKept DEF StreamsKept
<1>3. CASE StartUpstream
  <2> DEFINE new == [sess[s] EXCEPT !.upstream = starter.conn,
                                    !.conn = starter.conn, !.pc = "read"]
  <2>1. client' = client /\ s \in Sessions
        /\ (sess' = sess \/ sess' = [sess EXCEPT ![s] = new])
    BY <1>3 DEF StartUpstream, IInv, StarterInv
  <2>2. new.history = sess[s].history /\ new.published = sess[s].published
    BY <2>1, Fields DEF IInv, Session
  <2> HIDE DEF new
  <2>3. OutputKept
    <3>1. CASE sess' = sess
      BY <3>1 DEF OutputKept
    <3>2. CASE sess' = [sess EXCEPT ![s] = new]
      BY <2>1, <2>2, <3>2, FieldsKept
    <3>3. QED BY <2>1, <3>1, <3>2
  <2>4. QED BY <2>1, <2>3, OrderKept DEF StreamsKept
<1>4. CASE StartFailClose
  <2>1. s \in Sessions /\ CloseLocked(s)
    BY <1>4 DEF StartFailClose, IInv, StarterInv
  <2>2. QED BY <2>1, ClosingKeepsOrder, OrderKept
<1>5. CASE StartFailDelete
  <2> DEFINE new == [sess[s] EXCEPT !.pc = "done"]
  <2>1. client' = client /\ s \in Sessions
        /\ sess' = [sess EXCEPT ![s] = new]
    BY <1>5 DEF StartFailDelete, IInv, StarterInv
  <2>2. new.history = sess[s].history /\ new.published = sess[s].published
    BY <2>1, Fields DEF IInv, Session
  <2> HIDE DEF new
  <2>3. OutputKept
    BY <2>1, <2>2, FieldsKept
  <2>4. QED BY <2>1, <2>3, OrderKept DEF StreamsKept
<1>6. QED BY <1>1, <1>2, <1>3, <1>4, <1>5 DEF StartStep

LEMMA ExitKeepsOrder ==
    ASSUME IInv, OrderInv, HubClose \/ HubCloseSession \/ Restart
    PROVE  OrderInv'
<1>1. CASE HubClose
  <2>1. client' = client /\ hub \in Sessions /\ CloseStop(hub)
    BY <1>1 DEF HubClose, IInv, TypeOK, MaybeSession
  <2>2. OutputKept
    BY <2>1, Stopped DEF OutputKept
  <2>3. QED BY <2>1, <2>2, OrderKept DEF StreamsKept
<1>2. CASE HubCloseSession
  <2>1. closer.session \in Sessions /\ CloseLocked(closer.session)
    BY <1>2 DEF HubCloseSession, IInv, StopperInv
  <2>2. QED BY <2>1, ClosingKeepsOrder, OrderKept
<1>3. CASE Restart
  <2>1. ASSUME NEW s \in Sessions
        PROVE  /\ sess'[s].history = sess[s].history
               /\ sess'[s].published = sess[s].published
    <3> DEFINE old == sess[s]
               new == [old EXCEPT !.stop = TRUE, !.upstream = None,
                          !.conn = None, !.attached = NoClient, !.pc = "done"]
    <3>1. sess'[s] = old \/ sess'[s] = new
      BY <1>3 DEF Restart
    <3>2. new.history = old.history /\ new.published = old.published
      BY Fields DEF IInv, Session
    <3> HIDE DEF new
    <3>3. QED BY <3>1, <3>2
  <2>2. StreamsKept
    BY <1>3 DEF Restart, StreamsKept
  <2>3. QED BY <2>1, <2>2, OrderKept DEF OutputKept
<1>4. QED BY <1>1, <1>2, <1>3

LEMMA RunKeepsOrder ==
    ASSUME IInv, OrderInv, NEW s \in Sessions, RunStep(s), ~Publish(s)
    PROVE  OrderInv'
<1> DEFINE r == sess[s].conn
<1>0. sess[s] \in Session
  BY Fields DEF IInv
<1>1. CASE Read(s)
  <2> DEFINE new == [sess[s] EXCEPT !.buf = pending[r], !.pc = "publish"]
  <2>1. client' = client /\ sess' = [sess EXCEPT ![s] = new]
    BY <1>1 DEF Read
  <2>2. new.history = sess[s].history /\ new.published = sess[s].published
    BY <1>0 DEF Session
  <2> HIDE DEF new
  <2>3. QED BY <2>1, <2>2, FieldsKept, OrderKept DEF StreamsKept
<1>2. CASE ReadFails(s)
  <2> DEFINE new == [sess[s] EXCEPT !.conn = None, !.pc = "lost"]
  <2>1. client' = client /\ sess' = [sess EXCEPT ![s] = new]
    BY <1>2 DEF ReadFails
  <2>2. new.history = sess[s].history /\ new.published = sess[s].published
    BY <1>0 DEF Session
  <2> HIDE DEF new
  <2>3. QED BY <2>1, <2>2, FieldsKept, OrderKept DEF StreamsKept
<1>3. CASE LostUpstream(s)
  <2> DEFINE new == [Detached(sess[s]) EXCEPT
                       !.upstream = None,
                       !.pc = IF sess[s].stop THEN "done" ELSE "dial"]
  <2>1. client' = ChannelClosed(client, sess[s])
        /\ sess' = [sess EXCEPT ![s] = new]
    BY <1>3 DEF LostUpstream
  <2>2. new.history = sess[s].history /\ new.published = sess[s].published
    BY <1>0 DEF Detached, Session
  <2> HIDE DEF new
  <2>3. OutputKept
    BY <2>1, <2>2, FieldsKept
  <2>4. StreamsKept
    BY <2>1, ChannelKept
  <2>5. QED BY <2>3, <2>4, OrderKept
<1>4. CASE Redial(s)
  <2> DEFINE one == [sess[s] EXCEPT !.conn = path, !.pc = "set"]
             two == [sess[s] EXCEPT !.pc = "done"]
  <2>1. client' = client
        /\ \/ sess' = [sess EXCEPT ![s] = one]
           \/ sess' = [sess EXCEPT ![s] = two]
    BY <1>4 DEF Redial
  <2>2. /\ one.history = sess[s].history /\ one.published = sess[s].published
        /\ two.history = sess[s].history /\ two.published = sess[s].published
    BY <1>0 DEF Session
  <2> HIDE DEF one, two
  <2>3. OutputKept
    BY <2>1, <2>2, FieldsKept
  <2>4. QED BY <2>1, <2>3, OrderKept DEF StreamsKept
<1>5. CASE SetUpstream(s)
  <2> DEFINE one == [sess[s] EXCEPT !.upstream = r, !.pc = "read"]
             two == [sess[s] EXCEPT !.conn = None, !.pc = "done"]
  <2>1. client' = client
        /\ \/ sess' = [sess EXCEPT ![s] = one]
           \/ sess' = [sess EXCEPT ![s] = two]
    BY <1>5 DEF SetUpstream
  <2>2. /\ one.history = sess[s].history /\ one.published = sess[s].published
        /\ two.history = sess[s].history /\ two.published = sess[s].published
    BY <1>0 DEF Session
  <2> HIDE DEF one, two
  <2>3. OutputKept
    BY <2>1, <2>2, FieldsKept
  <2>4. QED BY <2>1, <2>3, OrderKept DEF StreamsKept
<1>6. QED BY <1>1, <1>2, <1>3, <1>4, <1>5 DEF RunStep

(***************************************************************************)
(* publish sends the client of the session what it publishes, or closes    *)
(* its channel; the streams of other sessions, and closed ones, stay.      *)
(***************************************************************************)
LEMMA OrderWhenClosed ==
    ASSUME NEW stream, NEW all, InOrder(stream, all), NEW new,
           new.queue = stream.queue, new.received = stream.received,
           new.from = stream.from, new.open => stream.open
    PROVE  InOrder(new, all)
<1>1. \A i : Reached(new, i) = Reached(stream, i)
  BY DEF Reached
<1>2. QED BY <1>1 DEF InOrder

LEMMA PublishKeepsOrder ==
    ASSUME IInv, OrderInv, NEW s \in Sessions, Publish(s)
    PROVE  OrderInv'
<1> USE ConsoleConstants DEF None, MaybeSession
<1> DEFINE old == sess[s]
           all == old.published
           buf == old.buf
           last == LastOf(HistoryLimit, old.history \o buf)
           long == all \o buf
           chunk == ChunkOf(buf, long)
           me == old.attached
<1>0. /\ old \in Session /\ all \in Seq(Bytes) /\ buf \in Seq(Bytes)
      /\ old.history \in Seq(Bytes)
      /\ me \in Clients \cup {NoClient}
      /\ client \in [Clients -> Client]
      /\ sess \in [Sessions -> Session]
  BY Fields DEF IInv, TypeOK
<1>1. IsLastOf(last, long)
  <2>1. IsLastOf(old.history, all)
    BY DEF OrderInv
  <2>2. IsLastOf(old.history \o buf, all \o buf)
    BY <1>0, <2>1, LastGoesOn
  <2>3. old.history \o buf \in Seq(Bytes) /\ all \o buf \in Seq(Bytes)
    BY <1>0, ElementsOfConcat
  <2>4. QED BY <2>2, <2>3, LastOfLast
<1>2. long \in Seq(Bytes) /\ last \in Seq(Bytes)
  <2>1. old.history \o buf \in Seq(Bytes) /\ long \in Seq(Bytes)
    BY <1>0, ElementsOfConcat
  <2>2. QED BY <2>1, LastOfBytes
<1>3. /\ sess'[s].history = last /\ sess'[s].published = long
      /\ \A t \in Sessions \ {s} : sess'[t] = sess[t]
  <2> DEFINE nothing == <<>>
             new == [old EXCEPT !.history = last, !.published = long,
                                !.buf = nothing, !.pc = "read"]
  <2>1. sess' = [sess EXCEPT ![s] = new]
        \/ sess' = [sess EXCEPT ![s] = Detached(new)]
    BY DEF Publish
  <2>2. nothing \in Seq(Bytes)
    OBVIOUS
  <2> HIDE DEF last, long, nothing
  <2>3. new \in Session /\ new.history = last /\ new.published = long
    BY <1>0, <1>2, <2>2 DEF Session
  <2> HIDE DEF new
  <2>4. Detached(new).history = last /\ Detached(new).published = long
    BY <2>3 DEF Detached, Session
  <2>5. QED BY <1>0, <2>1, <2>3, <2>4
<1>4. \/ /\ me = NoClient
         /\ client' = client
      \/ /\ me # NoClient
         /\ client' = [client EXCEPT ![me].queue = Append(@, chunk)]
      \/ client' = ChannelClosed(client, old)
  <2> DEFINE new == [old EXCEPT !.history = last, !.published = long,
                                !.buf = <<>>, !.pc = "read"]
  <2>1. \/ /\ me = NoClient
           /\ client' = client
        \/ /\ me # NoClient
           /\ client' = [client EXCEPT
                  ![me].queue = Append(@, ChunkOf(buf, new.published))]
        \/ client' = ChannelClosed(client, old)
    BY DEF Publish
  <2> HIDE DEF last, long
  <2>2. new.published = long
    BY <1>0 DEF Session
  <2> HIDE DEF new
  <2>3. QED BY <2>1, <2>2
<1> HIDE DEF last, long, chunk
<1>5. ASSUME NEW d \in Clients
      PROVE  /\ client'[d].pc = client[d].pc
             /\ client'[d].session = client[d].session
             /\ client'[d].received = client[d].received
             /\ client'[d].from = client[d].from
             /\ client'[d].open => client[d].open
             /\ client'[d] \in Client
             /\ \/ client'[d].queue = client[d].queue
                   /\ (client'[d].open => d # me)
                \/ /\ d = me /\ client[d].open
                   /\ client'[d].queue = Append(client[d].queue, chunk)
  <2>0. client[d] \in Client
    BY <1>0
  <2>1. CASE client' = client /\ me = NoClient
    BY <2>0, <2>1
  <2>2. CASE /\ me # NoClient
             /\ client' = [client EXCEPT ![me].queue = Append(@, chunk)]
    <3>1. me \in Clients /\ client[me] \in Client /\ client[me].open
          /\ client[me].queue \in Seq(Chunk)
      BY <1>0, <2>2, Fields DEF IInv, AttachInv
    <3>2. chunk \in Chunk
      BY <1>0, <1>2 DEF Chunk, ChunkOf, chunk
    <3> DEFINE queue == Append(client[me].queue, chunk)
               new == [client[me] EXCEPT !.queue = queue]
    <3>3. queue \in Seq(Chunk)
      BY <3>1, <3>2
    <3>4. client' = [client EXCEPT ![me] = new]
      BY <2>2
    <3> HIDE DEF queue
    <3>5. /\ new \in Client /\ new.queue = queue
          /\ new.pc = client[me].pc /\ new.session = client[me].session
          /\ new.received = client[me].received
          /\ new.from = client[me].from /\ new.open = client[me].open
      BY <3>1, <3>3 DEF Client
    <3> HIDE DEF new
    <3>6. client'[me] = new /\ (d # me => client'[d] = client[d])
      BY <1>0, <3>1, <3>4
    <3>7. CASE d = me
      BY <3>1, <3>5, <3>6, <3>7 DEF queue
    <3>8. CASE d # me
      BY <2>0, <3>6, <3>8
    <3>9. QED BY <3>7, <3>8
  <2>3. CASE client' = ChannelClosed(client, old)
    <3>1. client'[d] = IF d = me THEN [client[d] EXCEPT !.open = FALSE]
                                 ELSE client[d]
      BY <2>3 DEF ChannelClosed
    <3>2. QED BY <2>0, <3>1 DEF Client
  <2>4. QED BY <1>4, <2>1, <2>2, <2>3
<1>6. ASSUME NEW d \in Clients, client'[d].session # None
      PROVE  InOrder(client'[d], sess'[client'[d].session].published)
  <2>0. client[d].session = client'[d].session /\ client[d] \in Client
        /\ client'[d].session \in Sessions
    BY <1>0, <1>5, <1>6, Fields DEF IInv
  <2>1. InOrder(client[d], sess[client[d].session].published)
    BY <1>6, <2>0 DEF OrderInv, DeliveredInOrder
  <2>2. CASE client'[d].session # s
    <3>1. client'[d].queue = client[d].queue
      <4>1. me # NoClient => client[me].session = s
        BY DEF IInv, AttachInv
      <4>2. CASE d = me
        <5>1. me # NoClient
          BY <4>2
        <5>2. QED BY <2>0, <2>2, <4>1, <4>2, <5>1
      <4>3. CASE d # me
        BY <1>5, <4>3
      <4>4. QED BY <4>2, <4>3
    <3>2. InOrder(client'[d], sess[client[d].session].published)
      BY <1>5, <2>1, <3>1, OrderWhenClosed
    <3>3. sess'[client'[d].session] = sess[client[d].session]
      BY <1>3, <2>0, <2>2
    <3>4. QED BY <3>2, <3>3
  <2>3. CASE client'[d].session = s
    <3>1. InOrder(client[d], all)
      BY <2>0, <2>1, <2>3
    <3>2. InOrder(client'[d], long)
      <4>1. CASE /\ client'[d].queue = client[d].queue
                 /\ (client'[d].open => d # me)
        <5>1. ~client'[d].open
          <6>1. client'[d].open => client[d].open
            BY <1>5
          <6>2. client[d].open => d = me
            BY <2>0, <2>3, OpenClients
          <6>3. QED BY <4>1, <6>1, <6>2
        <5>2. InOrder(client'[d], all)
          BY <3>1, <4>1, <1>5, <5>1, OrderWhenClosed
        <5>3. client'[d] \in Client
          BY <1>5
        <5>4. QED BY <1>0, <5>1, <5>2, <5>3, OrderStays DEF long
      <4>2. CASE /\ d = me /\ client[d].open
                 /\ client'[d].queue = Append(client[d].queue, chunk)
        <5>1. client'[d] \in Client /\ client'[d].from = client[d].from
              /\ client'[d].received = client[d].received
          BY <1>5
        <5>2. QED
          BY <1>0, <2>0, <3>1, <4>2, <5>1, OrderWhenSent DEF long, chunk
      <4>3. QED BY <1>5, <4>1, <4>2
    <3>3. QED BY <1>3, <2>3, <3>2
  <2>4. QED BY <2>2, <2>3
<1>7. ASSUME NEW d \in Clients, client'[d].pc \in {"new", "found"}
      PROVE  /\ client'[d].from = 0
             /\ client'[d].received = <<>>
             /\ client'[d].queue = <<>>
  <2>1. client[d].pc \in {"new", "found"} /\ ~client[d].open
    BY <1>5, <1>7, OpenClients
  <2>2. client'[d].queue = client[d].queue
    BY <1>5, <2>1
  <2>3. QED BY <1>5, <2>1, <2>2 DEF OrderInv
<1>8. ASSUME NEW t \in Sessions
      PROVE  IsLastOf(sess'[t].history, sess'[t].published)
  <2>1. CASE t = s
    BY <1>1, <1>3, <2>1
  <2>2. CASE t # s
    BY <1>3, <2>2 DEF OrderInv
  <2>3. QED BY <2>1, <2>2
<1>9. QED BY <1>6, <1>7, <1>8 DEF OrderInv, DeliveredInOrder

(***************************************************************************)
(* A request finds its session, begins its stream with the history, reads  *)
(* and ends.  These steps change one client and publish nothing.           *)
(***************************************************************************)
LEMMA OneStreamChanges ==
    ASSUME IInv, OrderInv, OutputKept, NEW c \in Clients, NEW new,
           client' = [client EXCEPT ![c] = new],
           new.pc \in {"new", "found"} =>
             new.from = 0 /\ new.received = <<>> /\ new.queue = <<>>,
           new.session # None =>
             /\ new.session \in Sessions
             /\ InOrder(new, sess[new.session].published)
    PROVE  OrderInv'
<1>1. client'[c] = new /\ \A d \in Clients \ {c} : client'[d] = client[d]
  BY DEF IInv, TypeOK
<1>2. \A s \in Sessions : IsLastOf(sess'[s].history, sess'[s].published)
  BY DEF OrderInv, OutputKept
<1>3. ASSUME NEW d \in Clients
      PROVE  /\ client'[d].pc \in {"new", "found"} =>
                  /\ client'[d].from = 0
                  /\ client'[d].received = <<>>
                  /\ client'[d].queue = <<>>
             /\ client'[d].session # None =>
                  InOrder(client'[d], sess'[client'[d].session].published)
  <2>1. CASE d = c
    BY <1>1, <2>1 DEF OutputKept
  <2>2. CASE d # c
    <3>1. client'[d] = client[d]
      BY <1>1, <2>2
    <3>2. client[d].session # None => client[d].session \in Sessions
      BY Fields DEF IInv, MaybeSession
    <3>3. client[d].session # None =>
            InOrder(client[d], sess[client[d].session].published)
      BY DEF OrderInv, DeliveredInOrder
    <3>4. QED BY <3>1, <3>2, <3>3 DEF OrderInv, OutputKept
  <2>3. QED BY <2>1, <2>2
<1>4. QED BY <1>2, <1>3 DEF OrderInv, DeliveredInOrder

LEMMA NothingIsInOrder ==
    ASSUME NEW stream, NEW all \in Seq(Bytes), ~stream.open,
           stream.from = 0, stream.received = <<>>, stream.queue = <<>>
    PROVE  InOrder(stream, all)
<1>1. Reached(stream, 1) = 0
  BY DEF Reached
<1>2. SubSeq(all, 0 + 1, 0) = <<>>
  BY SubSeqEmpty
<1>3. Len(all) \in Nat /\ Len(stream.queue) = 0
  OBVIOUS
<1>4. Reached(stream, 1) <= Len(all)
  BY <1>1, <1>3
<1>5. stream.received = SubSeq(all, stream.from + 1, Reached(stream, 1))
  BY <1>1, <1>2
<1>6. \A i \in 1..Len(stream.queue) : FALSE
  BY <1>3
<1>7. QED BY <1>4, <1>5, <1>6 DEF InOrder

LEMMA HistoryIsInOrder ==
    ASSUME NEW stream \in Client, NEW all \in Seq(Bytes),
           NEW history \in Seq(Bytes), IsLastOf(history, all),
           stream.from = Len(all) - Len(history), stream.received = <<>>,
           stream.queue = IF history = <<>> THEN <<>>
                          ELSE <<ChunkOf(history, all)>>
    PROVE  InOrder(stream, all)
<1>1. PICK a \in Nat, h \in Nat, f \in Nat :
         a = Len(all) /\ h = Len(history) /\ f = stream.from
         /\ h <= a /\ f = a - h
  <2>1. Len(all) \in Nat /\ Len(history) \in Nat /\ stream.from \in Nat
        /\ Len(history) <= Len(all)
    BY StreamFields DEF IsLastOf
  <2>2. QED BY <2>1
<1>2. Reached(stream, 1) = f
  BY <1>1 DEF Reached
<1>3. Reached(stream, 1) <= Len(all)
      /\ stream.received = SubSeq(all, stream.from + 1, Reached(stream, 1))
  <2>1. SubSeq(all, f + 1, f) = <<>>
    BY <1>1, SubSeqEmpty
  <2>2. f <= a
    BY <1>1
  <2>3. QED BY <1>1, <1>2, <2>1, <2>2
<1>4. CASE history = <<>>
  <2>1. Len(stream.queue) = 0 /\ h = 0
    BY <1>1, <1>4
  <2>2. f = a
    BY <1>1, <2>1
  <2>3. Len(all) = Reached(stream, Len(stream.queue) + 1)
    BY <1>1, <1>2, <2>1, <2>2
  <2>4. \A i \in 1..Len(stream.queue) : FALSE
    BY <2>1
  <2>5. QED BY <1>3, <2>3, <2>4 DEF InOrder
<1>5. CASE history # <<>>
  <2> DEFINE chunk == ChunkOf(history, all)
  <2>1. stream.queue = <<chunk>>
    BY <1>5
  <2>2. chunk.bytes = history /\ chunk.end = a
    BY <1>1 DEF ChunkOf
  <2> HIDE DEF chunk
  <2>3. Len(stream.queue) = 1 /\ stream.queue[1] = chunk
    <3>1. Len(<<chunk>>) = 1 /\ <<chunk>>[1] = chunk
      OBVIOUS
    <3>2. QED BY <2>1, <3>1
  <2>4. chunk.bytes = SubSeq(all, f + 1, a)
    BY <1>1, <2>2 DEF IsLastOf
  <2>5. Reached(stream, 2) = a
    BY <2>2, <2>3 DEF Reached
  <2>6. ASSUME NEW i \in 1..Len(stream.queue)
        PROVE  /\ Reached(stream, i) <= stream.queue[i].end
               /\ stream.queue[i].end <= Len(all)
               /\ stream.queue[i].bytes =
                      SubSeq(all, Reached(stream, i) + 1, stream.queue[i].end)
    <3>1. i = 1
      BY <2>3
    <3>2. f <= a
      BY <1>1
    <3>3. Reached(stream, i) = f /\ stream.queue[i] = chunk
      BY <1>2, <2>3, <3>1
    <3>4. QED BY SMTT(30), <1>1, <2>2, <2>4, <3>2, <3>3
  <2>7. Len(all) = Reached(stream, Len(stream.queue) + 1)
    BY <1>1, <2>3, <2>5
  <2>8. QED BY <1>3, <2>6, <2>7 DEF InOrder
<1>6. QED BY <1>4, <1>5

LEMMA ClientKeepsOrder ==
    ASSUME IInv, OrderInv, NEW c \in Clients,
           LookUp(c) \/ Attach(c) \/ Receive(c) \/ Close(c)
    PROVE  OrderInv'
<1> USE ConsoleConstants DEF None, MaybeSession
<1> DEFINE s == client[c].session
<1>0. /\ client[c] \in Client /\ client \in [Clients -> Client]
      /\ sess \in [Sessions -> Session]
      /\ s # None => s \in Sessions
  BY Fields DEF IInv, TypeOK
<1>c. client' = [client EXCEPT ![c] = ClosedClient] /\ OutputKept => OrderInv'
  <2>1. ClosedClient.pc = "closed" /\ ClosedClient.session = None
    BY DEF ClosedClient, NewClient
  <2>2. QED BY <2>1, OneStreamChanges
<1>1. CASE LookUp(c)
  <2>1. OutputKept /\ client[c].pc = "new"
    BY <1>1 DEF LookUp, OutputKept
  <2>2. CASE hub = None
    BY <1>1, <1>c, <2>1, <2>2 DEF LookUp
  <2>3. CASE hub # None
    <3> DEFINE new == [client[c] EXCEPT !.session = hub, !.pc = "found"]
    <3>1. client' = [client EXCEPT ![c] = new]
      BY <1>1, <2>3 DEF LookUp
    <3>2. hub \in Sessions
      BY <2>3 DEF IInv, TypeOK
    <3>3. /\ new.from = client[c].from /\ new.received = client[c].received
          /\ new.queue = client[c].queue /\ new.open = client[c].open
          /\ new.session = hub
      BY <1>0 DEF Client
    <3> HIDE DEF new
    <3>4. /\ new.from = 0 /\ new.received = <<>> /\ new.queue = <<>>
          /\ ~new.open
      <4>1. ~client[c].open
        BY <2>1, OpenClients
      <4>2. /\ client[c].from = 0 /\ client[c].received = <<>>
            /\ client[c].queue = <<>>
        BY <2>1 DEF OrderInv
      <4>3. QED BY <3>3, <4>1, <4>2
    <3>5. InOrder(new, sess[hub].published)
      BY <3>2, <3>4, Fields, NothingIsInOrder DEF IInv
    <3>6. QED BY <2>1, <3>1, <3>2, <3>3, <3>4, <3>5, OneStreamChanges
  <2>4. QED BY <2>2, <2>3
<1>2. CASE Attach(c)
  <2>1. s \in Sessions /\ client[c].pc = "found"
    BY <1>2 DEF Attach, IInv, AttachInv
  <2>2. CASE client' = [client EXCEPT ![c] = ClosedClient] /\ sess' = sess
    BY <1>c, <2>2 DEF OutputKept
  <2>3. CASE ~(client' = [client EXCEPT ![c] = ClosedClient] /\ sess' = sess)
    <3> DEFINE history == sess[s].history
               all == sess[s].published
               from == Len(all) - Len(history)
               queue == IF history = <<>> THEN <<>>
                        ELSE <<ChunkOf(history, all)>>
               new == [client[c] EXCEPT !.pc = "attached", !.open = TRUE,
                                        !.from = from, !.queue = queue]
               taken == [sess[s] EXCEPT !.attached = c]
    <3>1. client' = [client EXCEPT ![c] = new]
          /\ sess' = [sess EXCEPT ![s] = taken]
      BY <1>2, <2>3 DEF Attach
    <3>2. taken.history = sess[s].history
          /\ taken.published = sess[s].published
      BY <2>1, Fields DEF IInv, Session
    <3> HIDE DEF taken
    <3>3. OutputKept
      BY <2>1, <3>1, <3>2, FieldsKept
    <3>4. history \in Seq(Bytes) /\ all \in Seq(Bytes)
          /\ IsLastOf(history, all) /\ Len(history) <= Len(all)
      BY <2>1, Fields DEF IInv, OrderInv, HistoryInv
    <3>5. from \in Nat /\ queue \in Seq(Chunk)
      <4>1. from \in Nat
        BY <3>4
      <4>2. ChunkOf(history, all) \in Chunk
        BY <3>4 DEF Chunk, ChunkOf
      <4>3. QED BY <4>1, <4>2
    <3> HIDE DEF from, queue
    <3>6. /\ new \in Client /\ new.pc = "attached" /\ new.session = s
          /\ new.from = from /\ new.queue = queue
          /\ new.received = client[c].received
      BY <1>0, <3>5 DEF Client
    <3> HIDE DEF new
    <3>7. new.received = <<>>
      BY <2>1, <3>6 DEF OrderInv
    <3>8. InOrder(new, all)
      BY <3>4, <3>6, <3>7, HistoryIsInOrder DEF from, queue
    <3>9. QED BY <2>1, <3>1, <3>3, <3>6, <3>8, OneStreamChanges
  <2>4. QED BY <2>2, <2>3
<1>3. CASE Receive(c)
  <2> DEFINE chunks == client[c].queue
             received == client[c].received \o Head(chunks).bytes
             rest == Tail(chunks)
             new == [client[c] EXCEPT !.received = received, !.queue = rest]
  <2>1. /\ OutputKept /\ client[c].pc = "attached" /\ chunks # <<>>
        /\ client' = [client EXCEPT ![c] = new]
    BY <1>3 DEF Receive, OutputKept
  <2>2. received \in Seq(Bytes) /\ rest \in Seq(Chunk)
    <3>1. chunks \in Seq(Chunk) /\ chunks # <<>>
      BY <2>1, Fields DEF IInv
    <3> HIDE DEF chunks
    <3>2. Head(chunks) \in Chunk /\ Tail(chunks) \in Seq(Chunk)
      BY <3>1
    <3>3. Head(chunks).bytes \in Seq(Bytes)
      BY <3>2 DEF Chunk
    <3>4. client[c].received \in Seq(Bytes)
      BY Fields DEF IInv
    <3>5. QED BY <3>2, <3>3, <3>4, ElementsOfConcat
  <2> HIDE DEF received, rest
  <2>3. /\ new \in Client /\ new.pc = "attached" /\ new.session = s
        /\ new.from = client[c].from /\ new.open = client[c].open
        /\ new.received = received /\ new.queue = rest
    BY <1>0, <2>1, <2>2 DEF Client
  <2> HIDE DEF new
  <2>4. s \in Sessions
    BY <2>1 DEF IInv, AttachInv
  <2>5. InOrder(client[c], sess[s].published)
        /\ sess[s].published \in Seq(Bytes)
    BY <2>4, Fields DEF IInv, OrderInv, DeliveredInOrder
  <2>6. InOrder(new, sess[s].published)
    BY <1>0, <2>1, <2>3, <2>5, OrderWhenRead DEF received, rest
  <2>7. QED BY <2>1, <2>3, <2>4, <2>6, OneStreamChanges
<1>4. CASE Close(c)
  <2>1. s \in Sessions
    BY <1>4 DEF Close, IInv, AttachInv
  <2>2. OutputKept
    <3>1. CASE sess' = sess
      BY <3>1 DEF OutputKept
    <3>2. CASE sess' = [sess EXCEPT ![s] = Detached(sess[s])]
      <4>1. Detached(sess[s]).history = sess[s].history
            /\ Detached(sess[s]).published = sess[s].published
        BY <2>1, Fields DEF IInv, Session, Detached
      <4>2. QED BY <2>1, <3>2, <4>1, FieldsKept
    <3>3. QED BY <1>4, <3>1, <3>2 DEF Close
  <2>3. QED BY <1>4, <1>c, <2>2 DEF Close
<1>5. QED BY <1>1, <1>2, <1>3, <1>4

(***************************************************************************)
(* The order of the output is an invariant, given the other one.           *)
(***************************************************************************)
LEMMA OrderPreserved == IInv /\ OrderInv /\ [Next]_vars => OrderInv'
<1> SUFFICES ASSUME IInv, OrderInv, [Next]_vars
             PROVE  OrderInv'
  OBVIOUS
<1>1. CASE \E r \in Runs : Exit(r) \/ Emit(r) \/ Spawn(r) \/ WatchStep(r)
  BY <1>1, QemuKeepsOrder
<1>2. CASE StartStep
  BY <1>2, StartKeepsOrder
<1>3. CASE \E s \in Sessions : RunStep(s)
  BY <1>3, RunKeepsOrder, PublishKeepsOrder
<1>4. CASE \E c \in Clients :
             LookUp(c) \/ Attach(c) \/ Receive(c) \/ Close(c)
  BY <1>4, ClientKeepsOrder
<1>5. CASE HubClose \/ HubCloseSession \/ Restart
  BY <1>5, ExitKeepsOrder
<1>6. CASE UNCHANGED vars
  <2>1. sess' = sess /\ client' = client
    BY <1>6 DEF vars
  <2>2. QED BY <2>1, OrderKept DEF OutputKept, StreamsKept
<1>7. QED BY <1>1, <1>2, <1>3, <1>4, <1>5, <1>6 DEF Next

(***************************************************************************)
(* What a client has read and what is queued for it is one stretch of what *)
(* its session published, without a gap or a repetition, and it reaches to *)
(* the latest output as long as its channel is open: whatever order        *)
(* session.publish, Hub.Attach, Stream.Read and the ways a session is      *)
(* closed come in (hub.go).                                                *)
(***************************************************************************)
THEOREM OutputArrivesInOrder == Spec => []DeliveredInOrder
<1>1. Init => OrderInv
  <2> SUFFICES ASSUME Init PROVE OrderInv
    OBVIOUS
  <2>1. \A s \in Sessions : IsLastOf(sess[s].history, sess[s].published)
    <3>1. <<>> \in Seq(Bytes) /\ Len(<<>>) = 0
      OBVIOUS
    <3>2. SubSeq(<<>>, Len(<<>>) - Len(<<>>) + 1, Len(<<>>)) = <<>>
      BY <3>1, SubSeqEmpty
    <3>3. IsLastOf(<<>>, <<>>)
      BY <3>1, <3>2 DEF IsLastOf
    <3>4. QED BY <3>3 DEF Init, NewSession
  <2>2. \A c \in Clients : client[c] = NewClient
    BY DEF Init
  <2>3. QED BY <2>1, <2>2 DEF OrderInv, DeliveredInOrder, NewClient
<1>2. OrderInv => DeliveredInOrder
  BY DEF OrderInv
<1>3. QED
  BY <1>1, <1>2, OrderPreserved, InvariantHolds, PTL DEF Spec

-----------------------------------------------------------------------------
(***************************************************************************)
(* The reader of a stopped session.  What it reads from is what clients    *)
(* write to, so that close takes both away from it.                        *)
(***************************************************************************)
SameConnection(session) ==
    session.pc \in {"read", "publish"} => session.conn = session.upstream

ReaderInv == \A s \in Sessions : SameConnection(sess[s])

(***************************************************************************)
(* Whether the goroutine of session.run has a step to take: Read returns,  *)
(* the publish, lostUpstream and setUpstream sections only need the mutex, *)
(* and dialUntil ends when somebody listens or the session is stopped.     *)
(***************************************************************************)
HasStep(s) ==
    \/ /\ sess[s].pc = "read"
       /\ \/ sess[s].conn = None
          \/ pending[sess[s].conn] # <<>>
          \/ proc[sess[s].conn] = "dead"
    \/ sess[s].pc \in {"publish", "lost", "set"}
    \/ sess[s].pc = "dial" /\ (Listening(path) \/ sess[s].stop)

\* Between close and the end of the goroutine.
Ending(s) == /\ sess[s].stop /\ ~Closing(s)
             /\ sess[s].pc \notin {"new", "done"}

StepsLeft(s) ==
    CASE sess[s].pc = "publish" -> 3
      [] sess[s].pc = "read" -> 2
      [] sess[s].pc = "dial" -> 2
      [] sess[s].pc \in {"lost", "set"} -> 1
      [] OTHER -> 0

LEMMA ClosedConnection ==
    ASSUME TypeOK, ReaderInv, NEW s \in Sessions, CloseLocked(s)
    PROVE  ReaderInv'
<1>1. /\ sess \in [Sessions -> Session]
      /\ sess' = [sess EXCEPT ![s] =
                    [Detached(sess[s]) EXCEPT
                        !.upstream = None,
                        !.conn = IF sess[s].upstream = None
                                 THEN sess[s].conn ELSE None]]
  BY DEF TypeOK, CloseLocked
<1>2. /\ sess'[s].pc = sess[s].pc
      /\ sess'[s].upstream = None
      /\ sess'[s].conn = IF sess[s].upstream = None
                         THEN sess[s].conn ELSE None
  BY <1>1 DEF Session, Detached
<1>3. \A t \in Sessions \ {s} : sess'[t] = sess[t]
  BY <1>1
<1>4. SameConnection(sess[s])
  BY DEF ReaderInv
<1>5. SameConnection(sess'[s])
  BY <1>2, <1>4 DEF SameConnection
<1>6. QED BY <1>3, <1>5 DEF ReaderInv

LEMMA FieldChanges ==
    ASSUME ReaderInv,
           \A t \in Sessions :
              \/ sess'[t] = sess[t]
              \/ sess'[t].pc \notin {"read", "publish"}
              \/ sess'[t].conn = sess'[t].upstream
              \/ /\ sess'[t].pc = sess[t].pc
                 /\ sess'[t].conn = sess[t].conn
                 /\ sess'[t].upstream = sess[t].upstream
    PROVE  ReaderInv'
BY DEF ReaderInv, SameConnection

LEMMA OnlyStopped ==
    ASSUME sess \in [Sessions -> Session], ReaderInv, NEW s, CloseStop(s)
    PROVE  ReaderInv'
<1>1. ASSUME NEW t \in Sessions
      PROVE  /\ sess'[t].pc = sess[t].pc
             /\ sess'[t].conn = sess[t].conn
             /\ sess'[t].upstream = sess[t].upstream
  <2>1. sess'[t] = IF t = s THEN [sess[t] EXCEPT !.stop = TRUE] ELSE sess[t]
    BY DEF CloseStop
  <2>2. sess[t] \in Session
    OBVIOUS
  <2>3. QED BY <2>1, <2>2 DEF Session
<1>2. QED BY <1>1, FieldChanges

LEMMA ReaderKeepsConnection ==
    ASSUME IInv, ReaderInv, NEW s \in Sessions, RunStep(s)
    PROVE  ReaderInv'
<1>0. sess \in [Sessions -> Session]
  BY DEF IInv, TypeOK
<1>1. sess[s].pc \in {"read", "publish"} => sess[s].conn = sess[s].upstream
  BY DEF ReaderInv, SameConnection
<1>2. CASE Read(s)
  <2>1. \A t \in Sessions \ {s} : sess'[t] = sess[t]
    BY <1>0, <1>2 DEF Read
  <2>2. sess'[s].conn = sess'[s].upstream
    BY <1>0, <1>1, <1>2 DEF Read, Session
  <2>3. QED BY <2>1, <2>2, FieldChanges
<1>3. CASE ReadFails(s)
  <2>1. \A t \in Sessions \ {s} : sess'[t] = sess[t]
    BY <1>0, <1>3 DEF ReadFails
  <2>2. sess'[s].pc = "lost"
    BY <1>0, <1>3 DEF ReadFails, Session
  <2>3. QED BY <2>1, <2>2, FieldChanges

<1>4. CASE Publish(s)
  <2> DEFINE old == sess[s]
             new == [old EXCEPT !.history = LastOf(HistoryLimit, @ \o old.buf),
                                !.published = @ \o old.buf,
                                !.buf = <<>>, !.pc = "read"]
  <2>1. /\ new.conn = old.conn /\ new.upstream = old.upstream
        /\ Detached(new).conn = old.conn
        /\ Detached(new).upstream = old.upstream
    BY <1>0 DEF Session, Detached
  <2>2. /\ old.pc = "publish"
        /\ \/ sess' = [sess EXCEPT ![s] = new]
           \/ sess' = [sess EXCEPT ![s] = Detached(new)]
    BY <1>4 DEF Publish
  <2> HIDE DEF new
  <2>3. /\ sess'[s].conn = old.conn /\ sess'[s].upstream = old.upstream
        /\ \A t \in Sessions \ {s} : sess'[t] = sess[t]
    BY <1>0, <2>1, <2>2
  <2>4. QED BY <1>1, <2>2, <2>3, FieldChanges
<1>5. CASE LostUpstream(s)
  <2>1. sess'[s].pc \notin {"read", "publish"}
    BY <1>0, <1>5 DEF LostUpstream, Session, Detached
  <2>2. \A t \in Sessions \ {s} : sess'[t] = sess[t]
    BY <1>0, <1>5 DEF LostUpstream
  <2>3. QED BY <2>1, <2>2, FieldChanges
<1>6. CASE Redial(s)
  BY <1>0, <1>6, FieldChanges DEF Redial, Session
<1>7. CASE SetUpstream(s)
  <2>1. \/ sess' = [sess EXCEPT ![s].upstream = sess[s].conn, ![s].pc = "read"]
        \/ sess' = [sess EXCEPT ![s].conn = None, ![s].pc = "done"]
    BY <1>7 DEF SetUpstream
  <2>2. \A t \in Sessions \ {s} : sess'[t] = sess[t]
    BY <1>0, <2>1
  <2>3. sess'[s].conn = sess'[s].upstream \/ sess'[s].pc = "done"
    BY <1>0, <2>1 DEF Session
  <2>4. QED BY <2>2, <2>3, FieldChanges
<1>8. QED BY <1>2, <1>3, <1>4, <1>5, <1>6, <1>7 DEF RunStep

LEMMA StartKeepsConnection ==
    ASSUME IInv, ReaderInv, StartStep
    PROVE  ReaderInv'
<1> DEFINE s == starter.session
<1>0. sess \in [Sessions -> Session] /\ TypeOK
  BY DEF IInv, TypeOK
<1>1. starter.pc \in {"dial", "set", "lock", "delete"} => s \in Sessions
  BY DEF IInv, StarterInv
<1>2. CASE HubStart
  <2>1. CASE UNCHANGED sess
    BY <2>1, FieldChanges
  <2>2. ASSUME NEW t \in Sessions,
               sess' = [sess EXCEPT ![t].pc = "new",
                                    ![t].run = starter.run,
                                    ![t].adopted = starter.boot]
        PROVE  ReaderInv'
    <3>1. sess'[t].pc = "new"
      BY <1>0, <2>2 DEF Session
    <3>2. \A q \in Sessions \ {t} : sess'[q] = sess[q]
      BY <1>0, <2>2
    <3>3. QED BY <3>1, <3>2, FieldChanges
  <2>3. \/ UNCHANGED sess
        \/ \E t \in Sessions :
              sess' = [sess EXCEPT ![t].pc = "new",
                                   ![t].run = starter.run,
                                   ![t].adopted = starter.boot]
    BY <1>2, Zenon DEF HubStart
  <2>4. QED BY <2>1, <2>2, <2>3
<1>3. CASE StartDial
  <2>1. CASE UNCHANGED sess
    BY <2>1, FieldChanges
  <2>2. CASE CloseStop(s)
    BY <1>0, <2>2, OnlyStopped
  <2>3. QED BY <1>3, <2>1, <2>2 DEF StartDial
<1>4. CASE StartUpstream
  <2>1. \/ sess' = sess
        \/ sess' = [sess EXCEPT ![s].upstream = starter.conn,
                                ![s].conn = starter.conn,
                                ![s].pc = "read"]
    BY <1>4 DEF StartUpstream
  <2>2. \A t \in Sessions \ {s} : sess'[t] = sess[t]
    BY <1>0, <2>1
  <2>3. sess' = sess \/ sess'[s].conn = sess'[s].upstream
    BY <1>0, <1>1, <1>4, <2>1 DEF Session, StartUpstream
  <2>4. QED BY <2>2, <2>3, FieldChanges
<1>5. CASE StartFailClose
  BY <1>0, <1>1, <1>5, ClosedConnection DEF StartFailClose
<1>6. CASE StartFailDelete
  BY <1>0, <1>1, <1>6, FieldChanges DEF StartFailDelete, Session
<1>7. QED BY <1>2, <1>3, <1>4, <1>5, <1>6 DEF StartStep

LEMMA ConnectionKept ==
    ASSUME IInv, ReaderInv, [Next]_vars
    PROVE  ReaderInv'
<1>0. sess \in [Sessions -> Session] /\ TypeOK
  BY DEF IInv, TypeOK
<1>1. CASE UNCHANGED sess
  BY <1>1, FieldChanges
<1>2. ASSUME NEW r \in Runs, Exit(r) \/ Emit(r) \/ Spawn(r) \/ WatchStep(r)
      PROVE  ReaderInv'
  <2>1. CASE Exit(r) \/ Emit(r) \/ Spawn(r) \/ RemoveSockets(r)
    BY <1>1, <2>1 DEF Exit, Emit, Spawn, RemoveSockets
  <2>2. CASE Stop(r)
    <3>1. CASE UNCHANGED sess
      BY <1>1, <3>1
    <3>2. CASE CloseStop(hub)
      BY <1>0, <3>2, OnlyStopped
    <3>3. QED BY <2>2, <3>1, <3>2 DEF Stop
  <2>3. CASE StopClose(r)
    <3>1. watch[r].session \in Sessions
      BY <2>3 DEF StopClose, IInv, StopperInv
    <3>2. QED BY <1>0, <2>3, <3>1, ClosedConnection DEF StopClose
  <2>4. QED BY <1>2, <2>1, <2>2, <2>3 DEF WatchStep
<1>3. ASSUME NEW c \in Clients,
             LookUp(c) \/ Attach(c) \/ Receive(c) \/ Close(c)
      PROVE  ReaderInv'
  <2>1. CASE LookUp(c) \/ Receive(c)
    BY <1>1, <2>1 DEF LookUp, Receive
  <2>2. CASE Attach(c)
    <3> DEFINE s == client[c].session
    <3>1. sess' = sess \/ sess' = [sess EXCEPT ![s].attached = c]
      BY <2>2 DEF Attach
    <3>2. CASE sess' = [sess EXCEPT ![s].attached = c]
      <4>1. ASSUME NEW t \in Sessions
            PROVE  /\ sess'[t].pc = sess[t].pc
                   /\ sess'[t].conn = sess[t].conn
                   /\ sess'[t].upstream = sess[t].upstream
        <5>1. sess'[t] = IF t = s THEN [sess[t] EXCEPT !.attached = c]
                                  ELSE sess[t]
          BY <1>0, <3>2
        <5>2. sess[t] \in Session
          BY <1>0
        <5>3. QED BY <5>1, <5>2 DEF Session
      <4>2. QED BY <4>1, FieldChanges
    <3>3. QED BY <1>1, <3>1, <3>2
  <2>3. CASE Close(c)
    BY <1>0, <2>3, FieldChanges DEF Close, Detached, Session
  <2>4. QED BY <1>3, <2>1, <2>2, <2>3
<1>4. CASE HubClose
  BY <1>0, <1>4, OnlyStopped DEF HubClose
<1>5. CASE HubCloseSession
  <2>1. closer.session \in Sessions
    BY <1>5 DEF HubCloseSession, IInv, StopperInv
  <2>2. QED BY <1>0, <1>5, <2>1, ClosedConnection DEF HubCloseSession
<1>6. CASE Restart
  <2>1. ASSUME NEW t \in Sessions
        PROVE  sess'[t] = sess[t] \/ sess'[t].pc = "done"
    <3> DEFINE old == sess[t]
               new == [old EXCEPT !.stop = TRUE, !.upstream = None,
                          !.conn = None, !.attached = NoClient, !.pc = "done"]
    <3>1. sess'[t] = IF old.pc = "unused" THEN old ELSE new
      BY <1>6, Zenon DEF Restart
    <3>2. old \in Session
      BY <1>0
    <3>3. new.pc = "done"
      BY <3>2 DEF Session
    <3> HIDE DEF new
    <3>4. QED BY <3>1, <3>3


  <2>2. QED BY <2>1, FieldChanges
<1>7. QED
  BY <1>1, <1>2, <1>3, <1>4, <1>5, <1>6, StartKeepsConnection,
     ReaderKeepsConnection DEF Next, vars

(***************************************************************************)
(* The goroutine that drains a guest (session.run) is never stuck: it can  *)
(* always publish what it has read, and from the moment close has returned *)
(* there is always a step it can take until it is done, also while it is   *)
(* reconnecting (hub.go, run and dialUntil).                               *)
(***************************************************************************)
THEOREM ReaderIsNeverStuck ==
    Spec => [](\A s \in Sessions :
                  sess[s].pc = "publish" \/ Ending(s) => HasStep(s))
<1>1. Init => ReaderInv
  BY DEF Init, NewSession, ReaderInv, SameConnection
<1>2. IInv /\ ReaderInv /\ [Next]_vars => ReaderInv'
  BY ConnectionKept
<1>3. IInv /\ ReaderInv =>
        \A s \in Sessions : sess[s].pc = "publish" \/ Ending(s) => HasStep(s)
  <2>1. SUFFICES ASSUME IInv, ReaderInv, NEW s \in Sessions, Ending(s)
                 PROVE  HasStep(s)
    BY DEF HasStep
  <2>2. sess[s].upstream = None
    BY <2>1 DEF Ending, IInv, StoppedHoldsNothing
  <2>3. sess[s].pc = "read" => sess[s].conn = None
    BY <2>1, <2>2 DEF ReaderInv, SameConnection
  <2>4. sess[s].pc \in {"read", "publish", "lost", "dial", "set"}
    <3>1. sess[s].pc # "unused"
      BY <2>1 DEF Ending, IInv, AttachInv, NewSession
    <3>2. sess[s] \in Session
      BY <2>1, Fields DEF IInv
    <3>3. QED BY <2>1, <3>1, <3>2 DEF Ending, Session
  <2>5. QED BY <2>1, <2>3, <2>4 DEF HasStep, Ending
<1>4. QED BY <1>1, <1>2, <1>3, InvariantHolds, PTL DEF Spec

(***************************************************************************)
(* And it is done after at most three of its steps: each brings a stopped  *)
(* session's goroutine closer to its end, it neither reads nor reconnects  *)
(* again (hub.go, run).                                                    *)
(***************************************************************************)
THEOREM ReaderComesToItsEnd ==
    Spec => [][\A s \in Sessions :
                  Ending(s) /\ RunStep(s) => StepsLeft(s)' < StepsLeft(s)]_vars
<1>1. Init => ReaderInv
  BY DEF Init, NewSession, ReaderInv, SameConnection
<1>2. IInv /\ ReaderInv /\ [Next]_vars => ReaderInv'
  BY ConnectionKept
<1>3. IInv /\ ReaderInv /\ [Next]_vars =>
        [\A s \in Sessions :
            Ending(s) /\ RunStep(s) => StepsLeft(s)' < StepsLeft(s)]_vars
  <2>1. SUFFICES ASSUME IInv, ReaderInv, NEW s \in Sessions, Ending(s),
                        RunStep(s)
                 PROVE  StepsLeft(s)' < StepsLeft(s)
    OBVIOUS
  <2>2. sess[s].upstream = None /\ sess[s].stop
    BY <2>1 DEF Ending, IInv, StoppedHoldsNothing
  <2>3. sess[s].pc = "read" => sess[s].conn = None
    BY <2>1, <2>2 DEF ReaderInv, SameConnection
  <2>4. sess \in [Sessions -> Session]
    BY <2>1 DEF IInv, TypeOK
  <2>5. ~Read(s)
    BY <2>3 DEF Read
  <2>6. CASE ReadFails(s)
    <3>1. sess[s].pc = "read" /\ sess'[s].pc = "lost"
      BY <2>4, <2>6 DEF ReadFails, Session
    <3>2. QED BY <3>1 DEF StepsLeft
  <2>7. CASE Publish(s)
    <3>1. sess[s].pc = "publish" /\ sess'[s].pc = "read"
      BY <2>4, <2>7 DEF Publish, Session, Detached
    <3>2. QED BY <3>1 DEF StepsLeft
  <2>8. CASE LostUpstream(s)
    <3>1. sess[s].pc = "lost" /\ sess'[s].pc = "done"
      BY <2>2, <2>4, <2>8 DEF LostUpstream, Session, Detached
    <3>2. QED BY <3>1 DEF StepsLeft
  <2>9. CASE Redial(s)
    <3>1. sess[s].pc = "dial" /\ sess'[s].pc \in {"set", "done"}
      BY <2>4, <2>9 DEF Redial, Session
    <3>2. QED BY <3>1 DEF StepsLeft
  <2>10. CASE SetUpstream(s)
    <3>1. sess[s].pc = "set" /\ sess'[s].pc = "done"
      BY <2>2, <2>4, <2>10 DEF SetUpstream, CanSetUpstream, Session
    <3>2. QED BY <3>1 DEF StepsLeft
  <2>11. QED BY <2>1, <2>5, <2>6, <2>7, <2>8, <2>9, <2>10 DEF RunStep
<1>4. QED BY <1>1, <1>2, <1>3, InvariantHolds, PTL DEF Spec
=============================================================================
