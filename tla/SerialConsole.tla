--------------------------- MODULE SerialConsole ---------------------------
(***************************************************************************)
(* The serial console hub (internal/serialconsole/hub.go) of one virtual   *)
(* machine, with the callers that drive it: Hypervisor.Start and its       *)
(* watcher goroutine (internal/qemu/qemu.go), the start-up loop that       *)
(* adopts running guests (internal/server/server.go) and the HTTP handler  *)
(* that relays a client (internal/api/console.go).                         *)
(*                                                                         *)
(* Sessions of different machines share only the map and its mutex, so one *)
(* machine is modelled: hub is the map entry of its identifier.  A step is *)
(* what happens under one hold of Hub.mu or session.mu, or one blocking    *)
(* call.  A connection is named by the QEMU process at its other end.      *)
(* The output of the guest is a sequence of bytes numbered in the order    *)
(* in which they are emitted.                                              *)
(***************************************************************************)
EXTENDS Naturals, Sequences

CONSTANTS
    Runs,         \* QEMU processes of the machine, 1..n in starting order
    Sessions,     \* session objects, 1..n in order of creation
    Clients,      \* console requests; each attaches at most once
    NoClient,     \* a nil attachment
    HistoryLimit, \* historyBytes
    QueueLimit,   \* capacity of an attachment's output channel
    MaxOutput,    \* bound on the bytes guests emit
    MaxRestarts   \* bound on restarts of App Runner

None == 0         \* a nil session or connection, a missing socket file
MaybeRun == Runs \cup {None}
MaybeSession == Sessions \cup {None}
Bytes == 1..MaxOutput

ASSUME ConsoleConstants ==
    /\ Runs \subseteq Nat \ {0}
    /\ Sessions \subseteq Nat \ {0}
    /\ NoClient \notin Clients
    /\ HistoryLimit \in Nat \ {0}
    /\ QueueLimit \in Nat \ {0}
    /\ MaxOutput \in Nat
    /\ MaxRestarts \in Nat

VARIABLES
    hub,      \* Hub.sessions[id]
    sess,     \* the session objects and their run goroutines
    client,   \* the requests, their Streams and attachments
    starter,  \* the goroutine inside Hypervisor.Start or the start-up loop
    watch,    \* the goroutine of Hypervisor.Start that waits for a process
    closer,   \* the goroutine that ends App Runner, inside Hub.Close
    proc,     \* the QEMU processes
    path,     \* the process whose socket lies at the serial socket path
    pending,  \* bytes a process has sent that nobody has read yet
    emitter,  \* the process that emitted each byte
    overlap,  \* runs started while something of an earlier one was left
    restarts  \* restarts of App Runner so far

qemu == <<proc, path, pending>>
aux == <<emitter, overlap, restarts>>
vars == <<hub, sess, client, starter, watch, closer, qemu, aux>>

(***************************************************************************)
(* stop: the stop channel is closed.  pc: where the goroutine of           *)
(* session.run is; "new" before Start has launched it.  conn: its open     *)
(* connection.  buf: what the last Read returned.  published: everything   *)
(* ever passed to publish.  run: the process Start was called for.         *)
(* adopted: created by the start-up loop, so no watcher will ever stop it. *)
(***************************************************************************)
Session == [stop : BOOLEAN, upstream : MaybeRun, conn : MaybeRun,
            attached : Clients \cup {NoClient},
            history : Seq(Bytes), published : Seq(Bytes), buf : Seq(Bytes),
            pc : {"unused", "new", "read", "publish", "lost", "dial",
                  "set", "done"},
            run : MaybeRun, adopted : BOOLEAN]

(***************************************************************************)
(* What is sent on an output channel; end is history: how much the session *)
(* had published with it.                                                  *)
(***************************************************************************)
Chunk == [bytes : Seq(Bytes), end : Nat]
ChunkOf(bytes, published) == [bytes |-> bytes, end |-> Len(published)]

(***************************************************************************)
(* open: the output channel is not closed.  from: length of what the       *)
(* session had published before the first byte of the stream.              *)
(***************************************************************************)
Client == [pc : {"new", "found", "attached", "closed"},
           session : MaybeSession, open : BOOLEAN, queue : Seq(Chunk),
           received : Seq(Bytes), from : Nat]

StarterPC == {"idle", "hub", "dial", "set", "lock", "delete"}
StopperPC == {"none", "waiting", "lock", "sockets", "done"}

TypeOK ==
    /\ hub \in MaybeSession
    /\ sess \in [Sessions -> Session]
    /\ client \in [Clients -> Client]
    /\ starter \in [pc : StarterPC, run : MaybeRun, session : MaybeSession,
                    conn : MaybeRun, boot : BOOLEAN]
    /\ watch \in [Runs -> [pc : StopperPC, session : MaybeSession]]
    /\ closer \in [pc : StopperPC, session : MaybeSession]
    /\ proc \in [Runs -> {"unused", "alive", "dead"}]
    /\ path \in MaybeRun
    /\ pending \in [Runs -> Seq(Bytes)]
    /\ emitter \in Seq(Runs) /\ Len(emitter) <= MaxOutput
    /\ overlap \subseteq Runs
    /\ restarts \in 0..MaxRestarts

NewSession == [stop |-> FALSE, upstream |-> None, conn |-> None,
               attached |-> NoClient, history |-> <<>>, published |-> <<>>,
               buf |-> <<>>, pc |-> "unused", run |-> None,
               adopted |-> FALSE]
NewClient == [pc |-> "new", session |-> None, open |-> FALSE,
              queue |-> <<>>, received |-> <<>>, from |-> 0]
ClosedClient == [NewClient EXCEPT !.pc = "closed"]
Idle == [pc |-> "idle", run |-> None, session |-> None, conn |-> None,
         boot |-> FALSE]
NoStopper == [pc |-> "none", session |-> None]

Init ==
    /\ hub = None
    /\ sess = [s \in Sessions |-> NewSession]
    /\ client = [c \in Clients |-> NewClient]
    /\ starter = Idle
    /\ watch = [r \in Runs |-> NoStopper]
    /\ closer = NoStopper
    /\ proc = [r \in Runs |-> "unused"]
    /\ path = None
    /\ pending = [r \in Runs |-> <<>>]
    /\ emitter = <<>>
    /\ overlap = {}
    /\ restarts = 0
-----------------------------------------------------------------------------
(***************************************************************************)
(* Critical sections of session.mu, as functions of the session and of the *)
(* clients.                                                                *)
(***************************************************************************)

(***************************************************************************)
(* detachLocked: the attachment is forgotten and its channel closed.       *)
(***************************************************************************)
Detached(session) == [session EXCEPT !.attached = NoClient]
ChannelClosed(clients, session) ==
    [c \in Clients |->
        IF c = session.attached THEN [clients[c] EXCEPT !.open = FALSE]
                                ELSE clients[c]]

(***************************************************************************)
(* close, second half: the upstream connection is closed under the reader  *)
(* and the client is detached.  The first half closes the stop channel     *)
(* before the mutex is taken; it is part of the step that decides to close *)
(* the session, which no other goroutine can tell apart.                   *)
(***************************************************************************)
CloseStop(s) == sess' = [sess EXCEPT ![s].stop = TRUE]

CloseLocked(s) ==
    LET old == sess[s]
    IN  /\ sess' = [sess EXCEPT ![s] =
                        [Detached(old) EXCEPT
                            !.upstream = None,
                            !.conn = IF old.upstream = None
                                     THEN old.conn ELSE None]]
        /\ client' = ChannelClosed(client, old)
        /\ pending' = IF old.upstream = None THEN pending
                      ELSE [pending EXCEPT ![old.upstream] = <<>>]

\* Mutant: setUpstream does not look at the stop channel.
CanSetUpstreamAlways(s) == TRUE

(***************************************************************************)
(* setUpstream refuses a session whose stop channel is closed.             *)
(***************************************************************************)
CanSetUpstream(s) == ~sess[s].stop

LastOf(limit, bytes) ==
    IF Len(bytes) <= limit THEN bytes
    ELSE SubSeq(bytes, Len(bytes) - limit + 1, Len(bytes))
-----------------------------------------------------------------------------
(***************************************************************************)
(* QEMU and its guest, as far as the hub can tell (external).  The serial  *)
(* chardev is a listening socket with one connection, and QEMU waits for   *)
(* it before the guest runs; while nobody is connected output is lost.     *)
(* That the socket appears only some time after the process does is        *)
(* covered by attempts to connect that fail for no reason.                 *)
(***************************************************************************)
Listening(r) == r # None /\ proc[r] = "alive"

Exit(r) ==
    /\ proc[r] = "alive"
    /\ proc' = [proc EXCEPT ![r] = "dead"]
    /\ UNCHANGED <<hub, sess, client, starter, watch, closer, path, pending,
                   aux>>

Emit(r) ==
    /\ proc[r] = "alive"
    /\ \/ \E s \in Sessions : sess[s].conn = r
       \/ starter.conn = r
    /\ Len(emitter) < MaxOutput
    /\ emitter' = Append(emitter, r)
    /\ pending' = [pending EXCEPT ![r] = Append(@, Len(emitter) + 1)]
    /\ UNCHANGED <<hub, sess, client, starter, watch, closer, proc, path,
                   overlap, restarts>>
-----------------------------------------------------------------------------
(***************************************************************************)
(* Hypervisor.Start, which the manager calls with its mutex held once no   *)
(* process of the machine is alive.  The watcher of the previous process   *)
(* may still be at work.                                                   *)
(***************************************************************************)
Unfinished(r) == watch[r].pc \notin {"none", "done"}

Spawn(r) ==
    /\ starter.pc = "idle"
    /\ closer = NoStopper
    /\ proc[r] = "unused"
    /\ \A q \in Runs : q < r => proc[q] = "dead"
    /\ path' = r
    /\ proc' = [proc EXCEPT ![r] = "alive"]
    /\ starter' = [Idle EXCEPT !.pc = "hub", !.run = r]
    /\ overlap' = IF \/ \E q \in Runs : Unfinished(q)
                     \/ hub # None /\ sess[hub].adopted
                  THEN overlap \cup {r} ELSE overlap
    /\ UNCHANGED <<hub, sess, client, watch, closer, pending, emitter,
                   restarts>>

(***************************************************************************)
(* Start returns to its caller: Hypervisor.Start launches the watcher, the *)
(* start-up loop does not.                                                 *)
(***************************************************************************)
StartReturns ==
    /\ starter' = Idle
    /\ watch' = IF starter.boot THEN watch
                ELSE [watch EXCEPT ![starter.run].pc = "waiting"]

(***************************************************************************)
(* Hub.Start under Hub.mu: a session that is in the map is taken as it is. *)
(***************************************************************************)
HubStart ==
    /\ starter.pc = "hub"
    /\ \/ /\ hub # None
          /\ StartReturns
          /\ UNCHANGED <<hub, sess>>
       \/ /\ hub = None
          /\ \E s \in Sessions :
                /\ sess[s].pc = "unused"
                /\ \A q \in Sessions : q < s => sess[q].pc # "unused"
                /\ hub' = s
                /\ sess' = [sess EXCEPT ![s].pc = "new",
                                        ![s].run = starter.run,
                                        ![s].adopted = starter.boot]
                /\ starter' = [starter EXCEPT !.pc = "dial", !.session = s]
          /\ UNCHANGED watch
    /\ UNCHANGED <<client, qemu, closer, aux>>

(***************************************************************************)
(* dialUntil: an attempt succeeds when a process listens at the path; the  *)
(* deadline, or the stop channel after a failed attempt, ends the loop.    *)
(***************************************************************************)
StartDial ==
    /\ starter.pc = "dial"
    /\ \/ /\ Listening(path)
          /\ starter' = [starter EXCEPT !.pc = "set", !.conn = path]
          /\ UNCHANGED sess
       \/ /\ CloseStop(starter.session)
          /\ starter' = [starter EXCEPT !.pc = "lock"]
    /\ UNCHANGED <<hub, client, watch, qemu, closer, aux>>

StartUpstream ==
    LET s == starter.session
    IN  /\ starter.pc = "set"
        /\ \/ /\ CanSetUpstream(s)
              /\ sess' = [sess EXCEPT ![s].upstream = starter.conn,
                                      ![s].conn = starter.conn,
                                      ![s].pc = "read"]
              /\ StartReturns
              /\ UNCHANGED pending
           \/ /\ ~CanSetUpstream(s)
              /\ starter' = [starter EXCEPT !.pc = "delete", !.conn = None]
              /\ pending' = [pending EXCEPT ![starter.conn] = <<>>]
              /\ UNCHANGED <<sess, watch>>
        /\ UNCHANGED <<hub, client, proc, path, closer, aux>>

(***************************************************************************)
(* The failing half of Hub.Start: close the session unless somebody else   *)
(* has, then forget it if the map still holds it.  Hypervisor.Start then   *)
(* kills and reaps QEMU and removes the sockets.                           *)
(***************************************************************************)
StartFailClose ==
    /\ starter.pc = "lock"
    /\ CloseLocked(starter.session)
    /\ starter' = [starter EXCEPT !.pc = "delete"]
    /\ UNCHANGED <<hub, watch, proc, path, closer, aux>>

StartFailDelete ==
    /\ starter.pc = "delete"
    /\ hub' = IF hub = starter.session THEN None ELSE hub
    /\ sess' = [sess EXCEPT ![starter.session].pc = "done"]
    /\ starter' = Idle
    /\ IF starter.boot THEN UNCHANGED <<proc, path>>
       ELSE /\ proc' = [proc EXCEPT ![starter.run] = "dead"]
            /\ path' = None
    /\ UNCHANGED <<client, watch, pending, closer, aux>>

StartStep == \/ HubStart \/ StartDial \/ StartUpstream \/ StartFailClose
             \/ StartFailDelete
-----------------------------------------------------------------------------
\* Mutant: Hub.Stop closes the session and leaves it in the map.
StopKeepingEntry(r) ==
    /\ watch[r].pc = "waiting"
    /\ proc[r] = "dead"
    /\ watch' = [watch EXCEPT ![r] =
                    [pc |-> IF hub = None THEN "sockets" ELSE "lock",
                     session |-> hub]]
    /\ IF hub = None THEN UNCHANGED sess ELSE CloseStop(hub)
    /\ UNCHANGED <<hub, client, starter, closer, qemu, aux>>

(***************************************************************************)
(* The watcher: Wait returns, Hub.Stop forgets whatever session the map    *)
(* holds now and closes it, the sockets at the paths are removed whoever   *)
(* they belong to, and onExit is called.                                   *)
(***************************************************************************)
Stop(r) ==
    /\ watch[r].pc = "waiting"
    /\ proc[r] = "dead"
    /\ hub' = None
    /\ watch' = [watch EXCEPT ![r] =
                    [pc |-> IF hub = None THEN "sockets" ELSE "lock",
                     session |-> hub]]
    /\ IF hub = None THEN UNCHANGED sess ELSE CloseStop(hub)
    /\ UNCHANGED <<client, starter, qemu, closer, aux>>

StopClose(r) ==
    /\ watch[r].pc = "lock"
    /\ CloseLocked(watch[r].session)
    /\ watch' = [watch EXCEPT ![r] = [pc |-> "sockets", session |-> None]]
    /\ UNCHANGED <<hub, starter, proc, path, closer, aux>>

RemoveSockets(r) ==
    /\ watch[r].pc = "sockets"
    /\ path' = None
    /\ watch' = [watch EXCEPT ![r].pc = "done"]
    /\ UNCHANGED <<hub, sess, client, starter, proc, pending, closer, aux>>

WatchStep(r) ==
    Stop(r) \/ StopClose(r) \/ RemoveSockets(r)
-----------------------------------------------------------------------------
(***************************************************************************)
(* The goroutine of session.run.  Read returns all that has arrived, also  *)
(* after the process died, and fails once there is nothing left or the     *)
(* connection was closed under it.                                         *)
(***************************************************************************)
Read(s) ==
    LET r == sess[s].conn
    IN  /\ sess[s].pc = "read"
        /\ r # None
        /\ pending[r] # <<>>
        /\ sess' = [sess EXCEPT ![s].buf = pending[r], ![s].pc = "publish"]
        /\ pending' = [pending EXCEPT ![r] = <<>>]
        /\ UNCHANGED <<hub, client, starter, watch, proc, path, closer, aux>>

ReadFails(s) ==
    LET r == sess[s].conn
    IN  /\ sess[s].pc = "read"
        /\ r # None => proc[r] = "dead" /\ pending[r] = <<>>
        /\ sess' = [sess EXCEPT ![s].conn = None, ![s].pc = "lost"]
        /\ UNCHANGED <<hub, client, starter, watch, qemu, closer, aux>>

\* Mutant: publish drops a chunk a full channel cannot take and goes on.
PublishDropping(s) ==
    LET old == sess[s]
        new == [old EXCEPT !.history = LastOf(HistoryLimit, @ \o old.buf),
                           !.published = @ \o old.buf,
                           !.buf = <<>>, !.pc = "read"]
    IN  /\ old.pc = "publish"
        /\ sess' = [sess EXCEPT ![s] = new]
        /\ client' = [c \in Clients |->
                IF c = old.attached /\ Len(client[c].queue) < QueueLimit
                THEN [client[c] EXCEPT
                        !.queue = Append(@, ChunkOf(old.buf, new.published))]
                ELSE client[c]]
        /\ UNCHANGED <<hub, starter, watch, closer, qemu, aux>>

\* Mutant: publish waits until the channel of the client has room.
PublishWaiting(s) ==
    /\ sess[s].attached # NoClient =>
           Len(client[sess[s].attached].queue) < QueueLimit
    /\ PublishDropping(s)

(***************************************************************************)
(* publish: the history keeps the last HistoryLimit bytes; a client whose  *)
(* channel is full is detached instead of waited for.                      *)
(***************************************************************************)
QueueFull(c) == Len(client[c].queue) >= QueueLimit

Publish(s) ==
    LET old == sess[s]
        new == [old EXCEPT !.history = LastOf(HistoryLimit, @ \o old.buf),
                           !.published = @ \o old.buf,
                           !.buf = <<>>, !.pc = "read"]
    IN  /\ old.pc = "publish"
        /\ \/ /\ old.attached = NoClient
              /\ sess' = [sess EXCEPT ![s] = new]
              /\ UNCHANGED client
           \/ /\ old.attached # NoClient
              /\ ~QueueFull(old.attached)
              /\ sess' = [sess EXCEPT ![s] = new]
              /\ client' = [client EXCEPT ![old.attached].queue =
                                Append(@, ChunkOf(old.buf, new.published))]
           \/ /\ old.attached # NoClient
              /\ QueueFull(old.attached)
              /\ sess' = [sess EXCEPT ![s] = Detached(new)]
              /\ client' = ChannelClosed(client, old)
        /\ UNCHANGED <<hub, starter, watch, qemu, closer, aux>>

(***************************************************************************)
(* lostUpstream, and the look at the stop channel after it.                *)
(***************************************************************************)
LostUpstream(s) ==
    /\ sess[s].pc = "lost"
    /\ sess' = [sess EXCEPT ![s] =
                    [Detached(sess[s]) EXCEPT
                        !.upstream = None,
                        !.pc = IF sess[s].stop THEN "done" ELSE "dial"]]
    /\ client' = ChannelClosed(client, sess[s])
    /\ UNCHANGED <<hub, starter, watch, qemu, closer, aux>>

(***************************************************************************)
(* Reconnecting: dialUntil is repeated until it succeeds or the session is *)
(* stopped.                                                                *)
(***************************************************************************)
Redial(s) ==
    /\ sess[s].pc = "dial"
    /\ \/ /\ Listening(path)
          /\ sess' = [sess EXCEPT ![s].conn = path, ![s].pc = "set"]
       \/ /\ sess[s].stop
          /\ sess' = [sess EXCEPT ![s].pc = "done"]
    /\ UNCHANGED <<hub, client, starter, watch, qemu, closer, aux>>

SetUpstream(s) ==
    LET r == sess[s].conn
    IN  /\ sess[s].pc = "set"
        /\ \/ /\ CanSetUpstream(s)
              /\ sess' = [sess EXCEPT ![s].upstream = r, ![s].pc = "read"]
              /\ UNCHANGED pending
           \/ /\ ~CanSetUpstream(s)
              /\ sess' = [sess EXCEPT ![s].conn = None, ![s].pc = "done"]
              /\ pending' = [pending EXCEPT ![r] = <<>>]
        /\ UNCHANGED <<hub, client, starter, watch, proc, path, closer, aux>>

RunStep(s) == \/ Read(s) \/ ReadFails(s) \/ Publish(s) \/ LostUpstream(s)
              \/ Redial(s) \/ SetUpstream(s)
-----------------------------------------------------------------------------
(***************************************************************************)
(* serialConsoleProxyHandler: ConsoleSocket, which needs the manager's     *)
(* mutex and an active machine, then Hub.Attach: the map under Hub.mu and, *)
(* later, session.attach under session.mu.                                 *)
(***************************************************************************)
LookUp(c) ==
    /\ client[c].pc = "new"
    /\ starter.pc = "idle"
    /\ closer = NoStopper
    /\ \E r \in Runs : proc[r] = "alive"
    /\ client' = [client EXCEPT ![c] =
                    IF hub = None THEN ClosedClient
                    ELSE [@ EXCEPT !.session = hub, !.pc = "found"]]
    /\ UNCHANGED <<hub, sess, starter, watch, qemu, closer, aux>>

CanAttach(session) == session.upstream # None /\ session.attached = NoClient

Attach(c) ==
    LET s == client[c].session
        history == sess[s].history
    IN  /\ client[c].pc = "found"
        /\ \/ /\ CanAttach(sess[s])
              /\ sess' = [sess EXCEPT ![s].attached = c]
              /\ client' = [client EXCEPT
                    ![c].pc = "attached",
                    ![c].open = TRUE,
                    ![c].from = Len(sess[s].published) - Len(history),
                    ![c].queue = IF history = <<>> THEN <<>>
                                 ELSE <<ChunkOf(history, sess[s].published)>>]
           \/ /\ ~CanAttach(sess[s])
              /\ client' = [client EXCEPT ![c] = ClosedClient]
              /\ UNCHANGED sess
        /\ UNCHANGED <<hub, starter, watch, qemu, closer, aux>>

(***************************************************************************)
(* relay copies the stream to the client: Stream.Read takes the next chunk *)
(* or, when the channel is closed and drained, reports the end.            *)
(***************************************************************************)
Receive(c) ==
    /\ client[c].pc = "attached"
    /\ client[c].queue # <<>>
    /\ client' = [client EXCEPT
                    ![c].received = @ \o Head(client[c].queue).bytes,
                    ![c].queue = Tail(@)]
    /\ UNCHANGED <<hub, sess, starter, watch, qemu, closer, aux>>

(***************************************************************************)
(* relay copies the client to the stream: Stream.Write looks only at its   *)
(* own closed flag, session.write at the current upstream, so this is the  *)
(* guest that what a client types now would reach.                         *)
(***************************************************************************)
WritesTo(c) ==
    IF client[c].pc = "attached" THEN sess[client[c].session].upstream
                                 ELSE None

(***************************************************************************)
(* The relay ends at the end of the stream or when the client goes away;   *)
(* Stream.Close detaches the stream if it still is the attachment of the   *)
(* session.                                                                *)
(***************************************************************************)
Close(c) ==
    LET s == client[c].session
    IN  /\ client[c].pc = "attached"
        /\ sess' = IF sess[s].attached = c
                   THEN [sess EXCEPT ![s] = Detached(@)] ELSE sess
        /\ client' = [client EXCEPT ![c] = ClosedClient]
        /\ UNCHANGED <<hub, starter, watch, qemu, closer, aux>>
-----------------------------------------------------------------------------
(***************************************************************************)
(* The ordered exit: the HTTP server and the virtual BMCs have been shut   *)
(* down, which does not wait for a Hypervisor.Start that is under way, and *)
(* Hub.Close forgets and closes every session.                             *)
(***************************************************************************)
HubClose ==
    /\ closer = NoStopper
    /\ restarts < MaxRestarts
    /\ hub # None
    /\ hub' = None
    /\ CloseStop(hub)
    /\ closer' = [pc |-> "lock", session |-> hub]
    /\ UNCHANGED <<client, starter, watch, qemu, aux>>

HubCloseSession ==
    /\ closer.pc = "lock"
    /\ CloseLocked(closer.session)
    /\ closer' = [pc |-> "done", session |-> None]
    /\ UNCHANGED <<hub, starter, watch, proc, path, aux>>

(***************************************************************************)
(* App Runner ends, by that exit or by a crash, and comes back: sessions,  *)
(* clients and watchers are gone, QEMU is not, and the start-up loop       *)
(* starts a session for a living guest.  The end of App Runner in the      *)
(* middle of Hypervisor.Start is left to VMManager.                        *)
(***************************************************************************)
Restart ==
    /\ restarts < MaxRestarts
    /\ starter.pc = "idle"
    /\ hub' = None
    /\ sess' = [s \in Sessions |->
                    IF sess[s].pc = "unused" THEN sess[s]
                    ELSE [sess[s] EXCEPT !.stop = TRUE, !.upstream = None,
                              !.conn = None, !.attached = NoClient,
                              !.pc = "done"]]
    /\ client' = [c \in Clients |->
                    IF client[c].pc = "new" THEN NewClient ELSE ClosedClient]
    /\ watch' = [r \in Runs |-> NoStopper]
    /\ closer' = NoStopper
    /\ pending' = [r \in Runs |-> <<>>]
    /\ \/ /\ \A r \in Runs : proc[r] # "alive"
          /\ starter' = Idle
       \/ \E r \in Runs :
             /\ proc[r] = "alive"
             /\ starter' = [Idle EXCEPT !.pc = "hub", !.run = r,
                                        !.boot = TRUE]
    /\ restarts' = restarts + 1
    /\ UNCHANGED <<proc, path, emitter, overlap>>

Next ==
    \/ \E r \in Runs : Exit(r) \/ Emit(r) \/ Spawn(r)
                       \/ WatchStep(r)
    \/ StartStep
    \/ \E s \in Sessions : RunStep(s)
    \/ \E c \in Clients : LookUp(c) \/ Attach(c) \/ Receive(c) \/ Close(c)
    \/ HubClose \/ HubCloseSession \/ Restart

Spec == Init /\ [][Next]_vars
-----------------------------------------------------------------------------
(***************************************************************************)
(* What a client has read and what is queued for it is one stretch of what *)
(* the session published, without a gap or a repetition: it begins with    *)
(* the history held when the client attached, each chunk goes on where the *)
(* one before it ended and, until publish gives up on the client or the    *)
(* session lets it go, the last one ends with the latest output.           *)
(***************************************************************************)
\* How far a stream has come before the i-th chunk that is queued for it.
Reached(stream, i) ==
    IF i = 1 THEN stream.from + Len(stream.received)
    ELSE stream.queue[i - 1].end

InOrder(stream, all) ==
    LET queue == stream.queue
    IN  /\ Reached(stream, 1) <= Len(all)
        /\ stream.received = SubSeq(all, stream.from + 1, Reached(stream, 1))
        /\ \A i \in 1..Len(queue) :
              /\ Reached(stream, i) <= queue[i].end
              /\ queue[i].end <= Len(all)
              /\ queue[i].bytes =
                     SubSeq(all, Reached(stream, i) + 1, queue[i].end)
        /\ stream.open => Len(all) = Reached(stream, Len(queue) + 1)

DeliveredInOrder ==
    \A c \in Clients :
        client[c].session # None =>
            InOrder(client[c], sess[client[c].session].published)

(***************************************************************************)
(* Whatever order close, setUpstream, attach and publish come in: a        *)
(* session whose closing is over holds no connection a client could write  *)
(* to and no client, and a client whose channel is still open is the one   *)
(* its session knows, so that somebody will close the channel.             *)
(***************************************************************************)
Closing(s) ==
    \/ \E r \in Runs : watch[r].pc = "lock" /\ watch[r].session = s
    \/ starter.pc = "lock" /\ starter.session = s
    \/ closer.pc = "lock" /\ closer.session = s

StoppedHoldsNothing ==
    /\ \A s \in Sessions :
          sess[s].stop /\ ~Closing(s) =>
              sess[s].upstream = None /\ sess[s].attached = NoClient
    /\ \A c \in Clients :
          client[c].open => sess[client[c].session].attached = c

(***************************************************************************)
(* A run that was started after its predecessor was cleaned up has a       *)
(* console of its own: as long as it lives and App Runner does not shut    *)
(* down, the map holds its session, connected to it; and what is captured  *)
(* from the run or typed into it passes through no session of another run. *)
(***************************************************************************)
RunHasItsConsole ==
    \A r \in Runs \ overlap :
        /\ watch[r].pc = "waiting" /\ proc[r] = "alive"
           /\ closer = NoStopper =>
              hub # None /\ sess[hub].run = r /\ sess[hub].upstream = r
        /\ \A s \in Sessions : \A i \in DOMAIN sess[s].published :
              emitter[sess[s].published[i]] = r => sess[s].run = r
        /\ \A c \in Clients :
              WritesTo(c) = r => sess[client[c].session].run = r

(***************************************************************************)
(* The goroutine that drains a guest never waits for a client: what it has *)
(* read it can publish, however long the attached client has not read.     *)
(* And it never outlives its session for long: once that is stopped there  *)
(* is always a step it can take until it has returned, also while it is    *)
(* reconnecting to a machine that does not come back.                      *)
(***************************************************************************)
ReaderNeverWaits ==
    \A s \in Sessions :
        \/ sess[s].pc = "publish"
        \/ sess[s].stop /\ ~Closing(s) /\ sess[s].pc \notin {"new", "done"}
        => ENABLED RunStep(s)
=============================================================================
