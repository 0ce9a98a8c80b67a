------------------------------- MODULE LiveHub -------------------------------
(***************************************************************************)
(* internal/server/live.go: the hub of websocket clients.                  *)
(*                                                                         *)
(* Goroutines are the read loops, one per connection, and the broadcasters *)
(* (HTTP handlers and job workers).  A goroutine copies its targets under  *)
(* the lock and sends to them after releasing it; a full channel evicts    *)
(* its client, which may start another broadcast inside the first, so each *)
(* goroutine has a stack of frames.                                        *)
(***************************************************************************)
EXTENDS Integers, Sequences, FiniteSets

CONSTANTS
  Conns, Broadcasters, \* connections (each with a read loop); other senders
  Devices,             \* device ids
  UserMaps,            \* who the connections may belong to
  Announces,           \* the device ids the browser of each connection uses
  None,
  Cap,                 \* capacity of a send channel (64 in the code)
  MaxEvents            \* bound on the messages clients and broadcasters start

ASSUME ConstantsAssumption ==
  /\ Cap \in Nat \ {0} /\ MaxEvents \in Nat
  /\ None \notin Conns \cup Devices
  /\ Conns \cap Broadcasters = {}
  /\ IsFiniteSet(Devices)

VARIABLES
  clients,  \* h.clients
  devices,  \* h.devices
  deviceID, \* c.deviceID
  send,     \* c.send, as the sequence of queued messages
  closed,   \* was c.send closed?
  conn,     \* "new", "open", "closed" (socket), "gone" (read loop returned)
  stack,    \* goroutine -> frames still to be executed, innermost first
  userOf,   \* the user of each connection (c.username), from its session
  view,     \* what each browser believes to be online
  owner,    \* history: who announced a device last
  events

hub  == <<clients, devices, deviceID>>
vars == <<hub, userOf, send, closed, conn, stack, view, owner, events>>

Goroutines == Conns \cup Broadcasters
Users == UNION {{f[c] : c \in Conns} : f \in UserMaps}

Msg(t, d, u) == [type |-> t, device |-> d, user |-> u]
Messages == [type : {"online", "offline", "relay"}, device : Devices \cup {None},
             user : Users \cup {None}]

\* A frame: a broadcast whose targets are not copied yet, sends to targets, or
\* the conn.Close that follows an eviction.
Broadcast(u, except, m) ==
  <<[do |-> "copy", user |-> u, except |-> except, targets |-> {}, msg |-> m]>>
SendTo(T, m) ==
  <<[do |-> "send", user |-> None, except |-> None, targets |-> T, msg |-> m]>>
CloseConn(c) ==
  <<[do |-> "close", user |-> None, except |-> None, targets |-> {c},
     msg |-> Msg("relay", None, None)]>>

Frames == [do : {"copy", "send", "close"}, user : Users \cup {None},
           except : Conns \cup {None}, targets : SUBSET Conns, msg : Messages]

TypeOK ==
  /\ clients \in SUBSET Conns
  /\ devices \in [Devices -> Conns \cup {None}]
  /\ deviceID \in [Conns -> Devices \cup {None}]
  /\ send \in [Conns -> Seq(Messages)] /\ \A c \in Conns : Len(send[c]) <= Cap
  /\ closed \in [Conns -> BOOLEAN]
  /\ conn \in [Conns -> {"new", "open", "closed", "gone"}]
  /\ stack \in [Goroutines -> Seq(Frames)]
  /\ view \in [Conns -> SUBSET Devices]
  /\ owner \in [Devices -> Conns \cup {None}]
  /\ userOf \in UserMaps
  /\ events \in 0 .. MaxEvents

Init ==
  /\ clients = {}
  /\ devices = [d \in Devices |-> None]
  /\ deviceID = [c \in Conns |-> None]
  /\ send = [c \in Conns |-> <<>>]
  /\ closed = [c \in Conns |-> FALSE]
  /\ conn = [c \in Conns |-> "new"]
  /\ stack = [g \in Goroutines |-> <<>>]
  /\ view = [c \in Conns |-> {}]
  /\ owner = [d \in Devices |-> None]
  /\ userOf \in UserMaps
  /\ events = 0

Event == events < MaxEvents /\ events' = events + 1

-----------------------------------------------------------------------------
(* register, registerDevice, unregister: the parts under the lock. *)

\* Mutant: the route goes whoever holds it.
Gone_AnyOwner(c) == deviceID[c] # None /\ devices[deviceID[c]] # None

\* Does unregister(c) take a device route away?
Gone(c) == deviceID[c] # None /\ devices[deviceID[c]] = c

\* Mutant: a client that was evicted before is skipped altogether.
Unregister_OnlyOnce(c) ==
  /\ clients' = clients \ {c}
  /\ closed' = [closed EXCEPT ![c] = @ \/ c \in clients]
  /\ devices' = [d \in Devices |-> IF c \in clients /\ Gone(c) /\ d = deviceID[c]
                                   THEN None ELSE devices[d]]
  /\ UNCHANGED deviceID

\* unregister(c) under the lock, and the frames that follow it.
Unregister(c) ==
  /\ clients' = clients \ {c}
  /\ closed' = [closed EXCEPT ![c] = @ \/ c \in clients]
  /\ devices' = [d \in Devices |-> IF Gone(c) /\ d = deviceID[c] THEN None ELSE devices[d]]
  /\ UNCHANGED deviceID
OfflineFrames(c) ==
  IF Gone(c) THEN Broadcast(userOf[c], None, Msg("offline", deviceID[c], userOf[c])) ELSE <<>>

\* handleWebSocket: register, then the ready message.
Connect(c) ==
  /\ conn[c] = "new"
  /\ conn' = [conn EXCEPT ![c] = "open"]
  /\ clients' = clients \cup {c}
  /\ stack' = [stack EXCEPT ![c] = SendTo({c}, Msg("relay", None, userOf[c]))]
  /\ UNCHANGED <<devices, deviceID, send, closed, view, owner, userOf, events>>

\* A read loop that waits for its next message.
Reading(c) == conn[c] \in {"open", "closed"} /\ stack[c] = <<>>

\* One frame per device of S, in some order.
SnapshotFrames(c, S) ==
  {f \in [1 .. Cardinality(S) -> {SendTo({c}, Msg("online", d, userOf[c]))[1] : d \in S}] :
     \A i, j \in DOMAIN f : f[i] = f[j] => i = j}

\* device.hello
RegisterDevice(c, d) ==
  /\ Reading(c) /\ Event
  /\ d \in Announces[c]
  /\ deviceID' = [deviceID EXCEPT ![c] = d]
  /\ devices' = [e \in Devices |-> IF e = d THEN c
                                   ELSE IF Gone(c) /\ e = deviceID[c] THEN None
                                   ELSE devices[e]]
  /\ owner' = [owner EXCEPT ![d] = c]
  /\ LET online == {e \in Devices \ {d} : /\ devices'[e] # None
                                          /\ userOf[devices'[e]] = userOf[c]}
     IN \E f \in SnapshotFrames(c, online) :
          stack' = [stack EXCEPT ![c] = Broadcast(userOf[c], c, Msg("online", d, userOf[c])) \o f]
  /\ UNCHANGED <<clients, send, closed, conn, view, userOf>>

\* edit.sync and edit.body: relayed to the user's other connections.
RelayToUser(c) ==
  /\ Reading(c) /\ Event
  /\ stack' = [stack EXCEPT ![c] = Broadcast(userOf[c], c, Msg("relay", None, userOf[c]))]
  /\ UNCHANGED <<hub, send, closed, conn, view, owner, userOf>>

\* ping: the pong goes into the connection's own channel.
Ping(c) ==
  /\ Reading(c) /\ Event
  /\ stack' = [stack EXCEPT ![c] = SendTo({c}, Msg("relay", None, userOf[c]))]
  /\ UNCHANGED <<hub, send, closed, conn, view, owner, userOf>>

\* Mutant: the target's user is not compared.
RouteToDevice_AnyUser(c, d) ==
  /\ Reading(c) /\ Event
  /\ devices[d] \notin {None, c}
  /\ stack' = [stack EXCEPT ![c] = SendTo({devices[d]}, Msg("relay", None, userOf[c]))]
  /\ UNCHANGED <<hub, send, closed, conn, view, owner, userOf>>

\* device.msg: routeToDevice drops unknown, own and other users' devices.
RouteToDevice(c, d) ==
  /\ Reading(c) /\ Event
  /\ devices[d] \notin {None, c}
  /\ userOf[devices[d]] = userOf[c]
  /\ stack' = [stack EXCEPT ![c] = SendTo({devices[d]}, Msg("relay", None, userOf[c]))]
  /\ UNCHANGED <<hub, send, closed, conn, view, owner, userOf>>

\* notifyNotesChanged, notifyJobEvent, notifyInlineUploadResolved: everybody.
Notify(b) ==
  /\ stack[b] = <<>> /\ Event
  /\ stack' = [stack EXCEPT ![b] = Broadcast(None, None, Msg("relay", None, None))]
  /\ UNCHANGED <<hub, send, closed, conn, view, owner, userOf>>

-----------------------------------------------------------------------------
(* The frames: broadcast, broadcastToUser, enqueueJSON. *)

Top(g)  == Head(stack[g])
Rest(g) == Tail(stack[g])

\* The targets are copied under the read lock.
CopyTargets(g) ==
  /\ stack[g] # <<>> /\ Top(g).do = "copy"
  /\ LET m == Top(g)
         T == {c \in clients : (m.user = None \/ userOf[c] = m.user) /\ c # m.except}
     IN stack' = [stack EXCEPT ![g] = IF T = {} THEN Rest(g) ELSE SendTo(T, m.msg) \o Rest(g)]
  /\ UNCHANGED <<hub, send, closed, conn, view, owner, userOf, events>>

\* What is left of the frame after t has been served.
Served(g, t) ==
  LET left == Top(g).targets \ {t}
  IN IF left = {} THEN Rest(g) ELSE SendTo(left, Top(g).msg) \o Rest(g)

Sending(g, t) == stack[g] # <<>> /\ Top(g).do = "send" /\ t \in Top(g).targets

SendMessage(g, t) ==
  /\ Sending(g, t)
  /\ ~closed[t] /\ Len(send[t]) < Cap
  /\ send' = [send EXCEPT ![t] = Append(@, Top(g).msg)]
  /\ stack' = [stack EXCEPT ![g] = Served(g, t)]
  /\ UNCHANGED <<hub, closed, conn, view, owner, userOf, events>>

\* The channel is full: unregister, which may broadcast, then conn.Close.
Evict(g, t) ==
  /\ Sending(g, t)
  /\ ~closed[t] /\ Len(send[t]) = Cap
  /\ Unregister(t)
  /\ stack' = [stack EXCEPT ![g] = OfflineFrames(t) \o CloseConn(t) \o Served(g, t)]
  /\ UNCHANGED <<send, conn, view, owner, userOf, events>>

\* The process ends, and with it every connection and goroutine; the next one
\* starts with empty tables.
ProcessEnds ==
  /\ clients' = {}
  /\ devices' = [d \in Devices |-> None]
  /\ conn' = [c \in Conns |-> IF conn[c] = "new" THEN "new" ELSE "gone"]
  /\ stack' = [g \in Goroutines |-> <<>>]
  /\ UNCHANGED <<deviceID, closed>>

\* A send on a closed channel panics.  A read loop still runs its deferred
\* unregister and Close; net/http recovers the other handlers, runWorker the
\* notifications of its task and the event "done".  Nothing recovers the events
\* a scheduler or a worker emits outside the task: the process ends.
SendOnClosed(g, t) ==
  /\ Sending(g, t)
  /\ closed[t]
  /\ \/ /\ g \in Conns
        /\ Unregister(g)
        /\ stack' = [stack EXCEPT ![g] = OfflineFrames(g)]
        /\ conn' = [conn EXCEPT ![g] = "gone"]
     \/ /\ g \in Broadcasters
        /\ stack' = [stack EXCEPT ![g] = <<>>]
        /\ UNCHANGED <<hub, closed, conn>>
     \/ g \in Broadcasters /\ ProcessEnds
  /\ UNCHANGED <<send, view, owner, userOf, events>>

CloseAfterEviction(g) ==
  /\ stack[g] # <<>> /\ Top(g).do = "close"
  /\ conn' = [c \in Conns |-> IF c \in Top(g).targets /\ conn[c] = "open" THEN "closed" ELSE conn[c]]
  /\ stack' = [stack EXCEPT ![g] = Rest(g)]
  /\ UNCHANGED <<hub, send, closed, view, owner, userOf, events>>

-----------------------------------------------------------------------------
(* The connection: writeLoop with the browser behind it, and its end. *)

\* writeLoop takes a message, the browser applies it.
Deliver(c) ==
  /\ send[c] # <<>> /\ conn[c] = "open"
  /\ send' = [send EXCEPT ![c] = Tail(@)]
  /\ LET m == Head(send[c])
     IN view' = [view EXCEPT ![c] = CASE m.type = "online"  -> @ \cup {m.device}
                                      [] m.type = "offline" -> @ \ {m.device}
                                      [] OTHER              -> @]
  /\ UNCHANGED <<hub, closed, conn, stack, owner, userOf, events>>

\* The browser goes away, or writeLoop closes the socket of a closed channel.
Disconnect(c) ==
  /\ conn[c] = "open"
  /\ conn' = [conn EXCEPT ![c] = "closed"]
  /\ UNCHANGED <<hub, send, closed, stack, view, owner, userOf, events>>

\* ReadMessage fails: the read loop's deferred unregister.
ReadError(c) ==
  /\ conn[c] = "closed" /\ stack[c] = <<>>
  /\ conn' = [conn EXCEPT ![c] = "gone"]
  /\ Unregister(c)
  /\ stack' = [stack EXCEPT ![c] = OfflineFrames(c)]
  /\ UNCHANGED <<send, view, owner, userOf, events>>

-----------------------------------------------------------------------------
FrameStep(g) ==
  \/ CopyTargets(g)
  \/ \E t \in Conns : SendMessage(g, t) \/ Evict(g, t) \/ SendOnClosed(g, t)
  \/ CloseAfterEviction(g)

Next ==
  \/ \E c \in Conns : \/ Connect(c) \/ RelayToUser(c) \/ Ping(c)
                      \/ Deliver(c) \/ Disconnect(c) \/ ReadError(c)
                      \/ \E d \in Devices : RegisterDevice(c, d) \/ RouteToDevice(c, d)
  \/ \E b \in Broadcasters : Notify(b)
  \/ \E g \in Goroutines : FrameStep(g)

Spec == Init /\ [][Next]_vars

\* The Go scheduler runs every goroutine; a closed socket fails its read.
\* Browsers owe nothing, they need not even read.
Fairness == /\ \A g \in Goroutines : WF_vars(FrameStep(g))
            /\ \A c \in Conns : WF_vars(ReadError(c))

FairSpec == Spec /\ Fairness

-----------------------------------------------------------------------------
(* Properties. *)

\* A channel is closed exactly when its client leaves the hub, so it is never
\* closed twice and a registered client can always be sent to.
OpenWhileRegistered == \A c \in clients : ~closed[c]

\* What one user's connections say never reaches another user's.
UserIsolation ==
  \A c \in Conns : \A i \in DOMAIN send[c] : send[c][i].user \in {None, userOf[c]}

\* "Last connection wins if the same id reconnects": the connection that
\* announced a device last is its route for as long as it is registered and has
\* not announced another; the end of an older connection does not take it away.
RouteToLatest ==
  \A d \in Devices : LET c == owner[d] IN
    c \in clients /\ deviceID[c] = d => devices[d] = c

\* "Guards against hub retaining clients after connection close": a connection
\* whose socket is closed ends up in neither table, even when it was evicted and
\* announced itself again before its read failed.
ClosedIsForgotten ==
  \A c \in Conns : conn[c] = "closed" ~> (c \notin clients /\ \A d \in Devices : devices[d] # c)

\* The connections goroutine g has yet to send to.
Unserved(g) == UNION {stack[g][i].targets : i \in {j \in DOMAIN stack[g] : stack[g][j].do = "send"}}

\* "Guards against broadcast not reaching all connected clients": a sender does
\* not abandon a target that is still registered.
BroadcastReachesAll ==
  [][\A g \in Goroutines : \A t \in Unserved(g) \cap clients \cap clients' :
       t \in Unserved(g)' \/ send'[t] # send[t]]_vars

\* Nothing is under way and every browser has read what it was sent.
Quiescent == /\ \A g \in Goroutines : stack[g] = <<>>
             /\ \A c \in clients : conn[c] = "open" /\ send[c] = <<>>

\* "One re-hello converges presence in both directions": once everything has
\* been delivered, a connection that announced itself believes exactly the
\* other devices of its user to be online.
PresenceConverges ==
  Quiescent => \A c \in clients : deviceID[c] # None /\ owner[deviceID[c]] = c =>
    view[c] \ {deviceID[c]} =
      {d \in Devices \ {deviceID[c]} : devices[d] # None /\ userOf[devices[d]] = userOf[c]}
=============================================================================
