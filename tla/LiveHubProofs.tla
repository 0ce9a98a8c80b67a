----------------------------- MODULE LiveHubProofs -----------------------------
(***************************************************************************)
(* What holds of LiveHub for every set of connections, broadcasters,       *)
(* devices and users, and every capacity of the channels.                  *)
(***************************************************************************)
EXTENDS LiveHub, FiniteSetTheorems, SequenceTheorems, TLAPS

(***************************************************************************)
(* The two tables, without what travels through the channels.              *)
(***************************************************************************)
TablesTyped ==
  /\ clients \in SUBSET Conns
  /\ devices \in [Devices -> Conns \cup {None}]
  /\ deviceID \in [Conns -> Devices \cup {None}]
  /\ closed \in [Conns -> BOOLEAN]
  /\ conn \in [Conns -> {"new", "open", "closed", "gone"}]
  /\ owner \in [Devices -> Conns \cup {None}]

\* A connection that has not been accepted yet has left no trace.
NewIsClean ==
  \A c \in Conns : conn[c] = "new" =>
    c \notin clients /\ ~closed[c] /\ deviceID[c] = None

TablesInv == TablesTyped /\ NewIsClean /\ OpenWhileRegistered /\ RouteToLatest

LEMMA InitTables == Init => TablesInv
  BY ConstantsAssumption
  DEF Init, TablesInv, TablesTyped, NewIsClean, OpenWhileRegistered, RouteToLatest

\* Leaving the hub closes the own channel, and takes a route away only from
\* the connection that leaves.
LEMMA UnregisterTables ==
  ASSUME TablesInv, NEW c \in Conns, Unregister(c), owner' = owner,
         conn' = conn \/ conn' = [conn EXCEPT ![c] = "gone"]
  PROVE  TablesInv'
<1> USE ConstantsAssumption DEF TablesInv
<1>1. TablesTyped'
  BY DEF TablesTyped, Unregister
<1>2. NewIsClean'
  BY DEF NewIsClean, TablesTyped, Unregister
<1>3. OpenWhileRegistered'
  BY DEF OpenWhileRegistered, TablesTyped, Unregister
<1>4. RouteToLatest'
  BY DEF RouteToLatest, TablesTyped, Unregister, Gone
<1>5. QED
  BY <1>1, <1>2, <1>3, <1>4

LEMMA RegisterTables ==
  ASSUME TablesInv, NEW c \in Conns, NEW d \in Devices, RegisterDevice(c, d)
  PROVE  TablesInv'
<1> USE ConstantsAssumption DEF TablesInv
<1>1. /\ deviceID' = [deviceID EXCEPT ![c] = d]
      /\ devices' = [e \in Devices |-> IF e = d THEN c
                                       ELSE IF Gone(c) /\ e = deviceID[c] THEN None
                                       ELSE devices[e]]
      /\ owner' = [owner EXCEPT ![d] = c]
      /\ clients' = clients /\ closed' = closed /\ conn' = conn
      /\ conn[c] # "new"
  BY DEF RegisterDevice, Reading
<1>2. TablesTyped'
  BY <1>1 DEF TablesTyped
<1>3. NewIsClean' /\ OpenWhileRegistered'
  BY <1>1 DEF NewIsClean, OpenWhileRegistered, TablesTyped
<1>4. RouteToLatest'
  <2> SUFFICES ASSUME NEW e \in Devices, owner'[e] \in clients, deviceID'[owner'[e]] = e
               PROVE  devices'[e] = owner'[e]
    BY <1>1 DEF RouteToLatest
  <2>1. CASE e = d
    BY <1>1, <2>1 DEF TablesTyped
  <2>2. CASE e # d
    <3>1. owner'[e] = owner[e] /\ owner[e] # c /\ owner[e] \in Conns
      BY <1>1, <2>2 DEF TablesTyped
    <3>2. deviceID[owner[e]] = e /\ devices[e] = owner[e]
      BY <1>1, <3>1 DEF RouteToLatest, TablesTyped
    <3>3. QED
      BY <1>1, <2>2, <3>1, <3>2 DEF Gone, TablesTyped
  <2>3. QED
    BY <2>1, <2>2
<1>5. QED
  BY <1>2, <1>3, <1>4

LEMMA NextTables == TablesInv /\ [Next]_vars => TablesInv'
<1> SUFFICES ASSUME TablesInv, [Next]_vars PROVE TablesInv'
  OBVIOUS
<1>a. ASSUME UNCHANGED <<hub, closed, conn, owner>> PROVE TablesInv'
  BY <1>a DEF TablesInv, TablesTyped, NewIsClean, OpenWhileRegistered, RouteToLatest, hub
<1>1. ASSUME NEW c \in Conns, Connect(c) PROVE TablesInv'
  BY <1>1, ConstantsAssumption
  DEF Connect, TablesInv, TablesTyped, NewIsClean, OpenWhileRegistered, RouteToLatest
<1>2. ASSUME NEW c \in Conns, NEW d \in Devices, RegisterDevice(c, d) PROVE TablesInv'
  BY <1>2, RegisterTables
<1>3. ASSUME NEW c \in Conns, Disconnect(c) PROVE TablesInv'
  BY <1>3 DEF Disconnect, hub, TablesInv, TablesTyped, NewIsClean, OpenWhileRegistered,
              RouteToLatest
<1>4. ASSUME NEW c \in Conns, ReadError(c) PROVE TablesInv'
  BY <1>4, UnregisterTables DEF ReadError
<1>5. ASSUME NEW g \in Goroutines, NEW t \in Conns, Evict(g, t) PROVE TablesInv'
  BY <1>5, UnregisterTables DEF Evict
<1>6. ASSUME NEW g \in Goroutines, NEW t \in Conns, SendOnClosed(g, t) PROVE TablesInv'
  <2>1. CASE /\ g \in Conns /\ Unregister(g) /\ owner' = owner
             /\ conn' = [conn EXCEPT ![g] = "gone"]
    BY <2>1, UnregisterTables
  <2>2. CASE ProcessEnds /\ owner' = owner
    BY <2>2, ConstantsAssumption
    DEF ProcessEnds, TablesInv, TablesTyped, NewIsClean, OpenWhileRegistered, RouteToLatest
  <2>3. CASE UNCHANGED <<hub, closed, conn, owner>>
    BY <1>a, <2>3
  <2>4. QED
    BY <1>6, <2>1, <2>2, <2>3 DEF SendOnClosed
<1>7. ASSUME NEW g \in Goroutines, CloseAfterEviction(g) PROVE TablesInv'
  BY <1>7 DEF CloseAfterEviction, hub, TablesInv, TablesTyped, NewIsClean,
              OpenWhileRegistered, RouteToLatest
<1>8. ASSUME NEW g \in Goroutines, NEW t \in Conns, SendMessage(g, t) PROVE TablesInv'
  BY <1>8, <1>a DEF SendMessage
<1>9. ASSUME NEW g \in Goroutines, CopyTargets(g) PROVE TablesInv'
  BY <1>9, <1>a DEF CopyTargets
<1>10. ASSUME NEW c \in Conns, NEW d \in Devices, RouteToDevice(c, d) PROVE TablesInv'
  BY <1>10, <1>a DEF RouteToDevice
<1>11. ASSUME NEW c \in Conns, RelayToUser(c) \/ Ping(c) \/ Deliver(c) PROVE TablesInv'
  BY <1>11, <1>a DEF RelayToUser, Ping, Deliver
<1>12. ASSUME NEW b \in Broadcasters, Notify(b) PROVE TablesInv'
  BY <1>12, <1>a DEF Notify
<1>13. CASE UNCHANGED vars
  BY <1>13, <1>a DEF vars
<1>14. QED
  BY <1>1, <1>2, <1>3, <1>4, <1>5, <1>6, <1>7, <1>8, <1>9, <1>10, <1>11, <1>12, <1>13
  DEF Next, FrameStep

\* A registered client's channel is open: an eviction closes it in the same
\* critical section that takes the client out (live.go:283).
THEOREM RegisteredIsOpen == Spec => []OpenWhileRegistered
<1>1. TablesInv => OpenWhileRegistered
  BY DEF TablesInv
<1>2. QED
  BY <1>1, InitTables, NextTables, PTL DEF Spec

\* The connection that announced a device last is its route while it is
\* registered and has not announced another (live.go:238).
THEOREM LatestIsRouted == Spec => []RouteToLatest
<1>1. TablesInv => RouteToLatest
  BY DEF TablesInv
<1>2. QED
  BY <1>1, InitTables, NextTables, PTL DEF Spec

(***************************************************************************)
(* Isolation.  A message of a user is only ever on its way to connections  *)
(* of that user: in the channels, and in what the goroutines still have to *)
(* do, be their targets copied already or not.                             *)
(***************************************************************************)
ForTargets(f) ==
  /\ f.do = "send" => f.msg.user = None \/ \A t \in f.targets : userOf[t] = f.msg.user
  /\ f.do = "copy" => f.msg.user \in {None, f.user}
GoodFrames == {f \in Frames : ForTargets(f)}
OwnMessages(c) == {m \in Messages : m.user \in {None, userOf[c]}}

SendersInv ==
  /\ userOf \in UserMaps
  /\ stack \in [Goroutines -> Seq(GoodFrames)]
  /\ send \in [Conns -> Seq(Messages)]
  /\ \A c \in Conns : send[c] \in Seq(OwnMessages(c))

IsolationInv == TablesInv /\ SendersInv

LEMMA UsersAreUsers == SendersInv => \A c \in Conns : userOf[c] \in Users
  BY DEF SendersInv, Users

LEMMA InitSenders == Init => SendersInv
  BY DEF Init, SendersInv

\* Whom the connections belong to never changes, so a frame stays good.
LEMMA SameUsers == [Next]_vars => userOf' = userOf
<1> SUFFICES ASSUME [Next]_vars PROVE userOf' = userOf
  OBVIOUS
<1>1. ASSUME NEW c \in Conns,
             \/ Connect(c) \/ RelayToUser(c) \/ Ping(c) \/ Deliver(c) \/ Disconnect(c)
             \/ ReadError(c) \/ \E d \in Devices : RegisterDevice(c, d) \/ RouteToDevice(c, d)
      PROVE  userOf' = userOf
  BY <1>1 DEF Connect, RelayToUser, Ping, Deliver, Disconnect, ReadError, RegisterDevice,
              RouteToDevice
<1>2. ASSUME NEW b \in Broadcasters, Notify(b) PROVE userOf' = userOf
  BY <1>2 DEF Notify
<1>3. ASSUME NEW g \in Goroutines, FrameStep(g) PROVE userOf' = userOf
  BY <1>3 DEF FrameStep, CopyTargets, SendMessage, Evict, SendOnClosed, CloseAfterEviction
<1>4. CASE UNCHANGED vars
  BY <1>4 DEF vars
<1>5. QED
  BY <1>1, <1>2, <1>3, <1>4 DEF Next

\* The frames that the hub's methods start with are good.
LEMMA NewFrames ==
  ASSUME IsolationInv, NEW c \in Conns
  PROVE  /\ \A d \in Devices \cup {None}, s \in {"online", "offline", "relay"},
               e \in Conns \cup {None} :
               Broadcast(userOf[c], e, Msg(s, d, userOf[c])) \in Seq(GoodFrames)
         /\ \A d \in Devices \cup {None}, s \in {"online", "offline", "relay"},
               t \in Conns : userOf[t] = userOf[c] =>
                  SendTo({t}, Msg(s, d, userOf[c])) \in Seq(GoodFrames)
         /\ OfflineFrames(c) \in Seq(GoodFrames)
         /\ CloseConn(c) \in Seq(GoodFrames)
<1>1. userOf[c] \in Users
  BY UsersAreUsers DEF IsolationInv
<1>2. \A d \in Devices \cup {None}, s \in {"online", "offline", "relay"} :
         Msg(s, d, userOf[c]) \in Messages /\ Msg(s, d, userOf[c]).user = userOf[c]
  BY <1>1 DEF Msg, Messages
<1>3. ASSUME NEW d \in Devices \cup {None}, NEW s \in {"online", "offline", "relay"},
             NEW e \in Conns \cup {None}
      PROVE  Broadcast(userOf[c], e, Msg(s, d, userOf[c])) \in Seq(GoodFrames)
  <2> DEFINE f == [do |-> "copy", user |-> userOf[c], except |-> e, targets |-> {},
                   msg |-> Msg(s, d, userOf[c])]
  <2>1. f \in GoodFrames
    BY <1>1, <1>2 DEF GoodFrames, Frames, ForTargets
  <2>2. Broadcast(userOf[c], e, Msg(s, d, userOf[c])) = <<f>>
    BY DEF Broadcast
  <2> HIDE DEF f
  <2>3. QED
    BY <2>1, <2>2
<1>4. ASSUME NEW d \in Devices \cup {None}, NEW s \in {"online", "offline", "relay"},
             NEW t \in Conns, userOf[t] = userOf[c]
      PROVE  SendTo({t}, Msg(s, d, userOf[c])) \in Seq(GoodFrames)
  <2> DEFINE f == [do |-> "send", user |-> None, except |-> None, targets |-> {t},
                   msg |-> Msg(s, d, userOf[c])]
  <2>1. f \in GoodFrames
    BY <1>2, <1>4 DEF GoodFrames, Frames, ForTargets
  <2>2. SendTo({t}, Msg(s, d, userOf[c])) = <<f>>
    BY DEF SendTo
  <2> HIDE DEF f
  <2>3. <<f>> \in Seq(GoodFrames)
    BY <2>1
  <2>4. QED
    BY <2>2, <2>3, Zenon
<1>5. OfflineFrames(c) \in Seq(GoodFrames)
  <2>1. deviceID[c] \in Devices \cup {None}
    BY DEF IsolationInv, TablesInv, TablesTyped
  <2>2. QED
    BY <1>3, <2>1 DEF OfflineFrames
<1>6. CloseConn(c) \in Seq(GoodFrames)
  <2> DEFINE f == [do |-> "close", user |-> None, except |-> None, targets |-> {c},
                   msg |-> Msg("relay", None, None)]
  <2>1. f \in GoodFrames
    BY DEF GoodFrames, Frames, ForTargets, Msg, Messages
  <2>2. CloseConn(c) = <<f>>
    BY DEF CloseConn
  <2> HIDE DEF f
  <2>3. QED
    BY <2>1, <2>2
<1>7. QED
  BY <1>3, <1>4, <1>5, <1>6

\* A goroutine that replaces its frames by good ones keeps the invariant.
LEMMA KeepSend ==
  ASSUME IsolationInv, userOf' = userOf, send' = send,
         NEW g \in Goroutines, NEW fs \in Seq(GoodFrames), stack' = [stack EXCEPT ![g] = fs]
  PROVE  SendersInv'
  BY DEF IsolationInv, SendersInv, GoodFrames, ForTargets, OwnMessages

LEMMA KeepAll ==
  ASSUME IsolationInv, userOf' = userOf, send' = send, stack' = stack
  PROVE  SendersInv'
  BY DEF IsolationInv, SendersInv, GoodFrames, ForTargets, OwnMessages

\* What is left of a goroutine's frames is as good as they were.
LEMMA GoodRest ==
  ASSUME IsolationInv, NEW g \in Goroutines, stack[g] # <<>>
  PROVE  Top(g) \in GoodFrames /\ Rest(g) \in Seq(GoodFrames)
<1>1. stack[g] \in Seq(GoodFrames)
  BY DEF IsolationInv, SendersInv
<1>2. QED
  BY <1>1, HeadTailProperties DEF Top, Rest

LEMMA GoodServed ==
  ASSUME IsolationInv, NEW g \in Goroutines, NEW t \in Conns, Sending(g, t)
  PROVE  /\ Served(g, t) \in Seq(GoodFrames)
         /\ Top(g).msg \in OwnMessages(t)
<1> DEFINE left == Top(g).targets \ {t}
           f == [do |-> "send", user |-> None, except |-> None, targets |-> left,
                 msg |-> Top(g).msg]
<1>1. stack[g] # <<>> /\ Top(g).do = "send" /\ t \in Top(g).targets
  BY DEF Sending
<1>2. Top(g) \in GoodFrames /\ Rest(g) \in Seq(GoodFrames)
  BY <1>1, GoodRest
<1>3. f \in GoodFrames
  BY <1>1, <1>2 DEF GoodFrames, Frames, ForTargets
<1>4. SendTo(left, Top(g).msg) = <<f>>
  BY DEF SendTo
<1>5. Top(g).msg \in OwnMessages(t)
  BY <1>1, <1>2 DEF GoodFrames, Frames, ForTargets, OwnMessages
<1>6. Served(g, t) = Rest(g) \/ Served(g, t) = SendTo(left, Top(g).msg) \o Rest(g)
  BY DEF Served
<1> HIDE DEF f, left
<1>7. <<f>> \in Seq(GoodFrames)
  BY <1>3
<1>8. <<f>> \o Rest(g) \in Seq(GoodFrames)
  BY <1>2, <1>7, ConcatProperties
<1>9. Served(g, t) \in Seq(GoodFrames)
  BY <1>2, <1>4, <1>6, <1>8, Zenon
<1>10. QED
  BY <1>5, <1>9

\* The presence snapshot goes to the connection that announced itself.
LEMMA GoodSnapshot ==
  ASSUME IsolationInv, NEW c \in Conns, NEW S \in SUBSET Devices, NEW f \in SnapshotFrames(c, S)
  PROVE  f \in Seq(GoodFrames)
<1>1. IsFiniteSet(S)
  BY ConstantsAssumption, FS_Subset
<1>2. Cardinality(S) \in Nat
  BY <1>1, FS_CardinalityType
<1>3. \A d \in S : SendTo({c}, Msg("online", d, userOf[c]))[1] \in GoodFrames
  <2> SUFFICES ASSUME NEW d \in S
               PROVE  SendTo({c}, Msg("online", d, userOf[c]))[1] \in GoodFrames
    OBVIOUS
  <2>1. SendTo({c}, Msg("online", d, userOf[c])) \in Seq(GoodFrames)
    BY NewFrames
  <2>2. Len(SendTo({c}, Msg("online", d, userOf[c]))) = 1
    BY DEF SendTo
  <2>3. QED
    BY <2>1, <2>2
<1> DEFINE F == {SendTo({c}, Msg("online", d, userOf[c]))[1] : d \in S}
<1>4. F \subseteq GoodFrames
  BY <1>3
<1>5. f \in [1 .. Cardinality(S) -> F]
  BY DEF SnapshotFrames
<1> HIDE DEF F
<1>6. f \in [1 .. Cardinality(S) -> GoodFrames]
  BY <1>4, <1>5
<1>7. QED
  BY <1>2, <1>6

\* The copied targets are connections of the user the message is about.
LEMMA GoodCopy ==
  ASSUME IsolationInv, NEW g \in Goroutines, CopyTargets(g), userOf' = userOf
  PROVE  SendersInv'
<1> DEFINE m == Top(g)
           T == {c \in clients : (m.user = None \/ userOf[c] = m.user) /\ c # m.except}
           f == [do |-> "send", user |-> None, except |-> None, targets |-> T, msg |-> m.msg]
<1>1. m \in GoodFrames /\ m.do = "copy" /\ Rest(g) \in Seq(GoodFrames)
  BY GoodRest DEF CopyTargets
<1>2. T \in SUBSET Conns
  BY DEF IsolationInv, TablesInv, TablesTyped
<1>3. f \in GoodFrames
  BY <1>1, <1>2 DEF GoodFrames, Frames, ForTargets
<1>4. SendTo(T, m.msg) = <<f>>
  BY DEF SendTo
<1>5. /\ stack' = [stack EXCEPT ![g] = IF T = {} THEN Rest(g) ELSE SendTo(T, m.msg) \o Rest(g)]
      /\ send' = send
  BY DEF CopyTargets
<1> HIDE DEF f, T, m
<1>6. <<f>> \in Seq(GoodFrames)
  BY <1>3
<1>7. <<f>> \o Rest(g) \in Seq(GoodFrames)
  BY <1>1, <1>6, ConcatProperties
<1>8. (IF T = {} THEN Rest(g) ELSE SendTo(T, m.msg) \o Rest(g)) \in Seq(GoodFrames)
  BY <1>1, <1>4, <1>7
<1>9. QED
  BY <1>5, <1>8, KeepSend

LEMMA NextSenders == IsolationInv /\ [Next]_vars => SendersInv'
<1> SUFFICES ASSUME IsolationInv, [Next]_vars PROVE SendersInv'
  OBVIOUS
<1> USE SameUsers
<1>1. ASSUME NEW c \in Conns, \/ Connect(c) \/ Ping(c)
                              \/ \E d \in Devices : RouteToDevice(c, d)
      PROVE  SendersInv'
  <2>1. PICK t \in Conns : /\ userOf[t] = userOf[c] /\ send' = send
                            /\ stack' = [stack EXCEPT ![c] = SendTo({t}, Msg("relay", None, userOf[c]))]
    BY <1>1 DEF Connect, Ping, RouteToDevice, IsolationInv, TablesInv, TablesTyped
  <2>2. SendTo({t}, Msg("relay", None, userOf[c])) \in Seq(GoodFrames)
    BY <2>1, NewFrames
  <2>3. QED
    BY <2>1, <2>2, KeepSend DEF Goroutines
<1>2. ASSUME NEW c \in Conns, RelayToUser(c) PROVE SendersInv'
  <2>1. Broadcast(userOf[c], c, Msg("relay", None, userOf[c])) \in Seq(GoodFrames)
    BY NewFrames
  <2>2. QED
    BY <1>2, <2>1, KeepSend DEF RelayToUser, Goroutines
<1>3. ASSUME NEW c \in Conns, NEW d \in Devices, RegisterDevice(c, d) PROVE SendersInv'
  <2>1. PICK f \in SnapshotFrames(c, {e \in Devices \ {d} : /\ devices'[e] # None
                                                            /\ userOf[devices'[e]] = userOf[c]}) :
           stack' = [stack EXCEPT ![c] = Broadcast(userOf[c], c, Msg("online", d, userOf[c])) \o f]
    BY <1>3 DEF RegisterDevice
  <2>2. f \in Seq(GoodFrames)
    BY GoodSnapshot
  <2>3. Broadcast(userOf[c], c, Msg("online", d, userOf[c])) \in Seq(GoodFrames)
    BY NewFrames
  <2>4. Broadcast(userOf[c], c, Msg("online", d, userOf[c])) \o f \in Seq(GoodFrames)
    BY <2>2, <2>3, ConcatProperties
  <2>5. QED
    BY <1>3, <2>1, <2>4, KeepSend DEF RegisterDevice, Goroutines
<1>4. ASSUME NEW b \in Broadcasters, Notify(b) PROVE SendersInv'
  <2> DEFINE f == [do |-> "copy", user |-> None, except |-> None, targets |-> {},
                   msg |-> Msg("relay", None, None)]
  <2>1. f \in GoodFrames
    BY DEF GoodFrames, Frames, ForTargets, Msg, Messages
  <2>2. Broadcast(None, None, Msg("relay", None, None)) = <<f>>
    BY DEF Broadcast
  <2> HIDE DEF f
  <2>3. <<f>> \in Seq(GoodFrames)
    BY <2>1
  <2>4. Broadcast(None, None, Msg("relay", None, None)) \in Seq(GoodFrames)
    BY <2>2, <2>3, Zenon
  <2>5. QED
    BY <1>4, <2>4, KeepSend DEF Notify, Goroutines
<1>5. ASSUME NEW g \in Goroutines, CopyTargets(g) PROVE SendersInv'
  BY <1>5, GoodCopy
<1>6. ASSUME NEW g \in Goroutines, NEW t \in Conns, SendMessage(g, t) PROVE SendersInv'
  <2>1. /\ Served(g, t) \in Seq(GoodFrames) /\ Top(g).msg \in OwnMessages(t)
        /\ stack' = [stack EXCEPT ![g] = Served(g, t)]
        /\ send' = [send EXCEPT ![t] = Append(@, Top(g).msg)]
    BY <1>6, GoodServed DEF SendMessage
  <2>2. stack' \in [Goroutines -> Seq(GoodFrames)]
    BY <2>1 DEF IsolationInv, SendersInv
  <2>3. Append(send[t], Top(g).msg) \in Seq(OwnMessages(t))
    BY <2>1 DEF IsolationInv, SendersInv
  <2>4. Append(send[t], Top(g).msg) \in Seq(Messages)
    <3>1. Top(g).msg \in Messages
      BY <2>1 DEF OwnMessages
    <3>2. QED
      BY <3>1 DEF IsolationInv, SendersInv
  <2>5. \A c \in Conns : send'[c] \in Seq(OwnMessages(c))
    BY <2>1, <2>3 DEF IsolationInv, SendersInv
  <2>6. send' \in [Conns -> Seq(Messages)]
    BY <2>1, <2>4 DEF IsolationInv, SendersInv
  <2>7. QED
    BY <2>2, <2>5, <2>6 DEF IsolationInv, SendersInv, GoodFrames, ForTargets, OwnMessages
<1>7. ASSUME NEW g \in Goroutines, NEW t \in Conns, Evict(g, t) PROVE SendersInv'
  <2>1. Served(g, t) \in Seq(GoodFrames)
    BY <1>7, GoodServed DEF Evict
  <2>2. OfflineFrames(t) \in Seq(GoodFrames) /\ CloseConn(t) \in Seq(GoodFrames)
    BY NewFrames
  <2>3. OfflineFrames(t) \o CloseConn(t) \o Served(g, t) \in Seq(GoodFrames)
    BY <2>1, <2>2, ConcatProperties
  <2>4. QED
    BY <1>7, <2>3, KeepSend DEF Evict
<1>8. ASSUME NEW g \in Goroutines, NEW t \in Conns, SendOnClosed(g, t) PROVE SendersInv'
  <2>1. CASE g \in Conns /\ stack' = [stack EXCEPT ![g] = OfflineFrames(g)]
    <3>1. OfflineFrames(g) \in Seq(GoodFrames)
      BY <2>1, NewFrames
    <3>2. QED
      BY <1>8, <2>1, <3>1, KeepSend DEF SendOnClosed
  <2>2. CASE stack' = [stack EXCEPT ![g] = <<>>]
    <3>1. <<>> \in Seq(GoodFrames)
      OBVIOUS
    <3>2. QED
      BY <1>8, <2>2, <3>1, KeepSend DEF SendOnClosed
  <2>3. CASE ProcessEnds
    <3>1. stack' \in [Goroutines -> Seq(GoodFrames)]
      BY <2>3 DEF ProcessEnds
    <3>2. send' = send /\ userOf' = userOf
      BY <1>8 DEF SendOnClosed
    <3>3. QED
      BY <3>1, <3>2 DEF IsolationInv, SendersInv, GoodFrames, ForTargets, OwnMessages
  <2>4. QED
    BY <1>8, <2>1, <2>2, <2>3 DEF SendOnClosed
<1>9. ASSUME NEW g \in Goroutines, CloseAfterEviction(g) PROVE SendersInv'
  BY <1>9, GoodRest, KeepSend DEF CloseAfterEviction
<1>10. ASSUME NEW c \in Conns, Deliver(c) PROVE SendersInv'
  <2>1. /\ send[c] # <<>> /\ send' = [send EXCEPT ![c] = Tail(@)] /\ stack' = stack
    BY <1>10 DEF Deliver
  <2>2. Tail(send[c]) \in Seq(OwnMessages(c)) /\ Tail(send[c]) \in Seq(Messages)
    BY <2>1, HeadTailProperties DEF IsolationInv, SendersInv
  <2>3. QED
    BY <2>1, <2>2 DEF IsolationInv, SendersInv, GoodFrames, ForTargets, OwnMessages
<1>11. ASSUME NEW c \in Conns, Disconnect(c) PROVE SendersInv'
  BY <1>11, KeepAll DEF Disconnect
<1>12. ASSUME NEW c \in Conns, ReadError(c) PROVE SendersInv'
  BY <1>12, NewFrames, KeepSend DEF ReadError, Goroutines
<1>13. CASE UNCHANGED vars
  BY <1>13, KeepAll DEF vars
<1>14. QED
  BY <1>1, <1>2, <1>3, <1>4, <1>5, <1>6, <1>7, <1>8, <1>9, <1>10, <1>11, <1>12, <1>13
  DEF Next, FrameStep

\* What one user's connections say never reaches another user's, whatever is
\* evicted, panics or connects while a message is on its way (live.go:257).
THEOREM UsersAreIsolated == Spec => []UserIsolation
<1>1. Init => IsolationInv
  BY InitTables, InitSenders DEF IsolationInv
<1>2. IsolationInv /\ [Next]_vars => IsolationInv'
  BY NextTables, NextSenders DEF IsolationInv
<1>3. IsolationInv => UserIsolation
  <2> SUFFICES ASSUME IsolationInv, NEW c \in Conns, NEW i \in DOMAIN send[c]
               PROVE  send[c][i].user \in {None, userOf[c]}
    BY DEF UserIsolation
  <2>1. send[c] \in Seq(OwnMessages(c))
    BY DEF IsolationInv, SendersInv
  <2>2. send[c][i] \in OwnMessages(c)
    BY <2>1
  <2>3. QED
    BY <2>2 DEF OwnMessages
<1>4. QED
  BY <1>1, <1>2, <1>3, PTL DEF Spec
===============================================================================
