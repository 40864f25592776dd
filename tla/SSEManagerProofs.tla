-------------------------- MODULE SSEManagerProofs --------------------------
(***************************************************************************)
(* Proofs about the connection manager of SSEManager, for any finite or    *)
(* infinite set of endpoints, configurations, connection objects and       *)
(* listeners.                                                              *)
(*                                                                         *)
(* The invariant of interest is LiveIsCurrent.  It is inductive together   *)
(* with EntriesNotManual (an object is in the map under its own endpoint   *)
(* only), SlotsUsed (a free slot has no context) and the types, to which   *)
(* DaemonHolds belongs.  ConnectedHasListener needs the same parts.        *)
(*                                                                         *)
(* The first part proves the types, one lemma per component.  The second   *)
(* part sorts the steps by what they do to the map, the objects and the    *)
(* listeners: most only move one listener (Leaves, Continues), and         *)
(* ConnectEndpoint, DisconnectEndpoint, the cancel of reconnectEndpoint    *)
(* and Close have a lemma each.                                            *)
(***************************************************************************)
EXTENDS SSEManager, TLAPS

-----------------------------------------------------------------------------
(* Types                                                                   *)

\* A slot without a connection object is one no run of listenSSE is using.
SlotsUsed ==
    \A g \in Listeners : listener[g].conn = NoConn =>
        listener[g].pc = "exited" /\ listener[g].sub = "ended" /\ ~listener[g].live

\* Past its manual check the daemon has a connection in hand.
DaemonHolds ==
    daemon.pc \in {"connected", "recent", "connect"} => daemon.conn # NoConn

\* conn.Cancel() leaves well-typed listeners.
LEMMA CancelledTypes ==
    ASSUME TypeOK, NEW o \in Conns
    PROVE  Cancelled(o) \in [Listeners -> Listener]
  BY DEF Cancelled, Stops, TypeOK, Listener

\* ConnectEndpoint writes well-typed entries, objects and listeners.
LEMMA ConnectTypes ==
    ASSUME TypeOK, NEW e \in Endpoints, NEW c \in Configs, ConnectEndpoint(e, c)
    PROVE  /\ connections' \in [Endpoints -> Conns \cup {NoConn}]
           /\ conn' \in [Conns -> Connection]
           /\ listener' \in [Listeners -> Listener]
<1>1. PICK o \in Conns, g \in Listeners :
        LET known == connections[e] # NoConn
        IN  /\ connections' = [connections EXCEPT ![e] = o]
            /\ conn' = [conn EXCEPT ![o] =
                    [endpoint |-> e,
                     config |-> IF known THEN conn[o].config ELSE c,
                     manual |-> FALSE, connected |-> FALSE,
                     recent |-> TRUE, cancel |-> g]]
            /\ listener' =
                    [(IF known THEN Cancelled(o) ELSE listener) EXCEPT ![g] =
                        [conn |-> o, live |-> phase = "running",
                         pc |-> "connecting", sub |-> "pending"]]
  BY DEF ConnectEndpoint
<1>2. Cancelled(o) \in [Listeners -> Listener]
  BY CancelledTypes
<1>3. listener' \in [Listeners -> Listener]
  BY <1>1, <1>2 DEF TypeOK, Listener, ListenPC, SubscribePC
<1>4. conn' \in [Conns -> Connection]
  BY <1>1 DEF TypeOK, Connection
<1> QED
  BY <1>1, <1>3, <1>4 DEF TypeOK

\* So does DisconnectEndpoint, and the row it marks is well typed.
LEMMA DisconnectTypes ==
    ASSUME TypeOK, NEW e \in Endpoints, DisconnectEndpoint(e)
    PROVE  /\ connections' \in [Endpoints -> Conns \cup {NoConn}]
           /\ conn' \in [Conns -> Connection]
           /\ listener' \in [Listeners -> Listener]
           /\ row' \in [Endpoints -> EndpointRow]
<1>1. CASE connections[e] = NoConn
  BY <1>1 DEF DisconnectEndpoint, TypeOK
<1>2. CASE connections[e] # NoConn
  <2>1. connections[e] \in Conns
    BY <1>2 DEF TypeOK
  <2>2. listener' \in [Listeners -> Listener]
    BY <1>2, <2>1, CancelledTypes DEF DisconnectEndpoint
  <2> DEFINE o == connections[e]
             gone == [endpoint |-> conn[o].endpoint, config |-> conn[o].config,
                      manual |-> TRUE, connected |-> FALSE,
                      recent |-> conn[o].recent, cancel |-> NoListener]
  <2>a. conn' = [conn EXCEPT ![o] = gone]
    BY <1>2, <2>1 DEF DisconnectEndpoint, TypeOK, Connection
  <2>b. gone \in Connection
    BY <2>1 DEF TypeOK, Connection
  <2>3. conn' \in [Conns -> Connection]
    BY <2>a, <2>b DEF TypeOK
  <2>4. row' \in [Endpoints -> EndpointRow]
    BY <1>2 DEF DisconnectEndpoint, MarkStatus, TypeOK, EndpointRow, Stored
  <2> QED
    BY <1>2, <2>2, <2>3, <2>4 DEF DisconnectEndpoint, TypeOK
<1> QED
  BY <1>1, <1>2

\* Cancelling a context leaves a well-typed listener.
LEMMA LiveTypes ==
    ASSUME TypeOK, NEW g \in Listeners, NEW b \in BOOLEAN
    PROVE  [listener[g] EXCEPT !.live = b] \in Listener
  BY DEF TypeOK, Listener

\* The setters of EndpointConnection leave a well-typed object.
LEMMA FieldTypes ==
    ASSUME TypeOK, NEW o \in Conns, NEW b \in BOOLEAN
    PROVE  /\ [conn[o] EXCEPT !.connected = b] \in Connection
           /\ [conn[o] EXCEPT !.recent = b] \in Connection
           /\ [conn[o] EXCEPT !.manual = b] \in Connection
  BY DEF TypeOK, Connection

\* SetConnected(b) on whichever object the listener holds.
LEMMA SetConnectedTypes ==
    ASSUME TypeOK, NEW o, NEW b \in BOOLEAN, SetConnected(o, b)
    PROVE  conn' \in [Conns -> Connection]
  BY FieldTypes DEF SetConnected, TypeOK

\* ResetLastConnectAttempt and the passing of 30 seconds.
LEMMA SetRecentTypes ==
    ASSUME TypeOK, NEW o, NEW b \in BOOLEAN,
           conn' = [conn EXCEPT ![o].recent = b]
    PROVE  conn' \in [Conns -> Connection]
  BY FieldTypes DEF TypeOK

\* markEndpointOnline, -Fail and -Disconnect write a stored status.
LEMMA MarkStatusTypes ==
    ASSUME TypeOK, NEW e, NEW s \in Stored, MarkStatus(e, s)
    PROVE  row' \in [Endpoints -> EndpointRow]
  BY DEF MarkStatus, TypeOK, EndpointRow

\* A run of listenSSE goes on or gives its slot back.
LEMMA BecomeTypes ==
    ASSUME TypeOK, NEW g \in Listeners, NEW r \in Listener, Become(g, r)
    PROVE  listener' \in [Listeners -> Listener]
  BY DEF Become, Idle, TypeOK, Listener, ListenPC, SubscribePC

\* The loop of listenSSE moves to one of its program points.
LEMMA GotoTypes ==
    ASSUME TypeOK, NEW g \in Listeners, NEW l \in ListenPC, Goto(g, l)
    PROVE  listener' \in [Listeners -> Listener]
<1>1. [listener[g] EXCEPT !.pc = l] \in Listener
  BY DEF TypeOK, Listener
<1> QED
  BY <1>1, BecomeTypes DEF Goto

\* The subscription goroutine moves to one of its program points.
LEMMA SubGotoTypes ==
    ASSUME TypeOK, NEW g \in Listeners, NEW l \in SubscribePC, SubGoto(g, l)
    PROVE  listener' \in [Listeners -> Listener]
<1>1. [listener[g] EXCEPT !.sub = l] \in Listener
  BY DEF TypeOK, Listener
<1> QED
  BY <1>1, BecomeTypes DEF SubGoto

\* The program starts well typed, with every slot free.
LEMMA InitTypes == Init => TypeOK /\ DaemonHolds /\ SlotsUsed
<1> SUFFICES ASSUME Init PROVE TypeOK /\ DaemonHolds /\ SlotsUsed
  OBVIOUS
<1>1. conn \in [Conns -> Connection]
  BY ScopeAssumption DEF Init, Connection
<1>2. listener \in [Listeners -> Listener] /\ SlotsUsed
  BY DEF Init, Listener, Idle, ListenPC, SubscribePC, SlotsUsed
<1>3. daemon \in DaemonState /\ DaemonHolds
  BY DEF Init, DaemonState, DaemonHolds
<1>4. boot \in [passes : 0..2, rows : SUBSET (Endpoints \X Configs)]
  BY BootAssumption DEF Init
<1> QED
  BY <1>1, <1>2, <1>3, <1>4 DEF Init, TypeOK

\* InitializeSystem keeps the types.
LEMMA BootTypes == TypeOK /\ Boot => TypeOK'
<1> SUFFICES ASSUME TypeOK, Boot PROVE TypeOK'
  OBVIOUS
<1>1. CASE BootScan
  <2>1. boot' \in [passes : 0..2, rows : SUBSET (Endpoints \X Configs)]
    BY <1>1 DEF BootScan, TypeOK, EndpointRow
  <2> QED
    BY <1>1, <2>1 DEF BootScan, memVars, TypeOK
<1>2. CASE BootConnect
  <2>1. PICK r \in boot.rows : /\ boot' = [boot EXCEPT !.rows = @ \ {r}]
                               /\ ConnectEndpoint(r[1], r[2])
    BY <1>2 DEF BootConnect
  <2>2. r[1] \in Endpoints /\ r[2] \in Configs
    BY DEF TypeOK
  <2>3. boot' \in [passes : 0..2, rows : SUBSET (Endpoints \X Configs)]
    BY <2>1 DEF TypeOK
  <2> QED
    BY <1>2, <2>1, <2>2, <2>3, ConnectTypes DEF BootConnect, TypeOK
<1> QED
  BY <1>1, <1>2 DEF Boot

\* The HTTP handlers keep the types.
LEMMA ApiTypes == TypeOK /\ Api => TypeOK'
<1> SUFFICES ASSUME TypeOK, NEW e \in Endpoints, NEW c \in Configs,
                    \/ RequestReconnect(e) \/ RequestDisconnect(e)
                    \/ DeleteEndpoint(e)
                    \/ CreateEndpoint(e, c) \/ UpdateConfig(e, c)
             PROVE  TypeOK'
  BY ScopeAssumption DEF Api
<1>1. CASE CreateEndpoint(e, c)
  BY <1>1 DEF CreateEndpoint, Go, memVars, TypeOK, Call, EndpointRow, Stored
<1>2. CASE RequestReconnect(e)
  BY <1>2 DEF RequestReconnect, Go, memVars, TypeOK, Call, EndpointRow
<1>3. CASE RequestDisconnect(e)
  BY <1>3 DEF RequestDisconnect, Go, memVars, TypeOK, Call
<1>4. CASE UpdateConfig(e, c)
  BY <1>4 DEF UpdateConfig, memVars, TypeOK, EndpointRow
<1>5. CASE DeleteEndpoint(e)
  <2>1. calls' \subseteq Call
    BY <1>5 DEF DeleteEndpoint, Go, TypeOK, Call
  <2> QED
    BY <1>5, <2>1, DisconnectTypes DEF DeleteEndpoint, TypeOK
<1> QED
  BY <1>1, <1>2, <1>3, <1>4, <1>5

\* The goroutines of the HTTP handlers keep the types.
LEMMA CallTypes == TypeOK /\ RunCall => TypeOK'
<1> SUFFICES ASSUME TypeOK, RunCall PROVE TypeOK'
  OBVIOUS
<1>1. CASE RunConnect
  <2>1. PICK k \in calls : /\ k.op = "connect"
                           /\ ConnectEndpoint(k.endpoint, k.config)
                           /\ calls' = calls \ {k}
    BY <1>1 DEF RunConnect
  <2>2. k.endpoint \in Endpoints /\ k.config \in Configs
    BY <2>1 DEF TypeOK, Call
  <2> QED
    BY <1>1, <2>1, <2>2, ConnectTypes DEF RunConnect, TypeOK
<1>2. CASE RunDisconnect
  <2>1. PICK k \in calls : /\ k.op = "disconnect"
                           /\ DisconnectEndpoint(k.endpoint)
                           /\ calls' = calls \ {k}
    BY <1>2 DEF RunDisconnect
  <2>2. k.endpoint \in Endpoints
    BY <2>1 DEF TypeOK, Call
  <2> QED
    BY <1>2, <2>1, <2>2, DisconnectTypes DEF RunDisconnect, TypeOK
<1>3. CASE RunDeleteRow
  <2>1. PICK e : row' = [row EXCEPT ![e].status = "deleted"]
    BY <1>3 DEF RunDeleteRow
  <2>2. row' \in [Endpoints -> EndpointRow]
    BY <2>1 DEF TypeOK, EndpointRow
  <2>3. calls' \subseteq Call
    BY <1>3 DEF RunDeleteRow, TypeOK
  <2> QED
    BY <1>3, <2>2, <2>3 DEF RunDeleteRow, memVars, TypeOK
<1> QED
  BY <1>1, <1>2, <1>3 DEF RunCall

\* Giving up the connection in hand keeps the daemon well typed.
LEMMA DaemonNextTypes ==
    ASSUME TypeOK, DaemonNext
    PROVE  daemon' \in DaemonState /\ DaemonHolds'
<1>1. daemon' = [pc |-> "scan", todo |-> daemon.todo, conn |-> NoConn]
  BY DEF DaemonNext, TypeOK, DaemonState
<1> QED
  BY <1>1 DEF TypeOK, DaemonState, DaemonHolds

\* checkAndReconnect and reconnectEndpoint keep the types, and past the manual
\* check the daemon holds a connection: nothing it dereferences is nil.
LEMMA DaemonTypes == TypeOK /\ DaemonHolds /\ Daemon => TypeOK' /\ DaemonHolds'
<1> SUFFICES ASSUME TypeOK, DaemonHolds, Daemon PROVE TypeOK' /\ DaemonHolds'
  OBVIOUS
<1>1. CASE DaemonTick
  BY <1>1 DEF DaemonTick, memVars, TypeOK, DaemonState, DaemonHolds
<1>2. CASE DaemonCheckManual
  <2>1. daemon' \in DaemonState /\ DaemonHolds'
    <3>1. CASE daemon.todo = {}
      BY <1>2, <3>1 DEF DaemonCheckManual, TypeOK, DaemonState, DaemonHolds
    <3>2. CASE daemon.todo # {}
      <4>1. PICK o \in daemon.todo :
              daemon' = [pc |-> IF conn[o].manual THEN "scan" ELSE "connected",
                         conn |-> IF conn[o].manual THEN NoConn ELSE o,
                         todo |-> daemon.todo \ {o}]
        BY <1>2, <3>2 DEF DaemonCheckManual
      <4>2. o \in Conns /\ daemon.todo \ {o} \subseteq Conns
        BY DEF TypeOK, DaemonState
      <4> QED
        BY <4>1, <4>2, NilAssumption DEF DaemonState, DaemonHolds
    <3> QED
      BY <3>1, <3>2
  <2> QED
    BY <1>2, <2>1 DEF DaemonCheckManual, memVars, TypeOK
<1>3. CASE DaemonCheckConnected
  <2>1. daemon' \in DaemonState /\ DaemonHolds'
    <3>1. CASE conn[daemon.conn].connected
      BY <1>3, <3>1, DaemonNextTypes DEF DaemonCheckConnected
    <3>2. CASE ~conn[daemon.conn].connected
      BY <1>3, <3>2 DEF DaemonCheckConnected, TypeOK, DaemonState, DaemonHolds
    <3> QED
      BY <3>1, <3>2
  <2> QED
    BY <1>3, <2>1 DEF DaemonCheckConnected, memVars, TypeOK
<1>4. CASE DaemonCheckRecent
  <2>1. daemon.conn \in Conns
    BY <1>4 DEF DaemonCheckRecent, DaemonHolds, TypeOK, DaemonState
  <2>2. daemon' \in DaemonState /\ DaemonHolds'
    <3>1. CASE conn[daemon.conn].recent
      BY <1>4, <3>1, DaemonNextTypes DEF DaemonCheckRecent
    <3>2. CASE ~conn[daemon.conn].recent
      BY <1>4, <2>1, <3>2 DEF DaemonCheckRecent, DaemonHolds, TypeOK, DaemonState
    <3> QED
      BY <3>1, <3>2
  <2>3. conn' \in [Conns -> Connection]
    <3> DEFINE o == daemon.conn
               tried == [endpoint |-> conn[o].endpoint, config |-> conn[o].config,
                         manual |-> conn[o].manual, connected |-> conn[o].connected,
                         recent |-> TRUE, cancel |-> NoListener]
    <3>1. tried \in Connection
      BY <2>1 DEF TypeOK, Connection
    <3>2. conn' = conn \/ conn' = [conn EXCEPT ![daemon.conn] = tried]
      BY <1>4, <2>1 DEF DaemonCheckRecent, memVars, TypeOK, Connection
    <3> QED
      BY <2>1, <3>1, <3>2 DEF TypeOK
  <2>4. listener' \in [Listeners -> Listener]
    BY <1>4, <2>1, CancelledTypes DEF DaemonCheckRecent, memVars, TypeOK
  <2> QED
    BY <1>4, <2>2, <2>3, <2>4 DEF DaemonCheckRecent, memVars, TypeOK
<1>5. CASE DaemonConnect
  <2>1. /\ conn[daemon.conn].endpoint \in Endpoints
        /\ conn[daemon.conn].config \in Configs
    BY <1>5 DEF DaemonConnect, DaemonHolds, TypeOK, DaemonState, Connection
  <2>2. daemon' \in DaemonState /\ DaemonHolds'
    BY <1>5, DaemonNextTypes DEF DaemonConnect
  <2> QED
    BY <1>5, <2>1, <2>2, ConnectTypes DEF DaemonConnect, TypeOK
<1> QED
  BY <1>1, <1>2, <1>3, <1>4, <1>5 DEF Daemon

\* Queueing an event keeps the shutdown events well typed.
LEMMA EnqueueTypes ==
    ASSUME TypeOK, NEW e, Enqueue(e)
    PROVE  shutdown' \in [Endpoints -> {"none", "queued", "notify"}]
  BY DEF Enqueue, TypeOK

\* Every step of the loop of listenSSE keeps the types.
LEMMA ListenTypes ==
    ASSUME TypeOK, NEW g \in Listeners, ListenSelect(g) \/ ListenTail(g)
    PROVE  TypeOK'
<1>1. CASE ListenDone(g)
  BY <1>1, SetConnectedTypes, GotoTypes
  DEF ListenDone, ListenPC, TypeOK
<1>2. CASE ListenTimeout(g)
  BY <1>2, SetConnectedTypes, GotoTypes
  DEF ListenTimeout, ListenPC, TypeOK
<1>3. CASE ListenZombie(g)
  BY <1>3, SetConnectedTypes, GotoTypes
  DEF ListenZombie, ListenPC, TypeOK
<1>4. CASE ListenClosed(g)
  BY <1>4, SetConnectedTypes, GotoTypes
  DEF ListenClosed, ListenPC, TypeOK
<1>5. CASE ListenFirstEvent(g)
  <2>1. [listener[g] EXCEPT !.pc = "online", !.sub = "ended"] \in Listener
    BY DEF TypeOK, Listener, ListenPC, SubscribePC
  <2> QED
    BY <1>5, <2>1, SetConnectedTypes, BecomeTypes DEF ListenFirstEvent, TypeOK
<1>6. CASE ListenEvent(g)
  BY <1>6, EnqueueTypes DEF ListenEvent, memVars, TypeOK
<1>7. CASE ListenMarkOnline(g)
  BY <1>7, EnqueueTypes, GotoTypes, MarkStatusTypes
  DEF ListenMarkOnline, ListenPC, Stored, TypeOK
<1>8. CASE ListenTimedOut(g)
  BY <1>8, GotoTypes DEF ListenTimedOut, ListenPC, TypeOK
<1>9. CASE ListenFailReset(g)
  BY <1>9, SetRecentTypes, GotoTypes, MarkStatusTypes
  DEF ListenFailReset, ListenPC, Stored, TypeOK
<1>10. CASE ListenBroken(g)
  BY <1>10, SetRecentTypes, GotoTypes DEF ListenBroken, ListenPC, TypeOK
<1>11. CASE ListenFail(g)
  BY <1>11, GotoTypes, MarkStatusTypes DEF ListenFail, ListenPC, Stored, TypeOK
<1> QED
  BY <1>1, <1>2, <1>3, <1>4, <1>5, <1>6, <1>7, <1>8, <1>9, <1>10, <1>11 DEF ListenSelect, ListenTail

\* Every step of the subscription goroutine keeps the types.
LEMMA SubscribeTypes ==
    ASSUME TypeOK, NEW g \in Listeners, Subscribe(g)
    PROVE  TypeOK'
<1>1. CASE SubscribeReturns(g)
  BY <1>1, SubGotoTypes DEF SubscribeReturns, SubscribePC, TypeOK
<1>2. CASE SubscribeFails(g)
  BY <1>2, SetConnectedTypes, SubGotoTypes DEF SubscribeFails, SubscribePC, TypeOK
<1>3. CASE SubscribeBroken(g)
  BY <1>3, SetRecentTypes, SubGotoTypes DEF SubscribeBroken, SubscribePC, TypeOK
<1>4. CASE SubscribeFail(g)
  BY <1>4, SubGotoTypes, MarkStatusTypes DEF SubscribeFail, SubscribePC, Stored, TypeOK
<1> QED
  BY <1>1, <1>2, <1>3, <1>4 DEF Subscribe, SubscribeTail

\* handleShutdownEvent and NotifyEndpointStatusChanged keep the types.
LEMMA WorkerTypes ==
    ASSUME TypeOK, NEW e \in Endpoints, Worker(e)
    PROVE  TypeOK'
<1>1. CASE WorkerShutdown(e)
  BY <1>1, MarkStatusTypes DEF WorkerShutdown, memVars, Stored, TypeOK
<1>2. CASE WorkerNotify(e)
  <2> DEFINE o == connections[e]
             lost == [endpoint |-> conn[o].endpoint, config |-> conn[o].config,
                      manual |-> conn[o].manual, connected |-> FALSE,
                      recent |-> conn[o].recent /\ conn[o].manual,
                      cancel |-> conn[o].cancel]
  <2>1. CASE o # NoConn /\ conn[o].connected
    <3>1. o \in Conns
      BY <2>1 DEF TypeOK
    <3>2. lost \in Connection
      BY <3>1 DEF TypeOK, Connection
    <3>3. conn' = [conn EXCEPT ![o] = lost]
      BY <1>2, <2>1, <3>1 DEF WorkerNotify, TypeOK, Connection
    <3>4. conn' \in [Conns -> Connection]
      BY <3>1, <3>2, <3>3 DEF TypeOK
    <3> QED
      BY <1>2, <3>4 DEF WorkerNotify, TypeOK
  <2>2. CASE ~(o # NoConn /\ conn[o].connected)
    BY <1>2, <2>2 DEF WorkerNotify, TypeOK
  <2> QED
    BY <2>1, <2>2
<1> QED
  BY <1>1, <1>2 DEF Worker

\* Manager.Close keeps the types.
LEMMA CloseTypes == TypeOK /\ Close => TypeOK'
<1> SUFFICES ASSUME TypeOK, Close PROVE TypeOK'
  OBVIOUS
<1>1. CASE CloseStop
  <2>1. listener' \in [Listeners -> Listener]
    BY <1>1 DEF CloseStop, TypeOK, Listener
  <2> QED
    BY <1>1, <2>1 DEF CloseStop, TypeOK
<1>2. CASE CloseConnections
  <2> DEFINE stopped(g) == \E o \in Conns : InMap(o) /\ Stops(o, g)
  <2>1. listener' \in [Listeners -> Listener]
    <3>1. \A g \in Listeners : (listener[g].live /\ ~stopped(g)) \in BOOLEAN
      OBVIOUS
    <3>2. listener' = [g \in Listeners |-> [listener[g] EXCEPT !.live =
                                            listener[g].live /\ ~stopped(g)]]
      BY <1>2 DEF CloseConnections
    <3> HIDE DEF stopped
    <3> QED
      BY <3>1, <3>2, LiveTypes
  <2>2. conn' \in [Conns -> Connection]
    <3>1. \A o \in Conns : (conn[o].manual \/ InMap(o)) \in BOOLEAN
      OBVIOUS
    <3>2. conn' = [o \in Conns |-> [conn[o] EXCEPT !.manual =
                                       conn[o].manual \/ InMap(o)]]
      BY <1>2 DEF CloseConnections
    <3> QED
      BY <3>1, <3>2, FieldTypes
  <2> QED
    BY <1>2, <2>1, <2>2 DEF CloseConnections, TypeOK
<1> QED
  BY <1>1, <1>2 DEF Close

\* The clock keeps the types.
LEMMA AgesTypes ==
    ASSUME TypeOK, NEW o \in Conns, AttemptAges(o)
    PROVE  TypeOK'
  BY SetRecentTypes DEF AttemptAges, TypeOK

-----------------------------------------------------------------------------
(* The map, the objects and the listeners                                  *)

\* The listener h is in its loop and has seen an event of the object o.
Up(h, o) == listener[h].conn = o /\ listener[h].pc \in {"online", "streaming"}

\* The part of the invariant about the map, the objects and the listeners.
Memory == LiveIsCurrent /\ EntriesNotManual /\ ConnectedHasListener /\ SlotsUsed

\* A step that leaves the map, the endpoint and manual flag of every object, and
\* the cancel function of every object a live listener uses, keeps the entries and
\* makes no context live.
LEMMA EntriesKept ==
    ASSUME TypeOK, LiveIsCurrent, EntriesNotManual, SlotsUsed,
           connections' = connections, phase' = phase,
           \A o \in Conns : /\ conn'[o].endpoint = conn[o].endpoint
                            /\ conn'[o].manual = conn[o].manual,
           \A h \in Listeners : listener'[h].live =>
               /\ listener[h].live
               /\ listener'[h].conn = listener[h].conn
               /\ conn'[listener[h].conn].cancel = conn[listener[h].conn].cancel
    PROVE  LiveIsCurrent' /\ EntriesNotManual'
<1>1. LiveIsCurrent'
  <2> SUFFICES ASSUME NEW h \in Listeners, listener'[h].live
               PROVE  /\ connections'[conn'[listener'[h].conn].endpoint] = listener'[h].conn
                      /\ conn'[listener'[h].conn].cancel = h
                      /\ phase' = "running"
    BY DEF LiveIsCurrent, Live, EndpointOf
  <2>1. listener[h].live /\ listener[h].conn \in Conns
    BY DEF SlotsUsed, TypeOK, Listener
  <2> QED
    BY <2>1 DEF LiveIsCurrent, Live, EndpointOf
<1>2. EntriesNotManual'
  BY DEF EntriesNotManual, TypeOK
<1> QED
  BY <1>1, <1>2

\* A step that sets no connected flag and takes no listener that has seen an event
\* off a connected object keeps ConnectedHasListener.
LEMMA FlagsKept ==
    ASSUME ConnectedHasListener,
           \A o \in Conns : conn'[o].connected => conn[o].connected,
           \A o \in Conns, h \in Listeners :
               conn'[o].connected /\ Up(h, o) =>
                   \E k \in Listeners :
                       /\ listener'[k].conn = o
                       /\ listener'[k].pc \in {"online", "streaming"}
    PROVE  ConnectedHasListener'
  BY DEF ConnectedHasListener, Up

\* The invariant is about these variables only.
LEMMA MemoryKept == Memory /\ UNCHANGED <<memVars, phase>> => Memory'
  BY DEF Memory, memVars, LiveIsCurrent, EntriesNotManual, ConnectedHasListener,
         SlotsUsed, Live, EndpointOf

\* Of all listeners only g changes; it gains no context and no object.
Moves(g) ==
    /\ \A h \in Listeners \ {g} : listener'[h] = listener[h]
    /\ listener'[g].live =>
        listener[g].live /\ listener'[g].conn = listener[g].conn
    /\ SlotsUsed'

\* Become is such a move, whether or not the slot is given back.
LEMMA BecomeMoves ==
    ASSUME TypeOK, SlotsUsed, NEW g \in Listeners, listener[g].conn # NoConn,
           NEW r \in Listener, r.conn = listener[g].conn,
           r.live = listener[g].live, Become(g, r)
    PROVE  /\ Moves(g)
           /\ r.pc # "exited" => listener'[g] = r
<1>1. listener'[g] = IF Finished(r) THEN Idle ELSE r
  BY DEF Become, TypeOK
<1>2. \A h \in Listeners \ {g} : listener'[h] = listener[h]
  BY DEF Become, TypeOK
<1>3. SlotsUsed'
  BY <1>1, <1>2 DEF SlotsUsed, Idle
<1> QED
  BY <1>1, <1>2, <1>3 DEF Moves, Idle, Finished

\* A step of the loop is such a move, and keeps its object unless it exits.
LEMMA GotoMoves ==
    ASSUME TypeOK, SlotsUsed, NEW g \in Listeners, listener[g].conn # NoConn,
           NEW l \in ListenPC, Goto(g, l)
    PROVE  /\ Moves(g)
           /\ l # "exited" => /\ listener'[g].conn = listener[g].conn
                              /\ listener'[g].pc = l
<1> DEFINE r == [listener[g] EXCEPT !.pc = l]
<1>1. /\ r \in Listener /\ r.conn = listener[g].conn
      /\ r.live = listener[g].live /\ r.pc = l
  BY DEF TypeOK, Listener
<1>2. Become(g, r)
  BY DEF Goto
<1> HIDE DEF r
<1> QED
  BY <1>1, <1>2, BecomeMoves

\* A step of the subscription goroutine is such a move, and leaves the loop alone.
LEMMA SubGotoMoves ==
    ASSUME TypeOK, SlotsUsed, NEW g \in Listeners, listener[g].conn # NoConn,
           NEW l \in SubscribePC, SubGoto(g, l)
    PROVE  /\ Moves(g)
           /\ listener[g].pc # "exited" =>
                /\ listener'[g].conn = listener[g].conn
                /\ listener'[g].pc = listener[g].pc
<1> DEFINE r == [listener[g] EXCEPT !.sub = l]
<1>1. /\ r \in Listener /\ r.conn = listener[g].conn
      /\ r.live = listener[g].live /\ r.pc = listener[g].pc
  BY DEF TypeOK, Listener
<1>2. Become(g, r)
  BY DEF SubGoto
<1> HIDE DEF r
<1> QED
  BY <1>1, <1>2, BecomeMoves

\* SetConnected changes one flag of one object.
LEMMA SetConnectedEffect ==
    ASSUME TypeOK, NEW o \in Conns, NEW b \in BOOLEAN, SetConnected(o, b)
    PROVE  /\ \A p \in Conns : /\ conn'[p].endpoint = conn[p].endpoint
                               /\ conn'[p].manual = conn[p].manual
                               /\ conn'[p].cancel = conn[p].cancel
           /\ \A p \in Conns \ {o} : conn'[p].connected = conn[p].connected
           /\ conn'[o].connected = b
  BY DEF SetConnected, TypeOK, Connection

\* A listener or subscription that clears the connected flag of its object may do
\* anything else: the flag it clears is the only one it answered for.
LEMMA Leaves ==
    ASSUME TypeOK, Memory, NEW g \in Listeners, listener[g].conn # NoConn,
           Moves(g), SetConnected(listener[g].conn, FALSE),
           UNCHANGED <<connections, phase>>
    PROVE  Memory'
<1>1. listener[g].conn \in Conns
  BY DEF TypeOK, Listener
<1>2. \A h \in Listeners : listener'[h].live =>
               /\ listener[h].live
               /\ listener'[h].conn = listener[h].conn
               /\ conn'[listener[h].conn].cancel = conn[listener[h].conn].cancel
  <2> SUFFICES ASSUME NEW h \in Listeners, listener'[h].live
               PROVE  /\ listener[h].live
                      /\ listener'[h].conn = listener[h].conn
                      /\ conn'[listener[h].conn].cancel = conn[listener[h].conn].cancel
    OBVIOUS
  <2>1. listener[h].live /\ listener'[h].conn = listener[h].conn
    BY DEF Moves
  <2>2. listener[h].conn \in Conns
    BY <2>1 DEF Memory, SlotsUsed, TypeOK, Listener
  <2> QED
    BY <1>1, <2>1, <2>2, SetConnectedEffect
<1>3. LiveIsCurrent' /\ EntriesNotManual'
  BY <1>1, <1>2, SetConnectedEffect, EntriesKept DEF Memory
<1>4. ConnectedHasListener'
  BY <1>1, SetConnectedEffect, FlagsKept DEF Memory, Moves, Up
<1> QED
  BY <1>3, <1>4 DEF Memory, Moves

\* A step that changes at most the time of the last attempt, and does not take a
\* listener that has seen an event out of its loop, keeps the invariant.
LEMMA Continues ==
    ASSUME TypeOK, Memory, NEW g \in Listeners,
           Moves(g), UNCHANGED <<connections, phase>>,
           listener[g].pc \in {"online", "streaming"} =>
               /\ listener'[g].conn = listener[g].conn
               /\ listener'[g].pc \in {"online", "streaming"},
           \A p \in Conns : /\ conn'[p].endpoint = conn[p].endpoint
                            /\ conn'[p].manual = conn[p].manual
                            /\ conn'[p].cancel = conn[p].cancel
                            /\ conn'[p].connected = conn[p].connected
    PROVE  Memory'
<1>1. \A h \in Listeners : listener'[h].live =>
               /\ listener[h].live
               /\ listener'[h].conn = listener[h].conn
               /\ listener[h].conn \in Conns
  BY DEF Moves, Memory, SlotsUsed, TypeOK, Listener
<1>2. LiveIsCurrent' /\ EntriesNotManual'
  BY <1>1, EntriesKept DEF Memory
<1>3. ConnectedHasListener'
  BY FlagsKept DEF Memory, Moves, Up
<1> QED
  BY <1>2, <1>3 DEF Memory, Moves

\* The step that sets a connected flag is the one that enters the loop's second half.
LEMMA FirstEventMemory ==
    ASSUME TypeOK, Memory, NEW g \in Listeners, listener[g].conn # NoConn,
           ListenFirstEvent(g)
    PROVE  Memory'
<1> DEFINE r == [listener[g] EXCEPT !.pc = "online", !.sub = "ended"]
           o == listener[g].conn
<1> SlotsUsed
  BY DEF Memory
<1>1. /\ r \in Listener /\ r.conn = o
      /\ r.live = listener[g].live /\ r.pc = "online"
  BY DEF TypeOK, Listener, ListenPC, SubscribePC
<1>2. Become(g, r) /\ SetConnected(o, TRUE) /\ UNCHANGED <<connections, phase>>
  BY DEF ListenFirstEvent
<1>3. o \in Conns
  BY DEF TypeOK, Listener
<1> HIDE DEF r
<1>4. Moves(g) /\ listener'[g] = r
  BY <1>1, <1>2, BecomeMoves
<1>5. \A h \in Listeners : listener'[h].live =>
               /\ listener[h].live
               /\ listener'[h].conn = listener[h].conn
               /\ listener[h].conn \in Conns
  BY <1>4 DEF Moves, SlotsUsed, TypeOK, Listener
<1>6. LiveIsCurrent' /\ EntriesNotManual'
  BY <1>2, <1>3, <1>5, SetConnectedEffect, EntriesKept DEF Memory
<1>7. \A p \in Conns \ {o} : conn'[p].connected = conn[p].connected
  BY <1>2, <1>3, SetConnectedEffect
<1>8. ConnectedHasListener'
  BY <1>1, <1>4, <1>7 DEF Memory, ConnectedHasListener, Moves, ListenFirstEvent
<1> QED
  BY <1>4, <1>6, <1>8 DEF Memory, Moves

\* Changing the time of the last attempt changes nothing else.
LEMMA SetRecentEffect ==
    ASSUME TypeOK, NEW o, NEW b \in BOOLEAN,
           conn' = [conn EXCEPT ![o].recent = b]
    PROVE  \A p \in Conns : /\ conn'[p].endpoint = conn[p].endpoint
                             /\ conn'[p].manual = conn[p].manual
                             /\ conn'[p].cancel = conn[p].cancel
                             /\ conn'[p].connected = conn[p].connected
  BY DEF TypeOK, Connection

\* Every step of the loop of listenSSE keeps the invariant.
LEMMA ListenMemory ==
    ASSUME TypeOK, Memory, NEW g \in Listeners, ListenSelect(g) \/ ListenTail(g)
    PROVE  Memory'
<1> SlotsUsed
  BY DEF Memory
<1>0. CASE listener[g].pc # "exited"
  <2>0. listener[g].conn # NoConn
    BY <1>0 DEF SlotsUsed
  <2>1. CASE ListenDone(g)
    BY <2>0, <2>1, GotoMoves, Leaves DEF ListenDone, ListenPC
  <2>2. CASE ListenTimeout(g)
    BY <2>0, <2>2, GotoMoves, Leaves DEF ListenTimeout, ListenPC
  <2>3. CASE ListenZombie(g)
    BY <2>0, <2>3, GotoMoves, Leaves DEF ListenZombie, ListenPC
  <2>4. CASE ListenClosed(g)
    BY <2>0, <2>4, GotoMoves, Leaves DEF ListenClosed, ListenPC
  <2>5. CASE ListenFirstEvent(g)
    BY <2>0, <2>5, FirstEventMemory
  <2>6. CASE ListenEvent(g)
    BY <2>6, MemoryKept DEF ListenEvent
  <2>7. CASE ListenMarkOnline(g)
    BY <2>0, <2>7, GotoMoves, Continues DEF ListenMarkOnline, ListenPC
  <2>8. CASE ListenTimedOut(g)
    BY <2>0, <2>8, GotoMoves, Continues DEF ListenTimedOut, ListenPC
  <2>9. CASE ListenFailReset(g)
    BY <2>0, <2>9, GotoMoves, SetRecentEffect, Continues DEF ListenFailReset, ListenPC
  <2>10. CASE ListenBroken(g)
    BY <2>0, <2>10, GotoMoves, SetRecentEffect, Continues DEF ListenBroken, ListenPC
  <2>11. CASE ListenFail(g)
    BY <2>0, <2>11, GotoMoves, Continues DEF ListenFail, ListenPC
  <2> QED
    BY <2>1, <2>2, <2>3, <2>4, <2>5, <2>6, <2>7, <2>8, <2>9, <2>10, <2>11
    DEF ListenSelect, ListenTail
<1>1. listener[g].pc # "exited"
  BY DEF ListenSelect, ListenTail, ListenDone, ListenTimeout, ListenZombie,
         ListenClosed, ListenFirstEvent, ListenEvent, ListenMarkOnline,
         ListenTimedOut, ListenFailReset, ListenBroken, ListenFail, InLoop
<1> QED
  BY <1>0, <1>1

\* Every step of the subscription goroutine keeps the invariant.
LEMMA SubscribeMemory ==
    ASSUME TypeOK, Memory, NEW g \in Listeners, Subscribe(g)
    PROVE  Memory'
<1> SlotsUsed
  BY DEF Memory
<1>1. listener[g].sub # "ended"
  BY DEF Subscribe, SubscribeTail, SubscribeReturns, SubscribeFails,
         SubscribeBroken, SubscribeFail
<1>2. listener[g].conn # NoConn
  BY <1>1 DEF SlotsUsed
<1>3. CASE SubscribeReturns(g)
  BY <1>2, <1>3, SubGotoMoves, Continues DEF SubscribeReturns, SubscribePC
<1>4. CASE SubscribeFails(g)
  BY <1>2, <1>4, SubGotoMoves, Leaves DEF SubscribeFails, SubscribePC
<1>5. CASE SubscribeBroken(g)
  BY <1>2, <1>5, SubGotoMoves, SetRecentEffect, Continues DEF SubscribeBroken, SubscribePC
<1>6. CASE SubscribeFail(g)
  BY <1>2, <1>6, SubGotoMoves, Continues DEF SubscribeFail, SubscribePC
<1> QED
  BY <1>3, <1>4, <1>5, <1>6 DEF Subscribe, SubscribeTail

\* conn.Cancel() stops the run it belongs to and changes nothing else.
LEMMA CancelledEffect ==
    ASSUME TypeOK, NEW o \in Conns
    PROVE  \A h \in Listeners :
               /\ Cancelled(o)[h].conn = listener[h].conn
               /\ Cancelled(o)[h].pc = listener[h].pc
               /\ Cancelled(o)[h].sub = listener[h].sub
               /\ Cancelled(o)[h].live => listener[h].live /\ ~Stops(o, h)
  BY DEF Cancelled, Stops, TypeOK, Listener

\* ConnectEndpoint: the cancel of the old context comes before the new one is
\* stored, so the stream it starts is the only live one of the endpoint.
LEMMA ConnectMemory ==
    ASSUME TypeOK, Memory, NEW e \in Endpoints, NEW c \in Configs,
           ConnectEndpoint(e, c), phase' = phase
    PROVE  Memory'
<1> SlotsUsed /\ LiveIsCurrent /\ EntriesNotManual /\ ConnectedHasListener
  BY DEF Memory
<1> DEFINE known == connections[e] # NoConn
<1>1. PICK o \in Conns, g \in Listeners :
        /\ IF known THEN o = connections[e] ELSE Unreachable(o)
        /\ listener[g] = Idle
        /\ connections' = [connections EXCEPT ![e] = o]
        /\ conn' = [conn EXCEPT ![o] =
                [endpoint |-> e,
                 config |-> IF known THEN conn[o].config ELSE c,
                 manual |-> FALSE, connected |-> FALSE,
                 recent |-> TRUE, cancel |-> g]]
        /\ listener' =
                [(IF known THEN Cancelled(o) ELSE listener) EXCEPT ![g] =
                    [conn |-> o, live |-> phase = "running",
                     pc |-> "connecting", sub |-> "pending"]]
  BY DEF ConnectEndpoint
\* What the step does to the objects.
<1>2. /\ connections'[e] = o
      /\ \A f \in Endpoints \ {e} : connections'[f] = connections[f]
      /\ conn'[o].endpoint = e /\ ~conn'[o].manual /\ ~conn'[o].connected
      /\ conn'[o].cancel = g
      /\ \A p \in Conns \ {o} : conn'[p] = conn[p]
  BY <1>1 DEF TypeOK
\* What it does to the listeners.
<1>3. /\ listener'[g].conn = o
      /\ listener'[g].live = (phase = "running")
      /\ \A h \in Listeners \ {g} :
            /\ listener'[h].conn = listener[h].conn
            /\ listener'[h].pc = listener[h].pc
            /\ listener'[h].sub = listener[h].sub
            /\ listener'[h].live => listener[h].live
            /\ known /\ listener'[h].live => ~Stops(o, h)
  <2>1. CASE known
    BY <1>1, <2>1, CancelledEffect, CancelledTypes DEF TypeOK
  <2>2. CASE ~known
    BY <1>1, <2>2 DEF TypeOK
  <2> QED
    BY <2>1, <2>2
\* The object was in no other entry of the map.
<1>4. \A f \in Endpoints \ {e} : connections[f] # o
  BY <1>1 DEF EntriesNotManual, Unreachable, InMap, TypeOK
<1>5. LiveIsCurrent'
  <2> SUFFICES ASSUME NEW h \in Listeners, listener'[h].live
               PROVE  /\ connections'[conn'[listener'[h].conn].endpoint] = listener'[h].conn
                      /\ conn'[listener'[h].conn].cancel = h
                      /\ phase' = "running"
    BY DEF LiveIsCurrent, Live, EndpointOf
  <2>1. CASE h = g
    BY <1>2, <1>3, <2>1
  <2>2. CASE h # g
    <3> DEFINE p == listener[h].conn
    <3>1. /\ listener'[h].conn = p /\ p \in Conns
          /\ connections[conn[p].endpoint] = p
          /\ conn[p].cancel = h /\ phase = "running"
      BY <1>3, <2>2 DEF LiveIsCurrent, Live, EndpointOf, SlotsUsed, TypeOK, Listener
    <3>2. p # o
      BY <1>1, <1>3, <2>2, <3>1 DEF Stops, Unreachable
    <3>3. conn[p].endpoint \in Endpoints \ {e}
      BY <1>1, <3>1, <3>2, NilAssumption DEF TypeOK, Connection
    <3> QED
      BY <1>2, <3>1, <3>2, <3>3
  <2> QED
    BY <2>1, <2>2
<1>6. EntriesNotManual'
  BY <1>2, <1>4, NilAssumption DEF EntriesNotManual, TypeOK
<1>7. ConnectedHasListener'
  <2> SUFFICES ASSUME NEW p \in Conns, conn'[p].connected
               PROVE  \E h \in Listeners :
                        /\ listener'[h].conn = p
                        /\ listener'[h].pc \in {"online", "streaming"}
    BY DEF ConnectedHasListener
  <2>1. p # o /\ conn[p].connected
    BY <1>2
  <2>2. PICK h \in Listeners : /\ listener[h].conn = p
                               /\ listener[h].pc \in {"online", "streaming"}
    BY <2>1 DEF ConnectedHasListener
  <2>3. h # g
    BY <1>1, <2>2 DEF Idle
  <2> QED
    BY <1>3, <2>2, <2>3
<1>8. SlotsUsed'
  BY <1>3, NilAssumption DEF SlotsUsed
<1> QED
  BY <1>5, <1>6, <1>7, <1>8 DEF Memory

\* DisconnectEndpoint: the object leaves the map with its context cancelled.
LEMMA DisconnectMemory ==
    ASSUME TypeOK, Memory, NEW e \in Endpoints, DisconnectEndpoint(e),
           phase' = phase
    PROVE  Memory'
<1> SlotsUsed /\ LiveIsCurrent /\ EntriesNotManual /\ ConnectedHasListener
  BY DEF Memory
<1> DEFINE o == connections[e]
<1>1. CASE o = NoConn
  BY <1>1, MemoryKept DEF DisconnectEndpoint, memVars
<1>2. CASE o # NoConn
  <2>1. o \in Conns
    BY <1>2 DEF TypeOK
  <2>2. /\ connections'[e] = NoConn
        /\ \A f \in Endpoints \ {e} : connections'[f] = connections[f]
        /\ listener' = Cancelled(o)
    BY <1>2 DEF DisconnectEndpoint, TypeOK
  <2>3. /\ ~conn'[o].connected
        /\ \A p \in Conns \ {o} : conn'[p] = conn[p]
    BY <1>2, <2>1 DEF DisconnectEndpoint, TypeOK, Connection
  <2>4. LiveIsCurrent'
    <3> SUFFICES ASSUME NEW h \in Listeners, listener'[h].live
                 PROVE  /\ connections'[conn'[listener'[h].conn].endpoint] = listener'[h].conn
                        /\ conn'[listener'[h].conn].cancel = h
                        /\ phase' = "running"
      BY DEF LiveIsCurrent, Live, EndpointOf
    <3> DEFINE p == listener[h].conn
    <3>1. listener[h].live /\ ~Stops(o, h) /\ listener'[h].conn = p
      BY <2>1, <2>2, CancelledEffect
    <3>2. /\ p \in Conns /\ connections[conn[p].endpoint] = p
          /\ conn[p].cancel = h /\ phase = "running"
      BY <3>1 DEF LiveIsCurrent, Live, EndpointOf, SlotsUsed, TypeOK, Listener
    <3>3. p # o
      BY <3>1, <3>2 DEF Stops
    <3>4. conn[p].endpoint \in Endpoints \ {e}
      BY <3>2, <3>3 DEF TypeOK, Connection
    <3> QED
      BY <2>2, <2>3, <3>1, <3>2, <3>3, <3>4
  <2>5. EntriesNotManual'
    BY <1>2, <2>1, <2>2, <2>3 DEF EntriesNotManual, TypeOK
  <2>6. ConnectedHasListener'
    BY <2>1, <2>2, <2>3, CancelledEffect DEF ConnectedHasListener
  <2>7. SlotsUsed'
    BY <2>1, <2>2, CancelledEffect DEF SlotsUsed
  <2> QED
    BY <2>4, <2>5, <2>6, <2>7 DEF Memory
<1> QED
  BY <1>1, <1>2

\* reconnectEndpoint cancels outside the lock, on an object that may have left the
\* map.
LEMMA CheckRecentMemory ==
    ASSUME TypeOK, DaemonHolds, Memory, DaemonCheckRecent
    PROVE  Memory'
<1> DEFINE o == daemon.conn
<1>1. CASE conn[o].recent
  BY <1>1, MemoryKept DEF DaemonCheckRecent
<1>2. CASE ~conn[o].recent
  <2>1. o \in Conns
    BY DEF DaemonCheckRecent, DaemonHolds, TypeOK, DaemonState
  <2>2. /\ listener' = Cancelled(o) /\ UNCHANGED <<connections, phase>>
        /\ conn' = [conn EXCEPT ![o].recent = TRUE, ![o].cancel = NoListener]
    BY <1>2 DEF DaemonCheckRecent
  <2>3. /\ \A p \in Conns : /\ conn'[p].endpoint = conn[p].endpoint
                            /\ conn'[p].manual = conn[p].manual
                            /\ conn'[p].connected = conn[p].connected
        /\ \A p \in Conns \ {o} : conn'[p].cancel = conn[p].cancel
    BY <2>1, <2>2 DEF TypeOK, Connection
  <2>4. \A h \in Listeners : listener'[h].live =>
               /\ listener[h].live
               /\ listener'[h].conn = listener[h].conn
               /\ conn'[listener[h].conn].cancel = conn[listener[h].conn].cancel
    <3> SUFFICES ASSUME NEW h \in Listeners, listener'[h].live
                 PROVE  /\ listener[h].live
                        /\ listener'[h].conn = listener[h].conn
                        /\ conn'[listener[h].conn].cancel = conn[listener[h].conn].cancel
      OBVIOUS
    <3>1. listener[h].live /\ ~Stops(o, h) /\ listener'[h].conn = listener[h].conn
      BY <2>1, <2>2, CancelledEffect
    <3>2. listener[h].conn \in Conns /\ conn[listener[h].conn].cancel = h
      BY <3>1 DEF Memory, LiveIsCurrent, Live, EndpointOf, SlotsUsed, TypeOK, Listener
    <3>3. listener[h].conn # o
      BY <3>1, <3>2 DEF Stops
    <3> QED
      BY <2>3, <3>1, <3>2, <3>3
  <2>5. LiveIsCurrent' /\ EntriesNotManual'
    BY <2>2, <2>3, <2>4, EntriesKept DEF Memory
  <2>6. ConnectedHasListener'
    BY <2>1, <2>2, <2>3, CancelledEffect, FlagsKept DEF Memory, Up
  <2>7. SlotsUsed'
    BY <2>1, <2>2, CancelledEffect DEF Memory, SlotsUsed
  <2> QED
    BY <2>5, <2>6, <2>7 DEF Memory
<1> QED
  BY <1>1, <1>2

\* NotifyEndpointStatusChanged clears a flag and touches nothing else.
LEMMA WorkerMemory ==
    ASSUME TypeOK, Memory, NEW e \in Endpoints, Worker(e)
    PROVE  Memory'
<1>1. CASE WorkerShutdown(e)
  BY <1>1, MemoryKept DEF WorkerShutdown
<1>2. CASE WorkerNotify(e)
  <2>1. UNCHANGED <<connections, listener, phase>>
    BY <1>2 DEF WorkerNotify
  <2>2. \A p \in Conns : /\ conn'[p].endpoint = conn[p].endpoint
                         /\ conn'[p].manual = conn[p].manual
                         /\ conn'[p].cancel = conn[p].cancel
                         /\ conn'[p].connected => conn[p].connected
    <3>1. CASE conn' = conn
      BY <3>1
    <3>2. CASE connections[e] # NoConn /\ conn[connections[e]].connected
      BY <1>2, <3>2 DEF WorkerNotify, TypeOK, Connection
    <3> QED
      BY <1>2, <3>1, <3>2 DEF WorkerNotify
  <2>3. \A h \in Listeners : listener[h].live => listener[h].conn \in Conns
    BY DEF Memory, SlotsUsed, TypeOK, Listener
  <2>4. LiveIsCurrent' /\ EntriesNotManual'
    BY <2>1, <2>2, <2>3, EntriesKept DEF Memory
  <2>5. ConnectedHasListener'
    BY <2>1, <2>2, FlagsKept DEF Memory, Up
  <2>6. SlotsUsed'
    BY <2>1 DEF Memory, SlotsUsed
  <2> QED
    BY <2>4, <2>5, <2>6 DEF Memory
<1> QED
  BY <1>1, <1>2 DEF Worker

\* The clock does not disturb the invariant.
LEMMA AgesMemory ==
    ASSUME TypeOK, Memory, NEW o \in Conns, AttemptAges(o)
    PROVE  Memory'
<1>1. UNCHANGED <<connections, listener, phase>>
  BY DEF AttemptAges
<1>2. \A p \in Conns : /\ conn'[p].endpoint = conn[p].endpoint
                       /\ conn'[p].manual = conn[p].manual
                       /\ conn'[p].cancel = conn[p].cancel
                       /\ conn'[p].connected = conn[p].connected
  BY SetRecentEffect DEF AttemptAges
<1>3. \A h \in Listeners : listener[h].live => listener[h].conn \in Conns
  BY DEF Memory, SlotsUsed, TypeOK, Listener
<1>4. LiveIsCurrent' /\ EntriesNotManual'
  BY <1>1, <1>2, <1>3, EntriesKept DEF Memory
<1>5. ConnectedHasListener' /\ SlotsUsed'
  BY <1>1, <1>2 DEF Memory, ConnectedHasListener, SlotsUsed
<1> QED
  BY <1>4, <1>5 DEF Memory

\* Manager.Close: after StopDaemon no context is live, and then no entry is left.
LEMMA CloseMemory == TypeOK /\ Memory /\ Close => Memory'
<1> SUFFICES ASSUME TypeOK, Memory, Close PROVE Memory'
  OBVIOUS
<1>1. CASE CloseStop
  <2>1. UNCHANGED <<connections, conn>>
    BY <1>1 DEF CloseStop
  <2>2. \A h \in Listeners : /\ ~listener'[h].live
                             /\ listener'[h].conn = listener[h].conn
                             /\ listener'[h].pc = listener[h].pc
                             /\ listener'[h].sub = listener[h].sub
    BY <1>1 DEF CloseStop, TypeOK, Listener
  <2> QED
    BY <2>1, <2>2 DEF Memory, LiveIsCurrent, Live, EntriesNotManual,
                      ConnectedHasListener, SlotsUsed
<1>2. CASE CloseConnections
  <2>1. \A e \in Endpoints : connections'[e] = NoConn
    BY <1>2 DEF CloseConnections
  <2>2. \A h \in Listeners : ~listener[h].live
    BY <1>2 DEF CloseConnections, Memory, LiveIsCurrent, Live
  <2>3. \A h \in Listeners : /\ ~listener'[h].live
                             /\ listener'[h].conn = listener[h].conn
                             /\ listener'[h].pc = listener[h].pc
                             /\ listener'[h].sub = listener[h].sub
    BY <1>2, <2>2 DEF CloseConnections, TypeOK, Listener
  <2>4. \A p \in Conns : conn'[p].connected = conn[p].connected
    BY <1>2 DEF CloseConnections, TypeOK, Connection
  <2> QED
    BY <2>1, <2>3, <2>4 DEF Memory, LiveIsCurrent, Live, EntriesNotManual,
                           ConnectedHasListener, SlotsUsed
<1> QED
  BY <1>1, <1>2 DEF Close

-----------------------------------------------------------------------------
\* The inductive invariant.
Inv == TypeOK /\ DaemonHolds /\ Memory

\* The program starts in the inductive invariant.
THEOREM InitInv == Init => Inv
<1> SUFFICES ASSUME Init PROVE Inv
  OBVIOUS
<1>1. TypeOK /\ DaemonHolds /\ SlotsUsed
  BY InitTypes
<1>2. LiveIsCurrent /\ EntriesNotManual /\ ConnectedHasListener
  BY DEF Init, Idle, LiveIsCurrent, Live, EntriesNotManual, ConnectedHasListener
<1> QED
  BY <1>1, <1>2 DEF Inv, Memory

\* Every step of every goroutine keeps the inductive invariant.
THEOREM StepInv == Inv /\ [Next]_vars => Inv'
<1> SUFFICES ASSUME Inv, [Next]_vars PROVE Inv'
  OBVIOUS
<1> TypeOK /\ DaemonHolds /\ Memory
  BY DEF Inv
<1>1. CASE Boot
  <2>1. TypeOK' /\ DaemonHolds'
    BY <1>1, BootTypes DEF Boot, BootScan, BootConnect, DaemonHolds
  <2>2. CASE BootScan
    BY <2>1, <2>2, MemoryKept DEF BootScan, Inv
  <2>3. CASE BootConnect
    <3>1. PICK r \in boot.rows : ConnectEndpoint(r[1], r[2])
      BY <2>3 DEF BootConnect
    <3>2. r[1] \in Endpoints /\ r[2] \in Configs
      BY DEF TypeOK
    <3> QED
      BY <2>1, <2>3, <3>1, <3>2, ConnectMemory DEF BootConnect, Inv
  <2> QED
    BY <1>1, <2>2, <2>3 DEF Boot
<1>2. CASE Api
  <2>1. TypeOK' /\ DaemonHolds'
    BY <1>2, ApiTypes DEF Api, CreateEndpoint, RequestReconnect,
       RequestDisconnect, UpdateConfig, DeleteEndpoint, DaemonHolds
  <2>2. CASE UNCHANGED <<memVars, phase>>
    BY <2>1, <2>2, MemoryKept DEF Inv
  <2>3. CASE \E e \in Endpoints : DeleteEndpoint(e)
    BY <2>1, <2>3, DisconnectMemory DEF DeleteEndpoint, Inv
  <2> QED
    BY <1>2, <2>2, <2>3 DEF Api, CreateEndpoint, RequestReconnect,
       RequestDisconnect, UpdateConfig
<1>3. CASE RunCall
  <2>1. TypeOK' /\ DaemonHolds'
    BY <1>3, CallTypes DEF RunCall, RunConnect, RunDisconnect, RunDeleteRow, DaemonHolds
  <2>2. CASE RunConnect
    <3>1. PICK k \in calls : k.op = "connect" /\ ConnectEndpoint(k.endpoint, k.config)
      BY <2>2 DEF RunConnect
    <3>2. k.endpoint \in Endpoints /\ k.config \in Configs
      BY <3>1 DEF TypeOK, Call
    <3> QED
      BY <2>1, <2>2, <3>1, <3>2, ConnectMemory DEF RunConnect, Inv
  <2>3. CASE RunDisconnect
    <3>1. PICK k \in calls : k.op = "disconnect" /\ DisconnectEndpoint(k.endpoint)
      BY <2>3 DEF RunDisconnect
    <3>2. k.endpoint \in Endpoints
      BY <3>1 DEF TypeOK, Call
    <3> QED
      BY <2>1, <2>3, <3>1, <3>2, DisconnectMemory DEF RunDisconnect, Inv
  <2>4. CASE RunDeleteRow
    BY <2>1, <2>4, MemoryKept DEF RunDeleteRow, Inv
  <2> QED
    BY <1>3, <2>2, <2>3, <2>4 DEF RunCall
<1>4. CASE Daemon
  <2>1. TypeOK' /\ DaemonHolds'
    BY <1>4, DaemonTypes
  <2>2. CASE DaemonTick \/ DaemonCheckManual \/ DaemonCheckConnected
    BY <2>1, <2>2, MemoryKept
    DEF DaemonTick, DaemonCheckManual, DaemonCheckConnected, Inv
  <2>3. CASE DaemonCheckRecent
    BY <2>1, <2>3, CheckRecentMemory DEF Inv
  <2>4. CASE DaemonConnect
    <3>1. /\ conn[daemon.conn].endpoint \in Endpoints
          /\ conn[daemon.conn].config \in Configs
      BY <2>4 DEF DaemonConnect, DaemonHolds, TypeOK, DaemonState, Connection
    <3> QED
      BY <2>1, <2>4, <3>1, ConnectMemory DEF DaemonConnect, Inv
  <2> QED
    BY <1>4, <2>2, <2>3, <2>4 DEF Daemon
<1>5. CASE Close
  <2>1. DaemonHolds'
    BY <1>5 DEF Close, CloseStop, CloseConnections, DaemonHolds
  <2> QED
    BY <1>5, <2>1, CloseTypes, CloseMemory DEF Inv
<1>6. ASSUME NEW g \in Listeners, ListenSelect(g) \/ ListenTail(g)
      PROVE  Inv'
  <2>1. UNCHANGED daemon
    BY <1>6 DEF ListenSelect, ListenTail, ListenDone, ListenTimeout, ListenZombie,
         ListenClosed, ListenFirstEvent, ListenEvent, ListenMarkOnline,
         ListenTimedOut, ListenFailReset, ListenBroken, ListenFail
  <2> QED
    BY <1>6, <2>1, ListenTypes, ListenMemory DEF Inv, DaemonHolds
<1>7. ASSUME NEW g \in Listeners, Subscribe(g)
      PROVE  Inv'
  <2>1. UNCHANGED daemon
    BY <1>7 DEF Subscribe, SubscribeTail, SubscribeReturns, SubscribeFails,
         SubscribeBroken, SubscribeFail
  <2> QED
    BY <1>7, <2>1, SubscribeTypes, SubscribeMemory DEF Inv, DaemonHolds
<1>8. ASSUME NEW e \in Endpoints, Worker(e)
      PROVE  Inv'
  <2>1. UNCHANGED daemon
    BY <1>8 DEF Worker, WorkerShutdown, WorkerNotify
  <2> QED
    BY <1>8, <2>1, WorkerTypes, WorkerMemory DEF Inv, DaemonHolds
<1>9. ASSUME NEW o \in Conns, AttemptAges(o)
      PROVE  Inv'
  <2>1. UNCHANGED daemon
    BY <1>9 DEF AttemptAges
  <2> QED
    BY <1>9, <2>1, AgesTypes, AgesMemory DEF Inv, DaemonHolds
<1>10. CASE UNCHANGED vars
  BY <1>10, MemoryKept DEF vars, memVars, Inv, TypeOK, DaemonHolds
<1> QED
  BY <1>1, <1>2, <1>3, <1>4, <1>5, <1>6, <1>7, <1>8, <1>9, <1>10 DEF Next

\* Type correctness of the connection manager: among the rest, no goroutine holds a
\* nil connection where it dereferences one.
THEOREM TypeCorrect == Spec => []TypeOK
<1>1. Inv => TypeOK
  BY DEF Inv
<1> QED
  BY <1>1, InitInv, StepInv, PTL DEF Spec

\* ConnectEndpoint, DisconnectEndpoint and the daemon never leave an older stream of an
\* endpoint running, for any number of endpoints, objects and listeners.
THEOREM LiveIsCurrentAlways == Spec => []LiveIsCurrent
<1>1. Inv => LiveIsCurrent
  BY DEF Inv, Memory
<1> QED
  BY <1>1, InitInv, StepInv, PTL DEF Spec

\* The connected flag that checkAndReconnect trusts is never set without a listener that
\* has seen an event and is in its loop, though stale listeners may clear it.
THEOREM ConnectedHasListenerAlways == Spec => []ConnectedHasListener
<1>1. Inv => ConnectedHasListener
  BY DEF Inv, Memory
<1> QED
  BY <1>1, InitInv, StepInv, PTL DEF Spec

\* DisconnectEndpoint takes the object it marks out of the map, and each object is in the
\* map under its own endpoint only.
THEOREM EntriesNotManualAlways == Spec => []EntriesNotManual
<1>1. Inv => EntriesNotManual
  BY DEF Inv, Memory
<1> QED
  BY <1>1, InitInv, StepInv, PTL DEF Spec
=============================================================================
