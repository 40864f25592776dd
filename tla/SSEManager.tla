----------------------------- MODULE SSEManager -----------------------------
(***************************************************************************)
(* The SSE connection manager of the dashboard (internal/sse/manager.go)   *)
(* with the code that drives it: the HTTP handlers of internal/api         *)
(* (endpoint.go), the boot and shutdown sequence of cmd/server/main.go and *)
(* the shutdown event of internal/sse/service.go.                          *)
(*                                                                         *)
(* An EndpointConnection is an object that outlives the map entry naming   *)
(* it: the reconnect daemon and the goroutines of listenSSE keep pointers  *)
(* to it.  Conns is the pool of such objects and Listeners the pool of     *)
(* runs of listenSSE, each with its context and its subscription           *)
(* goroutine.  A member of either pool is used again once nothing in the   *)
(* program can reach it, so the model is finite without a counter; the     *)
(* sizes of the two pools are the only bounds.                             *)
(*                                                                         *)
(* Abstracted: URL, API path and API key are one value of Configs;         *)
(* lastConnectAttempt is whether it lies less than 30 seconds back;        *)
(* lastEventTime, the counters and the log lines are left out.  The rows   *)
(* of tunnels are not part of this module: whether hasActiveTunnels finds  *)
(* one is left open, setTunnelsOfflineForEndpoint changes nothing here,    *)
(* and of the events only the shutdown of a master matters.                *)
(***************************************************************************)
EXTENDS Naturals, FiniteSets

CONSTANTS
    Endpoints,   \* ids of endpoint rows
    Configs,     \* values of (url, api_path, api_key)
    Conns,       \* EndpointConnection objects
    Listeners,   \* runs of listenSSE
    NoConn,      \* nil: no connection object
    NoListener,  \* no listener a cancel function could still stop
    Stimuli,     \* bound: what happens to the program from outside
    BootPasses,  \* bound: calls of InitializeSystem that are followed; the
                 \* program makes two
    MaxCalls     \* bound: goroutines of HTTP handlers at a time

ASSUME NilAssumption == NoConn \notin Conns /\ NoListener \notin Listeners
ASSUME StimuliAssumption ==
    Stimuli \subseteq {"create", "reconnect", "disconnect", "updateConfig",
                       "delete", "shutdown", "close"}
ASSUME CallsAssumption == MaxCalls \in Nat
ASSUME BootAssumption == BootPasses \in 0..2
ASSUME ScopeAssumption == Endpoints # {} /\ Configs # {}

VARIABLES
    connections, \* Manager.connections
    conn,        \* the EndpointConnection objects
    listener,    \* the runs of listenSSE
    daemon,      \* reconnectDaemon
    boot,        \* the two calls of InitializeSystem
    calls,       \* goroutines the HTTP handlers started
    row,         \* the rows of table endpoints
    shutdown,    \* the shutdown event of an endpoint: in Manager.jobs, or with
                 \* the worker that runs handleShutdownEvent
    phase        \* Manager.Close: "running", "stopping", "closed"

memVars == <<connections, conn, listener>>
vars == <<connections, conn, listener, daemon, boot, calls, row, shutdown,
          phase>>

Stored == {"ONLINE", "OFFLINE", "FAIL", "DISCONNECT"}
Exists(e) == row[e].status \in Stored

\* Program points of listenSSE: in its loop before the first event, marking
\* the endpoint online, in its loop afterwards, and on its way out.
ListenPC == {"connecting", "online", "streaming", "timedOut", "failReset",
             "broken", "fail", "exited"}
InLoop == {"connecting", "streaming"}

\* Its subscription goroutine: the subscription can still fail; it failed and
\* the goroutine marks the connection; nothing more comes from it.
SubscribePC == {"pending", "broken", "fail", "ended"}

Connection == [endpoint : Endpoints, config : Configs, manual : BOOLEAN,
               connected : BOOLEAN, recent : BOOLEAN,
               cancel : Listeners \cup {NoListener}]
Listener == [conn : Conns \cup {NoConn}, live : BOOLEAN,
             pc : ListenPC, sub : SubscribePC]
DaemonState == [pc : {"idle", "scan", "connected", "recent", "connect"},
                todo : SUBSET Conns, conn : Conns \cup {NoConn}]
Call == [op : {"connect"}, endpoint : Endpoints, config : Configs]
        \cup [op : {"disconnect", "deleteRow"}, endpoint : Endpoints]
EndpointRow == [status : Stored \cup {"absent", "deleted"}, config : Configs]

TypeOK ==
    /\ connections \in [Endpoints -> Conns \cup {NoConn}]
    /\ conn \in [Conns -> Connection]
    /\ listener \in [Listeners -> Listener]
    /\ daemon \in DaemonState
    /\ boot \in [passes : 0..2, rows : SUBSET (Endpoints \X Configs)]
    /\ calls \in SUBSET Call
    /\ row \in [Endpoints -> EndpointRow]
    /\ shutdown \in [Endpoints -> {"none", "queued", "notify"}]
    /\ phase \in {"running", "stopping", "closed"}

-----------------------------------------------------------------------------
(* Contexts and connection objects                                         *)

\* A slot no run is using, and every slot whose two goroutines have ended.
Idle == [conn |-> NoConn, live |-> FALSE, pc |-> "exited", sub |-> "ended"]

Finished(r) == r.pc = "exited" /\ r.sub = "ended"

\* The run of g takes the state r.
Become(g, r) ==
    listener' = [listener EXCEPT ![g] = IF Finished(r) THEN Idle ELSE r]

\* The context of a listener is live until its cancel function runs.
Live(g) == listener[g].live

InMap(o) == \E e \in Endpoints : connections[e] = o

\* No map entry, goroutine or daemon snapshot can reach the object.
Unreachable(o) ==
    /\ ~InMap(o)
    /\ \A g \in Listeners : listener[g].conn # o
    /\ o \notin daemon.todo /\ o # daemon.conn

\* conn.Cancel() stops this run, if it is still there.
Stops(o, g) == conn[o].cancel = g /\ listener[g].conn = o

\* Mutant: the call of conn.Cancel() is missing.
CancelledForgotten(o) == listener

\* The effect of conn.Cancel() on the listeners.
Cancelled(o) ==
    [g \in Listeners |-> [listener[g] EXCEPT !.live = @ /\ ~Stops(o, g)]]

SetConnected(o, b) == conn' = [conn EXCEPT ![o].connected = b]

\* ConnectEndpoint, under Manager.mu.  The object of an existing entry is kept
\* with the configuration it was created with.  A context made after Close
\* began descends from a cancelled one and is never live.
ConnectEndpoint(e, c) ==
    \E o \in Conns, g \in Listeners :
        LET known == connections[e] # NoConn
        IN  /\ IF known THEN o = connections[e] ELSE Unreachable(o)
            /\ listener[g] = Idle
            /\ connections' = [connections EXCEPT ![e] = o]
            /\ conn' = [conn EXCEPT ![o] =
                    [endpoint |-> e,
                     config |-> IF known THEN conn[o].config ELSE c,
                     manual |-> FALSE, connected |-> FALSE,
                     recent |-> TRUE, cancel |-> g]]
            /\ listener' =
                    [(IF known THEN Cancelled(o) ELSE listener) EXCEPT ![g] =
                        [conn |-> o, live |-> phase = "running",
                         pc |-> "connecting", sub |-> "pending"]]

\* UPDATE endpoints SET status WHERE id = e AND status != s
MarkStatus(e, s) ==
    row' = IF Exists(e) THEN [row EXCEPT ![e].status = s] ELSE row

\* Mutant: the entry is not deleted from the map.
DisconnectEndpointKeepsEntry(e) ==
    LET o == connections[e]
    IN  IF o = NoConn
        THEN UNCHANGED <<connections, conn, listener, row>>
        ELSE /\ conn' = [conn EXCEPT ![o].manual = TRUE,
                                     ![o].connected = FALSE,
                                     ![o].cancel = NoListener]
             /\ listener' = Cancelled(o)
             /\ UNCHANGED connections
             /\ MarkStatus(e, "DISCONNECT")

\* DisconnectEndpoint, under Manager.mu to its end, with markEndpointDisconnect.
DisconnectEndpoint(e) ==
    LET o == connections[e]
    IN  IF o = NoConn
        THEN UNCHANGED <<connections, conn, listener, row>>
        ELSE /\ conn' = [conn EXCEPT ![o].manual = TRUE,
                                     ![o].connected = FALSE,
                                     ![o].cancel = NoListener]
             /\ listener' = Cancelled(o)
             /\ connections' = [connections EXCEPT ![e] = NoConn]
             /\ MarkStatus(e, "DISCONNECT")

-----------------------------------------------------------------------------
(* The program starts on the database an earlier run left behind.          *)

Init ==
    /\ connections = [e \in Endpoints |-> NoConn]
    /\ conn = [o \in Conns |->
                [endpoint |-> CHOOSE e \in Endpoints : TRUE,
                 config |-> CHOOSE c \in Configs : TRUE,
                 manual |-> FALSE, connected |-> FALSE, recent |-> FALSE,
                 cancel |-> NoListener]]
    /\ listener = [g \in Listeners |-> Idle]
    /\ daemon = [pc |-> "idle", todo |-> {}, conn |-> NoConn]
    /\ boot = [passes |-> BootPasses, rows |-> {}]
    /\ calls = {}
    /\ row \in [Endpoints -> {r \in EndpointRow : r.status # "deleted"}]
    /\ shutdown = [e \in Endpoints |-> "none"]
    /\ phase = "running"

-----------------------------------------------------------------------------
(* InitializeSystem, called by main before the HTTP server starts and once *)
(* more by startBackgroundServices.                                        *)

BootScan ==
    /\ boot.passes > 0 /\ boot.rows = {}
    /\ boot' = [passes |-> boot.passes - 1,
                rows |-> {<<e, row[e].config>> : e \in
                            {x \in Endpoints : row[x].status \in
                                               {"ONLINE", "OFFLINE"}}}]
    /\ UNCHANGED <<memVars, row, shutdown, daemon, calls, phase>>

BootConnect ==
    /\ \E r \in boot.rows :
        /\ boot' = [boot EXCEPT !.rows = @ \ {r}]
        /\ ConnectEndpoint(r[1], r[2])
    /\ UNCHANGED <<row, shutdown, daemon, calls, phase>>

\* The first pass is synchronous: nothing else of the program runs yet, but
\* the listeners it started do.
Serving == boot.passes = 0 \/ (boot.passes = 1 /\ boot.rows = {})

\* The handler starts a goroutine.
Go(k) == /\ Cardinality(calls) < MaxCalls
         /\ calls' = calls \cup {k}

-----------------------------------------------------------------------------
(* HTTP handlers of internal/api/endpoint.go.  Those that touch the        *)
(* connection start a goroutine and answer at once.                        *)

\* HandleCreateEndpoint: row stored OFFLINE, then "go ConnectEndpoint".
CreateEndpoint(e, c) ==
    /\ "create" \in Stimuli /\ Serving
    /\ row[e].status = "absent"
    /\ row' = [row EXCEPT ![e] = [status |-> "OFFLINE", config |-> c]]
    /\ Go([op |-> "connect", endpoint |-> e, config |-> c])
    /\ UNCHANGED <<memVars, shutdown, daemon, boot, phase>>

\* HandlePatchEndpoint "reconnect", when the connection test succeeds.
RequestReconnect(e) ==
    /\ "reconnect" \in Stimuli /\ Serving
    /\ Exists(e)
    /\ Go([op |-> "connect", endpoint |-> e,
                             config |-> row[e].config])
    /\ UNCHANGED <<memVars, row, shutdown, daemon, boot, phase>>

\* HandlePatchEndpoint "disconnect".
RequestDisconnect(e) ==
    /\ "disconnect" \in Stimuli /\ Serving
    /\ Go([op |-> "disconnect", endpoint |-> e])
    /\ UNCHANGED <<memVars, row, shutdown, daemon, boot, phase>>

\* HandlePatchEndpoint "updateConfig" and HandleUpdateEndpoint.
UpdateConfig(e, c) ==
    /\ "updateConfig" \in Stimuli /\ Serving
    /\ Exists(e)
    /\ row' = [row EXCEPT ![e].config = c]
    /\ UNCHANGED <<memVars, shutdown, daemon, boot, calls, phase>>

\* HandleDeleteEndpoint disconnects first and deletes the row afterwards.
DeleteEndpoint(e) ==
    /\ "delete" \in Stimuli /\ Serving
    /\ Exists(e)
    /\ DisconnectEndpoint(e)
    /\ Go([op |-> "deleteRow", endpoint |-> e])
    /\ UNCHANGED <<shutdown, daemon, boot, phase>>

RunConnect ==
    /\ \E k \in calls :
        /\ k.op = "connect"
        /\ ConnectEndpoint(k.endpoint, k.config)
        /\ calls' = calls \ {k}
    /\ UNCHANGED <<row, shutdown, daemon, boot, phase>>

RunDisconnect ==
    /\ \E k \in calls :
        /\ k.op = "disconnect"
        /\ DisconnectEndpoint(k.endpoint)
        /\ calls' = calls \ {k}
    /\ UNCHANGED <<shutdown, daemon, boot, phase>>

RunDeleteRow ==
    /\ \E k \in calls :
        /\ k.op = "deleteRow"
        /\ row' = [row EXCEPT ![k.endpoint].status = "deleted"]
        /\ calls' = calls \ {k}
    /\ UNCHANGED <<memVars, shutdown, daemon, boot, phase>>

-----------------------------------------------------------------------------
(* reconnectDaemon                                                         *)

\* Mutant: the copy is made with the length of the map before it is appended
\* to, so it holds nil pointers.
DaemonTickCopiesNil ==
    /\ daemon.pc = "idle"
    /\ phase = "running" /\ Serving
    /\ daemon' = [pc |-> "scan", conn |-> NoConn,
                  todo |-> {connections[e] : e \in Endpoints} \cup {NoConn}]
    /\ UNCHANGED <<memVars, row, shutdown, boot, calls, phase>>

\* A tick of the one-minute ticker: the entries are copied under the read
\* lock and looked at one by one without it.
DaemonTick ==
    /\ daemon.pc = "idle"
    /\ phase = "running" /\ Serving
    /\ daemon' = [pc |-> "scan", conn |-> NoConn,
                  todo |-> {connections[e] : e \in Endpoints} \ {NoConn}]
    /\ UNCHANGED <<memVars, row, shutdown, boot, calls, phase>>

DaemonCheckManual ==
    /\ daemon.pc = "scan"
    /\ IF daemon.todo = {}
       THEN daemon' = [daemon EXCEPT !.pc = "idle"]
       ELSE \E o \in daemon.todo :
                daemon' = [pc |-> IF conn[o].manual THEN "scan"
                                  ELSE "connected",
                           conn |-> IF conn[o].manual THEN NoConn ELSE o,
                           todo |-> daemon.todo \ {o}]
    /\ UNCHANGED <<memVars, row, shutdown, boot, calls, phase>>

\* Give up the connection in hand and go on to the next one.
DaemonNext == daemon' = [daemon EXCEPT !.pc = "scan", !.conn = NoConn]

DaemonCheckConnected ==
    /\ daemon.pc = "connected"
    /\ IF conn[daemon.conn].connected
       THEN DaemonNext
       ELSE daemon' = [daemon EXCEPT !.pc = "recent"]
    /\ UNCHANGED <<memVars, row, shutdown, boot, calls, phase>>

\* Mutant: the 30-second comparison is the wrong way round.
DaemonCheckRecentInverted ==
    /\ daemon.pc = "recent"
    /\ IF ~conn[daemon.conn].recent
       THEN DaemonNext /\ UNCHANGED memVars
       ELSE /\ daemon' = [daemon EXCEPT !.pc = "connect"]
            /\ conn' = [conn EXCEPT ![daemon.conn].cancel = NoListener]
            /\ listener' = Cancelled(daemon.conn)
            /\ UNCHANGED connections
    /\ UNCHANGED <<row, shutdown, boot, calls, phase>>

\* The 30-second check, and then reconnectEndpoint up to conn.Cancel().
DaemonCheckRecent ==
    /\ daemon.pc = "recent"
    /\ IF conn[daemon.conn].recent
       THEN DaemonNext /\ UNCHANGED memVars
       ELSE /\ daemon' = [daemon EXCEPT !.pc = "connect"]
            /\ conn' = [conn EXCEPT ![daemon.conn].recent = TRUE,
                                    ![daemon.conn].cancel = NoListener]
            /\ listener' = Cancelled(daemon.conn)
            /\ UNCHANGED connections
    /\ UNCHANGED <<row, shutdown, boot, calls, phase>>

\* The rest of reconnectEndpoint: nothing is looked at again.
DaemonConnect ==
    /\ daemon.pc = "connect"
    /\ ConnectEndpoint(conn[daemon.conn].endpoint, conn[daemon.conn].config)
    /\ DaemonNext
    /\ UNCHANGED <<row, shutdown, boot, calls, phase>>

\* 30 seconds have passed since the last attempt.
AttemptAges(o) ==
    /\ conn[o].recent
    /\ conn' = [conn EXCEPT ![o].recent = FALSE]
    /\ UNCHANGED <<connections, listener, row, shutdown, daemon, boot,
                   calls, phase>>

-----------------------------------------------------------------------------
(* listenSSE: the select loop                                              *)

EndpointOf(g) == conn[listener[g].conn].endpoint

Goto(g, l) == Become(g, [listener[g] EXCEPT !.pc = l])

\* case <-ctx.Done()
ListenDone(g) ==
    /\ listener[g].pc \in InLoop /\ ~Live(g)
    /\ SetConnected(listener[g].conn, FALSE)
    /\ Goto(g, "exited")
    /\ UNCHANGED <<connections, row, shutdown, daemon, boot, calls, phase>>

\* case <-connectionTimeout.C: ten seconds without a first event.
ListenTimeout(g) ==
    /\ listener[g].pc = "connecting"
    /\ SetConnected(listener[g].conn, FALSE)
    /\ Goto(g, "timedOut")
    /\ UNCHANGED <<connections, row, shutdown, daemon, boot, calls, phase>>

\* Mutant: a zombie connection is given up with its connected flag set.
ListenZombieKeepsFlag(g) ==
    /\ listener[g].pc = "streaming"
    /\ Goto(g, "timedOut")
    /\ UNCHANGED <<connections, conn, row, shutdown, daemon, boot, calls, phase>>

\* case <-idleCheckTicker.C: five minutes of silence with a running tunnel.
ListenZombie(g) ==
    /\ listener[g].pc = "streaming"
    /\ SetConnected(listener[g].conn, FALSE)
    /\ Goto(g, "timedOut")
    /\ UNCHANGED <<connections, row, shutdown, daemon, boot, calls, phase>>

\* case ev, ok := <-events with ok = FALSE
ListenClosed(g) ==
    /\ listener[g].pc \in InLoop
    /\ SetConnected(listener[g].conn, FALSE)
    /\ Goto(g, "broken")
    /\ UNCHANGED <<connections, row, shutdown, daemon, boot, calls, phase>>

\* The event is a shutdown and is queued for the workers, or it is another one
\* or is dropped because the queue is full.  One shutdown event per endpoint is
\* followed at a time.
Enqueue(e) ==
    \/ /\ "shutdown" \in Stimuli
       /\ shutdown[e] = "none"
       /\ shutdown' = [shutdown EXCEPT ![e] = "queued"]
    \/ UNCHANGED shutdown

\* case ev, ok := <-events, the first event: the connection is up, and its
\* subscription has not failed and no longer can.
ListenFirstEvent(g) ==
    /\ listener[g].pc = "connecting" /\ listener[g].sub = "pending"
    /\ SetConnected(listener[g].conn, TRUE)
    /\ Become(g, [listener[g] EXCEPT !.pc = "online", !.sub = "ended"])
    /\ UNCHANGED <<connections, row, shutdown, daemon, boot, calls, phase>>

\* markEndpointOnline, then the event goes to the workers.
ListenMarkOnline(g) ==
    /\ listener[g].pc = "online"
    /\ MarkStatus(EndpointOf(g), "ONLINE")
    /\ Enqueue(EndpointOf(g))
    /\ Goto(g, "streaming")
    /\ UNCHANGED <<connections, conn, daemon, boot, calls, phase>>

\* Any later event.
ListenEvent(g) ==
    /\ listener[g].pc = "streaming"
    /\ Enqueue(EndpointOf(g))
    /\ UNCHANGED <<memVars, row, daemon, boot, calls, phase>>

\* After a timeout: IsManuallyDisconnected, markEndpointFail,
\* ResetLastConnectAttempt, return.
ListenTimedOut(g) ==
    /\ listener[g].pc = "timedOut"
    /\ Goto(g, IF conn[listener[g].conn].manual THEN "exited" ELSE "failReset")
    /\ UNCHANGED <<connections, conn, row, shutdown, daemon, boot, calls, phase>>

ListenFailReset(g) ==
    /\ listener[g].pc = "failReset"
    /\ MarkStatus(EndpointOf(g), "FAIL")
    /\ conn' = [conn EXCEPT ![listener[g].conn].recent = FALSE]
    /\ Goto(g, "exited")
    /\ UNCHANGED <<connections, shutdown, daemon, boot, calls, phase>>

\* After the channel closed: IsManuallyDisconnected, ResetLastConnectAttempt,
\* markEndpointFail, return.
ListenBroken(g) ==
    /\ listener[g].pc = "broken"
    /\ IF conn[listener[g].conn].manual
       THEN Goto(g, "exited") /\ UNCHANGED conn
       ELSE /\ conn' = [conn EXCEPT ![listener[g].conn].recent = FALSE]
            /\ Goto(g, "fail")
    /\ UNCHANGED <<connections, row, shutdown, daemon, boot, calls, phase>>

ListenFail(g) ==
    /\ listener[g].pc = "fail"
    /\ MarkStatus(EndpointOf(g), "FAIL")
    /\ Goto(g, "exited")
    /\ UNCHANGED <<connections, conn, shutdown, daemon, boot, calls, phase>>

-----------------------------------------------------------------------------
(* The subscription goroutine of listenSSE                                 *)

SubGoto(g, l) == Become(g, [listener[g] EXCEPT !.sub = l])

\* The call into the library returns without an error once the context is
\* cancelled.
SubscribeReturns(g) ==
    /\ listener[g].sub = "pending" /\ ~Live(g)
    /\ SubGoto(g, "ended")
    /\ UNCHANGED <<connections, conn, row, shutdown, daemon, boot, calls, phase>>

\* It returns an error: no event will come, and the connection is marked
\* disconnected whichever listener is using it now.
SubscribeFails(g) ==
    /\ listener[g].sub = "pending"
    /\ SetConnected(listener[g].conn, FALSE)
    /\ SubGoto(g, "broken")
    /\ UNCHANGED <<connections, row, shutdown, daemon, boot, calls, phase>>

SubscribeBroken(g) ==
    /\ listener[g].sub = "broken"
    /\ IF conn[listener[g].conn].manual
       THEN SubGoto(g, "ended") /\ UNCHANGED conn
       ELSE /\ conn' = [conn EXCEPT ![listener[g].conn].recent = FALSE]
            /\ SubGoto(g, "fail")
    /\ UNCHANGED <<connections, row, shutdown, daemon, boot, calls, phase>>

SubscribeFail(g) ==
    /\ listener[g].sub = "fail"
    /\ MarkStatus(EndpointOf(g), "FAIL")
    /\ SubGoto(g, "ended")
    /\ UNCHANGED <<connections, conn, shutdown, daemon, boot, calls, phase>>

-----------------------------------------------------------------------------
(* handleShutdownEvent, run by one of the workers of workerLoop at any     *)
(* time after the event was queued                                         *)

WorkerShutdown(e) ==
    /\ shutdown[e] = "queued"
    /\ MarkStatus(e, "OFFLINE")
    /\ shutdown' = [shutdown EXCEPT ![e] = "notify"]
    /\ UNCHANGED <<memVars, daemon, boot, calls, phase>>

\* Mutant: the manager is not told of the shutdown.
WorkerNotifyNobody(e) ==
    /\ shutdown[e] = "notify"
    /\ shutdown' = [shutdown EXCEPT ![e] = "none"]
    /\ UNCHANGED <<memVars, row, daemon, boot, calls, phase>>

\* NotifyEndpointStatusChanged(e, "OFFLINE"), under Manager.mu.
WorkerNotify(e) ==
    /\ shutdown[e] = "notify"
    /\ LET o == connections[e]
       IN  IF o # NoConn /\ conn[o].connected
           THEN conn' = [conn EXCEPT ![o].connected = FALSE,
                                     ![o].recent = @ /\ conn[o].manual]
           ELSE UNCHANGED conn
    /\ shutdown' = [shutdown EXCEPT ![e] = "none"]
    /\ UNCHANGED <<connections, listener, row, daemon, boot, calls, phase>>

-----------------------------------------------------------------------------
(* Manager.Close                                                           *)

\* StopDaemon cancels daemonCtx and with it the context of every listener.
CloseStop ==
    /\ "close" \in Stimuli /\ Serving
    /\ phase = "running"
    /\ phase' = "stopping"
    /\ listener' = [g \in Listeners |-> [listener[g] EXCEPT !.live = FALSE]]
    /\ UNCHANGED <<connections, conn, row, shutdown, daemon, boot, calls>>

\* When the daemon has ended, every entry is cancelled and dropped.
CloseConnections ==
    /\ phase = "stopping" /\ daemon.pc = "idle"
    /\ phase' = "closed"
    /\ conn' = [o \in Conns |-> [conn[o] EXCEPT !.manual = @ \/ InMap(o)]]
    /\ listener' = [g \in Listeners |->
                        [listener[g] EXCEPT !.live = @ /\
                            ~\E o \in Conns : InMap(o) /\ Stops(o, g)]]
    /\ connections' = [e \in Endpoints |-> NoConn]
    /\ UNCHANGED <<row, shutdown, daemon, boot, calls>>

-----------------------------------------------------------------------------
Boot == BootScan \/ BootConnect

Api ==
    \/ \E e \in Endpoints : \/ RequestReconnect(e) \/ RequestDisconnect(e)
                            \/ DeleteEndpoint(e)
                            \/ \E c \in Configs : CreateEndpoint(e, c)
                                                  \/ UpdateConfig(e, c)

RunCall == RunConnect \/ RunDisconnect \/ RunDeleteRow

Daemon == \/ DaemonTick \/ DaemonCheckManual \/ DaemonCheckConnected
          \/ DaemonCheckRecent \/ DaemonConnect

\* The end of a listener that has left the select loop, or marks the endpoint.
ListenTail(g) ==
    \/ ListenMarkOnline(g) \/ ListenTimedOut(g) \/ ListenFailReset(g)
    \/ ListenBroken(g) \/ ListenFail(g)

ListenSelect(g) ==
    \/ ListenDone(g) \/ ListenTimeout(g) \/ ListenZombie(g)
    \/ ListenClosed(g) \/ ListenFirstEvent(g) \/ ListenEvent(g)

SubscribeTail(g) == SubscribeBroken(g) \/ SubscribeFail(g)

Subscribe(g) == SubscribeReturns(g) \/ SubscribeFails(g) \/ SubscribeTail(g)

Worker(e) == WorkerShutdown(e) \/ WorkerNotify(e)

Close == CloseStop \/ CloseConnections

Next ==
    \/ Boot \/ Api \/ RunCall \/ Daemon \/ Close
    \/ \E g \in Listeners : ListenSelect(g) \/ ListenTail(g) \/ Subscribe(g)
    \/ \E e \in Endpoints : Worker(e)
    \/ \E o \in Conns : AttemptAges(o)

Spec == Init /\ [][Next]_vars

(***************************************************************************)
(* Fairness.  Every goroutine that can run eventually runs: the program    *)
(* has no lock held across a wait.  Timers fire (ListenTimeout,            *)
(* AttemptAges, DaemonTick), Go's select does not pass over a ready        *)
(* ctx.Done() for ever, and a cancelled subscription returns.              *)
(***************************************************************************)
Fairness ==
    /\ WF_vars(Boot) /\ WF_vars(RunCall) /\ WF_vars(Daemon)
    /\ \A o \in Conns : WF_vars(AttemptAges(o))
    /\ \A g \in Listeners :
        /\ WF_vars(ListenTail(g) \/ ListenDone(g) \/ ListenTimeout(g))
        /\ WF_vars(SubscribeTail(g) \/ SubscribeReturns(g))
    /\ \A e \in Endpoints :
        WF_vars(Worker(e))

\* The listener that ConnectEndpoint started last for the endpoint.
Current(e, g) ==
    /\ connections[e] # NoConn
    /\ listener[g].conn = connections[e]
    /\ conn[connections[e]].cancel = g

\* The master answers: of the attempts made for an endpoint without end, not
\* all run into the timeout.
MasterAnswers ==
    \A e \in Endpoints :
        SF_vars(\E g \in Listeners : Current(e, g) /\ ListenFirstEvent(g))

FairSpec == Spec /\ Fairness /\ MasterAnswers

-----------------------------------------------------------------------------
(* What the manager promises                                               *)

\* A context that is not cancelled belongs to the object the map holds for
\* its endpoint and is the one that object's Cancel stops: reconnecting or
\* disconnecting never leaves an older stream of the endpoint running, however
\* the HTTP goroutines, the boot and the daemon interleave; and once Close has
\* begun no context is live.
LiveIsCurrent ==
    \A g \in Listeners : Live(g) =>
        /\ connections[EndpointOf(g)] = listener[g].conn
        /\ conn[listener[g].conn].cancel = g
        /\ phase = "running"

\* An object whose connected flag is set is used by a listener that has seen
\* an event and is still in its loop.  checkAndReconnect skips connected
\* objects, so a flag left behind by a dead listener would end reconnection.
ConnectedHasListener ==
    \A o \in Conns : conn[o].connected =>
        \E g \in Listeners : /\ listener[g].conn = o
                             /\ listener[g].pc \in {"online", "streaming"}

\* Objects in the map are never marked as manually disconnected: the flag that
\* checkAndReconnect looks at can only be seen on an object that has left the
\* map since the daemon copied it.
EntriesNotManual ==
    \A e \in Endpoints : connections[e] # NoConn =>
        /\ ~conn[connections[e]].manual
        /\ conn[connections[e]].endpoint = e

\* An endpoint with an entry is eventually connected, whatever its listeners
\* have run into, as long as the entry stays and the master answers.
Reconnects ==
    \A e \in Endpoints :
        (connections[e] # NoConn /\ phase = "running")
            ~> (connections[e] = NoConn \/ conn[connections[e]].connected
                \/ phase # "running")

\* An endpoint shown OFFLINE that has an entry does not stay so: a shutdown
\* event handled late, after the daemon has reconnected, is undone by another
\* reconnection.
OfflineIsResolved ==
    \A e \in Endpoints :
        (row[e].status = "OFFLINE" /\ connections[e] # NoConn
            /\ phase = "running")
            ~> (row[e].status # "OFFLINE" \/ connections[e] = NoConn
                \/ phase # "running")

\* The daemon reconnects what is connected to an entry and never adds one:
\* DisconnectEndpoint sets the manual flag "to stop automatic reconnection".
DaemonAddsNoEntry ==
    [][daemon' # daemon =>
        \A e \in Endpoints : connections[e] = NoConn =>
                             connections'[e] = NoConn]_vars
=============================================================================
