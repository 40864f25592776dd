---------------------------- MODULE WebSocketHub ----------------------------
(***************************************************************************)
(* The WebSocket hub and the monitor workers that feed it                  *)
(* (internal/websocket/hub.go and service.go).                             *)
(*                                                                         *)
(* A topic is an endpoint id ("system" clients) or an instance id          *)
(* ("tunnel" clients); the code has each function twice, once per kind.    *)
(* Hub.Run is one goroutine that serves four channels in any order.  A     *)
(* client has the goroutine of the HTTP handler, then the two pumps.       *)
(*                                                                         *)
(* Abstracted: a message is only counted, and the queue of a client is the *)
(* number of messages in it; a write fails or not, for whatever reason.    *)
(* A query of the monitored master ends at any time.  Bounds: QueueSize is *)
(* the capacity of the hub's channels and SendSize of Client.Send (256     *)
(* each in the code).  The queries of a cancelled worker and of the next   *)
(* one for its topic are taken as one.                                     *)
(***************************************************************************)
EXTENDS Naturals, Sequences, FiniteSets

CONSTANTS
    SystemTopics, \* endpoint ids
    TunnelTopics, \* instance ids
    Clients,
    QueueSize,
    SendSize

ASSUME SizesAssumption == QueueSize \in Nat \ {0} /\ SendSize \in Nat \ {0}
ASSUME TopicsAssumption == SystemTopics \cap TunnelTopics = {}

Topics == SystemTopics \cup TunnelTopics
Kinds == {"system", "tunnel"}
Kind(t) == IF t \in SystemTopics THEN "system" ELSE "tunnel"
TopicsOf(k) == {t \in Topics : Kind(t) = k}

VARIABLES
    members,    \* Hub.systemClients and Hub.tunnelClients
    register,   \* the channel of new clients
    unregister, \* the channel of clients to drop
    broadcast,  \* the two channels of broadcasts
    hub,        \* Hub.Run
    done,       \* Service.Stop has run
    client,     \* the clients
    monitors,   \* topics with an entry in the maps of monitor workers
    queries,    \* topics a monitor worker is querying the master about
    checker     \* runMonitorChecker

channels == <<register, unregister, broadcast>>
service == <<monitors, queries, checker>>
vars == <<members, register, unregister, broadcast, hub, done, client,
          monitors, queries, checker>>

\* handler: where the goroutine that reads the client is; open: the connection
\* works; queued: messages in Client.Send; sendOpen: Send has not been closed.
ClientState ==
    [topic : Topics,
     handler : {"none", "register", "ensure", "reading", "unregister", "gone"},
     writing : BOOLEAN, open : BOOLEAN, queued : 0..SendSize, sendOpen : BOOLEAN]

HubState == [pc : {"select", "broadcasting", "stopped"}, todo : SUBSET Clients]

CheckerState == [pc : {"idle", "update"}, kind : Kinds, connected : SUBSET Topics]

TypeOK ==
    /\ members \in [Topics -> SUBSET Clients]
    /\ register \in Seq(Clients) /\ Len(register) <= QueueSize
    /\ unregister \in Seq(Clients) /\ Len(unregister) <= QueueSize
    /\ broadcast \in [Kinds -> Seq(Topics)]
    /\ \A k \in Kinds : Len(broadcast[k]) <= QueueSize
    /\ hub \in HubState
    /\ done \in BOOLEAN
    /\ client \in [Clients -> ClientState]
    /\ monitors \subseteq Topics
    /\ queries \subseteq Topics
    /\ checker \in CheckerState

Init ==
    /\ members = [t \in Topics |-> {}]
    /\ register = <<>> /\ unregister = <<>>
    /\ broadcast = [k \in Kinds |-> <<>>]
    /\ hub = [pc |-> "select", todo |-> {}]
    /\ done = FALSE
    /\ client \in [Clients ->
            {[topic |-> t, handler |-> "none", writing |-> FALSE, open |-> TRUE,
              queued |-> 0, sendOpen |-> TRUE] : t \in Topics}]
    /\ monitors = {} /\ queries = {}
    /\ checker = [pc |-> "idle", kind |-> "system", connected |-> {}]

-----------------------------------------------------------------------------
(* HandleWebSocketConnection and HandleTunnelWebSocketConnection           *)

Handler(c, l) == client' = [client EXCEPT ![c].handler = l]

\* The upgraded connection gets a client.
Connect(c) ==
    /\ client[c].handler = "none"
    /\ Handler(c, "register")
    /\ UNCHANGED <<members, channels, hub, done, service>>

\* hub.register <- client, which waits while the channel is full.
HandlerRegister(c) ==
    /\ client[c].handler = "register"
    /\ Len(register) < QueueSize
    /\ register' = Append(register, c)
    /\ Handler(c, "ensure")
    /\ UNCHANGED <<members, unregister, broadcast, hub, done, service>>

\* ensureEndpointMonitor, ensureInstanceMonitor and the start of both pumps.  A
\* new monitor worker queries at once, also one whose context Stop cancelled.
HandlerEnsure(c) ==
    /\ client[c].handler = "ensure"
    /\ LET t == client[c].topic
       IN  /\ monitors' = monitors \cup {t}
           /\ queries' = IF t \in monitors THEN queries ELSE queries \cup {t}
    /\ client' = [client EXCEPT ![c].handler = "reading", ![c].writing = TRUE]
    /\ UNCHANGED <<members, channels, hub, done, checker>>

-----------------------------------------------------------------------------
(* ReadPump and WritePump                                                  *)

\* The peer goes away or misses its pongs.
ConnectionLost(c) ==
    /\ client[c].handler = "reading" /\ client[c].open
    /\ client' = [client EXCEPT ![c].open = FALSE]
    /\ UNCHANGED <<members, channels, hub, done, service>>

\* ReadMessage fails and the deferred function runs.
ReadFails(c) ==
    /\ client[c].handler = "reading" /\ ~client[c].open
    /\ Handler(c, "unregister")
    /\ UNCHANGED <<members, channels, hub, done, service>>

\* hub.unregister <- c, which waits while the channel is full, then Close.
ReadUnregister(c) ==
    /\ client[c].handler = "unregister"
    /\ Len(unregister) < QueueSize
    /\ unregister' = Append(unregister, c)
    /\ client' = [client EXCEPT ![c].handler = "gone", ![c].open = FALSE]
    /\ UNCHANGED <<members, register, broadcast, hub, done, service>>

\* A message and all that wait behind it are written.
WriteMessages(c) ==
    /\ client[c].writing /\ client[c].open
    /\ client[c].queued > 0
    /\ client' = [client EXCEPT ![c].queued = 0]
    /\ UNCHANGED <<members, channels, hub, done, service>>

\* Send is closed and empty, or a write or a ping fails; Conn.Close() runs.
WriteEnds(c) ==
    /\ client[c].writing
    /\ ~client[c].open \/ (~client[c].sendOpen /\ client[c].queued = 0)
    /\ client' = [client EXCEPT ![c].writing = FALSE, ![c].open = FALSE]
    /\ UNCHANGED <<members, channels, hub, done, service>>

-----------------------------------------------------------------------------
(* Hub.Run                                                                 *)

HubRegister ==
    /\ hub.pc = "select" /\ register # <<>>
    /\ register' = Tail(register)
    /\ members' = [members EXCEPT ![client[Head(register)].topic] =
                                      @ \cup {Head(register)}]
    /\ UNCHANGED <<unregister, broadcast, hub, done, client, service>>

\* Mutant: the client's Send is closed whether or not the client is registered.
HubUnregisterUnchecked ==
    /\ hub.pc = "select" /\ unregister # <<>>
    /\ unregister' = Tail(unregister)
    /\ LET c == Head(unregister)
       IN  /\ members' = [members EXCEPT ![client[c].topic] = @ \ {c}]
           /\ client' = [client EXCEPT ![c].sendOpen = FALSE]
    /\ UNCHANGED <<register, broadcast, hub, done, service>>

\* Mutant: the client is dropped from the map but its Send stays open.
HubUnregisterSilently ==
    /\ hub.pc = "select" /\ unregister # <<>>
    /\ unregister' = Tail(unregister)
    /\ LET c == Head(unregister)
       IN  members' = [members EXCEPT ![client[c].topic] = @ \ {c}]
    /\ UNCHANGED <<register, broadcast, hub, done, client, service>>

\* unregisterClient: only a registered client is dropped and its Send closed.
HubUnregister ==
    /\ hub.pc = "select" /\ unregister # <<>>
    /\ unregister' = Tail(unregister)
    /\ LET c == Head(unregister)
       IN  IF c \in members[client[c].topic]
           THEN /\ members' = [members EXCEPT ![client[c].topic] = @ \ {c}]
                /\ client' = [client EXCEPT ![c].sendOpen = FALSE]
           ELSE UNCHANGED <<members, client>>
    /\ UNCHANGED <<register, broadcast, hub, done, service>>

\* broadcastToEndpoint and broadcastToInstance, up to the loop.
HubBroadcast(k) ==
    /\ hub.pc = "select" /\ broadcast[k] # <<>>
    /\ broadcast' = [broadcast EXCEPT ![k] = Tail(@)]
    /\ hub' = [pc |-> "broadcasting", todo |-> members[Head(broadcast[k])]]
    /\ UNCHANGED <<members, register, unregister, done, client, service>>

\* The loop of the broadcast.  A client whose queue is full is put into the
\* channel that only this goroutine reads; the send waits while that is full.
HubSend ==
    /\ hub.pc = "broadcasting"
    /\ IF hub.todo = {}
       THEN /\ hub' = [hub EXCEPT !.pc = "select"]
            /\ UNCHANGED <<unregister, client>>
       ELSE \E c \in hub.todo :
            /\ hub' = [hub EXCEPT !.todo = @ \ {c}]
            /\ \/ /\ client[c].queued < SendSize
                  /\ client' = [client EXCEPT ![c].queued = @ + 1]
                  /\ UNCHANGED unregister
               \/ /\ client[c].queued = SendSize
                  /\ Len(unregister) < QueueSize
                  /\ unregister' = Append(unregister, c)
                  /\ UNCHANGED client
    /\ UNCHANGED <<members, register, broadcast, done, service>>

HubStops ==
    /\ hub.pc = "select" /\ done
    /\ hub' = [hub EXCEPT !.pc = "stopped"]
    /\ UNCHANGED <<members, channels, done, client, service>>

-----------------------------------------------------------------------------
(* The monitor workers and runMonitorChecker                               *)

\* The ticker of a monitor worker.
QueryStart(t) ==
    /\ t \in monitors /\ ~done
    /\ t \notin queries
    /\ queries' = queries \cup {t}
    /\ UNCHANGED <<members, channels, hub, done, client, monitors, checker>>

\* Mutant: the broadcast is not dropped when the channel is full.
QueryEndsAlways(t) ==
    /\ t \in queries
    /\ queries' = queries \ {t}
    /\ broadcast' = [broadcast EXCEPT ![Kind(t)] = Append(@, t)]
    /\ UNCHANGED <<members, register, unregister, hub, done, client, monitors,
                   checker>>

\* The answer is broadcast, or dropped when the channel is full; the worker may
\* have been cancelled meanwhile.
QueryEnds(t) ==
    /\ t \in queries
    /\ queries' = queries \ {t}
    /\ broadcast' = IF Len(broadcast[Kind(t)]) < QueueSize
                    THEN [broadcast EXCEPT ![Kind(t)] = Append(@, t)]
                    ELSE broadcast
    /\ UNCHANGED <<members, register, unregister, hub, done, client, monitors,
                   checker>>

\* GetConnectedEndpoints or GetConnectedInstances, under the mutex of the hub.
\* A tick of the checker is stopped by the context, its second half is not.
CheckConnected ==
    /\ checker.pc = "idle"
    /\ checker.kind = "system" => ~done
    /\ checker' = [checker EXCEPT !.pc = "update",
                   !.connected = {t \in TopicsOf(checker.kind) : members[t] # {}}]
    /\ UNCHANGED <<members, channels, hub, done, client, monitors, queries>>

NextCheck ==
    [pc |-> "idle", kind |-> CHOOSE k \in Kinds : k # checker.kind, connected |-> {}]

\* Mutant: workers without clients are not stopped.
CheckUpdateStartsOnly ==
    /\ checker.pc = "update"
    /\ monitors' = monitors \cup checker.connected
    /\ queries' = queries \cup (checker.connected \ monitors)
    /\ checker' = NextCheck
    /\ UNCHANGED <<members, channels, hub, done, client>>

\* Workers are started and stopped after that list, under the mutex of the
\* service: by now clients may have come or gone.
CheckUpdate ==
    /\ checker.pc = "update"
    /\ monitors' = (monitors \ TopicsOf(checker.kind)) \cup checker.connected
    /\ queries' = queries \cup (checker.connected \ monitors)
    /\ checker' = NextCheck
    /\ UNCHANGED <<members, channels, hub, done, client>>

\* Service.Stop: all workers are cancelled and the hub is told to stop.
Stop ==
    /\ ~done
    /\ done' = TRUE
    /\ monitors' = {}
    /\ UNCHANGED <<members, channels, hub, client, queries, checker>>

-----------------------------------------------------------------------------
Handle(c) == HandlerRegister(c) \/ HandlerEnsure(c)
Read(c) == ReadFails(c) \/ ReadUnregister(c)
Pump(c) == ConnectionLost(c) \/ Read(c) \/ WriteMessages(c) \/ WriteEnds(c)
Run == HubRegister \/ HubUnregister \/ (\E k \in Kinds : HubBroadcast(k))
       \/ HubSend \/ HubStops
Check == CheckConnected \/ CheckUpdate

Next ==
    \/ \E c \in Clients : Connect(c) \/ Handle(c) \/ Pump(c)
    \/ Run \/ Check \/ Stop
    \/ \E t \in Topics : QueryStart(t) \/ QueryEnds(t)

Spec == Init /\ [][Next]_vars

(***************************************************************************)
(* Fairness.  The goroutines of handlers, pumps and checker run when they  *)
(* can, the checker ticks, and masters answer or time out.  The hub is not *)
(* assumed to run: what is promised below holds even while it waits.       *)
(***************************************************************************)
Fairness ==
    /\ \A c \in Clients : WF_vars(Handle(c)) /\ WF_vars(Read(c)) /\ WF_vars(WriteEnds(c))
    /\ WF_vars(Check)
    /\ \A t \in Topics : WF_vars(QueryStart(t)) /\ WF_vars(QueryEnds(t))

FairSpec == Spec /\ Fairness

-----------------------------------------------------------------------------
(* What the hub and the service promise                                    *)

\* A registered client has an open Send, so Run never sends on a closed channel
\* and never closes one twice, although a client may be in the channel of
\* clients to drop several times, or before it is taken from the other one.
MembersOpen == \A t \in Topics : \A c \in members[t] : client[c].sendOpen

\* A client that is being read is not forgotten: it waits to be registered, is
\* registered, or was told to close.
NotForgotten ==
    \A c \in Clients : client[c].handler \in {"ensure", "reading"} =>
        \/ \E k \in DOMAIN register : register[k] = c
        \/ c \in members[client[c].topic]
        \/ ~client[c].sendOpen

\* Workers follow the clients although the checker acts on an old list: a topic
\* that keeps a client gets a worker that stays, and one that nobody connects to
\* any more loses it.
MonitorsFollow ==
    \A t \in Topics :
        /\ <>[](members[t] # {} /\ ~done) => <>[](t \in monitors)
        /\ <>[](members[t] = {} /\ ~done) =>
                <>[](t \notin monitors \/ done)
=============================================================================
