------------------------------ MODULE EventPages ----------------------------
(***************************************************************************)
(* Two pages that show events as they come: those of an endpoint, by a     *)
(* connection the user opens and closes (pages/endpoints/sse-debug with    *)
(* useNodePassSSE), and the logs of a service's tunnels (pages/services/   *)
(* sse with two useTunnelSSE).                                             *)
(*                                                                         *)
(* A step is one event with the rendering and the effects that follow.  A  *)
(* source that was closed delivers nothing.                                *)
(*                                                                         *)
(* Abstracted: the messages, except those the hook reads; of a service     *)
(* whether its server's tunnel is listened to.                             *)
(***************************************************************************)
VARIABLES route, page, late

InEvents == route = "events"
InLogs == route = "logs"

\* known: the endpoint was loaded; source: eventSourceRef; lines: there are some.
EventsPage ==
    [loading : BOOLEAN, known : BOOLEAN, source : {"none", "opening", "open"},
     connected : BOOLEAN, connecting : BOOLEAN, failed : BOOLEAN, lines : BOOLEAN]

Sides == {"client", "server"}

\* service: which sides it has; streams: those with a source; lines: those with some.
LogsPage == [loading : BOOLEAN, service : SUBSET Sides, streams : SUBSET Sides,
             lines : SUBSET Sides]

EventsTypeOK == (InEvents => page \in EventsPage) /\ (InLogs => page \in LogsPage)

EventsShown ==
    [loading |-> TRUE, known |-> FALSE, source |-> "none", connected |-> FALSE,
     connecting |-> FALSE, failed |-> FALSE, lines |-> FALSE]

LogsShown == [loading |-> TRUE, service |-> {}, streams |-> {}, lines |-> {}]

Render(p) == page' = p /\ UNCHANGED <<route, late>>

-----------------------------------------------------------------------------
(* The events of an endpoint                                               *)

EndpointAnswered ==
    /\ InEvents /\ page.loading
    /\ \E known \in BOOLEAN : Render([page EXCEPT !.loading = FALSE, !.known = known])

\* connect of the hook: not while there is a source.
Connect ==
    /\ InEvents /\ page.known /\ ~page.connected /\ ~page.connecting /\ page.source = "none"
    /\ Render([page EXCEPT !.source = "opening", !.connecting = TRUE, !.failed = FALSE])

\* reconnect, a button beside the error, closes the source before.
Reconnect ==
    /\ InEvents /\ page.known /\ page.failed /\ ~page.connecting
    /\ Render([page EXCEPT !.source = "opening", !.connecting = TRUE, !.failed = FALSE])

Disconnect ==
    /\ InEvents /\ (page.connected \/ page.connecting)
    /\ Render([page EXCEPT !.source = "none", !.connected = FALSE, !.connecting = FALSE,
                           !.failed = FALSE])

Opened ==
    /\ InEvents /\ page.source = "opening"
    /\ Render([page EXCEPT !.source = "open", !.connected = TRUE, !.connecting = FALSE,
                           !.failed = FALSE])

\* A message of the type error leaves the source open: only a reconnection helps.
EventComes ==
    /\ InEvents /\ page.source = "open"
    /\ LET p == [page EXCEPT !.lines = TRUE]
       IN  \/ Render(p)
           \/ Render([p EXCEPT !.connected = TRUE, !.connecting = FALSE, !.failed = FALSE])
           \/ Render([p EXCEPT !.connected = FALSE, !.connecting = FALSE, !.failed = TRUE])

SourceFails ==
    /\ InEvents /\ page.source # "none"
    /\ Render([page EXCEPT !.source = "none", !.connected = FALSE, !.connecting = FALSE,
                           !.failed = TRUE])

ClearEvents == InEvents /\ Render([page EXCEPT !.lines = FALSE])

-----------------------------------------------------------------------------
(* The logs of a service                                                   *)

\* A service that is found has its streams opened by the rendering.
ServiceAnswered ==
    /\ InLogs /\ page.loading
    /\ \E sides \in {{"client"}, Sides} :
          Render([page EXCEPT !.loading = FALSE, !.service = sides, !.streams = sides])

\* One that is not takes the user to the list.
LogsQuit == InLogs /\ page.loading /\ UNCHANGED late

LogsLeaves == IF page.loading THEN {"services"} ELSE {}

LogComes ==
    /\ InLogs
    /\ \E side \in page.streams : Render([page EXCEPT !.lines = @ \cup {side}])

ClearLog ==
    /\ InLogs
    /\ \E side \in page.service : Render([page EXCEPT !.lines = @ \ {side}])

\* useTunnelSSE does not open a source again.
StreamDies ==
    /\ InLogs
    /\ \E side \in page.streams : Render([page EXCEPT !.streams = @ \ {side}])

EventsNext ==
    \/ EndpointAnswered \/ Connect \/ Reconnect \/ Disconnect
    \/ Opened \/ EventComes \/ SourceFails \/ ClearEvents
    \/ ServiceAnswered \/ LogComes \/ ClearLog \/ StreamDies

-----------------------------------------------------------------------------
\* The page says that it is connected, or is about to be, only with a source: one
\* that fails, or is replaced while it opens, leaves no sign behind.
EventsBusyMeansPending ==
    InEvents => /\ page.connected => page.source = "open"
                /\ page.connecting => page.source = "opening"
=============================================================================
