---------------------------- MODULE TunnelDetails ---------------------------
(***************************************************************************)
(* The page of one tunnel (pages/tunnels/details) with its log viewer      *)
(* (ui/file-log-viewer), its event stream (useTunnelSSE), its actions      *)
(* (useTunnelActions) and its charts (MetricsTrend).                       *)
(*                                                                         *)
(* A step is the handler of one event with the rendering and the effects   *)
(* that follow.  While the page loads or refreshes, only a spinner is      *)
(* shown: the log viewer is gone and comes back empty, what it had asked   *)
(* for is lost, while the hooks of the page go on.                         *)
(*                                                                         *)
(* Abstracted: of a tunnel its status; of the log whether the viewer shows *)
(* nothing, lines of a file or live lines.  Bounds: MaxPending requests of *)
(* the page under way; requests of the viewer beyond MaxFiles are not told *)
(* apart.  Renaming and the dialogs' own requests are left out.            *)
(***************************************************************************)
EXTENDS MetricsTrend, Naturals

CONSTANTS MaxPending, MaxFiles

VARIABLES
    route, \* the page that is shown
    page,  \* its state
    late   \* pages that something left behind may still navigate to

\* "start" is a restart, too.
Ops == {"details", "refresh", "export", "reset", "policy", "start", "stop", "delete",
        "clear"}

\* loading, refreshing, exporting, resetting and policing are the flags of
\* buttons and spinners; triggered: logRefreshTrigger > 0; files: how many
\* requests of the viewer are under way; stream: the EventSource lives.
TunnelPage ==
    [id : Ids, info : {"none", "success", "danger"}, pending : [Ops -> 0..MaxPending],
     loading : BOOLEAN, refreshing : BOOLEAN, exporting : BOOLEAN,
     resetting : BOOLEAN, policing : BOOLEAN, realtime : BOOLEAN, stream : BOOLEAN,
     triggered : BOOLEAN, files : 0..MaxFiles, lines : {"none", "file", "live"}]

Here == route = "tunnel"

DetailsTypeOK == Here => page \in TunnelPage

\* The page as it appears: its effect has asked for the tunnel.
TunnelShown(i) ==
    [id |-> i, info |-> "none", pending |-> [op \in Ops |-> IF op = "details" THEN 1 ELSE 0],
     loading |-> TRUE, refreshing |-> FALSE, exporting |-> FALSE, resetting |-> FALSE,
     policing |-> FALSE, realtime |-> FALSE, stream |-> FALSE, triggered |-> FALSE,
     files |-> 0, lines |-> "none"]

\* What may follow although the page is left: the navigation after a deletion.
TunnelLeaves == IF page.pending["delete"] > 0 THEN {"tunnels"} ELSE {}

Visible(p) == ~p.loading /\ ~p.refreshing /\ p.info # "none"

UnderWay ==
    LET n == page.pending
    IN  n["details"] + n["refresh"] + n["export"] + n["reset"] + n["policy"]
          + n["start"] + n["stop"] + n["delete"] + n["clear"]

Atmost(n) == IF n > MaxFiles THEN MaxFiles ELSE n

\* The state of the viewer follows the page: it goes with everything it had, and
\* comes asking for the file, twice if it was ever refreshed.
Viewer(new) ==
    IF ~Visible(new) THEN [new EXCEPT !.files = 0, !.lines = "none", !.pending["clear"] = 0]
    ELSE IF Visible(page) THEN new
    ELSE [new EXCEPT !.files = Atmost(IF new.triggered THEN 2 ELSE 1)]

\* A new state of the page.  The stream opens with the switch, once the tunnel is
\* known, and closes with it.
Render(new) ==
    page' = Viewer(IF new.realtime = page.realtime THEN new
                   ELSE [new EXCEPT !.stream = new.realtime])

-----------------------------------------------------------------------------
(* Buttons                                                                 *)

Enabled(op) ==
    CASE op = "export"  -> ~page.exporting /\ ~page.realtime
      [] op = "reset"   -> ~page.resetting
      [] op = "policy"  -> ~page.policing
      [] op = "clear"   -> ~page.realtime
      [] op = "stop"    -> page.info = "success"
      [] OTHER          -> TRUE

\* A press sends a request.  "details" is what follows when a dialog has saved.
Press(op) ==
    /\ Here /\ Visible(page) /\ Enabled(op) /\ UnderWay < MaxPending
    /\ Render([page EXCEPT !.pending[op] = @ + 1,
               !.loading = @ \/ op \in {"details", "refresh"},
               !.refreshing = @ \/ op = "refresh",
               !.exporting = @ \/ op = "export",
               !.resetting = @ \/ op = "reset",
               !.policing = @ \/ op = "policy"])
    /\ UNCHANGED <<route, late, trend>>

-----------------------------------------------------------------------------
(* Answers                                                                 *)

Done(op) == [page EXCEPT !.pending[op] = @ - 1]

\* Mutant: the spinner stays when the request fails.
DetailsAnsweredThrows ==
    /\ Here /\ page.pending["details"] > 0
    /\ \/ \E status \in {"success", "danger"} :
             Render([Done("details") EXCEPT !.loading = FALSE, !.info = status])
          /\ Follow(page.id)
       \/ Render(Done("details")) /\ UNCHANGED trend
    /\ UNCHANGED <<route, late>>

\* fetchTunnelDetails: the charts follow the tunnel it finds.
DetailsAnswered ==
    /\ Here /\ page.pending["details"] > 0
    /\ LET ended == [Done("details") EXCEPT !.loading = FALSE]
       IN  \/ \E status \in {"success", "danger"} :
                 Render([ended EXCEPT !.info = status])
              /\ Follow(page.id)
           \/ Render(ended) /\ UNCHANGED trend
    /\ UNCHANGED <<route, late>>

\* handleRefresh goes on after fetchTunnelDetails, which hides its errors.
RefreshAnswered ==
    /\ Here /\ page.pending["refresh"] > 0
    /\ \E status \in {"success", "danger", page.info} :
          Render([Done("refresh") EXCEPT !.loading = FALSE, !.refreshing = FALSE,
                  !.triggered = TRUE, !.info = status])
    /\ RefreshTrend
    /\ UNCHANGED <<route, late>>

\* The answer of an action writes the status the action wished for, or nothing.
StatusAnswered(op, status) ==
    /\ Here /\ page.pending[op] > 0
    /\ \/ Render([Done(op) EXCEPT !.info = IF @ = "none" THEN @ ELSE status])
       \/ Render(Done(op))
    /\ UNCHANGED <<route, late, trend>>

\* The navigation follows half a second after the answer.
DeleteAnswered ==
    /\ Here /\ page.pending["delete"] > 0
    /\ Render(Done("delete"))
    /\ late' \in {late, late \cup {"tunnels"}}
    /\ UNCHANGED <<route, trend>>

ExportAnswered ==
    /\ Here /\ page.pending["export"] > 0
    /\ Render([Done("export") EXCEPT !.exporting = FALSE])
    /\ UNCHANGED <<route, late, trend>>

PolicyAnswered ==
    /\ Here /\ page.pending["policy"] > 0
    /\ Render([Done("policy") EXCEPT !.policing = FALSE])
    /\ UNCHANGED <<route, late, trend>>

\* A reset that succeeded asks for the tunnel again.
ResetAnswered ==
    /\ Here /\ page.pending["reset"] > 0
    /\ LET ended == [Done("reset") EXCEPT !.resetting = FALSE]
       IN  \/ Render([ended EXCEPT !.loading = TRUE, !.pending["details"] = @ + 1])
           \/ Render(ended)
    /\ UNCHANGED <<route, late, trend>>

-----------------------------------------------------------------------------
(* The log                                                                 *)

\* handleLogRefresh and handleLogDateChange.
AskForFile ==
    /\ Here /\ Visible(page) /\ ~page.realtime /\ page.files < MaxFiles
    /\ Render([page EXCEPT !.triggered = TRUE, !.files = @ + 1])
    /\ UNCHANGED <<route, late, trend>>

\* fetchFileLogs, also in realtime mode if it was asked for before.
FileAnswered ==
    /\ Here /\ page.files > 0
    /\ \E lines \in {"none", "file"} :
          Render([page EXCEPT !.files = @ - 1, !.lines = lines])
    /\ UNCHANGED <<route, late, trend>>

ClearAnswered ==
    /\ Here /\ page.pending["clear"] > 0
    /\ \/ Render([Done("clear") EXCEPT !.lines = "none"])
       \/ Render(Done("clear"))
    /\ UNCHANGED <<route, late, trend>>

ClearDisplay ==
    /\ Here /\ Visible(page) /\ page.realtime /\ page.lines # "none"
    /\ Render([page EXCEPT !.lines = "none"])
    /\ UNCHANGED <<route, late, trend>>

RealtimeOn ==
    /\ Here /\ Visible(page) /\ ~page.realtime
    /\ Render([page EXCEPT !.realtime = TRUE, !.lines = "none"])
    /\ UNCHANGED <<route, late, trend>>

\* Mutant: the file is asked for only if the date changes.
RealtimeOffQuietly ==
    /\ Here /\ Visible(page) /\ page.realtime
    /\ Render([page EXCEPT !.realtime = FALSE])
    /\ UNCHANGED <<route, late, trend>>

RealtimeOff ==
    /\ Here /\ Visible(page) /\ page.realtime
    /\ Render([page EXCEPT !.realtime = FALSE, !.triggered = TRUE, !.files = Atmost(@ + 1)])
    /\ UNCHANGED <<route, late, trend>>

\* An event of the stream.  Without a viewer a live line is lost.
LiveLine ==
    /\ Here /\ page.stream /\ Visible(page)
    /\ Render([page EXCEPT !.lines = "live"])
    /\ UNCHANGED <<route, late, trend>>

LiveStatus ==
    /\ Here /\ page.stream
    /\ \E status \in {"success", "danger"} : Render([page EXCEPT !.info = status])
    /\ UNCHANGED <<route, late, trend>>

StreamDies ==
    /\ Here /\ page.stream
    /\ page' = [page EXCEPT !.stream = FALSE]
    /\ UNCHANGED <<route, late, trend>>

-----------------------------------------------------------------------------
Charts ==
    /\ Here
    /\ Poll \/ TrendAnswered \/ (Visible(page) /\ ~fetching /\ RefreshTrend)
    /\ UNCHANGED <<route, page, late>>

Log ==
    \/ AskForFile \/ FileAnswered \/ ClearAnswered \/ ClearDisplay
    \/ RealtimeOn \/ RealtimeOff \/ LiveLine \/ LiveStatus \/ StreamDies

DetailsNext ==
    \/ \E op \in Ops : Press(op)
    \/ DetailsAnswered \/ RefreshAnswered \/ DeleteAnswered \/ ExportAnswered
    \/ PolicyAnswered \/ ResetAnswered
    \/ StatusAnswered("start", "success") \/ StatusAnswered("stop", "danger")
    \/ Log \/ Charts

-----------------------------------------------------------------------------
(* Properties                                                              *)

\* No spinner and no disabled button outlives its request: handlers whose requests
\* overlap, fail, and start one another's never leave the page hidden or a
\* button dead with nothing under way to end it.
BusyMeansPending ==
    Here =>
        /\ page.loading => page.pending["details"] + page.pending["refresh"] > 0
        /\ page.refreshing => page.pending["refresh"] > 0
        /\ page.exporting => page.pending["export"] > 0
        /\ page.resetting => page.pending["reset"] > 0
        /\ page.policing => page.pending["policy"] > 0

\* Live lines never pass for those of the file: back in history mode they are shown
\* only until an answer under way replaces them.
LiveLinesGo ==
    Here /\ page.lines = "live" /\ ~page.realtime => page.files > 0
=============================================================================
