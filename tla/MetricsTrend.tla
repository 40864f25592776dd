---------------------------- MODULE MetricsTrend ----------------------------
(***************************************************************************)
(* useMetricsTrend: the hook that keeps the charts of a tunnel up to date  *)
(* by polling (lib/hooks/use-metrics-trend.ts).                            *)
(*                                                                         *)
(* A rendering with the four effects it triggers is one step; the effects  *)
(* are applied in their order.  Each request aborts the one before: its    *)
(* rejection follows at once and is part of the step.  Answers and the     *)
(* interval come at any time.  isAutoRefreshEnabled is true exactly while  *)
(* intervalRef is set, so only the latter is kept; no page shows the       *)
(* switch that toggles it.                                                 *)
(*                                                                         *)
(* Abstracted: the measurements; of an answer only whose they are.         *)
(***************************************************************************)
CONSTANTS Ids, NoId, NoTimer, NoData

ASSUME TrendNilAssumption ==
    /\ NoId \notin Ids
    /\ NoTimer \notin Ids \cup {NoId}
    /\ NoData \notin [id : Ids, overtaken : BOOLEAN]

VARIABLES
    tunnelId,  \* the parameter of the hook, NoId for ""
    interval,  \* the id the interval's closure asks for; NoTimer without one
    requests,  \* the requests that were not aborted
    data,      \* whose measurements are shown, and whether a later request had
               \* been made when they arrived
    fetching,  \* loading
    failed     \* error is not null

trend == <<tunnelId, interval, requests, data, fetching, failed>>

Request == [id : Ids, loud : BOOLEAN, overtaken : BOOLEAN]

TrendTypeOK ==
    /\ tunnelId \in Ids \cup {NoId}
    /\ interval \in Ids \cup {NoId, NoTimer}
    /\ requests \subseteq Request
    /\ data \in [id : Ids, overtaken : BOOLEAN] \cup {NoData}
    /\ fetching \in BOOLEAN /\ failed \in BOOLEAN

\* The newest request: abortControllerRef.current is its controller.
Newest == {r \in requests : ~r.overtaken}

-----------------------------------------------------------------------------
(* fetchTrendData                                                          *)

\* Mutant: a request does not abort the one before.
SendBeside(i, loud) ==
    /\ requests' = {[r EXCEPT !.overtaken = TRUE] : r \in requests}
                     \cup {[id |-> i, loud |-> loud, overtaken |-> FALSE]}
    /\ fetching' = (fetching \/ loud)
    /\ failed' = FALSE

\* The finally of an aborted request that showed the spinner takes the spinner
\* from the new one.
Send(i, loud) ==
    /\ requests' = (requests \ Newest)
                     \cup {[id |-> i, loud |-> loud, overtaken |-> FALSE]}
    /\ fetching' = IF \E r \in Newest : r.loud THEN FALSE ELSE fetching \/ loud
    /\ failed' = FALSE

Fetch(i, loud) ==
    IF i # NoId THEN Send(i, loud)
    ELSE fetching' = FALSE /\ failed' = TRUE /\ UNCHANGED requests

Answered(r) ==
    /\ \/ /\ data' = [id |-> r.id, overtaken |-> r.overtaken]
          /\ UNCHANGED failed
       \/ /\ failed' = TRUE
          /\ UNCHANGED data
    /\ requests' = requests \ {r}
    /\ fetching' = (fetching /\ ~r.loud)
    /\ UNCHANGED <<tunnelId, interval>>

-----------------------------------------------------------------------------
(* Effects                                                                 *)

\* The third and fourth effect: the timer is stopped and, for a tunnel, started.
\* Without a tunnel the fourth, which still sees isAutoRefreshEnabled, starts it
\* again if it ran.
RestartTimer(i) ==
    interval' = IF i = NoId /\ interval = NoTimer THEN NoTimer ELSE i

\* What the page gives the hook.
Follow(i) ==
    IF i = tunnelId THEN UNCHANGED trend
    ELSE /\ tunnelId' = i
         /\ RestartTimer(i)
         /\ IF i # NoId THEN Fetch(i, TRUE) /\ UNCHANGED data
            ELSE /\ data' = NoData /\ failed' = FALSE /\ fetching' = FALSE
                 /\ UNCHANGED requests

TrendStart ==
    /\ tunnelId = NoId /\ interval = NoTimer /\ requests = {}
    /\ data = NoData /\ fetching = FALSE /\ failed = FALSE

\* The page is gone: timer and request with it.
TrendEnds ==
    /\ tunnelId' = NoId /\ interval' = NoTimer /\ requests' = {}
    /\ data' = NoData /\ fetching' = FALSE /\ failed' = FALSE

Poll ==
    /\ interval # NoTimer
    /\ Fetch(interval, FALSE)
    /\ UNCHANGED <<tunnelId, interval, data>>

\* A button, or a page that refreshes.
RefreshTrend ==
    /\ Fetch(tunnelId, TRUE)
    /\ UNCHANGED <<tunnelId, interval, data>>

TrendAnswered == \E r \in requests : Answered(r)

\* The hook in a page that gives it any ids.
TrendNext ==
    \/ \E i \in Ids \cup {NoId} : Follow(i)
    \/ Poll \/ RefreshTrend \/ TrendAnswered
    \/ TrendEnds

TrendSpec == TrendStart /\ [][TrendNext]_trend

-----------------------------------------------------------------------------
(* Properties                                                              *)

\* The charts never go back: whatever the order of the answers, nothing is shown
\* that had been asked for before the latest request (abortControllerRef).
NotOvertaken == data # NoData => ~data.overtaken

\* The interval asks for the tunnel of the page and never goes on with the one
\* before, although its closure keeps the id it was created with.
TimerFollows == interval # NoTimer => interval = tunnelId

\* Both: see above.
ChartsFollow == NotOvertaken /\ TimerFollows
=============================================================================
