------------------------------ MODULE Dashboard -----------------------------
(***************************************************************************)
(* The dashboard (pages/dashboard): what it shows is asked for one request *)
(* after another, and again when the language changes, while the round     *)
(* before goes on; the log of operations can be cleared meanwhile.         *)
(*                                                                         *)
(* A step is the answer to one request with the one that follows.  Each    *)
(* request hides its error.  Abstracted: the data, except whether the log  *)
(* is empty.  Bound: MaxRounds rounds under way.  The clock and the check  *)
(* for a new version are left out.                                         *)
(***************************************************************************)
EXTENDS Naturals

CONSTANTS MaxRounds

VARIABLES route, page, late

\* In this order.
Requests == <<"stats", "endpoints", "traffic", "weekly", "logs">>

\* rounds: the request of each round under way, 0 for none; logs: there are
\* entries; clearing: clearingLogs.
DashboardState ==
    [loading : BOOLEAN, rounds : [1..MaxRounds -> 0..5], logs : BOOLEAN, clearing : BOOLEAN]

Here == route = "dashboard"

DashboardTypeOK == Here => page \in DashboardState

DashboardShown ==
    [loading |-> TRUE, rounds |-> [k \in 1..MaxRounds |-> IF k = 1 THEN 1 ELSE 0],
     logs |-> FALSE, clearing |-> FALSE]

Render(p) == page' = p /\ UNCHANGED <<route, late>>

\* The effect depends on the translation.
ChangeLanguage ==
    /\ Here
    /\ \E k \in 1..MaxRounds :
          /\ page.rounds[k] = 0
          /\ Render([page EXCEPT !.rounds[k] = 1, !.loading = TRUE])

RoundGoesOn(k) ==
    /\ Here /\ page.rounds[k] > 0
    /\ IF Requests[page.rounds[k]] # "logs" THEN Render([page EXCEPT !.rounds[k] = @ + 1])
       ELSE \E logs \in {page.logs, TRUE, FALSE} :
               Render([page EXCEPT !.rounds[k] = 0, !.loading = FALSE, !.logs = logs])

\* confirmClearLogs, of a dialog whose button is dead meanwhile.
ConfirmClearLogs ==
    /\ Here /\ page.logs /\ ~page.clearing
    /\ Render([page EXCEPT !.clearing = TRUE])

ClearAnswered ==
    /\ Here /\ page.clearing
    /\ \E logs \in {page.logs, FALSE} :
          Render([page EXCEPT !.clearing = FALSE, !.logs = logs])

DashboardNext ==
    \/ ChangeLanguage \/ (\E k \in 1..MaxRounds : RoundGoesOn(k))
    \/ ConfirmClearLogs \/ ClearAnswered

-----------------------------------------------------------------------------
\* The dashboard loads only as long as a round is under way that will end it.
DashboardBusyMeansPending ==
    Here /\ page.loading => \E k \in 1..MaxRounds : page.rounds[k] > 0
=============================================================================
