------------------------------ MODULE TcpingTest ----------------------------
(***************************************************************************)
(* The tcping dialog of a tunnel (tunnels/tcping-test-modal).  For a       *)
(* single target the test starts by itself whenever the dialog is open     *)
(* without a result and without a request, so that one that fails is       *)
(* repeated at once, for as long as the dialog is open.                    *)
(*                                                                         *)
(* Abstracted: the targets, except whether there are several.  Bound:      *)
(* MaxPings requests under way.                                            *)
(***************************************************************************)
EXTENDS Naturals

CONSTANTS MaxPings

VARIABLE
    ping  \* single: there is one target; chosen: an address is selected; timer:
          \* the effect's timer runs; asked: requests under way

Ping ==
    [open : BOOLEAN, single : BOOLEAN, chosen : BOOLEAN, timer : BOOLEAN,
     loading : BOOLEAN, result : BOOLEAN, asked : 0..MaxPings]

PingTypeOK == ping \in Ping

Closed ==
    [open |-> FALSE, single |-> FALSE, chosen |-> FALSE, timer |-> FALSE,
     loading |-> FALSE, result |-> FALSE, asked |-> 0]

AtRest == ping = Closed

\* A rendering: the effect has its timer run exactly while there is one target and
\* the dialog is open with neither a request nor a result.
Render(p) ==
    LET idle == p.open /\ ~p.loading /\ ~p.result
    IN  ping' = [p EXCEPT !.timer = idle /\ p.single, !.chosen = @ \/ idle]

OpenPing ==
    /\ ~ping.open
    /\ \E single \in BOOLEAN : Render([ping EXCEPT !.open = TRUE, !.single = single])

\* performTcpingTest
Performs ==
    /\ ping.asked < MaxPings
    /\ Render([ping EXCEPT !.loading = TRUE, !.result = FALSE, !.asked = @ + 1])

PingTimerFires == ping.timer /\ Performs

\* The button, and the one of a result.
PressPing == ping.open /\ ~ping.loading /\ ping.chosen /\ Performs

\* Also of a dialog that has been closed, which shows it when it opens again.
PingAnswered ==
    /\ ping.asked > 0
    /\ \E result \in {ping.result, TRUE} :
          Render([ping EXCEPT !.asked = @ - 1, !.loading = FALSE, !.result = result])

\* handleClose
ClosePing == ping.open /\ Render([Closed EXCEPT !.asked = ping.asked])

PingNext == PingTimerFires \/ PressPing \/ PingAnswered \/ ClosePing

-----------------------------------------------------------------------------
\* The dialog tests as long as a request is under way, also when it was closed and
\* opened again meanwhile.
PingBusyMeansPending == ping.loading => ping.asked > 0
=============================================================================
